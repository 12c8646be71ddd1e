------------------------------ MODULE SwrCache ------------------------------
(***************************************************************************)
(* The stale-while-revalidate cache that app/services/dr_data.py (one per  *)
(* half), eos_data.py and capacity_data.py each implement.                 *)
(*                                                                         *)
(* A request thread returns what the cache holds, even when it is older    *)
(* than the TTL, and in that case starts one background refresh.  Only a   *)
(* request that finds the cache empty, or that forces a refresh, waits for *)
(* the refresh lock and, once it has it, either reuses what another thread *)
(* stored meanwhile or collects the external data itself.                  *)
(*                                                                         *)
(* Time.  The code compares the entry's `at` with two instants only: now - *)
(* TTL and the requested_at of a waiting thread.  The model keeps the two  *)
(* outcomes: `stale` (the entry's age has reached the TTL) and `newer[t]`  *)
(* (the entry was stored after t took its requested_at).                   *)
(***************************************************************************)
EXTENDS Naturals

CONSTANTS
    Threads,          \* request, scheduler and prewarm threads
    Bg,               \* the background refresh thread (at most one lives)
    Free,             \* nobody holds the refresh lock
    NoValue,          \* the cache is empty
    MaxIssues,        \* bound: changes of the external system
    MaxPokes,         \* bound: forced requests, target changes, invalidations
    CollectMayRaise,  \* EoS: the latch read can raise out of _refresh
    StartMayFail      \* the runtime can refuse to start a thread

Procs == Threads \cup {Bg}

\* What _collect_external returned: the state of the external system it saw
\* (ok) or the empty map with the error, and the target list it matched.
Value == [ok : BOOLEAN, issues : Nat, targets : Nat]

ASSUME ConstantsAssumption ==
    /\ Bg \notin Threads
    /\ Free \notin Procs
    /\ NoValue \notin Value
    /\ MaxIssues \in Nat
    /\ MaxPokes \in Nat
    /\ CollectMayRaise \in BOOLEAN
    /\ StartMayFail \in BOOLEAN

VARIABLES
    issues,   \* version of the external data (JIRA, Polestar)
    sheet,    \* version of the target list (Excel merged with the database)
    pending,  \* a handler changed the target list and has yet to invalidate
    pokes,    \* forced requests, target changes and invalidations so far
    cached,   \* _cache["value"], NoValue when empty
    stale,    \* time.time() - _cache["at"] >= CACHE_TTL_SEC
    lock,     \* holder of _refresh_lock
    pc,       \* where each thread is in get_eos_data / run
    local,    \* the local variables of each thread
    newer,    \* the waiting threads with requested_at <= _cache["at"]
    answer    \* the last value each request thread returned

worldVars == <<issues, sheet, pending>>
cacheVars == <<cached, stale>>
vars == <<worldVars, pokes, cacheVars, lock, pc, local, newer, answer>>

\* force: force_refresh; targets: the target list loaded before looking; val:
\* the value read from the cache or collected; begun: history, the version of
\* the external data when the request began.
Local == [force : BOOLEAN, targets : Nat, val : Value \cup {NoValue}, begun : Nat]

NoLocal == [force |-> FALSE, targets |-> 0, val |-> NoValue, begun |-> 0]

Holding == {"recheck", "collect", "store", "release", "lost"}
Outside == {"idle", "look", "kick", "ask", "wait"}

TypeOK ==
    /\ issues \in Nat
    /\ sheet \in Nat
    /\ pending \in BOOLEAN
    /\ pokes \in Nat
    /\ cached \in Value \cup {NoValue}
    /\ stale \in BOOLEAN
    /\ lock \in Procs \cup {Free}
    /\ pc \in [Procs -> Holding \cup Outside]
    /\ local \in [Procs -> Local]
    /\ newer \in SUBSET Threads
    /\ answer \in [Threads -> Value \cup {NoValue}]

Init ==
    /\ issues = 0
    /\ sheet = 0
    /\ pending = FALSE
    /\ pokes = 0
    /\ cached = NoValue
    /\ stale = FALSE
    /\ lock = Free
    /\ pc = [p \in Procs |-> "idle"]
    /\ local = [p \in Procs |-> NoLocal]
    /\ newer = {}
    /\ answer = [t \in Threads |-> NoValue]

Goto(p, from, to) ==
    /\ pc[p] = from
    /\ pc' = [pc EXCEPT ![p] = to]

Poke ==
    /\ pokes < MaxPokes
    /\ pokes' = pokes + 1

\* A thread returns v; its local variables are gone.
Return(t, from, v) ==
    /\ Goto(t, from, "idle")
    /\ local' = [local EXCEPT ![t] = NoLocal]
    /\ answer' = [answer EXCEPT ![t] = v]

-----------------------------------------------------------------------------
(***************************************************************************)
(* The world around the cache.                                             *)
(***************************************************************************)

\* Somebody edits a ticket, or a server changes in Polestar.
IssuesChange ==
    /\ issues < MaxIssues
    /\ issues' = issues + 1
    /\ UNCHANGED <<sheet, pending, pokes, cacheVars, lock, pc, local, newer, answer>>

\* The entry's age reaches CACHE_TTL_SEC.
Expire ==
    /\ cached # NoValue
    /\ ~stale
    /\ stale' = TRUE
    /\ UNCHANGED <<worldVars, pokes, cached, lock, pc, local, newer, answer>>

\* An admin excludes or restores a target; the handler commits this first ...
ChangeTargets ==
    /\ ~pending
    /\ Poke
    /\ sheet' = sheet + 1
    /\ pending' = TRUE
    /\ UNCHANGED <<issues, cacheVars, lock, pc, local, newer, answer>>

Empty ==
    /\ cached' = NoValue
    /\ stale' = FALSE

\* ... and then calls invalidate_cache.
InvalidateAfterChange ==
    /\ pending
    /\ pending' = FALSE
    /\ Empty
    /\ UNCHANGED <<issues, sheet, pokes, lock, pc, local, newer, answer>>

\* A manual report also empties the cache before it reads.
InvalidateForReport ==
    /\ Poke
    /\ Empty
    /\ UNCHANGED <<worldVars, lock, pc, local, newer, answer>>

-----------------------------------------------------------------------------
(***************************************************************************)
(* One request: get_eos_data, get_ticket_map, get_tickets.                 *)
(***************************************************************************)

\* The request loads the items, from which the targets are taken, before it
\* looks at the cache.
Begin(t, f) ==
    /\ Goto(t, "idle", "look")
    /\ IF f THEN Poke ELSE UNCHANGED pokes
    /\ local' = [local EXCEPT ![t] = [force |-> f, targets |-> sheet,
                                      val |-> NoValue, begun |-> issues]]
    /\ UNCHANGED <<worldVars, cacheVars, lock, newer, answer>>

Hit(t) == cached # NoValue /\ ~local[t].force

LookFresh(t) ==
    /\ Hit(t)
    /\ ~stale
    /\ Return(t, "look", cached)
    /\ UNCHANGED <<worldVars, pokes, cacheVars, lock, newer>>

LookStale(t) ==
    /\ Hit(t)
    /\ stale
    /\ Goto(t, "look", "kick")
    /\ local' = [local EXCEPT ![t].val = cached]
    /\ UNCHANGED <<worldVars, pokes, cacheVars, lock, newer, answer>>

LookMiss(t) ==
    /\ ~Hit(t)
    /\ Goto(t, "look", "ask")
    /\ UNCHANGED <<worldVars, pokes, cacheVars, lock, local, newer, answer>>

\* _refresh_in_background finds a refresh running and does nothing.
KickBusy(t) ==
    /\ lock # Free
    /\ Return(t, "kick", local[t].val)
    /\ UNCHANGED <<worldVars, pokes, cacheVars, lock, newer>>

\* Fault: the result of acquire(blocking=False) is ignored.
KickStartUnchecked(t) ==
    /\ pc[t] = "kick"
    /\ lock' = Bg
    /\ pc' = [pc EXCEPT ![t] = "idle", ![Bg] = "collect"]
    /\ local' = [local EXCEPT ![t] = NoLocal,
                              ![Bg] = [NoLocal EXCEPT !.targets = local[t].targets]]
    /\ answer' = [answer EXCEPT ![t] = local[t].val]
    /\ UNCHANGED <<worldVars, pokes, cacheVars, newer>>

\* _refresh_in_background takes the lock and hands it to a new thread.
KickStart(t) ==
    /\ pc[t] = "kick"
    /\ lock = Free
    /\ lock' = Bg
    /\ pc' = [pc EXCEPT ![t] = "idle", ![Bg] = "collect"]
    /\ local' = [local EXCEPT ![t] = NoLocal,
                              ![Bg] = [NoLocal EXCEPT !.targets = local[t].targets]]
    /\ answer' = [answer EXCEPT ![t] = local[t].val]
    /\ UNCHANGED <<worldVars, pokes, cacheVars, newer>>

\* Thread.start raises after the lock was taken: the request fails and nobody
\* is left to release the lock.
KickFails(t) ==
    /\ StartMayFail
    /\ pc[t] = "kick"
    /\ lock = Free
    /\ lock' = Bg
    /\ pc' = [pc EXCEPT ![t] = "idle", ![Bg] = "lost"]
    /\ local' = [local EXCEPT ![t] = NoLocal]
    /\ UNCHANGED <<worldVars, pokes, cacheVars, newer, answer>>

\* requested_at = time.time(); t is not in newer, where only Store puts it.
Ask(t) ==
    /\ Goto(t, "ask", "wait")
    /\ UNCHANGED <<worldVars, pokes, cacheVars, lock, local, newer, answer>>

Acquire(t) ==
    /\ Goto(t, "wait", "recheck")
    /\ lock = Free
    /\ lock' = t
    /\ UNCHANGED <<worldVars, pokes, cacheVars, local, newer, answer>>

\* Another thread stored a value while this one waited: use it.
Reuse(t) ==
    /\ cached # NoValue
    /\ t \in newer
    /\ Return(t, "recheck", cached)
    /\ lock' = Free
    /\ newer' = newer \ {t}
    /\ UNCHANGED <<worldVars, pokes, cacheVars>>

MustCollect(t) ==
    /\ ~(cached # NoValue /\ t \in newer)
    /\ Goto(t, "recheck", "collect")
    /\ newer' = newer \ {t}
    /\ UNCHANGED <<worldVars, pokes, cacheVars, lock, local, answer>>

-----------------------------------------------------------------------------
(***************************************************************************)
(* One refresh, in a waiting thread or in the background thread.           *)
(***************************************************************************)

Collected(p, v) ==
    /\ Goto(p, "collect", "store")
    /\ local' = [local EXCEPT ![p].val = v]
    /\ UNCHANGED <<worldVars, pokes, cacheVars, lock, newer, answer>>

\* Fault: the lock covers the external query but not the write to the cache.
CollectOkUnlocks(p) ==
    /\ Goto(p, "collect", "store")
    /\ lock' = Free
    /\ local' = [local EXCEPT ![p].val =
                     [ok |-> TRUE, issues |-> issues, targets |-> local[p].targets]]
    /\ UNCHANGED <<worldVars, pokes, cacheVars, newer, answer>>

CollectOk(p) ==
    Collected(p, [ok |-> TRUE, issues |-> issues, targets |-> local[p].targets])

\* _collect_external swallows the exception and returns the empty map.
CollectFails(p) ==
    Collected(p, [ok |-> FALSE, issues |-> 0, targets |-> local[p].targets])

\* Fault: no finally around the refresh.
CollectRaisesKeepsLock(p) ==
    /\ CollectMayRaise
    /\ Goto(p, "collect", "idle")
    /\ local' = [local EXCEPT ![p] = NoLocal]
    /\ UNCHANGED <<worldVars, pokes, cacheVars, lock, newer, answer>>

\* An exception leaves _refresh: nothing is stored and the lock is released.
CollectRaises(p) ==
    /\ CollectMayRaise
    /\ Goto(p, "collect", "idle")
    /\ lock' = Free
    /\ local' = [local EXCEPT ![p] = NoLocal]
    /\ UNCHANGED <<worldVars, pokes, cacheVars, newer, answer>>

\* Fault: the value is replaced and its timestamp is not.
StoreKeepsAge(p) ==
    /\ Goto(p, "store", "release")
    /\ cached' = local[p].val
    /\ newer' = {t \in Threads : pc[t] = "wait"}
    /\ UNCHANGED <<worldVars, pokes, stale, lock, local, answer>>

Store(p) ==
    /\ Goto(p, "store", "release")
    /\ cached' = local[p].val
    /\ stale' = FALSE
    /\ newer' = {t \in Threads : pc[t] = "wait"}
    /\ UNCHANGED <<worldVars, pokes, lock, local, answer>>

Release(p) ==
    /\ Goto(p, "release", "idle")
    /\ lock' = Free
    /\ local' = [local EXCEPT ![p] = NoLocal]
    /\ answer' = [t \in Threads |-> IF t = p THEN local[p].val ELSE answer[t]]
    /\ UNCHANGED <<worldVars, pokes, cacheVars, newer>>

Refresh(p) ==
    \/ CollectOk(p)
    \/ CollectFails(p)
    \/ CollectRaises(p)
    \/ Store(p)
    \/ Release(p)

Request(t) ==
    \/ LookFresh(t)
    \/ LookStale(t)
    \/ LookMiss(t)
    \/ KickBusy(t)
    \/ KickStart(t)
    \/ KickFails(t)
    \/ Ask(t)
    \/ Acquire(t)
    \/ Reuse(t)
    \/ MustCollect(t)

World ==
    \/ IssuesChange
    \/ Expire
    \/ ChangeTargets
    \/ InvalidateAfterChange
    \/ InvalidateForReport

Next ==
    \/ World
    \/ \E t \in Threads, f \in BOOLEAN : Begin(t, f)
    \/ \E t \in Threads : Request(t)
    \/ \E p \in Procs : Refresh(p)

Spec == Init /\ [][Next]_vars

(***************************************************************************)
(* Every running thread keeps running: a collection ends (each external    *)
(* client has a timeout), a handler that changed the targets goes on to    *)
(* invalidate.  A thread waiting for the lock gets it if the lock is free  *)
(* again and again: a refresh takes seconds, and after one the next        *)
(* background refresh is a whole TTL away, so the lock is not snatched     *)
(* from a blocked thread for ever.                                         *)
(***************************************************************************)
Fairness ==
    /\ WF_vars(InvalidateAfterChange)
    /\ \A t \in Threads : WF_vars(Request(t)) /\ SF_vars(Acquire(t))
    /\ \A p \in Procs : WF_vars(Refresh(p))

FairSpec == Spec /\ Fairness

\* Moreover somebody keeps opening the dashboard, and not every background
\* refresh raises.
VisitedSpec ==
    /\ FairSpec
    /\ \A t \in Threads : WF_vars(Begin(t, FALSE))
    /\ SF_vars(CollectOk(Bg) \/ CollectFails(Bg))

-----------------------------------------------------------------------------
(***************************************************************************)
(* Properties.                                                             *)
(***************************************************************************)

\* Both values come from the external system and v saw an earlier state of it.
Older(v, w) ==
    /\ v # NoValue /\ v.ok
    /\ w # NoValue /\ w.ok
    /\ v.issues < w.issues

\* The refresh lock is held by exactly the thread that is refreshing, from the
\* acquisition to the release, whichever of the four ways it leaves by.
LockDiscipline == \A p \in Procs : pc[p] \in Holding <=> lock = p

\* However many requests find the cache empty, stale or force a refresh, one
\* external collection runs at a time (dr_data.py:41, eos_data.py:40).
SingleFlight ==
    \A p, q \in Procs :
        pc[p] \in {"collect", "store"} /\ pc[q] \in {"collect", "store"} => p = q

\* A refresh that started earlier never overwrites the result of a later one:
\* the cache does not go back to an older state of the external system, even
\* though the collection and the write to the cache are separate steps.
NoRollback == [][~Older(cached', cached)]_vars

\* A thread that has returned a state of the external system never returns an
\* older one afterwards, whether it is answered from the cache, from the copy
\* it took before starting a refresh, or by a collection.
MonotonicReads == [][\A t \in Threads : ~Older(answer'[t], answer[t])]_vars

\* Every request is answered (or its exception raised), so no thread waits for
\* the lock for ever.
EveryRequestEnds == \A t \in Threads : pc[t] # "idle" ~> pc[t] = "idle"

\* While somebody keeps opening the dashboard an expired value does not stay:
\* some request starts the refresh that replaces it.
StaleIsReplaced == stale ~> ~stale

(***************************************************************************)
(* The inductive invariant behind NoRollback and MonotonicReads.           *)
(***************************************************************************)

\* No value is ahead of the external system.
Known(v) == (v # NoValue /\ v.ok) => v.issues <= issues

NothingAhead ==
    /\ Known(cached)
    /\ \A t \in Threads : Known(answer[t])
    /\ \A p \in Procs : Known(local[p].val)

\* v is at least as new as every value a reader has or is about to return.
CoversReaders(v) ==
    \A t \in Threads :
        /\ ~Older(v, answer[t])
        /\ pc[t] = "kick" => ~Older(v, local[t].val)

\* What the cache holds, and what the refreshing thread is about to store or
\* has just stored, covers every reader; a reader's own copy covers itself.
ReadersCovered ==
    /\ CoversReaders(cached)
    /\ \A t \in Threads : pc[t] = "kick" => ~Older(local[t].val, answer[t])
    /\ \A p \in Procs :
           pc[p] \in {"store", "release"} =>
               /\ CoversReaders(local[p].val)
               /\ ~Older(local[p].val, cached)
    /\ \A p \in Procs :
           pc[p] = "release" => cached \in {NoValue, local[p].val}

CacheInv ==
    /\ TypeOK
    /\ LockDiscipline
    /\ NothingAhead
    /\ ReadersCovered

-----------------------------------------------------------------------------
(***************************************************************************)
(* The cache as its readers see it.                                        *)
(***************************************************************************)

\* The version of the external data in a value; a failed collection has none.
Version(v) == IF v # NoValue /\ v.ok THEN {v.issues} ELSE {}

Abstract == INSTANCE AbstractCache WITH
    Readers <- Threads,
    source  <- issues,
    held    <- Version(cached),
    answer  <- [t \in Threads |-> Version(answer[t])]

\* However the requests, the refreshes and the invalidations interleave, the
\* cache does what AbstractCache promises: what it holds and what it answers
\* each thread are real states of the external system that never go back
\* (dr_data.py, eos_data.py, capacity_data.py).
ServesForward == Abstract!Spec

-----------------------------------------------------------------------------
(***************************************************************************)
(* What the comments promise and the code does not do.                     *)
(***************************************************************************)

\* dr_data.py:170, eos_data.py:159, capacity_data.py:102: a forced request
\* waits for the refresh and gets a new value, one that reflects the external
\* system no earlier than the request.
ForcedIsCurrent ==
    [][\A t \in Threads :
        (local[t].force /\ answer'[t] # answer[t] /\ answer'[t].ok)
            => answer'[t].issues >= local[t].begun]_vars

\* dr_data.py:156, eos_data.py:146, capacity_data.py:89: when a refresh fails
\* the screen keeps the previous value.
FailureKeepsValue ==
    [][(cached # NoValue /\ cached.ok /\ cached' # NoValue) => cached'.ok]_vars

\* dr.py:340, eos.py:501: the target list changed, so the cache is thrown away
\* and refilled; what it holds afterwards was matched with the new list.
CacheMatchesTargets ==
    (~pending /\ cached # NoValue) => cached.targets = sheet
=============================================================================
