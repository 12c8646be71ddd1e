---------------------------- MODULE EvidenceCheck ----------------------------
(***************************************************************************)
(* The check of the tickets cited as evidence, app/services/               *)
(* evidence_check.py: a dashboard asks JIRA for the status of every ticket *)
(* its rows cite and flags the rows whose ticket is rejected, open or not  *)
(* to be found.  Statuses are kept for ten minutes in a dictionary that    *)
(* all requests share and no lock protects; it is emptied by putting a new *)
(* dictionary in its place.                                                *)
(*                                                                         *)
(* The keys are numbered in the order they are sorted in.  A status is     *)
(* what judge makes of it.                                                 *)
(***************************************************************************)
EXTENDS Naturals, FiniteSetsExt

CONSTANTS
    Threads,    \* that serve dashboards
    N,          \* number of ticket keys
    Pages,      \* sets of keys: what the pages cite
    Chunk,      \* keys in one query
    MayFail,    \* JIRA may leave a query unanswered
    MaxChanges, \* bound: changes of a ticket
    MaxEmptied  \* bound: how often the dictionary is replaced

Keys == 1 .. N
Status == {"closed", "open", "rejected"}

ASSUME EvidenceAssumption ==
    /\ N \in Nat
    /\ Pages \subseteq SUBSET Keys
    /\ Chunk \in Nat \ {0}
    /\ MayFail \in BOOLEAN
    /\ MaxChanges \in Nat
    /\ MaxEmptied \in Nat

VARIABLES
    jira,    \* of each key: the status of the ticket, or "gone"
    changes,
    old,     \* _cache["at"] is CACHE_TTL_SEC ago
    cache,   \* _cache["value"]: a status, "blank", or "unasked"
    emptied, \* which dictionary _cache["value"] is
    pc,
    local,   \* of each thread, see Local
    level,   \* of each thread: how it judged its row last
    seen,    \* history: what JIRA said of each key since the cache was emptied
    unheard  \* history: keys recorded since then without an answer of JIRA

history == <<seen, unheard>>
vars == <<jira, changes, old, cache, emptied, pc, local, level, history>>

\* cited: the keys of the row; missing: those to ask for; todo, single: those
\* still to be asked in chunks, and one by one; got: the answers; into: the
\* dictionary the answers go to.
Local == [cited : SUBSET Keys, missing : SUBSET Keys, todo : SUBSET Keys,
          single : SUBSET Keys, got : [Keys -> Status \cup {"unasked"}],
          into : Nat]

Unasked == [k \in Keys |-> "unasked"]
NoLocal == [cited |-> {}, missing |-> {}, todo |-> {}, single |-> {},
            got |-> Unasked, into |-> 0]

TypeOK ==
    /\ jira \in [Keys -> Status \cup {"gone"}]
    /\ changes \in Nat
    /\ old \in BOOLEAN
    /\ cache \in [Keys -> Status \cup {"blank", "unasked"}]
    /\ emptied \in Nat
    /\ pc \in [Threads -> {"idle", "empty", "stamp", "miss", "ask", "blank", "judge"}]
    /\ local \in [Threads -> Local]
    /\ level \in [Threads -> {"fine", "warn", "bad"}]
    /\ seen \in [Keys -> SUBSET (Status \cup {"gone"})]
    /\ unheard \in SUBSET Keys

Init ==
    /\ jira \in [Keys -> {"closed", "gone"}]
    /\ changes = 0
    /\ old = TRUE
    /\ cache = Unasked
    /\ emptied = 0
    /\ pc = [t \in Threads |-> "idle"]
    /\ local = [t \in Threads |-> NoLocal]
    /\ level = [t \in Threads |-> "fine"]
    /\ seen = [k \in Keys |-> {}]
    /\ unheard = {}

Goto(t, from, to) == pc[t] = from /\ pc' = [pc EXCEPT ![t] = to]

-----------------------------------------------------------------------------
(***************************************************************************)
(* JIRA and the clock.                                                     *)
(***************************************************************************)

\* A ticket moves on, is deleted, or is created.
TicketChanges(k, status) ==
    /\ changes < MaxChanges
    /\ changes' = changes + 1
    /\ jira[k] # status
    /\ jira' = [jira EXCEPT ![k] = status]
    /\ UNCHANGED <<old, cache, emptied, pc, local, level, history>>

Expire ==
    /\ ~old
    /\ emptied < MaxEmptied
    /\ old' = TRUE
    /\ UNCHANGED <<jira, changes, cache, emptied, pc, local, level, history>>

-----------------------------------------------------------------------------
(***************************************************************************)
(* get_statuses                                                            *)
(***************************************************************************)

\* annotate: a page without a key asks for nothing.
Begin(t, cited) ==
    /\ cited # {}
    /\ old => emptied < MaxEmptied
    /\ Goto(t, "idle", IF old THEN "empty" ELSE "miss")
    /\ local' = [local EXCEPT ![t] = [NoLocal EXCEPT !.cited = cited]]
    /\ UNCHANGED <<jira, changes, old, cache, emptied, level, history>>

\* A new dictionary; the time it is stamped with is written after it.
Empty(t) ==
    /\ Goto(t, "empty", "stamp")
    /\ emptied' = emptied + 1
    /\ cache' = Unasked
    /\ seen' = [k \in Keys |-> {}]
    /\ unheard' = {}
    /\ UNCHANGED <<jira, changes, old, local, level>>

Stamp(t) ==
    /\ Goto(t, "stamp", "miss")
    /\ old' = FALSE
    /\ UNCHANGED <<jira, changes, cache, emptied, local, level, history>>

\* The keys to ask for.  The dictionary the answers will go to is looked up
\* before JIRA is asked: Python evaluates `_cache["value"].update' first.
Miss(t) ==
    LET missing == {k \in local[t].cited : cache[k] = "unasked"}
    IN  /\ Goto(t, "miss", IF missing = {} THEN "judge" ELSE "ask")
        /\ local' = [local EXCEPT ![t].missing = missing, ![t].todo = missing,
                                  ![t].into = emptied]
        /\ UNCHANGED <<jira, changes, old, cache, emptied, level, history>>

-----------------------------------------------------------------------------
(***************************************************************************)
(* _fetch_statuses: in chunks, a chunk that fails key by key.              *)
(***************************************************************************)

\* The next chunk of the sorted keys.
ChunkOf(todo) ==
    {k \in todo : Cardinality({j \in todo : j < k}) < Chunk}

\* JIRA tells of each of the keys what it has.
Hear(t, keys) ==
    /\ local' = [local EXCEPT ![t].todo = @ \ keys, ![t].single = @ \ keys,
                              ![t].got = [k \in Keys |->
                                  IF k \in keys THEN jira[k] ELSE @[k]]]
    /\ seen' = [k \in Keys |-> seen[k] \cup (IF k \in keys THEN {jira[k]} ELSE {})]

AskChunk(t) ==
    LET keys == ChunkOf(local[t].todo)
    IN  /\ pc[t] = "ask"
        /\ local[t].single = {}
        /\ keys # {}
        /\ \A k \in keys : jira[k] # "gone"
        /\ Hear(t, keys)
        /\ UNCHANGED <<jira, changes, old, cache, emptied, pc, level, unheard>>

\* Fault in ChunkFails: the keys of the chunk are given up.
ChunkFailsForAll(t) ==
    LET keys == ChunkOf(local[t].todo)
    IN  /\ pc[t] = "ask"
        /\ local[t].single = {}
        /\ keys # {}
        /\ MayFail \/ \E k \in keys : jira[k] = "gone"
        /\ local' = [local EXCEPT ![t].todo = @ \ keys]
        /\ UNCHANGED <<jira, changes, old, cache, emptied, pc, level, history>>

\* One key that does not exist fails the query of its whole chunk.
ChunkFails(t) ==
    LET keys == ChunkOf(local[t].todo)
    IN  /\ pc[t] = "ask"
        /\ local[t].single = {}
        /\ keys # {}
        /\ MayFail \/ \E k \in keys : jira[k] = "gone"
        /\ local' = [local EXCEPT ![t].todo = @ \ keys, ![t].single = keys]
        /\ UNCHANGED <<jira, changes, old, cache, emptied, pc, level, history>>

AskOne(t, k) ==
    /\ pc[t] = "ask"
    /\ k \in local[t].single
    /\ \A j \in local[t].single : k <= j
    /\ jira[k] # "gone"
    /\ Hear(t, {k})
    /\ UNCHANGED <<jira, changes, old, cache, emptied, pc, level, unheard>>

\* There is no such ticket, or no answer: the exception is swallowed.
OneFails(t, k) ==
    /\ pc[t] = "ask"
    /\ k \in local[t].single
    /\ \A j \in local[t].single : k <= j
    /\ local' = [local EXCEPT ![t].single = @ \ {k}]
    /\ \/ /\ jira[k] = "gone"
          /\ seen' = [seen EXCEPT ![k] = @ \cup {"gone"}]
          /\ UNCHANGED unheard
       \/ /\ MayFail
          /\ unheard' = unheard \cup {k}
          /\ UNCHANGED seen
    /\ UNCHANGED <<jira, changes, old, cache, emptied, pc, level>>

Answered(got) == {k \in Keys : got[k] # "unasked"}

\* Fault in Update: the answers go to the dictionary that is there now.
UpdateCurrent(t) ==
    /\ Goto(t, "ask", "blank")
    /\ local[t].todo = {} /\ local[t].single = {}
    /\ cache' = [k \in Keys |->
                    IF k \in Answered(local[t].got) THEN local[t].got[k] ELSE cache[k]]
    /\ UNCHANGED <<jira, changes, old, emptied, local, level, history>>

\* The answers, also none, go to the dictionary that was there before.
Update(t) ==
    /\ Goto(t, "ask", "blank")
    /\ local[t].todo = {} /\ local[t].single = {}
    /\ cache' = [k \in Keys |->
                    IF local[t].into = emptied /\ k \in Answered(local[t].got)
                    THEN local[t].got[k] ELSE cache[k]]
    /\ UNCHANGED <<jira, changes, old, emptied, local, level, history>>

\* setdefault: what was asked for and is not there is blank, in the dictionary
\* that is there now.
Blank(t) ==
    /\ Goto(t, "blank", "judge")
    /\ LET blank == {k \in local[t].missing : cache[k] = "unasked"}
       IN  /\ cache' = [k \in Keys |-> IF k \in blank THEN "blank" ELSE cache[k]]
           /\ unheard' = unheard \cup (IF local[t].into = emptied THEN {} ELSE blank)
    /\ UNCHANGED <<jira, changes, old, emptied, local, level, seen>>

\* judge, of a row: a key that is not there counts as blank.
Judged(cited, statuses) ==
    IF \E k \in cited : statuses[k] \in {"unasked", "blank", "rejected"} THEN "bad"
    ELSE IF \E k \in cited : statuses[k] = "open" THEN "warn"
    ELSE "fine"

Judge(t) ==
    /\ Goto(t, "judge", "idle")
    /\ level' = [level EXCEPT ![t] = Judged(local[t].cited, cache)]
    /\ local' = [local EXCEPT ![t] = NoLocal]
    /\ UNCHANGED <<jira, changes, old, cache, emptied, history>>

Request(t) ==
    \/ Empty(t)
    \/ Stamp(t)
    \/ Miss(t)
    \/ AskChunk(t)
    \/ ChunkFails(t)
    \/ \E k \in Keys : AskOne(t, k) \/ OneFails(t, k)
    \/ Update(t)
    \/ Blank(t)
    \/ Judge(t)

Next ==
    \/ \E k \in Keys, status \in Status \cup {"gone"} : TicketChanges(k, status)
    \/ Expire
    \/ \E t \in Threads, cited \in Pages : Begin(t, cited)
    \/ \E t \in Threads : Request(t)

Spec == Init /\ [][Next]_vars

-----------------------------------------------------------------------------
(***************************************************************************)
(* Properties.                                                             *)
(***************************************************************************)

\* A status in the cache is one that JIRA has told since the cache was emptied
\* last: an answer on its way while another request empties the cache does not
\* get in again, to be shown for ten minutes more.
HeldWasSeen == \A k \in Keys : cache[k] \in Status => cache[k] \in seen[k]

\* A ticket is recorded as not to be found only if it was not, or if its own
\* query went without an answer, or was overtaken by an emptying: a key in the
\* same chunk that does not exist costs it nothing.
BlankIsOwn ==
    \A k \in Keys : cache[k] = "blank" => "gone" \in seen[k] \/ k \in unheard

(***************************************************************************)
(* What comments promise and the code does not do.                         *)
(***************************************************************************)

\* evidence_check.py:71: what is recorded as a ticket that is not there was asked
\* for and not found.
BlankIsGone == \A k \in Keys : cache[k] = "blank" => "gone" \in seen[k]

\* evidence_check.py:107: when JIRA cannot be asked, the flags are left out.
NoFlagWithoutAnswer ==
    [][\A t \in Threads : (pc[t] = "judge" /\ pc'[t] = "idle" /\ level'[t] = "bad") =>
          \E k \in local[t].cited : seen[k] \cap {"rejected", "gone"} # {}]_vars
=============================================================================
