------------------------------- MODULE KernelWeb -------------------------------
(***************************************************************************)
(* The snapshot of the Polestar web grid in app/services/kernel_patched.py.*)
(* Reading the grid runs a Chromium over all of its pages, so a screen     *)
(* takes the snapshot in memory (at the first look: the one on disk) and,  *)
(* if that is old and no attempt was made lately, starts a thread that     *)
(* reads the grid again.  An admin's forced refresh reads it in the        *)
(* request.  Memory is updated before the disk; a restart keeps the disk   *)
(* and may come with another account or address (the key).                 *)
(***************************************************************************)
EXTENDS Naturals

CONSTANTS
    Requests,     \* threads that serve requests
    Worker,       \* the background thread
    Free,         \* the refresh lock is not held
    Keys,         \* settings a snapshot belongs to
    Empty,        \* no snapshot
    StartMayFail, \* Thread.start() may raise
    MaxGrid,      \* bound: changes of the grid
    MaxRestarts   \* bound

Procs == Requests \cup {Worker}
Snapshot == [key : Keys, of : 0 .. MaxGrid]

ASSUME WebAssumption ==
    /\ Worker \notin Requests
    /\ Free \notin Procs
    /\ Empty \notin Snapshot
    /\ StartMayFail \in BOOLEAN
    /\ MaxGrid \in Nat
    /\ MaxRestarts \in Nat

VARIABLES
    grid,     \* the version of the grid
    restarts,
    key,      \* _web_key of the running process
    value,    \* _web_state: the snapshot in memory
    expired,  \* its fetched_at is an hour old
    due,      \* attempt_at is ten minutes old
    loaded,   \* the snapshot on disk has been looked at
    disk,     \* kernel_web_grid.json
    lock,     \* _web_refresh_lock
    pc, got,  \* of each thread: where it is, what it has read
    answer    \* of each request: the snapshot it was given last

stateVars == <<value, expired, due, loaded>>
vars == <<grid, restarts, key, stateVars, disk, lock, pc, got, answer>>

TypeOK ==
    /\ grid \in 0 .. MaxGrid
    /\ restarts \in 0 .. MaxRestarts
    /\ key \in Keys
    /\ value \in Snapshot \cup {Empty}
    /\ expired \in BOOLEAN
    /\ due \in BOOLEAN
    /\ loaded \in BOOLEAN
    /\ disk \in Snapshot \cup {Empty}
    /\ lock \in Procs \cup {Free}
    /\ pc \in [Procs -> {"idle", "kick", "wait", "attempt", "read", "store",
                         "write", "release"}]
    /\ got \in [Procs -> Snapshot \cup {Empty}]
    /\ answer \in [Requests -> Snapshot \cup {Empty}]

Init ==
    /\ grid = 0
    /\ restarts = 0
    /\ key \in Keys
    /\ value = Empty
    /\ expired = FALSE
    /\ due = TRUE
    /\ loaded = FALSE
    /\ disk = Empty
    /\ lock = Free
    /\ pc = [p \in Procs |-> "idle"]
    /\ got = [p \in Procs |-> Empty]
    /\ answer = [r \in Requests |-> Empty]

Goto(p, from, to) == pc[p] = from /\ pc' = [pc EXCEPT ![p] = to]

-----------------------------------------------------------------------------
(***************************************************************************)
(* The grid and the clock.                                                 *)
(***************************************************************************)

GridChanges ==
    /\ grid < MaxGrid
    /\ grid' = grid + 1
    /\ UNCHANGED <<restarts, key, stateVars, disk, lock, pc, got, answer>>

Expire ==
    /\ value # Empty
    /\ ~expired
    /\ expired' = TRUE
    /\ UNCHANGED <<grid, restarts, key, value, due, loaded, disk, lock, pc, got, answer>>

RetryDue ==
    /\ ~due
    /\ due' = TRUE
    /\ UNCHANGED <<grid, restarts, key, value, expired, loaded, disk, lock, pc, got, answer>>

-----------------------------------------------------------------------------
(***************************************************************************)
(* A request: _web_source_nonblocking, _start_web_refresh.                 *)
(***************************************************************************)

\* A snapshot counts only for the settings it was read with.
Usable(snapshot) == snapshot # Empty /\ snapshot.key = key

\* _load_web_snapshot_from_disk: the snapshot is of whatever age ...
TakeFromDisk ==
    /\ ~loaded
    /\ disk # Empty
    /\ value' = disk
    /\ expired' \in BOOLEAN

\* ... or nothing is there, or it cannot be read: that is logged, not raised.
NothingFromDisk == UNCHANGED <<value, expired>>

\* _web_source_nonblocking, in one hold of _web_state_lock.  Only the first look
\* after a start goes to the disk.
Look(r) ==
    /\ TakeFromDisk \/ NothingFromDisk
    /\ loaded' = TRUE
    /\ answer' = [answer EXCEPT ![r] = IF Usable(value') THEN value' ELSE Empty]
    /\ Goto(r, "idle",
            IF (~Usable(value') \/ expired') /\ due THEN "kick" ELSE "idle")
    /\ UNCHANGED <<grid, restarts, key, due, disk, lock, got>>

\* A refresh runs already.
KickBusy(r) ==
    /\ Goto(r, "kick", "idle")
    /\ lock # Free
    /\ UNCHANGED <<grid, restarts, key, stateVars, disk, lock, got, answer>>

\* Fault in KickStart: the lock is not tried.
KickStartUnchecked(r) ==
    /\ pc[r] = "kick"
    /\ pc[Worker] = "idle"
    /\ lock' = Worker
    /\ pc' = [pc EXCEPT ![r] = "idle", ![Worker] = "attempt"]
    /\ UNCHANGED <<grid, restarts, key, stateVars, disk, got, answer>>

KickStart(r) ==
    /\ pc[r] = "kick"
    /\ lock = Free
    /\ lock' = Worker
    /\ pc' = [pc EXCEPT ![r] = "idle", ![Worker] = "attempt"]
    /\ UNCHANGED <<grid, restarts, key, stateVars, disk, got, answer>>

\* Fault in KickFails: the lock stays taken.
KickFailsKeepsLock(r) ==
    /\ StartMayFail
    /\ Goto(r, "kick", "idle")
    /\ lock = Free
    /\ lock' = Worker
    /\ UNCHANGED <<grid, restarts, key, stateVars, disk, got, answer>>

\* The thread cannot be started: the lock is given back, the request fails.
KickFails(r) ==
    /\ StartMayFail
    /\ Goto(r, "kick", "idle")
    /\ lock = Free
    /\ UNCHANGED <<grid, restarts, key, stateVars, disk, lock, got, answer>>

\* get_patched_source(force_refresh=True): _refresh_web_now
ForceRefresh(r) ==
    /\ Goto(r, "idle", "wait")
    /\ UNCHANGED <<grid, restarts, key, stateVars, disk, lock, got, answer>>

Acquire(r) ==
    /\ Goto(r, "wait", "attempt")
    /\ lock = Free
    /\ lock' = r
    /\ UNCHANGED <<grid, restarts, key, stateVars, disk, got, answer>>

-----------------------------------------------------------------------------
(***************************************************************************)
(* _fetch_and_store_web, in the worker or in a request.                    *)
(***************************************************************************)

NoteAttempt(p) ==
    /\ Goto(p, "attempt", "read")
    /\ due' = FALSE
    /\ UNCHANGED <<grid, restarts, key, value, expired, loaded, disk, lock, got, answer>>

ReadOk(p) ==
    /\ Goto(p, "read", "store")
    /\ got' = [got EXCEPT ![p] = [key |-> key, of |-> grid]]
    /\ UNCHANGED <<grid, restarts, key, stateVars, disk, lock, answer>>

\* Any exception, or a grid without rows: the old snapshot stays.
ReadFails(p) ==
    /\ Goto(p, "read", "release")
    /\ UNCHANGED <<grid, restarts, key, stateVars, disk, lock, got, answer>>

\* Fault in StoreMemory: loaded is not set.
StoreMemoryNotLoaded(p) ==
    /\ Goto(p, "store", "write")
    /\ value' = got[p]
    /\ expired' = FALSE
    /\ UNCHANGED <<grid, restarts, key, due, loaded, disk, lock, got, answer>>

\* _store_web: first the memory ...
StoreMemory(p) ==
    /\ Goto(p, "store", "write")
    /\ value' = got[p]
    /\ expired' = FALSE
    /\ loaded' = TRUE
    /\ UNCHANGED <<grid, restarts, key, due, disk, lock, got, answer>>

\* ... then the disk, atomically (os.replace), unless that fails.
StoreDisk(p) ==
    /\ Goto(p, "write", "release")
    /\ disk' \in {got[p], disk}
    /\ UNCHANGED <<grid, restarts, key, stateVars, lock, got, answer>>

\* A forced request answers with what it has read.
Release(p) ==
    /\ Goto(p, "release", "idle")
    /\ lock' = Free
    /\ answer' = [r \in Requests |-> IF r = p THEN got[p] ELSE answer[r]]
    /\ got' = [got EXCEPT ![p] = Empty]
    /\ UNCHANGED <<grid, restarts, key, stateVars, disk>>

Restart ==
    /\ restarts < MaxRestarts
    /\ restarts' = restarts + 1
    /\ key' \in Keys
    /\ value' = Empty
    /\ expired' = FALSE
    /\ due' = TRUE
    /\ loaded' = FALSE
    /\ lock' = Free
    /\ pc' = [p \in Procs |-> "idle"]
    /\ got' = [p \in Procs |-> Empty]
    /\ answer' = [r \in Requests |-> Empty]
    /\ UNCHANGED <<grid, disk>>

Fetch(p) ==
    \/ NoteAttempt(p)
    \/ ReadOk(p)
    \/ ReadFails(p)
    \/ StoreMemory(p)
    \/ StoreDisk(p)
    \/ Release(p)

Kick(r) == KickBusy(r) \/ KickStart(r) \/ KickFails(r)

Next ==
    \/ GridChanges
    \/ Expire
    \/ RetryDue
    \/ \E r \in Requests : Look(r) \/ Kick(r) \/ ForceRefresh(r) \/ Acquire(r)
    \/ \E p \in Procs : Fetch(p)
    \/ Restart

Spec == Init /\ [][Next]_vars

\* Threads go on; somebody who waits for the lock gets it; time passes; some
\* screen is opened again and again; not every start of the background thread
\* and not every reading of the grid fails.
Fairness ==
    /\ \A p \in Procs : WF_vars(Fetch(p))
    /\ \A r \in Requests : WF_vars(Kick(r)) /\ SF_vars(Acquire(r))
    /\ SF_vars(\E r \in Requests : Look(r))
    /\ SF_vars(\E r \in Requests : KickStart(r))
    /\ SF_vars(\E p \in Procs : ReadOk(p))
    /\ WF_vars(RetryDue)

FairSpec == Spec /\ Fairness

-----------------------------------------------------------------------------
(***************************************************************************)
(* Properties.                                                             *)
(***************************************************************************)

\* Whichever way it was started, one Chromium runs at a time, and only while
\* the lock is held.
OneChromium ==
    \A p \in Procs :
        pc[p] \in {"attempt", "read", "store", "write", "release"} => lock = p

\* What is in memory counts only for the settings it was read with.  For a
\* screen, a snapshot of others is a version the grid has never had.
Held == IF value # Empty /\ value.key = key THEN {value.of} ELSE {}
Shown(snapshot) ==
    IF snapshot = Empty THEN {}
    ELSE IF snapshot.key = key THEN {snapshot.of}
    ELSE {grid + 1}

Abstract == INSTANCE AbstractCache WITH
    Readers <- Requests,
    source  <- grid,
    held    <- Held,
    answer  <- [r \in Requests |-> Shown(answer[r])]

\* The snapshot does what AbstractCache promises, of the account and address in
\* use, also when a restart loads one of others from disk, and when a forced
\* reading overtakes a screen.
ServesForward == Abstract!Spec

\* An old snapshot is read again in the end, also if threads fail to start and
\* readings fail for a while.
ExpiredIsReplaced == expired ~> ~expired

(***************************************************************************)
(* What a comment promises and the code does not do.                       *)
(***************************************************************************)

\* kernel_patched.py:372: between two attempts in the background there is a
\* pause, so that repeated failures do not start a browser per request.
RetrySpaced ==
    [][(pc[Worker] = "attempt" /\ pc'[Worker] = "read") => due]_vars
=============================================================================
