--------------------------- MODULE KernelWebProofs ---------------------------
(***************************************************************************)
(* What KernelWeb guarantees for any requests, settings, versions of the   *)
(* grid and restarts.                                                      *)
(*                                                                         *)
(* The argument.  Only the holder of the lock reads the grid and stores.   *)
(* What it has read covers what is in memory, on disk and on the screens,  *)
(* of these settings, until it has stored it; from then on memory is what  *)
(* it read.  The disk is looked at once, before anything has been shown.   *)
(***************************************************************************)
EXTENDS KernelWeb, TLAPS

USE WebAssumption DEF WebAssumption, Procs

Reading == {"attempt", "read", "store", "write", "release"}

\* A snapshot of these settings is not newer than another.
UpTo(snapshot, bound) == Usable(snapshot) => snapshot.of <= bound.of

\* No snapshot is of a version the grid has not had; what was shown, or has been
\* read, is of these settings.
NothingAhead ==
    /\ value # Empty => value.of <= grid
    /\ disk # Empty => disk.of <= grid
    /\ \A p \in Procs : got[p] # Empty => got[p].key = key /\ got[p].of <= grid
    /\ \A r \in Requests : answer[r] # Empty => Usable(answer[r]) /\ answer[r].of <= grid

\* Nothing is in memory, or on a screen, before the disk has been looked at,
\* and memory covers the screens.
MemoryCovers ==
    /\ ~loaded => value = Empty
    /\ \A r \in Requests : answer[r] # Empty => Usable(value) /\ answer[r].of <= value.of

\* What a thread has read covers the rest until it is stored.
ReadCovers ==
    \A p \in Procs :
        /\ pc[p] = "store" =>
              /\ got[p] # Empty
              /\ UpTo(value, got[p])
              /\ UpTo(disk, got[p])
        /\ pc[p] = "write" => got[p] # Empty
        /\ pc[p] \in {"write", "release"} /\ got[p] # Empty => loaded /\ value = got[p]
        /\ pc[p] \notin {"store", "write", "release"} => got[p] = Empty

IInv == TypeOK /\ OneChromium /\ NothingAhead /\ MemoryCovers /\ ReadCovers

-----------------------------------------------------------------------------
LEMMA TypeStep == TypeOK /\ [Next]_vars => TypeOK'
<1> SUFFICES ASSUME TypeOK, [Next]_vars PROVE TypeOK'
  OBVIOUS
<1> USE DEF TypeOK, Goto, stateVars
<1>1. CASE UNCHANGED vars
  BY <1>1 DEF vars
<1>2. CASE GridChanges
  BY <1>2 DEF GridChanges, Snapshot
<1>3. CASE Expire \/ RetryDue
  BY <1>3 DEF Expire, RetryDue
<1>4. ASSUME NEW r \in Requests, Look(r) PROVE TypeOK'
  <2>1. value' \in Snapshot \cup {Empty} /\ expired' \in BOOLEAN
    BY <1>4 DEF Look, TakeFromDisk, NothingFromDisk
  <2>2. answer' \in [Requests -> Snapshot \cup {Empty}]
    BY <1>4, <2>1 DEF Look
  <2>3. loaded' \in BOOLEAN
    BY <1>4 DEF Look
  <2>4. pc' \in [Procs -> {"idle", "kick", "wait", "attempt", "read", "store",
                           "write", "release"}]
    BY <1>4 DEF Look
  <2> QED
    BY <1>4, <2>1, <2>2, <2>3, <2>4 DEF Look
<1>5. ASSUME NEW r \in Requests, Kick(r) PROVE TypeOK'
  BY <1>5 DEF Kick, KickBusy, KickStart, KickFails
<1>6. ASSUME NEW r \in Requests, ForceRefresh(r) \/ Acquire(r) PROVE TypeOK'
  BY <1>6 DEF ForceRefresh, Acquire
<1>7. ASSUME NEW p \in Procs, NoteAttempt(p) \/ ReadFails(p) PROVE TypeOK'
  BY <1>7 DEF NoteAttempt, ReadFails
<1>8. ASSUME NEW p \in Procs, ReadOk(p) PROVE TypeOK'
  BY <1>8 DEF ReadOk, Snapshot
<1>9. ASSUME NEW p \in Procs, StoreMemory(p) \/ StoreDisk(p) PROVE TypeOK'
  BY <1>9 DEF StoreMemory, StoreDisk
<1>10. ASSUME NEW p \in Procs, Release(p) PROVE TypeOK'
  BY <1>10 DEF Release
<1>11. CASE Restart
  <2>1. /\ pc' \in [Procs -> {"idle", "kick", "wait", "attempt", "read", "store",
                             "write", "release"}]
        /\ got' \in [Procs -> Snapshot \cup {Empty}]
    BY <1>11 DEF Restart
  <2>2. answer' \in [Requests -> Snapshot \cup {Empty}]
    BY <1>11 DEF Restart
  <2>3. expired' \in BOOLEAN /\ due' \in BOOLEAN /\ loaded' \in BOOLEAN
    BY <1>11 DEF Restart
  <2>4. grid' \in 0 .. MaxGrid /\ restarts' \in 0 .. MaxRestarts
    BY <1>11 DEF Restart
  <2>5. /\ key' \in Keys
        /\ value' \in Snapshot \cup {Empty}
        /\ disk' \in Snapshot \cup {Empty}
        /\ lock' \in Procs \cup {Free}
    BY <1>11 DEF Restart
  <2> QED
    BY <2>1, <2>2, <2>3, <2>4, <2>5
<1> QED
  BY <1>1, <1>2, <1>3, <1>4, <1>5, <1>6, <1>7, <1>8, <1>9, <1>10, <1>11 DEF Next, Fetch

\* Only who finds the lock free begins to read, and only its holder gives it
\* back.
LEMMA LockStep == TypeOK /\ OneChromium /\ [Next]_vars => OneChromium'
<1> SUFFICES ASSUME TypeOK, OneChromium, [Next]_vars PROVE OneChromium'
  OBVIOUS
<1> USE DEF TypeOK, OneChromium, Goto
<1>1. CASE UNCHANGED vars \/ GridChanges \/ Expire \/ RetryDue
  BY <1>1 DEF vars, GridChanges, Expire, RetryDue
<1>2. ASSUME NEW r \in Requests, Look(r) \/ ForceRefresh(r) PROVE OneChromium'
  BY <1>2 DEF Look, ForceRefresh
<1>3. ASSUME NEW r \in Requests, Kick(r) \/ Acquire(r) PROVE OneChromium'
  BY <1>3 DEF Kick, KickBusy, KickStart, KickFails, Acquire
<1>4. ASSUME NEW p \in Procs, NoteAttempt(p) \/ ReadOk(p) \/ ReadFails(p) PROVE OneChromium'
  BY <1>4 DEF NoteAttempt, ReadOk, ReadFails
<1>5. ASSUME NEW p \in Procs, StoreMemory(p) \/ StoreDisk(p) \/ Release(p) PROVE OneChromium'
  BY <1>5 DEF StoreMemory, StoreDisk, Release
<1>6. CASE Restart
  BY <1>6 DEF Restart
<1> QED
  BY <1>1, <1>2, <1>3, <1>4, <1>5, <1>6 DEF Next, Fetch

LEMMA InitHolds == Init => IInv
<1> SUFFICES ASSUME Init PROVE IInv
  OBVIOUS
<1>1. TypeOK
  <2>1. /\ pc \in [Procs -> {"idle", "kick", "wait", "attempt", "read", "store",
                             "write", "release"}]
        /\ got \in [Procs -> Snapshot \cup {Empty}]
    BY DEF Init
  <2>2. answer \in [Requests -> Snapshot \cup {Empty}]
    BY DEF Init
  <2>3. expired \in BOOLEAN /\ due \in BOOLEAN /\ loaded \in BOOLEAN
    BY DEF Init
  <2>4. grid \in 0 .. MaxGrid /\ restarts \in 0 .. MaxRestarts
    BY DEF Init
  <2> QED
    BY <2>1, <2>2, <2>3, <2>4 DEF Init, TypeOK
<1>2. OneChromium /\ MemoryCovers
  BY DEF Init, OneChromium, MemoryCovers
<1>3. NothingAhead /\ ReadCovers
  BY DEF Init, NothingAhead, ReadCovers
<1> QED
  BY <1>1, <1>2, <1>3 DEF IInv

-----------------------------------------------------------------------------
(***************************************************************************)
(* The steps that touch a snapshot.                                        *)
(***************************************************************************)

Cover == NothingAhead /\ MemoryCovers /\ ReadCovers

LEMMA GridStep ==
    ASSUME IInv, GridChanges
    PROVE  Cover'
<1> USE DEF IInv, TypeOK, Snapshot, GridChanges, stateVars
<1>1. NothingAhead'
  BY DEF NothingAhead, Usable
<1>2. MemoryCovers' /\ ReadCovers'
  BY DEF MemoryCovers, ReadCovers, UpTo, Usable
<1> QED
  BY <1>1, <1>2 DEF Cover

\* Steps that leave the snapshots alone and bring no thread to a place where
\* it has one.
LEMMA QuietStep ==
    ASSUME IInv,
           UNCHANGED <<grid, key, value, disk, got, answer, loaded>>,
           \A p \in Procs : pc'[p] \in {"store", "write"} => pc'[p] = pc[p],
           \A p \in Procs : pc'[p] = "release" => pc[p] \in {"read", "release"},
           \A p \in Procs : pc[p] \in {"store", "write", "release"} => pc'[p] = pc[p]
    PROVE  Cover'
<1>1. NothingAhead' /\ MemoryCovers'
  BY DEF IInv, NothingAhead, MemoryCovers, Usable
<1>2. ReadCovers'
  BY DEF IInv, ReadCovers, UpTo, Usable
<1> QED
  BY <1>1, <1>2 DEF Cover

\* The first look takes what is on disk; every look shows what is in memory.
LEMMA LookStep ==
    ASSUME IInv, NEW r \in Requests, Look(r)
    PROVE  Cover'
<1> USE DEF IInv, TypeOK
<1>1. loaded' /\ UNCHANGED <<grid, key, disk, got>>
  BY DEF Look
<1>2. value' = value \/ (~loaded /\ disk # Empty /\ value' = disk)
  BY DEF Look, TakeFromDisk, NothingFromDisk
<1>3. answer' = [answer EXCEPT ![r] = IF Usable(value') THEN value' ELSE Empty]
  BY DEF Look
<1>4. \A p \in Procs : pc'[p] = pc[p] \/ (p = r /\ pc[p] = "idle" /\ pc'[p] \in {"kick", "idle"})
  BY DEF Look, Goto
<1>5. value' # Empty => value'.of <= grid
  BY <1>2 DEF NothingAhead
<1>6. \A q \in Requests : answer[q] # Empty => value' = value
  BY <1>2 DEF MemoryCovers, Usable
<1>7. \A q \in Requests : answer'[q] = answer[q] \/ answer'[q] = Empty
                             \/ (Usable(value') /\ answer'[q] = value')
  BY <1>3
<1>8. NothingAhead'
  BY <1>1, <1>5, <1>7 DEF NothingAhead, Usable
<1>9. value' # Empty => value'.of \in Nat
  BY <1>2 DEF Snapshot
<1>10. MemoryCovers'
  BY <1>1, <1>6, <1>7, <1>9 DEF MemoryCovers, Usable
<1>11. ReadCovers'
  <2>1. SUFFICES ASSUME NEW p \in Procs
                 PROVE  /\ pc'[p] = "store" => got[p] # Empty /\ UpTo(value', got[p]) /\ UpTo(disk, got[p])
                        /\ pc'[p] = "write" => got[p] # Empty
                        /\ pc'[p] \in {"write", "release"} /\ got[p] # Empty => value' = got[p]
                        /\ pc'[p] \notin {"store", "write", "release"} => got[p] = Empty
    BY <1>1 DEF ReadCovers, UpTo, Usable
  <2>2. pc'[p] = pc[p] \/ (pc[p] = "idle" /\ pc'[p] \in {"kick", "idle"})
    BY <1>4
  <2> QED
    BY <1>1, <1>2, <2>2 DEF ReadCovers, UpTo, Usable
<1> QED
  BY <1>8, <1>10, <1>11 DEF Cover

\* What is read covers everything, and only the holder of the lock has read.
LEMMA ReadStep ==
    ASSUME IInv, NEW p \in Procs, ReadOk(p)
    PROVE  Cover'
<1> USE DEF IInv, TypeOK, ReadOk, Goto, stateVars
<1>1. got'[p] = [key |-> key, of |-> grid] /\ got'[p] # Empty
  BY DEF Snapshot
<1>2. \A q \in Procs \ {p} : got'[q] = got[q] /\ pc'[q] = pc[q]
  OBVIOUS
<1>3. NothingAhead'
  <2>1. \A q \in Procs : got'[q] # Empty => got'[q].key = key' /\ got'[q].of <= grid'
    BY <1>1, <1>2 DEF NothingAhead
  <2> QED
    BY <2>1 DEF NothingAhead, Usable
<1>4. MemoryCovers'
  BY DEF MemoryCovers, Usable
<1>5. ReadCovers'
  <2>1. UpTo(value, got'[p]) /\ UpTo(disk, got'[p])
    BY <1>1 DEF NothingAhead, UpTo, Usable
  <2> QED
    BY <1>1, <1>2, <2>1 DEF ReadCovers, UpTo, Usable
<1> QED
  BY <1>3, <1>4, <1>5 DEF Cover

LEMMA StoreStep ==
    ASSUME IInv, NEW p \in Procs, StoreMemory(p)
    PROVE  Cover'
<1> USE DEF IInv, TypeOK, StoreMemory, Goto
<1>1. got[p] # Empty /\ got[p].key = key /\ got[p].of <= grid /\ got[p].of \in Nat
  BY DEF ReadCovers, NothingAhead, Snapshot
<1>2. \A q \in Procs \ {p} : pc[q] \notin {"store", "write", "release"} /\ pc'[q] = pc[q]
  BY DEF OneChromium
<1>3. NothingAhead'
  BY <1>1 DEF NothingAhead, Usable
<1>4. MemoryCovers'
  <2>1. UpTo(value, got[p])
    BY DEF ReadCovers
  <2>2. \A r \in Requests : answer[r] # Empty => answer[r].of <= got[p].of
    BY <1>1, <2>1 DEF MemoryCovers, UpTo, Snapshot, Usable
  <2> QED
    BY <1>1, <2>2 DEF MemoryCovers, Usable
<1>5. ReadCovers'
  BY <1>1, <1>2 DEF ReadCovers
<1> QED
  BY <1>3, <1>4, <1>5 DEF Cover

LEMMA DiskStep ==
    ASSUME IInv, NEW p \in Procs, StoreDisk(p)
    PROVE  Cover'
<1> USE DEF IInv, TypeOK, StoreDisk, Goto, stateVars
<1>1. got[p] # Empty /\ got[p].of <= grid
  BY DEF ReadCovers, NothingAhead
<1>2. \A q \in Procs \ {p} : pc[q] \notin {"store", "write", "release"} /\ pc'[q] = pc[q]
  BY DEF OneChromium
<1>3. NothingAhead'
  BY <1>1 DEF NothingAhead, Usable
<1>4. MemoryCovers'
  BY DEF MemoryCovers, Usable
<1>5. ReadCovers'
  BY <1>2 DEF ReadCovers
<1> QED
  BY <1>3, <1>4, <1>5 DEF Cover

\* A forced request is answered with what is in memory now.
LEMMA ReleaseStep ==
    ASSUME IInv, NEW p \in Procs, Release(p)
    PROVE  Cover'
<1> USE DEF IInv, TypeOK, Release, Goto, stateVars
<1>1. got[p] # Empty => loaded /\ value = got[p] /\ got[p].key = key /\ got[p].of <= grid
  BY DEF ReadCovers, NothingAhead
<1>2. \A q \in Procs \ {p} : pc'[q] = pc[q] /\ got'[q] = got[q]
  OBVIOUS
<1>3. got'[p] = Empty /\ pc'[p] = "idle"
  OBVIOUS
<1>4. \A r \in Requests : answer'[r] = answer[r] \/ answer'[r] = got[p]
  OBVIOUS
<1>5. NothingAhead'
  BY <1>1, <1>2, <1>3, <1>4 DEF NothingAhead, Usable
<1>6. MemoryCovers'
  BY <1>1, <1>4 DEF MemoryCovers, Usable, Snapshot
<1>7. ReadCovers'
  BY <1>2, <1>3 DEF ReadCovers, UpTo, Usable
<1> QED
  BY <1>5, <1>6, <1>7 DEF Cover

LEMMA RestartStep ==
    ASSUME IInv, Restart
    PROVE  Cover'
<1>1. NothingAhead'
  BY DEF IInv, Restart, NothingAhead
<1>2. MemoryCovers' /\ ReadCovers'
  BY DEF Restart, MemoryCovers, ReadCovers
<1> QED
  BY <1>1, <1>2 DEF Cover

\* One step per action.
LEMMA StepHolds == IInv /\ [Next]_vars => IInv'
<1> SUFFICES ASSUME IInv, [Next]_vars PROVE Cover'
  BY TypeStep, LockStep DEF IInv, Cover
<1>1. CASE UNCHANGED vars \/ Expire \/ RetryDue
  BY <1>1, QuietStep DEF vars, stateVars, Expire, RetryDue
<1>2. CASE GridChanges
  BY <1>2, GridStep
<1>3. ASSUME NEW r \in Requests, Look(r) PROVE Cover'
  BY <1>3, LookStep
<1>4. ASSUME NEW r \in Requests, Kick(r) \/ ForceRefresh(r) \/ Acquire(r) PROVE Cover'
  <2>1. UNCHANGED <<grid, key, value, disk, got, answer, loaded>>
    BY <1>4 DEF Kick, KickBusy, KickStart, KickFails, ForceRefresh, Acquire, stateVars
  <2>2. \A p \in Procs :
            /\ pc'[p] \in {"store", "write", "release"} => pc'[p] = pc[p]
            /\ pc[p] \in {"store", "write", "release"} => pc'[p] = pc[p]
    BY <1>4 DEF Kick, KickBusy, KickStart, KickFails, ForceRefresh, Acquire, Goto, IInv, TypeOK,
                OneChromium
  <2> QED
    BY <2>1, <2>2, QuietStep
<1>5. ASSUME NEW p \in Procs, NoteAttempt(p) \/ ReadFails(p) PROVE Cover'
  BY <1>5, QuietStep DEF NoteAttempt, ReadFails, Goto, stateVars, IInv, TypeOK
<1>6. ASSUME NEW p \in Procs, Fetch(p) PROVE Cover'
  BY <1>5, <1>6, ReadStep, StoreStep, DiskStep, ReleaseStep DEF Fetch
<1>7. CASE Restart
  BY <1>7, RestartStep
<1> QED
  BY <1>1, <1>2, <1>3, <1>4, <1>6, <1>7 DEF Next

\* The inductive invariant holds in every reachable state.
THEOREM KernelInvariant == Spec => []IInv
  BY InitHolds, StepHolds, PTL DEF Spec

\* Every variable keeps its type.
THEOREM KernelTypes == Spec => []TypeOK
<1>1. IInv => TypeOK
  BY DEF IInv
<1> QED
  BY <1>1, KernelInvariant, PTL

\* The worker and any number of forced refreshes run one Chromium at a time.
THEOREM OneChromiumCorrect == Spec => []OneChromium
<1>1. IInv => OneChromium
  BY DEF IInv
<1> QED
  BY <1>1, KernelInvariant, PTL

-----------------------------------------------------------------------------
(***************************************************************************)
(* Refinement: KernelWeb implements AbstractCache.                         *)
(***************************************************************************)

\* Memory and screens hold versions the grid has had.
LEMMA CopiesHeld ==
    ASSUME IInv
    PROVE  /\ Held \in Abstract!Copies
           /\ \A r \in Requests : Shown(answer[r]) \in Abstract!Copies
<1> USE DEF IInv, TypeOK, NothingAhead
<1>1. Held \in Abstract!Copies
  BY DEF Held, Abstract!Copies, Snapshot
<1>2. ASSUME NEW r \in Requests PROVE Shown(answer[r]) \in Abstract!Copies
  BY DEF Shown, Abstract!Copies, Snapshot, Usable
<1> QED
  BY <1>1, <1>2

\* Within a run of the process nothing goes back; a restart forgets.
LEMMA NothingBack ==
    ASSUME IInv, [Next]_vars
    PROVE  /\ value' = Empty \/ (key' = key /\ (UpTo(value, value') \/ value'.key # key))
           /\ \A r \in Requests :
                 answer'[r] # Empty =>
                    key' = key /\ (answer[r] # Empty => answer[r].of <= answer'[r].of)
<1> USE DEF IInv, TypeOK
<1>1. CASE UNCHANGED <<value, answer, key>>
  BY <1>1 DEF UpTo, Usable, Snapshot
<1>2. ASSUME NEW r \in Requests, Look(r)
      PROVE  /\ value' = Empty \/ UpTo(value, value')
             /\ key' = key
             /\ \A q \in Requests :
                   (answer[q] # Empty /\ answer'[q] # Empty) => answer[q].of <= answer'[q].of
  <2>1. value' = value \/ value = Empty
    BY <1>2 DEF Look, TakeFromDisk, NothingFromDisk, MemoryCovers
  <2>2. answer' = [answer EXCEPT ![r] = IF Usable(value') THEN value' ELSE Empty]
    BY <1>2 DEF Look
  <2>3. \A q \in Requests : answer[q] # Empty => value' = value
    BY <1>2 DEF Look, TakeFromDisk, NothingFromDisk, MemoryCovers, Usable
  <2>4. key' = key
    BY <1>2 DEF Look
  <2> QED
    BY <2>1, <2>2, <2>3, <2>4 DEF UpTo, Usable, Snapshot, MemoryCovers
<1>3. ASSUME NEW p \in Procs, StoreMemory(p)
      PROVE  UpTo(value, value') /\ UNCHANGED <<answer, key>>
  BY <1>3 DEF StoreMemory, Goto, ReadCovers
<1>4. ASSUME NEW p \in Procs, Release(p)
      PROVE  /\ UNCHANGED <<value, key>>
             /\ \A r \in Requests :
                   (answer[r] # Empty /\ answer'[r] # Empty) => answer[r].of <= answer'[r].of
  <2>1. UNCHANGED <<value, key>>
    BY <1>4 DEF Release, stateVars
  <2>2. got[p] # Empty => value = got[p]
    BY <1>4 DEF Release, Goto, ReadCovers
  <2>3. \A r \in Requests : answer'[r] = answer[r] \/ answer'[r] = got[p]
    BY <1>4 DEF Release
  <2> QED
    BY <2>1, <2>2, <2>3 DEF MemoryCovers, Snapshot
<1>5. CASE Restart
  BY <1>5 DEF Restart, UpTo, Usable
<1>6. CASE \/ \E r \in Requests : Look(r)
           \/ \E p \in Procs : StoreMemory(p) \/ Release(p)
  BY <1>2, <1>3, <1>4, <1>6 DEF UpTo, Usable, Snapshot
<1>7. Next => \/ UNCHANGED <<value, answer, key>>
              \/ Restart
              \/ \E r \in Requests : Look(r)
              \/ \E p \in Procs : StoreMemory(p) \/ Release(p)
  BY DEF Next, GridChanges, Expire, RetryDue, Kick, KickBusy, KickStart, KickFails, ForceRefresh,
         Acquire, Fetch, NoteAttempt, ReadOk, ReadFails, StoreDisk, stateVars
<1> QED
  BY <1>1, <1>5, <1>6, <1>7 DEF vars, stateVars

LEMMA AbstractStep ==
    ASSUME IInv, IInv', [Next]_vars
    PROVE  [Abstract!Change \/ Abstract!Serve]_(Abstract!vars)
<1> USE DEF IInv, TypeOK
<1>1. CASE GridChanges
  <2>1. Held' = Held /\ grid' = grid + 1
    BY <1>1 DEF GridChanges, Held, stateVars
  <2>2. \A r \in Requests : Shown(answer[r])' = Shown(answer[r])
    BY <1>1 DEF GridChanges, Shown, NothingAhead, Usable
  <2> QED
    BY <2>1, <2>2 DEF Abstract!Change
<1>2. CASE ~GridChanges
  <2>1. grid' = grid
    BY <1>2 DEF Next, vars, Expire, RetryDue, Look, Kick, KickBusy, KickStart, KickFails,
           ForceRefresh, Acquire, Fetch, NoteAttempt, ReadOk, ReadFails, StoreMemory, StoreDisk,
           Release, Restart
  <2>2. Held' \in Abstract!Copies /\ \A r \in Requests : Shown(answer[r])' \in Abstract!Copies
    BY <2>1, CopiesHeld DEF Held, Shown, Abstract!Copies, NothingAhead, Snapshot, Usable
  <2>3. ~Abstract!Older(Held', Held)
    BY NothingBack DEF Abstract!Older, Held, UpTo, Usable, Snapshot
  <2>4. \A r \in Requests : ~Abstract!Older(Shown(answer[r])', Shown(answer[r]))
    BY NothingBack DEF Abstract!Older, Shown, NothingAhead, Usable, Snapshot
  <2> QED
    BY <2>1, <2>2, <2>3, <2>4 DEF Abstract!Serve
<1> QED
  BY <1>1, <1>2

\* The snapshot does what AbstractCache promises, whatever settings the process
\* is restarted with and whatever is on disk.
THEOREM SnapshotServesForward == Spec => ServesForward
<1>1. Init => Abstract!Init
  BY DEF Init, Abstract!Init, Held, Shown
<1>2. IInv /\ IInv' /\ [Next]_vars => [Abstract!Change \/ Abstract!Serve]_(Abstract!vars)
  BY AbstractStep
<1> QED
  BY <1>1, <1>2, KernelInvariant, PTL DEF Spec, ServesForward, Abstract!Spec
=============================================================================
