--------------------------- MODULE SwrCacheProofs ---------------------------
(***************************************************************************)
(* Proofs about SwrCache for every set of threads and every bound.         *)
(*                                                                         *)
(* The argument.  The refresh lock is held exactly while a thread is       *)
(* between the acquisition and the release (LockDiscipline), so a single   *)
(* thread collects and stores at a time.  What it collects is the current  *)
(* external state, which covers everything any reader has seen; nobody     *)
(* else can store before it does, so what it stores still covers them.     *)
(***************************************************************************)
EXTENDS SwrCache, TLAPS

USE ConstantsAssumption DEF ConstantsAssumption, Procs

-----------------------------------------------------------------------------
(***************************************************************************)
(* Types.                                                                  *)
(***************************************************************************)

LEMMA NoLocalType == NoLocal \in Local
  BY DEF NoLocal, Local

LEMMA TypeInit == Init => TypeOK
  <1> SUFFICES ASSUME Init PROVE TypeOK
    OBVIOUS
  <1> USE DEF Init
  <1>1. pending \in BOOLEAN /\ stale \in BOOLEAN
    OBVIOUS
  <1>2. pc \in [Procs -> Holding \cup Outside]
    BY DEF Outside
  <1>3. local \in [Procs -> Local]
    BY NoLocalType
  <1>4. answer \in [Threads -> Value \cup {NoValue}]
    OBVIOUS
  <1> QED
    BY <1>1, <1>2, <1>3, <1>4 DEF TypeOK

\* Every step of the cache keeps every variable in its type.
LEMMA TypeStep == TypeOK /\ [Next]_vars => TypeOK'
  <1> SUFFICES ASSUME TypeOK, [Next]_vars PROVE TypeOK'
    OBVIOUS
  <1> USE NoLocalType DEF TypeOK, Holding, Outside
  <1>1. CASE World
    <2>1. CASE IssuesChange
      BY <2>1 DEF IssuesChange, cacheVars
    <2>2. CASE Expire
      BY <2>2 DEF Expire, worldVars
    <2>3. CASE ChangeTargets
      BY <2>3 DEF ChangeTargets, Poke, cacheVars
    <2>4. CASE InvalidateAfterChange
      BY <2>4 DEF InvalidateAfterChange, Empty
    <2>5. CASE InvalidateForReport
      <3>1. cached' = NoValue /\ stale' = FALSE /\ pokes' \in Nat
        BY <2>5 DEF InvalidateForReport, Empty, Poke
      <3>2. UNCHANGED <<issues, sheet, pending, lock, pc, local, newer, answer>>
        BY <2>5 DEF InvalidateForReport, worldVars
      <3> QED
        BY <3>1, <3>2
    <2> QED
      BY <1>1, <2>1, <2>2, <2>3, <2>4, <2>5 DEF World
  <1>2. ASSUME NEW t \in Threads, NEW f \in BOOLEAN, Begin(t, f)
        PROVE  TypeOK'
    BY <1>2 DEF Begin, Goto, Poke, Local, cacheVars, worldVars
  <1>3. ASSUME NEW t \in Threads, Request(t)
        PROVE  TypeOK'
    <2>1. CASE LookFresh(t)
      BY <2>1 DEF LookFresh, Hit, Return, Goto, cacheVars, worldVars
    <2>2. CASE LookStale(t)
      BY <2>2 DEF LookStale, Hit, Goto, Local, cacheVars, worldVars
    <2>3. CASE LookMiss(t)
      BY <2>3 DEF LookMiss, Goto, cacheVars, worldVars
    <2>4. CASE KickBusy(t)
      BY <2>4 DEF KickBusy, Return, Goto, Local, cacheVars, worldVars
    <2>5. CASE KickStart(t)
      BY <2>5 DEF KickStart, Local, NoLocal, cacheVars, worldVars
    <2>6. CASE KickFails(t)
      BY <2>6 DEF KickFails, cacheVars, worldVars
    <2>7. CASE Ask(t) \/ Acquire(t) \/ MustCollect(t)
      BY <2>7 DEF Ask, Acquire, MustCollect, Goto, cacheVars, worldVars
    <2>8. CASE Reuse(t)
      BY <2>8 DEF Reuse, Return, Goto, cacheVars, worldVars
    <2> QED
      BY <1>3, <2>1, <2>2, <2>3, <2>4, <2>5, <2>6, <2>7, <2>8 DEF Request
  <1>4. ASSUME NEW p \in Procs, Refresh(p)
        PROVE  TypeOK'
    <2>1. ASSUME NEW v \in Value, Collected(p, v)
          PROVE  TypeOK'
      BY <2>1 DEF Collected, Goto, Local, cacheVars, worldVars
    <2>2. CASE CollectOk(p) \/ CollectFails(p)
      BY <2>1, <2>2 DEF CollectOk, CollectFails, Value, Local
    <2>3. CASE CollectRaises(p)
      BY <2>3 DEF CollectRaises, Goto, cacheVars, worldVars
    <2>4. CASE Store(p)
      BY <2>4 DEF Store, Goto, Local, worldVars
    <2>5. CASE Release(p)
      BY <2>5 DEF Release, Goto, Local, cacheVars, worldVars
    <2> QED
      BY <1>4, <2>2, <2>3, <2>4, <2>5 DEF Refresh
  <1>5. CASE UNCHANGED vars
    BY <1>5 DEF vars, cacheVars, worldVars
  <1> QED
    BY <1>1, <1>2, <1>3, <1>4, <1>5 DEF Next

\* Every variable of the cache keeps its type.
THEOREM TypeCorrect == Spec => []TypeOK
  BY TypeInit, TypeStep, PTL DEF Spec

-----------------------------------------------------------------------------
(***************************************************************************)
(* The refresh lock.                                                       *)
(***************************************************************************)

\* No step, and no way of leaving a refresh, separates holding the lock from
\* being between its acquisition and its release.
LEMMA LockStep == TypeOK /\ LockDiscipline /\ [Next]_vars => LockDiscipline'
  <1> SUFFICES ASSUME TypeOK, LockDiscipline, [Next]_vars PROVE LockDiscipline'
    OBVIOUS
  <1> USE DEF TypeOK, LockDiscipline, Holding, Outside
  <1>1. ASSUME UNCHANGED <<pc, lock>>
        PROVE  LockDiscipline'
    BY <1>1
  <1>2. CASE World \/ UNCHANGED vars
    BY <1>1, <1>2 DEF World, IssuesChange, Expire, ChangeTargets,
           InvalidateAfterChange, InvalidateForReport, vars
  <1>3. ASSUME NEW t \in Threads, NEW f \in BOOLEAN, Begin(t, f)
        PROVE  LockDiscipline'
    BY <1>3 DEF Begin, Goto
  <1>4. ASSUME NEW t \in Threads, Request(t)
        PROVE  LockDiscipline'
    <2>1. CASE LookFresh(t) \/ LookStale(t) \/ LookMiss(t) \/ Ask(t)
      BY <2>1 DEF LookFresh, LookStale, LookMiss, Ask, Return, Goto
    <2>2. CASE KickBusy(t)
      BY <2>2 DEF KickBusy, Return, Goto
    <2>3. CASE KickStart(t)
      BY <2>3 DEF KickStart
    <2>4. CASE KickFails(t)
      BY <2>4 DEF KickFails
    <2>5. CASE Acquire(t)
      BY <2>5 DEF Acquire, Goto
    <2>6. CASE Reuse(t)
      BY <2>6 DEF Reuse, Return, Goto
    <2>7. CASE MustCollect(t)
      BY <2>7 DEF MustCollect, Goto
    <2> QED
      BY <1>4, <2>1, <2>2, <2>3, <2>4, <2>5, <2>6, <2>7 DEF Request
  <1>5. ASSUME NEW p \in Procs, Refresh(p)
        PROVE  LockDiscipline'
    <2>1. CASE CollectOk(p) \/ CollectFails(p)
      BY <2>1 DEF CollectOk, CollectFails, Collected, Goto
    <2>2. CASE CollectRaises(p)
      BY <2>2 DEF CollectRaises, Goto
    <2>3. CASE Store(p)
      BY <2>3 DEF Store, Goto
    <2>4. CASE Release(p)
      BY <2>4 DEF Release, Goto
    <2> QED
      BY <1>5, <2>1, <2>2, <2>3, <2>4 DEF Refresh
  <1> QED
    BY <1>2, <1>3, <1>4, <1>5 DEF Next

LEMMA LockInit == Init => LockDiscipline
  BY DEF Init, LockDiscipline, Holding

\* The lock is held exactly by the thread that is refreshing.
THEOREM LockCorrect == Spec => []LockDiscipline
  BY TypeInit, TypeStep, LockInit, LockStep, PTL DEF Spec

\* At any time at most one thread collects external data or writes what it
\* collected to the cache.
THEOREM SingleFlightCorrect == Spec => []SingleFlight
  <1>1. LockDiscipline => SingleFlight
    BY DEF LockDiscipline, SingleFlight, Holding
  <1> QED
    BY <1>1, LockCorrect, PTL

-----------------------------------------------------------------------------
(***************************************************************************)
(* What readers see never goes back.                                       *)
(***************************************************************************)

LEMMA CacheInvInit == Init => CacheInv
  <1> SUFFICES ASSUME Init PROVE CacheInv
    OBVIOUS
  <1>1. NothingAhead
    BY DEF Init, NothingAhead, Known, NoLocal
  <1>2. ReadersCovered
    BY DEF Init, ReadersCovered, CoversReaders, Older, NoLocal
  <1> QED
    BY <1>1, <1>2, TypeInit, LockInit DEF CacheInv

\* Time only moves forward for the external system, and every value is a copy
\* of an existing one or of its present state.
LEMMA NothingAheadStep == TypeOK /\ NothingAhead /\ [Next]_vars => NothingAhead'
  <1> SUFFICES ASSUME TypeOK, NothingAhead, [Next]_vars PROVE NothingAhead'
    OBVIOUS
  <1> USE DEF TypeOK, NothingAhead, Known, Value, Local
  <1>1. ASSUME UNCHANGED <<issues, cached, local, answer>>
        PROVE  NothingAhead'
    BY <1>1
  <1>2. CASE UNCHANGED vars
    BY <1>1, <1>2 DEF vars, worldVars, cacheVars
  <1>3. CASE World
    <2>1. CASE IssuesChange
      BY <2>1 DEF IssuesChange, cacheVars
    <2>2. CASE Expire \/ ChangeTargets
      BY <1>1, <2>2 DEF Expire, ChangeTargets, cacheVars, worldVars
    <2>3. CASE InvalidateAfterChange \/ InvalidateForReport
      BY <2>3 DEF InvalidateAfterChange, InvalidateForReport, Empty, worldVars
    <2> QED
      BY <1>3, <2>1, <2>2, <2>3 DEF World
  <1>4. ASSUME NEW t \in Threads, NEW f \in BOOLEAN, Begin(t, f)
        PROVE  NothingAhead'
    BY <1>4 DEF Begin, cacheVars, worldVars
  <1>5. ASSUME NEW t \in Threads, Request(t)
        PROVE  NothingAhead'
    <2>1. CASE LookFresh(t)
      BY <2>1 DEF LookFresh, Return, NoLocal, cacheVars, worldVars
    <2>2. CASE LookStale(t)
      BY <2>2 DEF LookStale, cacheVars, worldVars
    <2>3. CASE LookMiss(t) \/ Ask(t) \/ Acquire(t) \/ MustCollect(t)
      BY <1>1, <2>3 DEF LookMiss, Ask, Acquire, MustCollect, cacheVars, worldVars
    <2>4. CASE KickBusy(t)
      BY <2>4 DEF KickBusy, Return, NoLocal, cacheVars, worldVars
    <2>5. CASE KickStart(t)
      BY <2>5 DEF KickStart, NoLocal, cacheVars, worldVars
    <2>6. CASE KickFails(t)
      BY <2>6 DEF KickFails, NoLocal, cacheVars, worldVars
    <2>7. CASE Reuse(t)
      BY <2>7 DEF Reuse, Return, NoLocal, cacheVars, worldVars
    <2> QED
      BY <1>5, <2>1, <2>2, <2>3, <2>4, <2>5, <2>6, <2>7 DEF Request
  <1>6. ASSUME NEW p \in Procs, Refresh(p)
        PROVE  NothingAhead'
    <2>1. CASE CollectOk(p)
      BY <2>1 DEF CollectOk, Collected, cacheVars, worldVars
    <2>2. CASE CollectFails(p)
      BY <2>2 DEF CollectFails, Collected, cacheVars, worldVars
    <2>3. CASE CollectRaises(p)
      BY <2>3 DEF CollectRaises, NoLocal, cacheVars, worldVars
    <2>4. CASE Store(p)
      BY <2>4 DEF Store, worldVars
    <2>5. CASE Release(p)
      BY <2>5 DEF Release, NoLocal, cacheVars, worldVars
    <2> QED
      BY <1>6, <2>1, <2>2, <2>3, <2>4, <2>5 DEF Refresh
  <1> QED
    BY <1>2, <1>3, <1>4, <1>5, <1>6 DEF Next

\* The refreshing thread has the lock, so nothing but its own store changes the
\* cache under it except an invalidation; what it collected is the present
\* external state, which by NothingAhead covers every reader.
LEMMA ReadersCoveredStep == CacheInv /\ [Next]_vars => ReadersCovered'
  <1> SUFFICES ASSUME CacheInv, [Next]_vars PROVE ReadersCovered'
    OBVIOUS
  <1> USE DEF CacheInv, TypeOK, ReadersCovered, CoversReaders, Older, Value, Local
  <1>1. ASSUME UNCHANGED <<cached, pc, local, answer>>
        PROVE  ReadersCovered'
    BY <1>1
  <1>2. CASE UNCHANGED vars
    BY <1>1, <1>2 DEF vars, worldVars, cacheVars
  <1>3. CASE World
    <2>1. CASE IssuesChange \/ Expire \/ ChangeTargets
      BY <1>1, <2>1 DEF IssuesChange, Expire, ChangeTargets, cacheVars, worldVars
    <2>2. CASE InvalidateAfterChange \/ InvalidateForReport
      BY <2>2 DEF InvalidateAfterChange, InvalidateForReport, Empty, worldVars
    <2> QED
      BY <1>3, <2>1, <2>2 DEF World
  <1>4. ASSUME NEW t \in Threads, NEW f \in BOOLEAN, Begin(t, f)
        PROVE  ReadersCovered'
    BY <1>4 DEF Begin, Goto, cacheVars, worldVars
  <1>5. ASSUME NEW t \in Threads, Request(t)
        PROVE  ReadersCovered'
    <2>1. CASE LookFresh(t)
      BY <2>1 DEF LookFresh, Return, Goto, NoLocal, cacheVars, worldVars
    <2>2. CASE LookStale(t)
      BY <2>2 DEF LookStale, Goto, cacheVars, worldVars
    <2>3. CASE LookMiss(t) \/ Ask(t)
      BY <2>3 DEF LookMiss, Ask, Goto, cacheVars, worldVars
    <2>4. CASE Acquire(t) \/ MustCollect(t)
      BY <2>4 DEF Acquire, MustCollect, Goto, cacheVars, worldVars
    <2>5. CASE KickBusy(t)
      BY <2>5 DEF KickBusy, Return, Goto, NoLocal, cacheVars, worldVars
    <2>6. CASE KickStart(t)
      BY <2>6 DEF KickStart, NoLocal, cacheVars, worldVars
    <2>7. CASE KickFails(t)
      BY <2>7 DEF KickFails, NoLocal, cacheVars, worldVars
    <2>8. CASE Reuse(t)
      BY <2>8 DEF Reuse, Return, Goto, NoLocal, cacheVars, worldVars
    <2> QED
      BY <1>5, <2>1, <2>2, <2>3, <2>4, <2>5, <2>6, <2>7, <2>8 DEF Request
  <1>6. ASSUME NEW p \in Procs, Refresh(p)
        PROVE  ReadersCovered'
    <2>1. CASE CollectOk(p)
      BY <2>1 DEF CollectOk, Collected, Goto, NothingAhead, Known, cacheVars, worldVars
    <2>2. CASE CollectFails(p)
      BY <2>2 DEF CollectFails, Collected, Goto, cacheVars, worldVars
    <2>3. CASE CollectRaises(p)
      BY <2>3 DEF CollectRaises, Goto, NoLocal, cacheVars, worldVars
    <2>4. CASE Store(p)
      BY <2>4 DEF Store, Goto, LockDiscipline, Holding, worldVars
    <2>5. CASE Release(p)
      BY <2>5 DEF Release, Goto, NoLocal, LockDiscipline, Holding, cacheVars, worldVars
    <2> QED
      BY <1>6, <2>1, <2>2, <2>3, <2>4, <2>5 DEF Refresh
  <1> QED
    BY <1>2, <1>3, <1>4, <1>5, <1>6 DEF Next

\* The inductive invariant holds in every reachable state.
THEOREM CacheInvCorrect == Spec => []CacheInv
  <1>1. CacheInv /\ [Next]_vars => CacheInv'
    BY TypeStep, LockStep, NothingAheadStep, ReadersCoveredStep DEF CacheInv
  <1> QED
    BY CacheInvInit, <1>1, PTL DEF Spec

\* The cache never goes back to an older state of the external system.
THEOREM NoRollbackCorrect == Spec => NoRollback
  <1>1. CacheInv /\ [Next]_vars => [~Older(cached', cached)]_vars
    <2> SUFFICES ASSUME CacheInv, Next PROVE ~Older(cached', cached)
      BY DEF Older, vars, cacheVars
    <2> USE DEF CacheInv, TypeOK, Older, Value
    <2>1. CASE UNCHANGED cached \/ cached' = NoValue
      BY <2>1
    <2>2. CASE World
      BY <2>1, <2>2 DEF World, IssuesChange, Expire, ChangeTargets, InvalidateAfterChange,
             InvalidateForReport, Empty, cacheVars
    <2>3. ASSUME NEW t \in Threads, NEW f \in BOOLEAN, Begin(t, f)
          PROVE  UNCHANGED cached
      BY <2>3 DEF Begin, cacheVars
    <2>4. ASSUME NEW t \in Threads, Request(t)
          PROVE  UNCHANGED cached
      BY <2>4 DEF Request, LookFresh, LookStale, LookMiss, KickBusy, KickStart, KickFails,
             Ask, Acquire, Reuse, MustCollect, cacheVars
    <2>5. ASSUME NEW p \in Procs, Refresh(p)
          PROVE  ~Older(cached', cached)
      <3>1. CASE Store(p)
        BY <3>1 DEF Store, Goto, ReadersCovered
      <3>2. CASE ~Store(p)
        BY <2>1, <2>5, <3>2 DEF Refresh, CollectOk, CollectFails, Collected,
               CollectRaises, Release, cacheVars
      <3> QED
        BY <3>1, <3>2
    <2> QED
      BY <2>1, <2>2, <2>3, <2>4, <2>5 DEF Next
  <1> QED
    BY CacheInvCorrect, <1>1, PTL DEF Spec, NoRollback

\* No thread returns an older state of the external system than before.
THEOREM MonotonicReadsCorrect == Spec => MonotonicReads
  <1> DEFINE Mono == \A t \in Threads : ~Older(answer'[t], answer[t])
  <1>1. CacheInv /\ [Next]_vars => [Mono]_vars
    <2> SUFFICES ASSUME CacheInv, [Next]_vars PROVE Mono
      OBVIOUS
    <2> USE DEF CacheInv, TypeOK, Older, ReadersCovered, CoversReaders, Value
    <2>1. ASSUME UNCHANGED answer
          PROVE  Mono
      BY <2>1
    <2>2. ASSUME NEW t \in Threads, NEW f \in BOOLEAN, Begin(t, f)
          PROVE  Mono
      BY <2>1, <2>2 DEF Begin
    <2>3. ASSUME NEW t \in Threads, Request(t)
          PROVE  Mono
      <3>1. CASE LookFresh(t) \/ Reuse(t)
        BY <3>1 DEF LookFresh, Reuse, Return
      <3>2. CASE KickBusy(t) \/ KickStart(t)
        BY <3>2 DEF KickBusy, KickStart, Return, Goto
      <3>3. CASE UNCHANGED answer
        BY <2>1, <3>3
      <3> QED
        BY <2>3, <3>1, <3>2, <3>3 DEF Request, LookStale, LookMiss, KickFails, Ask,
               Acquire, MustCollect
    <2>4. ASSUME NEW p \in Procs, Refresh(p)
          PROVE  Mono
      <3>1. CASE Release(p)
        BY <3>1 DEF Release, Goto
      <3>2. CASE UNCHANGED answer
        BY <2>1, <3>2
      <3> QED
        BY <2>4, <3>1, <3>2 DEF Refresh, CollectOk, CollectFails, Collected,
               CollectRaises, Store
    <2>5. CASE UNCHANGED vars
      BY <2>1, <2>5 DEF vars
    <2>6. CASE World
      BY <2>1, <2>6 DEF World, IssuesChange, Expire, ChangeTargets,
             InvalidateAfterChange, InvalidateForReport
    <2> QED
      BY <2>2, <2>3, <2>4, <2>5, <2>6 DEF Next
  <1> QED
    BY CacheInvCorrect, <1>1, PTL DEF Spec, MonotonicReads

-----------------------------------------------------------------------------
(***************************************************************************)
(* Refinement: SwrCache implements AbstractCache.                          *)
(***************************************************************************)

\* A value that is not ahead of the external system is one of its versions.
LEMMA VersionIsCopy ==
    ASSUME NEW v \in Value \cup {NoValue}, issues \in Nat, Known(v)
    PROVE  Version(v) \in {{}} \cup {{n} : n \in 0 .. issues}
<1>1. CASE v # NoValue /\ v.ok
  <2>1. v.issues \in 0 .. issues
    BY <1>1 DEF Known, Value
  <2> QED
    BY <1>1, <2>1 DEF Version
<1>2. CASE ~(v # NoValue /\ v.ok)
  BY <1>2 DEF Version
<1> QED
  BY <1>1, <1>2

LEMMA VersionsOlder ==
    ASSUME NEW v, NEW w, ~Older(v, w)
    PROVE  ~Abstract!Older(Version(v), Version(w))
  BY DEF Abstract!Older, Version, Older

\* Every step maps to a change of the external system, to Serve, or to nothing.
LEMMA AbstractStep ==
    ASSUME CacheInv, CacheInv', [Next]_vars,
           [~Older(cached', cached)]_vars,
           [\A t \in Threads : ~Older(answer'[t], answer[t])]_vars
    PROVE  [Abstract!Change \/ Abstract!Serve]_(Abstract!vars)
<1> USE DEF CacheInv, TypeOK
<1>1. CASE UNCHANGED vars
  BY <1>1 DEF vars, cacheVars, worldVars, Abstract!vars, Version
<1>2. CASE IssuesChange
  BY <1>2 DEF IssuesChange, cacheVars, Abstract!Change, Version
<1>3. CASE ~ UNCHANGED vars /\ ~IssuesChange
  <2>1. issues' = issues
    BY <1>3 DEF Next, World, Expire, ChangeTargets, InvalidateAfterChange,
           InvalidateForReport, Begin, Request, LookFresh, LookStale, LookMiss, KickBusy,
           KickStart, KickFails, Ask, Acquire, Reuse, MustCollect, Refresh, CollectOk,
           CollectFails, Collected, CollectRaises, Store, Release, worldVars, vars
  <2>2. Version(cached)' \in Abstract!Copies'
    BY VersionIsCopy, <2>1 DEF NothingAhead, Abstract!Copies, Known, Version, Value
  <2>3. ~Abstract!Older(Version(cached)', Version(cached))
    BY <1>3, VersionsOlder DEF Version, Abstract!Older, Older
  <2>4. \A t \in Threads : Version(answer[t])' \in Abstract!Copies'
    BY VersionIsCopy, <2>1 DEF NothingAhead, Abstract!Copies, Known, Version, Value
  <2>5. \A t \in Threads : ~Abstract!Older(Version(answer[t])', Version(answer[t]))
    BY <1>3, VersionsOlder DEF Version, Abstract!Older, Older
  <2> QED
    BY <2>1, <2>2, <2>3, <2>4, <2>5 DEF Abstract!Serve, Abstract!Copies
<1> QED
  BY <1>1, <1>2, <1>3

\* The cache does what AbstractCache promises, for any number of threads,
\* invalidations, failures and changes of the external system.
THEOREM ServesForwardCorrect == Spec => ServesForward
<1>1. Init => Abstract!Init
  BY DEF Init, Abstract!Init, Version
<1>2. CacheInv /\ CacheInv' /\ [Next]_vars /\ [~Older(cached', cached)]_vars
      /\ [\A t \in Threads : ~Older(answer'[t], answer[t])]_vars
          => [Abstract!Change \/ Abstract!Serve]_(Abstract!vars)
  BY AbstractStep
<1> QED
  BY <1>1, <1>2, CacheInvCorrect, NoRollbackCorrect, MonotonicReadsCorrect, PTL
     DEF Spec, NoRollback, MonotonicReads, ServesForward, Abstract!Spec
=============================================================================
