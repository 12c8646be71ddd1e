--------------------------- MODULE EvidenceProofs ---------------------------
(***************************************************************************)
(* Proofs about the two parts that gather evidence: the check of the       *)
(* tickets cited (EvidenceCheck) and the latch of what Polestar has shown  *)
(* (EosEvidence).  They share no state.                                    *)
(*                                                                         *)
(* What the cache of EvidenceCheck holds, for any number of threads, keys  *)
(* and emptyings.  Answers on their way (`local') are tied to what JIRA    *)
(* has said (`seen') only while their dictionary is the one in place;      *)
(* dictionaries are told apart by the number of emptyings, and no thread   *)
(* holds one of the future.                                                *)
(*                                                                         *)
(* What the latch keeps, for any number of items, days and events.  A      *)
(* refresh carries an answer of Polestar and then a result, while servers  *)
(* change and an admin clears: the answer names only what has been '_OLD', *)
(* leaves out of what is on record only what has left or what it failed to *)
(* name (AnswerIsPast), and the result shows all that the screens have     *)
(* shown and not cleared (MergedCovers).                                   *)
(***************************************************************************)
EXTENDS EvidenceCheck, EosEvidence, TLAPS

\* The answers a thread will put into the dictionary in place.
Awaited(t) ==
    /\ pc[t] \in {"ask", "blank"}
    /\ local[t].into = emptied

\* Answers for the dictionary in place are JIRA's, since it was put there.
GotWasSeen ==
    \A t \in Threads, k \in Keys :
        Awaited(t) /\ local[t].got[k] \in Status => local[t].got[k] \in seen[k]

\* A key that was asked for, without an answer to put in, is gone or unheard.
GapIsOwn ==
    \A t \in Threads, k \in Keys :
        (/\ Awaited(t)
         /\ k \in local[t].missing \ (local[t].todo \cup local[t].single)
         /\ local[t].got[k] = "unasked") => "gone" \in seen[k] \/ k \in unheard

\* Answers that were put in are there until the next emptying.
PutIsHeld ==
    \A t \in Threads, k \in Keys :
        (pc[t] = "blank" /\ local[t].into = emptied /\ local[t].got[k] # "unasked")
            => cache[k] # "unasked"

AllAsked ==
    \A t \in Threads : pc[t] = "blank" => local[t].todo = {} /\ local[t].single = {}

NoneOfTheFuture == \A t \in Threads : local[t].into <= emptied

NothingYet ==
    \A t \in Threads : pc[t] \in {"empty", "stamp", "miss"} => local[t].got = Unasked

OnTheWay == AllAsked /\ NoneOfTheFuture /\ NothingYet /\ GotWasSeen /\ GapIsOwn /\ PutIsHeld

IInv == TypeOK /\ OnTheWay /\ HeldWasSeen /\ BlankIsOwn

-----------------------------------------------------------------------------
\* Nothing is held at the start.
LEMMA InitHolds == Init => IInv
<1> SUFFICES ASSUME Init PROVE IInv
  OBVIOUS
<1>1. TypeOK
  BY EvidenceAssumption DEF Init, TypeOK, Local, NoLocal, Unasked, Status, Keys
<1>2. OnTheWay
  BY DEF Init, OnTheWay, NoneOfTheFuture, AllAsked, NothingYet, GotWasSeen, GapIsOwn,
         PutIsHeld, Awaited, NoLocal, Keys
<1>3. HeldWasSeen /\ BlankIsOwn
  BY DEF Init, HeldWasSeen, BlankIsOwn, Unasked, Status
<1> QED BY <1>1, <1>2, <1>3 DEF IInv

\* What does not touch the cache or what is on its way.
LEMMA QuietStep ==
    ASSUME IInv,
           \/ \E k \in Keys, status \in Status \cup {"gone"} : TicketChanges(k, status)
           \/ Expire
           \/ UNCHANGED vars
    PROVE  IInv'
<1> USE DEF IInv, Awaited, history, vars
<1>1. UNCHANGED <<cache, emptied, pc, local, level, seen, unheard>>
  BY DEF TicketChanges, Expire
<1>2. TypeOK'
  <2>1. CASE \E k \in Keys, status \in Status \cup {"gone"} : TicketChanges(k, status)
    <3>1. PICK k \in Keys, status \in Status \cup {"gone"} : TicketChanges(k, status)
      BY <2>1
    <3>2. jira' \in [Keys -> Status \cup {"gone"}] /\ changes' \in Nat /\ old' = old
      BY <3>1 DEF TypeOK, TicketChanges
    <3> QED BY <1>1, <3>2 DEF TypeOK
  <2>2. CASE Expire
    <3>1. old' = TRUE /\ UNCHANGED <<jira, changes>>
      BY <2>2 DEF Expire
    <3> QED BY <1>1, <3>1 DEF TypeOK
  <2>3. CASE UNCHANGED vars
    BY <2>3 DEF TypeOK
  <2> QED BY <2>1, <2>2, <2>3
<1>3. OnTheWay'
  BY <1>1 DEF OnTheWay, NoneOfTheFuture, AllAsked, NothingYet, GotWasSeen, GapIsOwn, PutIsHeld
<1>4. (HeldWasSeen /\ BlankIsOwn)'
  BY <1>1 DEF HeldWasSeen, BlankIsOwn
<1> QED BY <1>2, <1>3, <1>4

\* The other threads of a step that changes neither the cache nor its number,
\* and forgets nothing of what JIRA said.
LEMMA OthersKeep ==
    ASSUME IInv, NEW t \in Threads,
           UNCHANGED <<cache, emptied>>,
           \A u \in Threads \ {t} : pc'[u] = pc[u] /\ local'[u] = local[u],
           \A k \in Keys : seen[k] \subseteq seen'[k],
           unheard \subseteq unheard',
           pc'[t] = "blank" => local'[t].todo = {} /\ local'[t].single = {},
           local'[t].into <= emptied,
           pc'[t] \in {"empty", "stamp", "miss"} => local'[t].got = Unasked,
           \A k \in Keys : Awaited(t)' /\ local'[t].got[k] \in Status
                              => local'[t].got[k] \in seen'[k],
           \A k \in Keys :
               (/\ Awaited(t)'
                /\ k \in local'[t].missing \ (local'[t].todo \cup local'[t].single)
                /\ local'[t].got[k] = "unasked") => "gone" \in seen'[k] \/ k \in unheard',
           pc'[t] # "blank"
    PROVE  OnTheWay' /\ HeldWasSeen' /\ BlankIsOwn'
<1> USE DEF IInv, OnTheWay
<1>1. (AllAsked /\ NoneOfTheFuture /\ NothingYet)'
  BY DEF AllAsked, NoneOfTheFuture, NothingYet
<1>2. (GotWasSeen /\ GapIsOwn /\ PutIsHeld)'
  BY DEF GotWasSeen, GapIsOwn, PutIsHeld, Awaited
<1>3. (HeldWasSeen /\ BlankIsOwn)'
  BY DEF HeldWasSeen, BlankIsOwn
<1> QED BY <1>1, <1>2, <1>3

\* A request that begins, stamps or judges leaves the cache alone and has
\* nothing on its way.
LEMMA LocalStep ==
    ASSUME IInv, NEW t \in Threads,
           (\E cited \in Pages : Begin(t, cited)) \/ Stamp(t) \/ Judge(t)
    PROVE  IInv'
<1> USE DEF IInv, history
<1>1. /\ UNCHANGED <<cache, emptied, seen, unheard>>
      /\ pc'[t] \notin {"ask", "blank"}
      /\ \A u \in Threads \ {t} : pc'[u] = pc[u] /\ local'[u] = local[u]
  BY DEF TypeOK, Begin, Stamp, Judge, Goto, NoLocal
<1>2. local'[t].into <= emptied
  BY DEF TypeOK, Begin, Stamp, Judge, NoLocal, OnTheWay, NoneOfTheFuture
<1>3. pc'[t] \in {"empty", "stamp", "miss"} => local'[t].got = Unasked
  BY DEF TypeOK, Begin, Stamp, Judge, Goto, NoLocal, OnTheWay, NothingYet
<1>4. TypeOK'
  <2>1. NoLocal \in Local
    BY DEF NoLocal, Local, Unasked
  <2>2. ASSUME NEW cited \in Pages, Begin(t, cited)
        PROVE  TypeOK'
    <3>1. [NoLocal EXCEPT !.cited = cited] \in Local
      BY <2>1, EvidenceAssumption DEF Local
    <3>2. local' \in [Threads -> Local]
      BY <2>2, <3>1 DEF TypeOK, Begin
    <3>3. pc' \in [Threads -> {"idle", "empty", "stamp", "miss", "ask", "blank", "judge"}]
      BY <2>2 DEF TypeOK, Begin, Goto
    <3> QED BY <2>2, <3>2, <3>3 DEF TypeOK, Begin
  <2>3. CASE Stamp(t)
    BY <2>3 DEF TypeOK, Stamp, Goto
  <2>4. CASE Judge(t)
    <3>1. local' \in [Threads -> Local]
      BY <2>1, <2>4 DEF TypeOK, Judge
    <3>2. level' \in [Threads -> {"fine", "warn", "bad"}]
      BY <2>4 DEF TypeOK, Judge, Judged
    <3>3. pc' \in [Threads -> {"idle", "empty", "stamp", "miss", "ask", "blank", "judge"}]
      BY <2>4 DEF TypeOK, Judge, Goto
    <3> QED BY <2>4, <3>1, <3>2, <3>3 DEF TypeOK, Judge
  <2> QED BY <2>2, <2>3, <2>4
<1> QED BY <1>1, <1>2, <1>3, <1>4, OthersKeep DEF Awaited

\* After an emptying no thread's answers are for the dictionary in place.
LEMMA EmptyStep ==
    ASSUME IInv, NEW t \in Threads, Empty(t)
    PROVE  IInv'
<1> USE DEF IInv, OnTheWay, Awaited, history
<1>1. TypeOK'
  BY DEF TypeOK, Empty, Goto, Unasked
<1>2. \A u \in Threads : local'[u].into # emptied' /\ local'[u].into <= emptied'
  BY DEF TypeOK, Empty, NoneOfTheFuture, Local
<1>3. \A u \in Threads : pc'[u] = "blank" => pc[u] = "blank" /\ local'[u] = local[u]
  BY DEF TypeOK, Empty, Goto
<1>4. NothingYet'
  BY DEF TypeOK, Empty, Goto, NothingYet
<1>5. (NoneOfTheFuture /\ AllAsked /\ GotWasSeen /\ GapIsOwn /\ PutIsHeld)'
  BY <1>2, <1>3 DEF NoneOfTheFuture, AllAsked, GotWasSeen, GapIsOwn, PutIsHeld
<1>6. (HeldWasSeen /\ BlankIsOwn)'
  BY DEF Empty, HeldWasSeen, BlankIsOwn, Unasked, Status
<1> QED BY <1>1, <1>4, <1>5, <1>6

\* All that is missing is still to be asked for.
LEMMA MissStep ==
    ASSUME IInv, NEW t \in Threads, Miss(t)
    PROVE  IInv'
<1> USE DEF IInv, history
<1> DEFINE missing == {k \in local[t].cited : cache[k] = "unasked"}
<1>a. local[t] \in Local /\ emptied \in Nat /\ pc[t] = "miss"
  BY DEF TypeOK, Miss, Goto
<1>b. missing \subseteq Keys
  BY <1>a DEF Local
<1>c. /\ local' = [local EXCEPT ![t] = [local[t] EXCEPT !.missing = missing,
                                        !.todo = missing, !.into = emptied]]
      /\ pc' = [pc EXCEPT ![t] = IF missing = {} THEN "judge" ELSE "ask"]
      /\ UNCHANGED <<jira, changes, old, cache, emptied, level, seen, unheard>>
  BY DEF TypeOK, Miss, Goto
<1> HIDE DEF missing
<1>d. [local[t] EXCEPT !.missing = missing, !.todo = missing, !.into = emptied] \in Local
  BY <1>a, <1>b DEF Local
<1>1. TypeOK'
  <2>1. local' \in [Threads -> Local]
    BY <1>c, <1>d DEF TypeOK
  <2>2. pc' \in [Threads -> {"idle", "empty", "stamp", "miss", "ask", "blank", "judge"}]
    BY <1>c DEF TypeOK
  <2> QED BY <1>c, <2>1, <2>2 DEF TypeOK
<1>2. /\ UNCHANGED <<cache, emptied, seen, unheard>>
      /\ pc'[t] \in {"ask", "judge"}
      /\ \A u \in Threads \ {t} : pc'[u] = pc[u] /\ local'[u] = local[u]
      /\ local'[t].missing = local'[t].todo
      /\ local'[t].into = emptied
      /\ local'[t].got = Unasked
  BY <1>a, <1>c DEF TypeOK, Local, OnTheWay, NothingYet
<1>3. \A k \in Keys : local'[t].got[k] \notin Status
  BY <1>2 DEF Unasked, Status
<1>4. emptied \in Nat
  BY DEF TypeOK
<1> QED BY <1>1, <1>2, <1>3, <1>4, OthersKeep

\* JIRA answers for some keys of a chunk, or for one.
LEMMA HearStep ==
    ASSUME IInv, NEW t \in Threads, NEW keys \in SUBSET Keys,
           pc[t] = "ask", \A k \in keys : jira[k] # "gone", Hear(t, keys),
           UNCHANGED <<jira, changes, old, cache, emptied, pc, level, unheard>>
    PROVE  IInv'
<1> USE DEF IInv
<1>1. local[t] \in Local /\ jira \in [Keys -> Status \cup {"gone"}]
  BY DEF TypeOK
<1> DEFINE got == [k \in Keys |-> IF k \in keys THEN jira[k] ELSE local[t].got[k]]
<1>2. local'[t] = [local[t] EXCEPT !.todo = local[t].todo \ keys,
                                   !.single = local[t].single \ keys, !.got = got]
  BY DEF TypeOK, Hear
<1>3. local'[t] \in Local
  <2>1. got \in [Keys -> Status \cup {"unasked"}]
    BY <1>1 DEF Local
  <2> HIDE DEF got
  <2> QED BY <1>1, <1>2, <2>1 DEF Local
<1>4. /\ local'[t].todo = local[t].todo \ keys
      /\ local'[t].single = local[t].single \ keys
      /\ local'[t].missing = local[t].missing
      /\ local'[t].into = local[t].into
      /\ \A k \in Keys : local'[t].got[k] = IF k \in keys THEN jira[k] ELSE local[t].got[k]
  BY <1>1, <1>2 DEF Local
<1>5. \A u \in Threads \ {t} : local'[u] = local[u]
  BY DEF TypeOK, Hear
<1>6. \A k \in Keys : seen'[k] = seen[k] \cup (IF k \in keys THEN {jira[k]} ELSE {})
  BY DEF Hear
<1>7. TypeOK'
  <2>1. local' \in [Threads -> Local]
    BY <1>3, <1>5 DEF TypeOK, Hear
  <2>2. seen' \in [Keys -> SUBSET (Status \cup {"gone"})]
    BY <1>1 DEF TypeOK, Hear
  <2> QED BY <2>1, <2>2 DEF TypeOK
<1>8. \A k \in Keys : Awaited(t)' /\ local'[t].got[k] \in Status
          => local'[t].got[k] \in seen'[k]
  BY <1>4, <1>6 DEF OnTheWay, GotWasSeen, Awaited
<1>9. ASSUME NEW k \in Keys, Awaited(t)',
             k \in local'[t].missing \ (local'[t].todo \cup local'[t].single),
             local'[t].got[k] = "unasked"
      PROVE  "gone" \in seen'[k] \/ k \in unheard'
  <2>1. k \notin keys
    BY <1>1, <1>4, <1>9 DEF Status
  <2> QED BY <1>4, <1>6, <1>9, <2>1 DEF OnTheWay, GapIsOwn, Awaited
<1>10. local'[t].into <= emptied
  BY <1>4 DEF OnTheWay, NoneOfTheFuture
<1> QED BY <1>5, <1>6, <1>7, <1>8, <1>9, <1>10, OthersKeep

LEMMA ChunkFailsStep ==
    ASSUME IInv, NEW t \in Threads, ChunkFails(t)
    PROVE  IInv'
<1> USE DEF IInv, history
<1> DEFINE keys == ChunkOf(local[t].todo)
<1>1. local[t] \in Local /\ pc[t] = "ask" /\ local[t].single = {}
  BY DEF TypeOK, ChunkFails
<1>2. keys \subseteq local[t].todo /\ local[t].todo \subseteq Keys
  BY <1>1 DEF ChunkOf, Local
<1> HIDE DEF keys
<1>3. local'[t] = [local[t] EXCEPT !.todo = @ \ keys, !.single = keys]
  BY DEF TypeOK, ChunkFails, keys
<1>4. /\ local'[t].todo \cup local'[t].single = local[t].todo
      /\ local'[t].missing = local[t].missing
      /\ local'[t].into = local[t].into
      /\ local'[t].got = local[t].got
  BY <1>1, <1>2, <1>3 DEF Local
<1>5. \A u \in Threads \ {t} : local'[u] = local[u]
  BY DEF TypeOK, ChunkFails
<1>6. UNCHANGED <<jira, changes, old, cache, emptied, pc, level, seen, unheard>>
  BY DEF ChunkFails
<1>7. TypeOK'
  <2>1. local'[t] \in Local
    BY <1>1, <1>2, <1>3 DEF Local
  <2>2. local' \in [Threads -> Local]
    BY <1>5, <2>1 DEF TypeOK, ChunkFails
  <2> QED BY <1>6, <2>2 DEF TypeOK
<1>8. local'[t].into <= emptied
  BY <1>4 DEF OnTheWay, NoneOfTheFuture
<1>9. \A k \in Keys : Awaited(t)' /\ local'[t].got[k] \in Status
          => local'[t].got[k] \in seen'[k]
  BY <1>1, <1>4, <1>6 DEF OnTheWay, GotWasSeen, Awaited
<1>10. \A k \in Keys :
          (/\ Awaited(t)'
           /\ k \in local'[t].missing \ (local'[t].todo \cup local'[t].single)
           /\ local'[t].got[k] = "unasked") => "gone" \in seen'[k] \/ k \in unheard'
  BY <1>1, <1>4, <1>6 DEF OnTheWay, GapIsOwn, Awaited
<1> QED BY <1>1, <1>5, <1>6, <1>7, <1>8, <1>9, <1>10, OthersKeep

LEMMA OneFailsStep ==
    ASSUME IInv, NEW t \in Threads, NEW k \in Keys, OneFails(t, k)
    PROVE  IInv'
<1> USE DEF IInv
<1>1. local[t] \in Local /\ pc[t] = "ask"
  BY DEF TypeOK, OneFails
<1>2. local'[t] = [local[t] EXCEPT !.single = @ \ {k}]
  BY DEF TypeOK, OneFails
<1>3. /\ local'[t].todo = local[t].todo
      /\ local'[t].single = local[t].single \ {k}
      /\ local'[t].missing = local[t].missing
      /\ local'[t].into = local[t].into
      /\ local'[t].got = local[t].got
  BY <1>1, <1>2 DEF Local
<1>4. \A u \in Threads \ {t} : local'[u] = local[u]
  BY DEF TypeOK, OneFails
<1>5. UNCHANGED <<jira, changes, old, cache, emptied, pc, level>>
  BY DEF OneFails
<1>6. /\ \A j \in Keys : seen[j] \subseteq seen'[j]
      /\ unheard \subseteq unheard'
      /\ "gone" \in seen'[k] \/ k \in unheard'
  BY DEF TypeOK, OneFails
<1>7. TypeOK'
  <2>1. local'[t] \in Local
    BY <1>1, <1>2 DEF Local
  <2>2. local' \in [Threads -> Local]
    BY <1>4, <2>1 DEF TypeOK, OneFails
  <2>3. seen' \in [Keys -> SUBSET (Status \cup {"gone"})] /\ unheard' \in SUBSET Keys
    BY DEF TypeOK, OneFails
  <2> QED BY <1>5, <2>2, <2>3 DEF TypeOK
<1>8. local'[t].into <= emptied
  BY <1>3 DEF OnTheWay, NoneOfTheFuture
<1>9. \A j \in Keys : Awaited(t)' /\ local'[t].got[j] \in Status
          => local'[t].got[j] \in seen'[j]
  BY <1>1, <1>3, <1>5, <1>6 DEF OnTheWay, GotWasSeen, Awaited
<1>10. \A j \in Keys :
          (/\ Awaited(t)'
           /\ j \in local'[t].missing \ (local'[t].todo \cup local'[t].single)
           /\ local'[t].got[j] = "unasked") => "gone" \in seen'[j] \/ j \in unheard'
  BY <1>1, <1>3, <1>5, <1>6 DEF OnTheWay, GapIsOwn, Awaited
<1> QED BY <1>1, <1>4, <1>5, <1>6, <1>7, <1>8, <1>9, <1>10, OthersKeep

\* The answers reach the cache only if their dictionary is in place; they are
\* then JIRA's, and replace nothing by an unasked key.
LEMMA UpdateStep ==
    ASSUME IInv, NEW t \in Threads, Update(t)
    PROVE  IInv'
<1> USE DEF IInv, history
<1>1. /\ pc[t] = "ask" /\ pc' = [pc EXCEPT ![t] = "blank"]
      /\ local[t].todo = {} /\ local[t].single = {}
      /\ UNCHANGED <<jira, changes, old, emptied, local, level, seen, unheard>>
      /\ local[t] \in Local
  BY DEF TypeOK, Update, Goto
<1>2. \A k \in Keys : cache'[k] =
          IF local[t].into = emptied /\ local[t].got[k] # "unasked"
          THEN local[t].got[k] ELSE cache[k]
  BY DEF Update, Answered
<1>3. \A k \in Keys : local[t].got[k] \in Status \cup {"unasked"}
  BY <1>1 DEF Local
<1>4. TypeOK'
  <2>1. cache' \in [Keys -> Status \cup {"blank", "unasked"}]
    BY <1>2, <1>3 DEF TypeOK, Update
  <2> QED BY <1>1, <2>1 DEF TypeOK
<1>5. \A k \in Keys : cache[k] # "unasked" => cache'[k] # "unasked"
  BY <1>2
<1>6. \A u \in Threads : pc'[u] = IF u = t THEN "blank" ELSE pc[u]
  BY <1>1 DEF TypeOK
<1>7. (AllAsked /\ NoneOfTheFuture /\ NothingYet)'
  BY <1>1, <1>6 DEF OnTheWay, AllAsked, NoneOfTheFuture, NothingYet
<1>8. (GotWasSeen /\ GapIsOwn)'
  BY <1>1, <1>6 DEF OnTheWay, GotWasSeen, GapIsOwn, Awaited
<1>9. PutIsHeld'
  BY <1>1, <1>2, <1>5, <1>6 DEF OnTheWay, PutIsHeld
<1>10. HeldWasSeen'
  BY <1>1, <1>2, <1>3 DEF OnTheWay, GotWasSeen, Awaited, HeldWasSeen
<1>11. BlankIsOwn'
  BY <1>1, <1>2, <1>3 DEF BlankIsOwn, Status
<1> QED BY <1>4, <1>7, <1>8, <1>9, <1>10, <1>11 DEF OnTheWay

\* A key is left blank in the dictionary it was asked for only if there was no
\* answer to put in.
LEMMA BlankStep ==
    ASSUME IInv, NEW t \in Threads, Blank(t)
    PROVE  IInv'
<1> USE DEF IInv
<1> DEFINE blank == {k \in local[t].missing : cache[k] = "unasked"}
<1>1. /\ pc[t] = "blank" /\ pc' = [pc EXCEPT ![t] = "judge"]
      /\ UNCHANGED <<jira, changes, old, emptied, local, level, seen>>
      /\ local[t] \in Local
  BY DEF TypeOK, Blank, Goto
<1>2. /\ cache' = [k \in Keys |-> IF k \in blank THEN "blank" ELSE cache[k]]
      /\ unheard' = unheard \cup (IF local[t].into = emptied THEN {} ELSE blank)
  BY DEF Blank
<1>3. blank \subseteq Keys
  BY <1>1 DEF Local
<1>4. \A k \in blank : k \in local[t].missing /\ cache[k] = "unasked"
  OBVIOUS
<1> HIDE DEF blank
<1>5. TypeOK'
  <2>1. cache' \in [Keys -> Status \cup {"blank", "unasked"}]
    BY <1>2 DEF TypeOK
  <2>2. unheard' \in SUBSET Keys
    BY <1>2, <1>3 DEF TypeOK
  <2>3. pc' \in [Threads -> {"idle", "empty", "stamp", "miss", "ask", "blank", "judge"}]
    BY <1>1 DEF TypeOK
  <2> QED BY <1>1, <2>1, <2>2, <2>3 DEF TypeOK
<1>6. \A u \in Threads : pc'[u] = IF u = t THEN "judge" ELSE pc[u]
  BY <1>1 DEF TypeOK
<1>7. (AllAsked /\ NoneOfTheFuture /\ NothingYet)'
  BY <1>1, <1>6 DEF OnTheWay, AllAsked, NoneOfTheFuture, NothingYet
<1>8. (GotWasSeen /\ GapIsOwn)'
  BY <1>1, <1>2, <1>6 DEF OnTheWay, GotWasSeen, GapIsOwn, Awaited
<1>9. PutIsHeld'
  BY <1>1, <1>2, <1>6 DEF OnTheWay, PutIsHeld
<1>10. HeldWasSeen'
  BY <1>1, <1>2 DEF HeldWasSeen, Status
<1>11. BlankIsOwn'
  <2> SUFFICES ASSUME NEW k \in Keys, cache'[k] = "blank"
               PROVE  "gone" \in seen'[k] \/ k \in unheard'
    BY DEF BlankIsOwn
  <2>1. CASE k \notin blank
    BY <1>1, <1>2, <2>1 DEF BlankIsOwn
  <2>2. CASE k \in blank /\ local[t].into # emptied
    BY <1>2, <2>2
  <2>3. CASE k \in blank /\ local[t].into = emptied
    <3>1. local[t].got[k] = "unasked"
      BY <1>1, <1>4, <2>3 DEF OnTheWay, PutIsHeld
    <3>2. "gone" \in seen[k] \/ k \in unheard
      BY <1>1, <1>4, <2>3, <3>1 DEF OnTheWay, GapIsOwn, AllAsked, Awaited
    <3> QED BY <1>1, <1>2, <3>2
  <2> QED BY <2>1, <2>2, <2>3
<1> QED BY <1>5, <1>7, <1>8, <1>9, <1>10, <1>11 DEF OnTheWay

-----------------------------------------------------------------------------
\* One step per action.
LEMMA StepHolds == IInv /\ [Next]_vars => IInv'
<1> SUFFICES ASSUME IInv, [Next]_vars PROVE IInv'
  OBVIOUS
<1>1. CASE UNCHANGED vars
  BY <1>1, QuietStep
<1>2. CASE \E k \in Keys, status \in Status \cup {"gone"} : TicketChanges(k, status)
  BY <1>2, QuietStep
<1>3. CASE Expire
  BY <1>3, QuietStep
<1>4. CASE \E t \in Threads, cited \in Pages : Begin(t, cited)
  BY <1>4, LocalStep
<1>5. ASSUME NEW t \in Threads, Request(t)
      PROVE  IInv'
  <2>1. CASE Empty(t)
    BY <2>1, EmptyStep
  <2>2. CASE Stamp(t) \/ Judge(t)
    BY <2>2, LocalStep
  <2>3. CASE Miss(t)
    BY <2>3, MissStep
  <2>4. CASE AskChunk(t)
    <3>1. ChunkOf(local[t].todo) \in SUBSET Keys
      BY DEF IInv, TypeOK, Local, ChunkOf
    <3> QED BY <2>4, <3>1, HearStep DEF AskChunk
  <2>5. CASE ChunkFails(t)
    BY <2>5, ChunkFailsStep
  <2>6. ASSUME NEW k \in Keys, AskOne(t, k)
        PROVE  IInv'
    BY <2>6, HearStep DEF AskOne
  <2>7. ASSUME NEW k \in Keys, OneFails(t, k)
        PROVE  IInv'
    BY <2>7, OneFailsStep
  <2>8. CASE Update(t)
    BY <2>8, UpdateStep
  <2>9. CASE Blank(t)
    BY <2>9, BlankStep
  <2> QED BY <1>5, <2>1, <2>2, <2>3, <2>4, <2>5, <2>6, <2>7, <2>8, <2>9 DEF Request
<1> QED BY <1>1, <1>2, <1>3, <1>4, <1>5 DEF Next

\* The inductive invariant holds throughout.
THEOREM EvidenceInvariant == Spec => []IInv
BY InitHolds, StepHolds, PTL DEF Spec

\* Statuses in the cache of evidence_check.py were told by JIRA since the cache
\* was last emptied, however requests overlap.
THEOREM HeldStatusesAreCurrent == Spec => []HeldWasSeen
<1>1. IInv => HeldWasSeen
  BY DEF IInv
<1> QED BY <1>1, EvidenceInvariant, PTL

\* _fetch_statuses isolates the keys of a chunk from one another: a blank is
\* the key's own.
THEOREM BlanksAreOwn == Spec => []BlankIsOwn
<1>1. IInv => BlankIsOwn
  BY DEF IInv
<1> QED BY <1>1, EvidenceInvariant, PTL

\* The variables keep their types.
THEOREM EvidenceTypes == Spec => []TypeOK
<1>1. IInv => TypeOK
  BY DEF IInv
<1> QED BY <1>1, EvidenceInvariant, PTL

-----------------------------------------------------------------------------
(***************************************************************************)
(* The latch of the Polestar evidence.                                     *)
(***************************************************************************)

USE DEF Day

\* An observation on record was made on a day that has been, of an item that is
\* '_OLD' or was.
SeenIsPast ==
    \A i \in Items : observed[i] # NoRow => observed[i].last <= day /\ i \in renamed \cup left

\* What Polestar answered is so, or was; what it did not name, though it is on
\* record, has really left.
AnswerIsPast ==
    current # Unknown =>
        /\ current \subseteq renamed \cup left
        /\ \A i \in Items \ current : observed[i] # NoRow => i \in left \cup missed

AnswerKnown == step = "record" => current # Unknown

\* A result shows all that the screens have shown, and as disposed of only what
\* has left, or what its answer did not name.
Covers(v, unnamed) ==
    /\ shown \subseteq Evidence(v)
    /\ \A i \in Evidence(v) : ~v[i].present => i \in left \cup unnamed

MergedCovers == step = "store" => merged # NoView /\ Covers(merged, missed)
ViewCovers == view # NoView => Covers(view, hidden)
ShownRecorded == shown \subseteq Recorded

LatchInv ==
    /\ LatchTypeOK
    /\ SeenIsPast
    /\ AnswerIsPast
    /\ AnswerKnown
    /\ MergedCovers
    /\ ViewCovers
    /\ ShownRecorded

LEMMA LatchBegins == LatchInit => LatchInv
<1> SUFFICES ASSUME LatchInit PROVE LatchInv
  OBVIOUS
<1>0. 0 \in 0 .. MaxDay /\ 0 \in 0 .. MaxEvents
  BY LatchAssumption
<1>1. LatchTypeOK
  BY <1>0 DEF LatchInit, LatchTypeOK
<1>2. /\ SeenIsPast /\ AnswerIsPast /\ AnswerKnown
      /\ MergedCovers /\ ViewCovers /\ ShownRecorded
  BY DEF LatchInit, SeenIsPast, AnswerIsPast, AnswerKnown, MergedCovers, ViewCovers, ShownRecorded
<1> QED
  BY <1>1, <1>2 DEF LatchInv

\* The servers or the targets change, or a day passes.
WorldMoves ==
    /\ UNCHANGED <<observed, view, hidden, refreshVars, shown>>
    /\ renamed' \in SUBSET Items /\ left' \in SUBSET Items /\ day' \in Day
    /\ targets' \in SUBSET Items /\ clearing' \in BOOLEAN /\ events' \in 0 .. MaxEvents
    /\ renamed \cup left \subseteq renamed' \cup left' /\ left \subseteq left'
    /\ day <= day'

LEMMA WorldKeeps ==
    ASSUME LatchInv,
           \/ NextDay
           \/ \E i \in Items : Convert(i) \/ LeaveOld(i) \/ Exclude(i) \/ Retarget(i)
    PROVE  LatchInv'
<1>1. WorldMoves
  <2>0. events + 1 \in Nat /\ (events < MaxEvents => events + 1 \in 0 .. MaxEvents)
    BY LatchAssumption DEF LatchInv, LatchTypeOK
  <2>1. CASE NextDay
    BY <2>1, LatchAssumption DEF WorldMoves, LatchInv, LatchTypeOK, NextDay
  <2>2. ASSUME NEW i \in Items, Convert(i) \/ LeaveOld(i)
        PROVE  WorldMoves
    BY <2>0, <2>2, LatchAssumption DEF WorldMoves, LatchInv, LatchTypeOK, Convert, LeaveOld, Event
  <2>3. ASSUME NEW i \in Items, Exclude(i) \/ Retarget(i)
        PROVE  WorldMoves
    <3>1. /\ events < MaxEvents /\ events' = events + 1
          /\ targets' \in SUBSET Items
      BY <2>3 DEF LatchInv, LatchTypeOK, Exclude, Retarget, Toggle, Event
    <3>2. /\ UNCHANGED <<renamed, day, left, observed, view, hidden, refreshVars, shown>>
          /\ clearing' \in BOOLEAN
      BY <2>3 DEF LatchInv, LatchTypeOK, Exclude, Retarget
    <3>3. renamed \in SUBSET Items /\ left \in SUBSET Items /\ day \in Day
      BY DEF LatchInv, LatchTypeOK
    <3>4. day <= day
      BY <3>3, LatchAssumption
    <3> QED
      BY <2>0, <3>1, <3>2, <3>3, <3>4 DEF WorldMoves
  <2> QED
    BY <2>1, <2>2, <2>3
<1>2. LatchTypeOK'
  BY <1>1 DEF WorldMoves, LatchInv, LatchTypeOK, refreshVars
<1>3. SeenIsPast'
  <2>1. \A i \in Items : observed[i] # NoRow => observed[i].last \in Nat
    BY DEF LatchInv, LatchTypeOK, Row
  <2>2. day \in Nat /\ day' \in Nat
    BY <1>1 DEF WorldMoves, LatchInv, LatchTypeOK
  <2> QED
    BY <1>1, <2>1, <2>2 DEF WorldMoves, LatchInv, SeenIsPast
<1>4. AnswerIsPast' /\ AnswerKnown'
  BY <1>1 DEF WorldMoves, LatchInv, AnswerIsPast, AnswerKnown, refreshVars
<1>5. (MergedCovers /\ ViewCovers /\ ShownRecorded)'
  BY <1>1 DEF WorldMoves, LatchInv, MergedCovers, ViewCovers, ShownRecorded, Covers, Evidence,
     Recorded, refreshVars
<1> QED
  BY <1>2, <1>3, <1>4, <1>5 DEF LatchInv

\* A refresh starts and asks Polestar.
LEMMA AskKeeps ==
    ASSUME LatchInv,
           StartRefresh \/ QueryOk \/ QueryEmpty \/ QueryFails \/ RecordFails \/ MergeRaises
    PROVE  LatchInv'
<1>1. /\ UNCHANGED <<worldVars, events, observed, view, hidden, clearing, shown>>
      /\ step' # "store" /\ step' \in {"idle", "query", "record", "merge", "store"}
      /\ merged' \in {merged, NoView}
      /\ asked' \in {asked, targets, {}}
      /\ missed' \in SUBSET Items
      /\ \/ current' = current /\ missed' = missed
         \/ current' \in SUBSET renamed /\ missed' = renamed \ current'
         \/ current' = Unknown
  BY DEF StartRefresh, QueryOk, QueryEmpty, QueryFails, RecordFails, MergeRaises, To, Answer,
     Converted, Dropped, LatchInv, LatchTypeOK
<1>2. LatchTypeOK'
  <2>1. current' = Unknown \/ current' \in SUBSET Items
    BY <1>1 DEF LatchInv, LatchTypeOK
  <2> QED
    BY <1>1, <2>1 DEF LatchInv, LatchTypeOK, worldVars
<1>3. SeenIsPast'
  BY <1>1 DEF LatchInv, SeenIsPast, worldVars
<1>4. AnswerIsPast'
  BY <1>1 DEF LatchInv, AnswerIsPast, SeenIsPast, worldVars, LatchTypeOK
<1>6. AnswerKnown'
  BY LatchAssumption DEF LatchInv, AnswerKnown, LatchTypeOK, StartRefresh, QueryOk, QueryEmpty,
     QueryFails, RecordFails, MergeRaises, To, Answer, Converted
<1>5. (MergedCovers /\ ViewCovers /\ ShownRecorded)'
  BY <1>1 DEF LatchInv, MergedCovers, ViewCovers, ShownRecorded, Covers, Evidence,
     Recorded, worldVars
<1> QED
  BY <1>2, <1>3, <1>4, <1>5, <1>6 DEF LatchInv

\* What the table has of an item after a refresh has recorded its answer.
LEMMA Recording ==
    ASSUME LatchTypeOK, Record, NEW i \in Items
    PROVE  observed'[i] = IF i \in current THEN Observed(observed[i]) ELSE observed[i]
BY DEF Record

LEMMA ObservedTyped ==
    ASSUME LatchTypeOK, NEW i \in Items
    PROVE  /\ Observed(observed[i]) \in Row
           /\ Observed(observed[i]) # NoRow
           /\ Observed(observed[i]).last = day
           /\ observed[i] # NoRow => Observed(observed[i]).first = observed[i].first
<1>1. Observed(observed[i]) \in Row
  BY DEF Observed, Row, LatchTypeOK
<1>2. Observed(observed[i]) # NoRow
  BY <1>1, LatchAssumption
<1> QED
  BY <1>1, <1>2 DEF Observed

LEMMA RecordKeeps ==
    ASSUME LatchInv, Record
    PROVE  LatchInv'
<1> USE DEF LatchInv
<1>0. current # Unknown
  BY DEF Record, To, AnswerKnown
<1>1. /\ UNCHANGED <<worldVars, events, view, hidden, asked, current, merged, missed, clearing, shown>>
      /\ step = "record" /\ step' = "merge"
  BY DEF Record, To
<1>2. observed' \in [Items -> Row \cup {NoRow}]
  <2>1. \A i \in Items :
           (IF i \in current THEN Observed(observed[i]) ELSE observed[i]) \in Row \cup {NoRow}
    BY ObservedTyped DEF LatchTypeOK
  <2> QED
    BY <2>1 DEF Record
<1>3. LatchTypeOK'
  BY <1>1, <1>2 DEF LatchTypeOK, worldVars
<1>4. SeenIsPast'
  <2> SUFFICES ASSUME NEW i \in Items, observed'[i] # NoRow
               PROVE  observed'[i].last <= day /\ i \in renamed \cup left
    BY <1>1 DEF SeenIsPast, worldVars
  <2>1. CASE i \in current
    BY <1>0, <1>1, <2>1, Recording, ObservedTyped DEF LatchTypeOK, AnswerIsPast
  <2>2. CASE i \notin current
    BY <2>2, Recording DEF SeenIsPast
  <2> QED
    BY <2>1, <2>2
<1>5. AnswerIsPast' /\ AnswerKnown'
  BY <1>1, Recording DEF AnswerIsPast, AnswerKnown, worldVars
<1>6. (MergedCovers /\ ViewCovers)'
  BY <1>1 DEF MergedCovers, ViewCovers, Covers, Evidence, worldVars
<1>7. ShownRecorded'
  <2>1. Recorded \subseteq Recorded'
    BY Recording, ObservedTyped DEF Recorded
  <2> QED
    BY <1>1, <2>1 DEF ShownRecorded
<1> QED
  BY <1>3, <1>4, <1>5, <1>6, <1>7

LEMMA MergeKeeps ==
    ASSUME LatchInv, Merge
    PROVE  LatchInv'
<1> USE DEF LatchInv
<1>1. /\ UNCHANGED <<worldVars, events, observed, view, hidden, asked, current, missed, clearing, shown>>
      /\ step' = "store"
      /\ merged' = [i \in Items |-> IF observed[i] = NoRow THEN NoRow ELSE Latched(i)]
  BY DEF Merge, To
<1>2. \A i \in Items : observed[i] # NoRow =>
         /\ Latched(i) \in Entry /\ Latched(i) # NoRow
         /\ Latched(i).present <=> (current = Unknown \/ i \in current)
  <2> SUFFICES ASSUME NEW i \in Items, observed[i] # NoRow
               PROVE  /\ Latched(i) \in Entry /\ Latched(i) # NoRow
                      /\ Latched(i).present <=> (current = Unknown \/ i \in current)
    OBVIOUS
  <2>2. Latched(i) \in Entry
    BY DEF Latched, Entry
  <2> QED
    BY <2>2, LatchAssumption DEF Latched
<1>3. merged' \in View /\ merged' # NoView
  <2>1. merged' \in View
    BY <1>1, <1>2 DEF View
  <2> QED
    BY <2>1, LatchAssumption
<1>4. LatchTypeOK'
  BY <1>1, <1>3 DEF LatchTypeOK, worldVars
<1>5. Evidence(merged)' = Recorded
  BY <1>1, <1>2 DEF Evidence, Recorded
<1>6. \A i \in Recorded : ~merged'[i].present => i \in left \cup missed
  BY <1>1, <1>2 DEF Recorded, AnswerIsPast
<1>7. MergedCovers'
  BY <1>1, <1>3, <1>5, <1>6 DEF MergedCovers, Covers, ShownRecorded, worldVars
<1>8. (SeenIsPast /\ AnswerIsPast /\ AnswerKnown /\ ViewCovers /\ ShownRecorded)'
  BY <1>1 DEF SeenIsPast, AnswerIsPast, AnswerKnown, ViewCovers, ShownRecorded, Covers,
     Evidence, Recorded, worldVars
<1> QED
  BY <1>4, <1>7, <1>8

LEMMA StoreKeeps ==
    ASSUME LatchInv, Store
    PROVE  LatchInv'
<1> USE DEF LatchInv
<1>1. /\ UNCHANGED <<worldVars, events, observed, clearing>>
      /\ step = "store" /\ step' = "idle" /\ view' = merged /\ current' = Unknown
      /\ shown' = shown \cup (Evidence(merged) \cap Recorded)
      /\ merged' = NoView /\ asked' = {} /\ missed' = {} /\ hidden' = missed
  BY DEF Store, StoreAs, To, Dropped, worldVars
<1>2. LatchTypeOK'
  BY <1>1 DEF LatchTypeOK, worldVars, Evidence
<1>3. ViewCovers'
  BY <1>1 DEF MergedCovers, ViewCovers, Covers, Evidence, worldVars
<1>4. (SeenIsPast /\ AnswerIsPast /\ AnswerKnown /\ MergedCovers /\ ShownRecorded)'
  BY <1>1 DEF SeenIsPast, AnswerIsPast, AnswerKnown, MergedCovers, ShownRecorded,
     Recorded, worldVars
<1> QED
  BY <1>2, <1>3, <1>4

\* An admin's clear, or a crash.
LEMMA ClearKeeps ==
    ASSUME LatchInv, Invalidate \/ Crash \/ \E i \in Items : Delete(i)
    PROVE  LatchInv'
<1> USE DEF LatchInv
<1>1. CASE Invalidate
  <2>1. UNCHANGED <<worldVars, events, observed, refreshVars, shown>> /\ view' = NoView
        /\ clearing' = FALSE /\ hidden' = {}
    BY <1>1 DEF Invalidate
  <2>2. LatchTypeOK'
    BY <2>1 DEF LatchTypeOK, worldVars, refreshVars
  <2> QED
    BY <2>1, <2>2 DEF SeenIsPast, AnswerIsPast, AnswerKnown, MergedCovers, ViewCovers,
       ShownRecorded, Covers, Evidence, Recorded, worldVars, refreshVars
<1>2. CASE Crash
  <2>1. /\ UNCHANGED <<worldVars, observed, shown>> /\ step' = "idle" /\ view' = NoView
        /\ current' = Unknown /\ merged' = NoView /\ clearing' = FALSE
        /\ asked' = {} /\ missed' = {} /\ hidden' = {}
        /\ events' \in 0 .. MaxEvents
    BY <1>2, LatchAssumption DEF Crash, Event, LatchTypeOK, Dropped
  <2>2. LatchTypeOK'
    BY <2>1 DEF LatchTypeOK, worldVars
  <2> QED
    BY <2>1, <2>2 DEF SeenIsPast, AnswerIsPast, AnswerKnown, MergedCovers, ViewCovers,
       ShownRecorded, Recorded, worldVars
<1>3. ASSUME NEW i \in Items, Delete(i) PROVE LatchInv'
  <2>1. /\ UNCHANGED <<worldVars, view, hidden, refreshVars>>
        /\ observed' = [observed EXCEPT ![i] = NoRow] /\ shown' = shown \ {i}
        /\ clearing' = TRUE /\ events' \in 0 .. MaxEvents
    BY <1>3, LatchAssumption DEF Delete, Event, LatchTypeOK
  <2>2. LatchTypeOK'
    BY <2>1 DEF LatchTypeOK, worldVars, refreshVars
  <2>3. \A j \in Items : observed'[j] = IF j = i THEN NoRow ELSE observed[j]
    BY <2>1 DEF LatchTypeOK
  <2>4. (SeenIsPast /\ AnswerIsPast /\ AnswerKnown)'
    BY <2>1, <2>3 DEF SeenIsPast, AnswerIsPast, AnswerKnown, worldVars, refreshVars
  <2>5. (MergedCovers /\ ViewCovers)'
    BY <2>1 DEF MergedCovers, ViewCovers, Covers, Evidence, worldVars, refreshVars
  <2>6. ShownRecorded'
    BY <2>1, <2>3 DEF ShownRecorded, Recorded
  <2> QED
    BY <2>2, <2>4, <2>5, <2>6
<1> QED
  BY <1>1, <1>2, <1>3

LEMMA LatchGoesOn == LatchInv /\ [LatchNext]_latchVars => LatchInv'
<1> SUFFICES ASSUME LatchInv, [LatchNext]_latchVars PROVE LatchInv'
  OBVIOUS
<1>1. ASSUME UNCHANGED latchVars PROVE LatchInv'
  <2>1. LatchTypeOK'
    BY <1>1 DEF latchVars, worldVars, refreshVars, LatchInv, LatchTypeOK
  <2> QED
    BY <1>1, <2>1 DEF latchVars, worldVars, refreshVars, LatchInv, SeenIsPast, AnswerIsPast,
       AnswerKnown, MergedCovers, ViewCovers, ShownRecorded, Covers, Evidence, Recorded
<1>2. CASE \E i \in Items : Convert(i) \/ LeaveOld(i) \/ Exclude(i) \/ Retarget(i) \/ Delete(i)
  BY <1>2, WorldKeeps, ClearKeeps
<1>3. CASE Refresh
  BY <1>3, AskKeeps, RecordKeeps, MergeKeeps, StoreKeeps DEF Refresh
<1> QED
  BY <1>1, <1>2, <1>3, WorldKeeps, AskKeeps, ClearKeeps DEF LatchNext

LEMMA LatchInvariant == LatchSpec => []LatchInv
<1>1. LatchInit => LatchInv
  BY LatchBegins
<1>2. LatchInv /\ [LatchNext]_latchVars => LatchInv'
  BY LatchGoesOn
<1> QED
  BY <1>1, <1>2, PTL DEF LatchSpec

\* Whatever a screen has shown as converted stays on record, and every result in
\* the cache shows it: disposals, failed queries and writes, crashes and refreshes
\* under way take nothing back.
THEOREM LatchHolds == LatchSpec => []ShownStaysShown
<1>1. LatchInv => ShownStaysShown
  BY DEF LatchInv, ShownRecorded, ViewCovers, Covers, ShownStaysShown
<1> QED
  BY <1>1, LatchInvariant, PTL

\* A failed query, a failed write, a crash or a clear never makes a server look
\* disposed of: only an answer that was heard and did not name it does.
THEOREM FailureDisposesOfNothing == LatchSpec => []FailureIsNotDisposal
<1>1. LatchInv => FailureIsNotDisposal
  BY DEF LatchInv, ViewCovers, Covers, FailureIsNotDisposal
<1> QED
  BY <1>1, LatchInvariant, PTL

\* As long as an observation is on record its first day stays and its last day
\* does not move back.
THEOREM FirstSeenStays == LatchSpec => FirstSeenFixed
<1>1. ASSUME LatchInv, [LatchNext]_latchVars, NEW i \in Recorded, observed'[i] # NoRow
      PROVE  observed'[i].first = observed[i].first /\ observed'[i].last >= observed[i].last
  <2>1. i \in Items /\ observed[i] # NoRow /\ observed[i].last \in Nat /\ observed[i].last <= day
    BY <1>1 DEF Recorded, LatchInv, LatchTypeOK, Row, SeenIsPast
  <2>2. CASE Record
    BY <1>1, <2>1, <2>2, Recording, ObservedTyped DEF LatchInv, LatchTypeOK
  <2>3. ASSUME NEW j \in Items, Delete(j) PROVE observed'[i] = observed[i]
    BY <1>1, <2>1, <2>3 DEF Delete, LatchInv, LatchTypeOK
  <2>4. ASSUME ~Record, \A j \in Items : ~Delete(j) PROVE observed' = observed
    BY <1>1, <2>4 DEF LatchNext, latchVars, Convert, LeaveOld, NextDay, Exclude, Retarget, Toggle,
       StartRefresh, Refresh, Answer, QueryOk, QueryEmpty, QueryFails, RecordFails, Merge,
       MergeRaises, StoreAs, Store, Invalidate, Crash
  <2> QED
    BY <2>1, <2>2, <2>3, <2>4
<1>2. LatchInv /\ [LatchNext]_latchVars =>
        [\A i \in Recorded :
            observed'[i] # NoRow =>
                /\ observed'[i].first = observed[i].first
                /\ observed'[i].last >= observed[i].last]_latchVars
  BY <1>1
<1> QED
  BY <1>2, LatchInvariant, PTL DEF LatchSpec, FirstSeenFixed

=============================================================================
