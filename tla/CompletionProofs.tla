--------------------------- MODULE CompletionProofs ---------------------------
(***************************************************************************)
(* What Completion guarantees for halves of any length, any texts, kernel  *)
(* targets, days, tickets and events.                                      *)
(***************************************************************************)
EXTENDS Completion, WellFoundedInduction, TLAPS

-----------------------------------------------------------------------------
(***************************************************************************)
(* Tickets.                                                                *)
(***************************************************************************)

\* Of some tickets there is a newest one, which is the one picked.
LEMMA NewestIsOne ==
    ASSUME NEW T \in SUBSET Ticket, T # {}
    PROVE  Newest(T) \in T
<1> DEFINE A == {MaxDay - t.born : t \in T}
<1>1. IsWellFoundedOn({ss \in Nat \X Nat : ss[1] < ss[2]}, Nat)
  BY NatLessThanWellFounded DEF OpToRel
<1>2. \A t \in T : t.born \in Nat /\ t.born <= MaxDay
  BY CompletionAssumption DEF Ticket, Days
<1>3. A \subseteq Nat /\ A # {}
  <2>1. \A t \in T : MaxDay - t.born \in Nat
    BY <1>2, CompletionAssumption
  <2>2. PICK t \in T : TRUE
    OBVIOUS
  <2>3. MaxDay - t.born \in A
    OBVIOUS
  <2> HIDE DEF A
  <2>4. A # {}
    BY <2>3
  <2> QED BY <2>1, <2>4 DEF A
<1>4. PICK m \in A : \A a \in A : <<a, m>> \notin {ss \in Nat \X Nat : ss[1] < ss[2]}
  BY <1>1, <1>3, WFMin, Zenon
<1>5. PICK t \in T : m = MaxDay - t.born
  OBVIOUS
<1>6. ASSUME NEW u \in T
      PROVE  u.born <= t.born
  <2>1. ~ (MaxDay - u.born < MaxDay - t.born)
    BY <1>3, <1>4, <1>5
  <2> QED BY <1>2, <2>1, CompletionAssumption
<1> QED BY <1>6 DEF Newest

\* No ticket is the one that stands for none.
LEMMA TicketIsOne ==
    ASSUME NEW t \in Ticket
    PROVE  t # NoTicket
<1>1. t.kind \in UNION {Kinds[d] : d \in Domains}
  BY DEF Ticket
<1>2. \A d \in Domains : "none" \notin Kinds[d]
  BY CompletionAssumption DEF Kinds
<1>3. t.kind # "none"
  BY <1>1, <1>2
<1>4. NoTicket.kind = "none"
  BY DEF NoTicket
<1> QED BY <1>3, <1>4

\* The choice Basis makes among the tickets that count.
Picked(C, first) ==
    LET of(kinds) == {t \in C : t.kind \in kinds}
    IN  IF of(first) # {} THEN Newest(of(first))
        ELSE IF of({"nonstop"}) # {} THEN Newest(of({"nonstop"}))
        ELSE NoTicket

\* Whatever ticket is picked, there is one when there is one to pick.
LEMMA PickedIff ==
    ASSUME NEW C \in SUBSET Ticket, NEW first
    PROVE  Picked(C, first) # NoTicket
           <=> \E t \in C : t.kind \in first \/ t.kind = "nonstop"
<1> DEFINE F == {t \in C : t.kind \in first}
           N == {t \in C : t.kind \in {"nonstop"}}
<1>1. F \in SUBSET Ticket /\ N \in SUBSET Ticket
  OBVIOUS
<1>2. F # {} => Newest(F) \in F /\ Newest(F) # NoTicket
  BY <1>1, NewestIsOne, TicketIsOne
<1>3. N # {} => Newest(N) \in N /\ Newest(N) # NoTicket
  BY <1>1, NewestIsOne, TicketIsOne
<1>4. F # {} \/ N # {} <=> \E t \in C : t.kind \in first \/ t.kind = "nonstop"
  OBVIOUS
<1> HIDE DEF F, N
<1>5. (IF F # {} THEN Newest(F) ELSE IF N # {} THEN Newest(N) ELSE NoTicket) # NoTicket
          <=> F # {} \/ N # {}
  BY <1>2, <1>3
<1>6. Picked(C, first)
      = IF F # {} THEN Newest(F) ELSE IF N # {} THEN Newest(N) ELSE NoTicket
  BY DEF Picked, F, N
<1> QED BY <1>4, <1>5, <1>6

\* Which kinds complete a target at all.
First == IF dom = "eos" THEN {"old"} ELSE {"real", "expand"}

LEMMA BasisIff ==
    ASSUME tickets \subseteq Ticket, NEW h, NEW d
    PROVE  Basis(h, d) # NoTicket
           <=> \E t \in Counting(h, d) : t.kind \in First \/ t.kind = "nonstop"
<1>1. Counting(h, d) \in SUBSET Ticket
  BY DEF Counting, Seen
<1>2. Basis(h, d) = Picked(Counting(h, d), First)
  BY DEF Basis, Picked, First
<1> HIDE DEF First
<1> QED BY <1>1, <1>2, PickedIff

-----------------------------------------------------------------------------
(***************************************************************************)
(* Types.                                                                  *)
(***************************************************************************)

\* A row as saved.
LEMMA RowTyped ==
    ASSUME NEW text \in Texts, NEW mark \in BOOLEAN,
           NEW by \in {"admin", "person", ""}, NEW d \in Days
    PROVE  [sched |-> text, mark |-> mark, by |-> by, at |-> d] \in Row
BY CompletionAssumption DEF Row

\* A ticket as opened or edited.
LEMMA DrawnTyped ==
    ASSUME NEW born \in Days, dom \in Domains
    PROVE  Drawn(born) \subseteq Ticket
BY DEF Drawn, Ticket

\* The code behind TypeOK: whoever saves, a completion mark stays a mark.
THEOREM TypeCorrect == Spec => []TypeOK
<1>1. Init => TypeOK
  <2>1. SUFFICES ASSUME Init PROVE TypeOK
    OBVIOUS
  <2>2. [kind |-> "blank", at |-> 0] \in Text
    BY DEF Text
  <2>3. 0 \in Days /\ 0 \in 0..MaxEvents
    BY CompletionAssumption DEF Days
  <2> DEFINE r == [sched |-> [kind |-> "blank", at |-> 0],
                   mark |-> FALSE, by |-> "", at |-> 0]
  <2>4. r \in Row
    BY <2>2, <2>3 DEF Row
  <2>5. row \in [Halves -> Row]
    <3>1. row = [h \in Halves |-> r]
      BY <2>1 DEF Init
    <3> HIDE DEF r
    <3> QED BY <3>1, <2>4
  <2>6. asset \in Asset
    <3>1. asset = [kind |-> "none", series |-> "8", ver |-> 0]
      BY <2>1, Zenon DEF Init
    <3> QED BY <3>1 DEF Asset, Versions
  <2>7. asof <= day /\ day <= asof + 1
    <3>1. day = 0 /\ asof = 0
      BY <2>1, Zenon DEF Init
    <3> QED BY <3>1
  <2> QED BY <2>1, <2>3, <2>5, <2>6, <2>7 DEF Init, TypeOK
<1>2. TypeOK /\ [Next]_vars => TypeOK'
  <2>1. SUFFICES ASSUME TypeOK, [Next]_vars PROVE TypeOK'
    OBVIOUS
  <2> USE <2>1
  <2>2. CASE NextDay
    BY <2>2, CompletionAssumption DEF NextDay, TypeOK, Days
  <2>3. CASE TakeDate
    BY <2>3 DEF TakeDate, TypeOK, Days
  <2>4. Event => events' \in 0..MaxEvents
    BY CompletionAssumption DEF Event, TypeOK
  <2>5. ASSUME NEW h \in Judged, Edit(h)
        PROVE  TypeOK'
    <3>1. PICK who \in {"admin", "person"}, text \in Sched(dom), mark \in BOOLEAN :
              row' = [row EXCEPT ![h] = [sched |-> text, by |-> who, at |-> day,
                                         mark |-> ResolvedMark(h, who, mark)]]
      BY <2>5 DEF Edit
    <3>2. ResolvedMark(h, who, mark) \in BOOLEAN
      BY DEF ResolvedMark, TypeOK, Row, Judged, Halves
    <3> DEFINE r == [sched |-> text, by |-> who, at |-> day,
                     mark |-> ResolvedMark(h, who, mark)]
    <3>3. r \in Row
      BY <3>2, CompletionAssumption DEF TypeOK, Row, Sched
    <3>4. row' \in [Halves -> Row]
      <4>1. row' = [row EXCEPT ![h] = r]
        BY <3>1
      <4> HIDE DEF r
      <4> QED BY <3>3, <4>1 DEF TypeOK
    <3> QED BY <2>4, <2>5, <3>4 DEF Edit, TypeOK
  <2>6. ASSUME NEW h \in Judged, Replace(h)
        PROVE  TypeOK'
    <3>1. PICK text \in Sched(dom), mark \in BOOLEAN :
              row' = [row EXCEPT ![h].sched = text, ![h].mark = mark]
      BY <2>6 DEF Replace
    <3>2. text \in Text
      BY CompletionAssumption DEF Sched
    <3>3. row' \in [Halves -> Row]
      BY <3>1, <3>2 DEF TypeOK, Row
    <3> QED BY <2>4, <2>6, <3>3 DEF Replace, TypeOK
  <2>7. CASE OpenTicket
    <3>1. Drawn(day) \subseteq Ticket
      BY DrawnTyped DEF TypeOK
    <3>2. tickets' \subseteq Ticket
      BY <2>7, <3>1 DEF OpenTicket, TypeOK
    <3> QED BY <2>4, <2>7, <3>2 DEF OpenTicket, TypeOK
  <2>8. CASE EditTicket
    <3>1. PICK t \in tickets : \E u \in Drawn(t.born) : tickets' = (tickets \ {t}) \cup {u}
      BY <2>8 DEF EditTicket
    <3>2. t.born \in Days
      BY DEF TypeOK, Ticket
    <3>3. Drawn(t.born) \subseteq Ticket
      BY <3>2, DrawnTyped DEF TypeOK
    <3>4. tickets' \subseteq Ticket
      BY <3>1, <3>3 DEF TypeOK
    <3> QED BY <2>4, <2>8, <3>4 DEF EditTicket, TypeOK
  <2>9. CASE Observe
    BY <2>4, <2>9 DEF Observe, TypeOK
  <2>10. CASE Fail
    BY <2>4, <2>10 DEF Fail, TypeOK
  <2>11. CASE Recover
    BY <2>11 DEF Recover, TypeOK
  <2>12. CASE UNCHANGED vars
    BY <2>12 DEF vars, TypeOK
  <2> QED BY <2>2, <2>3, <2>5, <2>6, <2>7, <2>8, <2>9, <2>10, <2>11, <2>12 DEF Next
<1> QED BY <1>1, <1>2, PTL DEF Spec

-----------------------------------------------------------------------------
(***************************************************************************)
(* What a step leaves of a judgement.                                      *)
(***************************************************************************)

\* BasisIff, after a step.
LEMMA BasisIffNext ==
    ASSUME TypeOK', NEW h
    PROVE  Basis(h, day)' # NoTicket
           <=> \E t \in Counting(h, day)' : t.kind \in First' \/ t.kind = "nonstop"
<1>1. Counting(h, day)' \in SUBSET Ticket
  BY DEF Counting, Seen, TypeOK
<1>2. Basis(h, day)' = Picked(Counting(h, day)', First')
  BY DEF Basis, Picked, First
<1> HIDE DEF First
<1> QED BY <1>1, <1>2, PickedIff

\* A completion by ticket stays as long as all that count do.
LEMMA BasisStays ==
    ASSUME TypeOK, TypeOK', dom' = dom, NEW h,
           \A t \in Counting(h, day) : t \in Counting(h, day)'
    PROVE  Basis(h, day) # NoTicket => Basis(h, day)' # NoTicket
<1>1. First' = First
  BY DEF First
<1>2. tickets \subseteq Ticket
  BY DEF TypeOK
<1> QED BY <1>1, <1>2, BasisIff, BasisIffNext

\* Without one more that counts there is no completion by ticket.
LEMMA BasisNotGained ==
    ASSUME TypeOK, TypeOK', dom' = dom, NEW h,
           \A t \in Counting(h, day)' : t \in Counting(h, day)
    PROVE  Basis(h, day)' # NoTicket => Basis(h, day) # NoTicket
<1>1. First' = First
  BY DEF First
<1>2. tickets \subseteq Ticket
  BY DEF TypeOK
<1> QED BY <1>1, <1>2, BasisIff, BasisIffNext

\* The day of a ticket is one of the days, or none.
LEMMA DoneDateTyped ==
    ASSUME NEW t \in Ticket
    PROVE  DoneDate(t) \in Days \cup {None}
BY DEF DoneDate, Ticket

LEMMA RowOfJudged ==
    ASSUME TypeOK, NEW h \in Judged
    PROVE  h \in Halves /\ row[h] \in Row /\ row[h].at \in Nat
<1>1. h \in Halves
  BY DEF Judged, Halves
<1>2. row[h] \in Row
  BY <1>1 DEF TypeOK
<1>3. row[h].at \in Days
  BY <1>2 DEF Row
<1>4. Days \subseteq Nat
  BY CompletionAssumption DEF Days
<1> QED BY <1>1, <1>2, <1>3, <1>4

LEMMA DatesTyped ==
    ASSUME NEW d \in Nat, NEW h
    PROVE  /\ YearOf(d) \in Nat
           /\ HalfStart(YearOf(d), h) \in Nat
           /\ HalfEnd(YearOf(d), h) \in Nat
<1>1. YearLen \in Nat /\ YearLen > 0
  BY CompletionAssumption DEF YearLen
<1>2. YearOf(d) \in Nat
  BY <1>1 DEF YearOf
<1>3. YearOf(d) * YearLen \in Nat
  BY <1>1, <1>2
<1>4. HalfStart(YearOf(d), h) \in Nat
  BY <1>3, CompletionAssumption DEF HalfStart
<1> QED BY <1>2, <1>4, CompletionAssumption DEF HalfEnd

-----------------------------------------------------------------------------
(***************************************************************************)
(* Time.                                                                   *)
(***************************************************************************)

\* The tickets that count today count tomorrow.
LEMMA NextDayCounts ==
    ASSUME TypeOK, NextDay, YearOf(day') = YearOf(day), NEW h,
           NEW t \in Counting(h, day)
    PROVE  t \in Counting(h, day)'
<1>1. t \in Ticket /\ t \in Seen(h)
  BY DEF Counting, Seen, TypeOK
<1>2. day \in Nat /\ day' = day + 1
  BY DEF NextDay, TypeOK, Days
<1>3. Seen(h)' = Seen(h)
  BY DEF NextDay, Seen
<1>4. DoneDate(t)' = DoneDate(t)
  BY DEF NextDay, DoneDate
<1>5. InHalf(t, YearOf(day), h) /\ DoneDate(t) <= day
  BY DEF Counting
<1>6. InHalf(t, YearOf(day), h)'
  BY <1>4, <1>5 DEF InHalf
<1>7. DoneDate(t) \in Nat
  BY <1>1, <1>5, DoneDateTyped DEF InHalf, Days
<1>8. DoneDate(t)' <= day'
  BY <1>2, <1>4, <1>5, <1>7
<1> QED BY <1>1, <1>3, <1>6, <1>8 DEF Counting

\* TimeUndoesNothing: with the passing of a day, within a year, the code judges
\* a completed target as completed again.
THEOREM TimeIsSafe == Spec => TimeUndoesNothing
<1>1. ASSUME TypeOK, TypeOK', NextDay, YearOf(day') = YearOf(day), NEW h \in Judged,
             Judge(h, day)
      PROVE  Judge(h, day)'
  <2>1. /\ day \in Nat /\ day' = day + 1
        /\ UNCHANGED <<dom, row, asset, down>>
    BY <1>1 DEF NextDay, TypeOK, Days
  <2>2. Basis(h, day) # NoTicket => Basis(h, day)' # NoTicket
    BY <1>1, <2>1, NextDayCounts, BasisStays
  <2>3. CASE dom = "dr"
    <3>1. row[h].at \in Nat /\ HalfEnd(YearOf(day), h) \in Nat
      BY <1>1, <2>1, DatesTyped, RowOfJudged
    <3>2. ExcludedOn(h, day)' = ExcludedOn(h, day) /\ ExcludedOn(h, day) \in Nat
      BY <1>1, <2>1, <3>1 DEF ExcludedOn, Later
    <3>3. Excluded(h)' = Excluded(h)
      BY <2>1 DEF Excluded
    <3>4. JudgeDr(h, day) => JudgeDr(h, day)'
      BY <2>1, <2>2, <3>2, <3>3 DEF JudgeDr
    <3> QED BY <1>1, <2>1, <2>3, <3>4 DEF Judge
  <2>4. CASE dom = "capacity"
    <3>1. h = "H2"
      BY <1>1, <2>4 DEF Judged
    <3> QED BY <1>1, <2>1, <2>2, <2>4, <3>1 DEF Judge, JudgeCapacity
  <2>5. CASE dom = "eos"
    <3>1. h = "H2"
      BY <1>1, <2>5 DEF Judged
    <3> QED BY <1>1, <2>1, <2>2, <2>5, <3>1 DEF Judge, JudgeEos
  <2>6. CASE dom = "kernel"
    BY <1>1, <2>1, <2>6 DEF Judge, JudgeKernel, Level, NextDay, MeetsTarget
  <2> QED BY <1>1, <2>3, <2>4, <2>5, <2>6, CompletionAssumption DEF TypeOK
<1>2. TypeOK /\ TypeOK' /\ [Next]_vars =>
        [NextDay /\ YearOf(day') = YearOf(day) =>
            \A h \in Judged : Judge(h, day) => Judge(h, day)']_vars
  BY <1>1
<1> QED BY <1>2, TypeCorrect, PTL DEF Spec, TimeUndoesNothing

-----------------------------------------------------------------------------
(***************************************************************************)
(* Tickets and failures.                                                   *)
(***************************************************************************)

\* NewTicketUndoesNothing: a ticket that is opened leaves those that count
\* where they are, and the judging functions pick among all of them.
THEOREM TicketsAreSafe == Spec => NewTicketUndoesNothing
<1>1. ASSUME TypeOK, TypeOK', OpenTicket, NEW h \in Judged, Judge(h, day)
      PROVE  Judge(h, day)'
  <2>1. UNCHANGED <<day, dom, row, asset, sheet, down>> /\ tickets \subseteq tickets'
    BY <1>1 DEF OpenTicket
  <2>2. \A t \in Counting(h, day) : t \in Counting(h, day)'
    <3>1. SUFFICES ASSUME NEW t \in Counting(h, day) PROVE t \in Counting(h, day)'
      OBVIOUS
    <3>2. DoneDate(t)' = DoneDate(t)
      BY <2>1 DEF DoneDate
    <3>3. t \in Seen(h) => t \in Seen(h)'
      BY <2>1 DEF Seen
    <3> QED BY <2>1, <3>1, <3>2, <3>3 DEF Counting, InHalf
  <2>3. Basis(h, day) # NoTicket => Basis(h, day)' # NoTicket
    BY <1>1, <2>1, <2>2, BasisStays
  <2>4. CASE dom = "dr"
    BY <1>1, <2>1, <2>3, <2>4 DEF Judge, JudgeDr, Excluded, ExcludedOn
  <2>5. CASE dom # "dr"
    <3>1. h = "H2"
      BY <1>1, <2>5 DEF Judged
    <3>2. CASE dom = "capacity"
      BY <1>1, <2>1, <2>3, <3>1, <3>2 DEF Judge, JudgeCapacity
    <3>3. CASE dom = "eos"
      BY <1>1, <2>1, <2>3, <3>1, <3>3 DEF Judge, JudgeEos
    <3>4. CASE dom = "kernel"
      BY <1>1, <2>1, <3>4 DEF Judge, JudgeKernel, Level, MeetsTarget
    <3> QED BY <1>1, <2>5, <3>2, <3>3, <3>4, CompletionAssumption DEF TypeOK
  <2> QED BY <2>4, <2>5
<1>2. TypeOK /\ TypeOK' /\ [Next]_vars =>
        [OpenTicket => \A h \in Judged : Judge(h, day) => Judge(h, day)']_vars
  BY <1>1
<1> QED BY <1>2, TypeCorrect, PTL DEF Spec, NewTicketUndoesNothing

\* OutageNeverCompletes: a judgement without JIRA, without links or without
\* patch levels is never more than one with them.
THEOREM OutagesAreSafe == Spec => OutageNeverCompletes
<1>1. ASSUME TypeOK, TypeOK', Fail, NEW h \in Judged, Judge(h, day)'
      PROVE  Judge(h, day)
  <2>1. UNCHANGED <<day, dom, row, asset, sheet, tickets>> /\ down \subseteq down'
    BY <1>1 DEF Fail
  <2>2. \A t \in Counting(h, day)' : t \in Counting(h, day)
    <3>1. SUFFICES ASSUME NEW t \in Counting(h, day)' PROVE t \in Counting(h, day)
      OBVIOUS
    <3>2. DoneDate(t)' # None => DoneDate(t) = DoneDate(t)'
      BY <2>1 DEF DoneDate
    <3>3. t \in Seen(h)' => t \in Seen(h)
      BY <2>1 DEF Seen
    <3> QED BY <2>1, <3>1, <3>2, <3>3 DEF Counting, InHalf
  <2>3. Basis(h, day)' # NoTicket => Basis(h, day) # NoTicket
    BY <1>1, <2>1, <2>2, BasisNotGained
  <2>4. CASE dom = "dr"
    BY <1>1, <2>1, <2>3, <2>4 DEF Judge, JudgeDr, Excluded, ExcludedOn
  <2>5. CASE dom # "dr"
    <3>1. h = "H2"
      BY <1>1, <2>5 DEF Judged
    <3>2. CASE dom = "capacity"
      BY <1>1, <2>1, <2>3, <3>1, <3>2 DEF Judge, JudgeCapacity
    <3>3. CASE dom = "eos"
      BY <1>1, <2>1, <2>3, <3>1, <3>3 DEF Judge, JudgeEos
    <3>4. CASE dom = "kernel"
      <4>1. Level' # "none" => Level' = Level
        BY <2>1 DEF Level
      <4> QED BY <1>1, <2>1, <3>4, <4>1 DEF Judge, JudgeKernel, MeetsTarget
    <3> QED BY <1>1, <2>5, <3>2, <3>3, <3>4, CompletionAssumption DEF TypeOK
  <2> QED BY <2>4, <2>5
<1>2. TypeOK /\ TypeOK' /\ [Next]_vars =>
        [Fail => \A h \in Judged : Judge(h, day)' => Judge(h, day)]_vars
  BY <1>1
<1> QED BY <1>2, TypeCorrect, PTL DEF Spec, OutageNeverCompletes

-----------------------------------------------------------------------------
(***************************************************************************)
(* Exclusions, and the method of the second half.                          *)
(***************************************************************************)

\* What a completion by ticket rests on does not depend on the row.
LEMMA EditKeepsBasis ==
    ASSUME UNCHANGED <<dom, tickets, down>>, NEW h, NEW d
    PROVE  Basis(h, d)' = Basis(h, d)
<1>1. Seen(h)' = Seen(h)
  BY DEF Seen
<1>2. \A t : DoneDate(t)' = DoneDate(t)
  BY DEF DoneDate
<1>3. Counting(h, d)' = Counting(h, d)
  BY <1>1, <1>2 DEF Counting, InHalf
<1>4. First' = First
  BY DEF First
<1>5. /\ Basis(h, d) = Picked(Counting(h, d), First)
      /\ Basis(h, d)' = Picked(Counting(h, d)', First')
  BY DEF Basis, Picked, First
<1> QED BY <1>3, <1>4, <1>5

\* ExclusionIsNotRetroactive: excluded_completion_date is never before the day
\* of the exclusion nor before the end of the half.
THEOREM ExclusionsAreSafe == Spec => ExclusionIsNotRetroactive
<1>1. ASSUME TypeOK, TypeOK', NEW h \in Judged, Edit(h),
             row'[h].sched.kind = "x", row'[h].mark = row[h].mark,
             row[h].sched.kind # "x",
             NEW d \in Days, d < Later(day, HalfEnd(YearOf(d), h))
      PROVE  Judge(h, d)' <=> Judge(h, d)
  <2>1. UNCHANGED <<day, dom, tickets, down>>
    BY <1>1 DEF Edit
  <2>2. Basis(h, d)' = Basis(h, d)
    BY <2>1, EditKeepsBasis
  <2>3. PICK who \in {"admin", "person"}, text \in Sched(dom), mark \in BOOLEAN :
            row' = [row EXCEPT ![h] = [sched |-> text, by |-> who, at |-> day,
                                       mark |-> ResolvedMark(h, who, mark)]]
    BY <1>1 DEF Edit
  <2>4. row'[h].at = day /\ row'[h].sched = text
    BY <1>1, <2>3, RowOfJudged DEF TypeOK
  <2>5. dom = "dr"
    BY <1>1, <2>4, CompletionAssumption DEF Sched, Written, TypeOK
  <2>6. day \in Nat /\ d \in Nat /\ HalfEnd(YearOf(d), h) \in Nat
    BY <1>1, CompletionAssumption, DatesTyped DEF TypeOK, Days
  <2>7. ExcludedOn(h, d)' = Later(HalfEnd(YearOf(d), h), day)
    BY <2>4 DEF ExcludedOn, Later, HalfEnd, HalfStart, YearOf
  <2>8. ~(d >= ExcludedOn(h, d)')
    BY <1>1, <2>6, <2>7 DEF Later
  <2>9. ~Excluded(h)
    BY <1>1 DEF Excluded
  <2>10. JudgeDr(h, d)' <=> JudgeDr(h, d)
    BY <1>1, <2>2, <2>8, <2>9 DEF JudgeDr
  <2> QED BY <2>1, <2>5, <2>10 DEF Judge
<1>2. TypeOK /\ TypeOK' /\ [Next]_vars =>
        [\A h \in Judged :
            Edit(h) /\ row'[h].sched.kind = "x" /\ row'[h].mark = row[h].mark
                    /\ row[h].sched.kind # "x" =>
                \A d \in Days : d < Later(day, HalfEnd(YearOf(d), h)) =>
                    (Judge(h, d)' <=> Judge(h, d))]_vars
  BY <1>1
<1> QED BY <1>2, TypeCorrect, PTL DEF Spec, ExclusionIsNotRetroactive

\* No row was saved in the future.
RowsPast == \A h \in Halves : row[h].at \in Nat /\ row[h].at <= day

LEMMA RowsStayPast == Spec => []RowsPast
<1>1. Init => RowsPast
  <2>1. SUFFICES ASSUME Init PROVE RowsPast
    OBVIOUS
  <2>2. day = 0
    BY <2>1, Zenon DEF Init
  <2>3. \A h \in Halves : row[h].at = 0
    <3> DEFINE r == [sched |-> [kind |-> "blank", at |-> 0],
                     mark |-> FALSE, by |-> "", at |-> 0]
    <3>1. row = [h \in Halves |-> r]
      BY <2>1 DEF Init
    <3>2. r.at = 0
      OBVIOUS
    <3> HIDE DEF r
    <3> QED BY <3>1, <3>2
  <2> QED BY <2>2, <2>3 DEF RowsPast
<1>2. TypeOK /\ TypeOK' /\ RowsPast /\ [Next]_vars => RowsPast'
  <2>1. SUFFICES ASSUME TypeOK, TypeOK', RowsPast, [Next]_vars PROVE RowsPast'
    OBVIOUS
  <2> USE <2>1
  <2>2. day \in Nat
    BY CompletionAssumption DEF TypeOK, Days
  <2>3. CASE NextDay
    BY <2>2, <2>3 DEF NextDay, RowsPast
  <2>4. ASSUME NEW g \in Judged, Edit(g)
        PROVE  RowsPast'
    <3>1. PICK who \in {"admin", "person"}, text \in Sched(dom), mark \in BOOLEAN :
              row' = [row EXCEPT ![g] = [sched |-> text, by |-> who, at |-> day,
                                         mark |-> ResolvedMark(g, who, mark)]]
      BY <2>4 DEF Edit
    <3>2. \A h \in Halves : row'[h].at = IF h = g THEN day ELSE row[h].at
      BY <3>1 DEF TypeOK
    <3> QED BY <2>2, <2>4, <3>2 DEF Edit, RowsPast
  <2>5. ASSUME NEW g \in Judged, Replace(g)
        PROVE  RowsPast'
    <3>1. PICK text \in Sched(dom), mark \in BOOLEAN :
              row' = [row EXCEPT ![g].sched = text, ![g].mark = mark]
      BY <2>5 DEF Replace
    <3>2. \A h \in Halves : row'[h].at = row[h].at
      BY <3>1 DEF TypeOK, Row
    <3> QED BY <2>5, <3>2 DEF Replace, RowsPast
  <2>6. UNCHANGED <<row, day>> => RowsPast'
    BY DEF RowsPast
  <2> QED BY <2>3, <2>4, <2>5, <2>6
          DEF Next, TakeDate, OpenTicket, EditTicket, Observe, Fail, Recover, vars
<1> QED BY <1>1, <1>2, TypeCorrect, PTL DEF Spec

\* ModeSettles: what compute_h2_items makes of the first half no longer depends
\* on the day once that half is over.
THEOREM ModeIsSettled == Spec => ModeSettles
<1>1. ASSUME TypeOK, TypeOK', RowsPast, NextDay, dom = "dr",
             YearOf(day') = YearOf(day), day >= HalfStart(YearOf(day), "H2")
      PROVE  Mode2' = Mode2
  <2>1. day \in Nat /\ day' = day + 1 /\ UNCHANGED <<dom, row, sheet, tickets, down>>
    BY <1>1, CompletionAssumption DEF NextDay, TypeOK, Days
  <2> DEFINE end == HalfEnd(YearOf(day), "H1")
  <2>2. end \in Nat
    BY <2>1, DatesTyped
  <2>3. end < day
    <3>1. YearOf(day) \in Nat
      BY <2>1, DatesTyped
    <3>2. YearLen \in Nat
      BY CompletionAssumption DEF YearLen
    <3>3. YearOf(day) * YearLen \in Nat
      BY <3>1, <3>2
    <3>4. HalfLen \in Nat
      BY CompletionAssumption
    <3> QED BY <1>1, <2>1, <3>3, <3>4 DEF HalfEnd, HalfStart
  <2>4. Counting("H1", day)' = Counting("H1", day)
    <3>1. Seen("H1")' = Seen("H1") /\ \A t : DoneDate(t)' = DoneDate(t)
      BY <2>1 DEF Seen, DoneDate
    <3>2. \A t : InHalf(t, YearOf(day), "H1")' <=> InHalf(t, YearOf(day), "H1")
      BY <1>1, <3>1 DEF InHalf
    <3>3. \A t \in Seen("H1") : InHalf(t, YearOf(day), "H1") =>
              DoneDate(t) \in Nat /\ DoneDate(t) <= end
      <4>1. \A t \in Seen("H1") : t \in Ticket
        BY <1>1 DEF Seen, TypeOK
      <4> QED BY <4>1, DoneDateTyped DEF InHalf, Days
    <3> HIDE DEF end
    <3>4. \A t \in Seen("H1") : InHalf(t, YearOf(day), "H1") =>
              DoneDate(t) <= day /\ DoneDate(t) <= day + 1
      BY <2>1, <2>2, <2>3, <3>3
    <3> QED BY <2>1, <3>1, <3>2, <3>4 DEF Counting
  <2>5. Basis("H1", day)' = Basis("H1", day)
    <3>1. First' = First
      BY <2>1 DEF First
    <3>2. /\ Basis("H1", day) = Picked(Counting("H1", day), First)
          /\ Basis("H1", day)' = Picked(Counting("H1", day)', First')
      BY DEF Basis, Picked, First
    <3> QED BY <2>4, <3>1, <3>2
  <2>6. /\ ExcludedOn("H1", day)' = ExcludedOn("H1", day)
        /\ ExcludedOn("H1", day) \in Nat
        /\ ExcludedOn("H1", day) <= day
    <3>1. row["H1"].at \in Nat /\ row["H1"].at <= day
      BY <1>1 DEF RowsPast, Halves
    <3>2. ExcludedOn("H1", day) = Later(end, row["H1"].at)
      BY DEF ExcludedOn
    <3>3. ExcludedOn("H1", day)' = ExcludedOn("H1", day)
      BY <1>1, <2>1 DEF ExcludedOn
    <3> HIDE DEF end
    <3> QED BY <2>1, <2>2, <2>3, <3>1, <3>2, <3>3 DEF Later
  <2>7. JudgeDr("H1", day)' <=> JudgeDr("H1", day)
    BY <2>1, <2>5, <2>6 DEF JudgeDr, Excluded
  <2>8. Judge("H1", day)' <=> Judge("H1", day)
    BY <1>1, <2>1, <2>7 DEF Judge
  <2> QED BY <2>1, <2>8 DEF Mode2
<1>2. TypeOK /\ TypeOK' /\ RowsPast /\ [Next]_vars =>
        [NextDay /\ dom = "dr" /\ YearOf(day') = YearOf(day)
             /\ day >= HalfStart(YearOf(day), "H2") => Mode2' = Mode2]_vars
  BY <1>1
<1> QED BY <1>2, TypeCorrect, RowsStayPast, PTL DEF Spec, ModeSettles

-----------------------------------------------------------------------------
(***************************************************************************)
(* Who is asked.                                                           *)
(***************************************************************************)

\* PendingIsAskedOrDated: the reminders take what is not planned, and what is
\* planned has a date that has not gone by.
THEOREM PendingIsNotForgotten == Spec => []PendingIsAskedOrDated
<1>1. TypeOK => PendingIsAskedOrDated
  <2>1. SUFFICES ASSUME TypeOK, NEW h \in Judged, dom # "kernel", Target,
                        ~Judge(h, asof), ~AskedForDate(h)
                 PROVE  \/ Scheduled(h) # None /\ Scheduled(h) >= asof
                        \/ \E t \in Seen(h) : DoneDate(t) # None /\ DoneDate(t) > asof
    BY DEF PendingIsAskedOrDated
  <2>2. Planned(h)
    BY <2>1 DEF AskedForDate, AskedBlank, AskedHinted
  <2>3. asof \in Nat
    BY <2>1, CompletionAssumption DEF TypeOK, Days
  <2>4. CASE dom # "capacity"
    <3>1. Scheduled(h) # None /\ ~(Scheduled(h) < asof)
      BY <2>1, <2>2, <2>4 DEF Planned
    <3>2. Scheduled(h) \in Nat
      <4>1. row[h].sched \in Text
        BY <2>1, RowOfJudged DEF Row
      <4>2. YearOf(asof) \in Nat /\ YearLen \in Nat /\ YearLen > 0
        BY <2>3, DatesTyped, CompletionAssumption DEF YearLen
      <4>3. row[h].sched.at \in Nat
        <5>1. Days \subseteq Nat /\ 0..(YearLen - 1) \subseteq Nat
          BY <4>2, CompletionAssumption DEF Days
        <5>2. \/ row[h].sched.at \in {0}
              \/ row[h].sched.at \in 0..(YearLen - 1)
              \/ row[h].sched.at \in Days
          <6>1. \A text \in Text : text.at \in {0} \/ text.at \in 0..(YearLen - 1)
                                                  \/ text.at \in Days
            BY Zenon DEF Text
          <6> QED BY <4>1, <6>1
        <5>3. {0} \subseteq Nat
          BY SMT
        <5>4. \A n : n \in {0} \/ n \in 0..(YearLen - 1) \/ n \in Days => n \in Nat
          BY <5>1, <5>3, Zenon
        <5> QED BY <5>2, <5>4, Zenon
      <4>4. YearOf(asof) * YearLen + row[h].sched.at \in Nat
        BY <4>2, <4>3
      <4> QED BY <3>1, <4>3, <4>4 DEF Scheduled, Parse
    <3> QED BY <2>3, <3>1, <3>2
  <2>5. CASE dom = "capacity"
    <3>1. h = "H2"
      BY <2>1, <2>5 DEF Judged
    <3>2. PICK t \in Seen(h) : InHalf(t, YearOf(asof), h)
      BY <2>2, <2>5 DEF Planned, Matched
    <3>3. t \in Ticket /\ t.kind = "expand"
      BY <2>1, <2>5, <3>2 DEF Seen, TypeOK
    <3>4. DoneDate(t) # None /\ DoneDate(t) \in Nat
      <4>1. Days \subseteq Nat
        BY CompletionAssumption DEF Days
      <4> QED BY <3>2, <3>3, <4>1, DoneDateTyped DEF InHalf
    <3>5. ~(DoneDate(t) <= asof)
      <4>1. SUFFICES ASSUME DoneDate(t) <= asof PROVE Basis(h, asof) # NoTicket
        BY <2>1, <2>5, <3>1 DEF Judge, JudgeCapacity
      <4>2. t \in Counting(h, asof)
        BY <3>2, <4>1 DEF Counting
      <4>3. t.kind \in First /\ tickets \subseteq Ticket
        BY <2>1, <2>5, <3>3 DEF First, TypeOK
      <4> QED BY <4>2, <4>3, BasisIff
    <3> QED BY <2>3, <3>4, <3>5
  <2> QED BY <2>4, <2>5
<1> QED BY <1>1, TypeCorrect, PTL

\* AnsweredByWork: the promotion uses the judgement itself, and a ticket that
\* completes a target is one that plans it.
THEOREM WorkAnswers == Spec => []AnsweredByWork
<1>1. TypeOK => AnsweredByWork
  <2>1. SUFFICES ASSUME TypeOK, dom = "capacity", asof = day, Silent
                 PROVE  /\ Status = "target" <=> Judge("H2", asof)
                        /\ Basis("H2", asof) # NoTicket =>
                               ~AskedToAnswer /\ ~AskedForDate("H2")
    BY DEF AnsweredByWork
  <2>2. Judge("H2", asof) <=> JudgeCapacity(day)
    BY <2>1 DEF Judge
  <2>3. Status = IF JudgeCapacity(day) THEN "target" ELSE "no_reply"
    BY <2>1 DEF Status, Silent
  <2>4. ASSUME Basis("H2", asof) # NoTicket
        PROVE  ~AskedToAnswer /\ ~AskedForDate("H2")
    <3>1. JudgeCapacity(day)
      BY <2>1, <2>4 DEF JudgeCapacity
    <3>2. PICK t \in Counting("H2", asof) : TRUE
      BY <2>1, <2>4, BasisIff DEF TypeOK
    <3>3. Planned("H2")
      BY <2>1, <3>2 DEF Planned, Matched, Counting
    <3> QED BY <2>3, <3>1, <3>3 DEF AskedToAnswer, AskedForDate, AskedBlank, AskedHinted
  <2> QED BY <2>2, <2>3, <2>4
<1> QED BY <1>1, TypeCorrect, PTL
=============================================================================
