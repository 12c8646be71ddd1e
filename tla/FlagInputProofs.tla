--------------------------- MODULE FlagInputProofs ---------------------------
(***************************************************************************)
(* What FlagInput guarantees for any names, owners, tables, Excel flags    *)
(* and number of saves.                                                    *)
(***************************************************************************)
EXTENDS FlagInput, WellFoundedInduction, TLAPS

USE DEF Schedules, Marks, Verdicts, Reasons

\* A set of naturals with a bound has a greatest element, which is its Max.
LEMMA MaxIsElement ==
    ASSUME NEW n \in Nat, NEW S \in SUBSET (1 .. n), S # {}
    PROVE  Max(S) \in S
<1> DEFINE T == {n - x : x \in S}
<1>1. IsWellFoundedOn({ss \in Nat \X Nat : ss[1] < ss[2]}, Nat)
  BY NatLessThanWellFounded DEF OpToRel
<1>2. T \subseteq Nat /\ T # {}
  <2>1. \A x \in S : n - x \in Nat
    OBVIOUS
  <2>2. PICK x \in S : TRUE
    OBVIOUS
  <2>3. n - x \in T
    OBVIOUS
  <2> HIDE DEF T
  <2>4. T # {}
    BY <2>3
  <2> QED BY <2>1, <2>4 DEF T
<1>3. PICK m \in T : \A y \in T : <<y, m>> \notin {ss \in Nat \X Nat : ss[1] < ss[2]}
  BY <1>1, <1>2, WFMin, Zenon
<1>4. PICK x \in S : m = n - x
  OBVIOUS
<1>5. \A y \in S : x >= y
  <2>1. SUFFICES ASSUME NEW y \in S PROVE x >= y
    OBVIOUS
  <2>2. ~ (n - y < n - x)
    BY <1>2, <1>3, <1>4
  <2> QED BY <2>2
<1> QED BY <1>5 DEF Max

-----------------------------------------------------------------------------
(***************************************************************************)
(* Types.                                                                  *)
(***************************************************************************)

\* What the handlers pass to upsert_*_input.
Args == [by : Names, sched : Schedules, done : Marks, owner : Owners \cup {Keep},
         excl : Verdicts \cup {Keep}, reason : Reasons \cup {Keep}]

LEMMA NamesNormalised ==
    /\ \A n \in Names : Norm[n] \in NormNames
    /\ NormAdmins \subseteq NormNames
    /\ NoOne \notin NormAdmins
BY FlagAssumption DEF NormNames, NormAdmins

LEMMA ColumnsTyped ==
    ASSUME TypeOK
    PROVE  /\ Schedule(row) \in Schedules
           /\ Done(row) \in Marks
           /\ Owner(row) \in Owners \cup {Keep}
           /\ Verdict(row) \in Verdicts \cup {Keep}
           /\ Column(row, "reason", Keep) \in Reasons \cup {Keep}
           /\ Column(row, "last", NoOne) \in NormNames \cup {NoOne}
BY DEF TypeOK, Row, Schedule, Done, Owner, Verdict, Column

LEMMA EntryTyped ==
    ASSUME NEW args \in Args, NEW C \in SUBSET Fields, \A f \in C : args[f] # Keep
    PROVE  [by |-> args.by, new |-> [f \in C |-> args[f]]] \in Entry
<1>1. \A f \in C : args[f] \in Values
  <2>1. SUFFICES ASSUME NEW f \in C PROVE args[f] \in Values
    OBVIOUS
  <2>2. f \in {"sched", "done", "owner", "excl", "reason"}
    BY DEF Fields
  <2> QED BY <2>2 DEF Args, Values
<1>2. [f \in C |-> args[f]] \in [C -> Values]
  BY <1>1
<1>3. [f \in C |-> args[f]] \in UNION {[S -> Values] : S \in SUBSET Fields}
  BY <1>2
<1> QED BY <1>3 DEF Entry, Args

LEMMA LogTyped ==
    ASSUME TypeOK, NEW args \in Args, Log(args)
    PROVE  log' \in Seq(Entry) /\ quiet' \in BOOLEAN
<1> DEFINE C == {f \in Fields : Differs(f, args[f])}
<1>1. \A f \in C : args[f] # Keep
  BY DEF Differs
<1>2. [by |-> args.by, new |-> [f \in C |-> args[f]]] \in Entry
  <2> HIDE DEF C
  <2>1. C \in SUBSET Fields
    BY DEF C
  <2> QED BY <1>1, <2>1, EntryTyped
<1> DEFINE entry == [by |-> args.by, new |-> [f \in C |-> args[f]]]
<1>3. \/ log' = Append(log, entry) /\ quiet' = quiet
      \/ log' = log /\ quiet' = TRUE
  BY DEF Log
<1>4. log \in Seq(Entry) /\ quiet \in BOOLEAN
  BY DEF TypeOK
<1> HIDE DEF entry
<1>5. CASE log' = Append(log, entry) /\ quiet' = quiet
  <2>1. entry \in Entry
    BY <1>2 DEF entry
  <2>2. Append(log, entry) \in Seq(Entry)
    BY <1>4, <2>1
  <2> QED BY <1>4, <1>5, <2>2
<1>6. CASE log' = log /\ quiet' = TRUE
  BY <1>4, <1>6
<1> QED BY <1>3, <1>5, <1>6

LEMMA UpsertTyped ==
    ASSUME TypeOK, NEW args \in Args, Upsert(args)
    PROVE  /\ row' \in Row
           /\ log' \in Seq(Entry)
           /\ quiet' \in BOOLEAN
           /\ saves' \in 0 .. MaxSaves
           /\ UNCHANGED <<table, excel>>
<1>1. log' \in Seq(Entry) /\ quiet' \in BOOLEAN
  BY LogTyped DEF Upsert
<1>2. saves' \in 0 .. MaxSaves
  <2>1. saves \in 0 .. MaxSaves /\ MaxSaves \in Nat
    BY FlagAssumption DEF TypeOK
  <2>2. saves < MaxSaves /\ saves' = saves + 1
    BY DEF Upsert, Count
  <2> QED BY <2>1, <2>2
<1>3. NextInputter(args.by) \in NormNames \cup {NoOne}
  BY ColumnsTyped, NamesNormalised DEF NextInputter, Args
<1>4. /\ Coalesce(args.owner, "owner") \in Owners \cup {Keep}
      /\ Coalesce(args.excl, "excl") \in Verdicts \cup {Keep}
      /\ Coalesce(args.reason, "reason") \in Reasons \cup {Keep}
  BY ColumnsTyped DEF Coalesce, Args, Owner, Verdict
<1>5. row' \in Row
  BY <1>3, <1>4 DEF Upsert, Row, Args
<1> QED BY <1>1, <1>2, <1>5 DEF Upsert

LEMMA AsIsTyped ==
    ASSUME TypeOK, NEW n \in Names
    PROVE  AsIs(n) \in Args
BY ColumnsTyped DEF AsIs, Args

LEMMA ArgsUpdated ==
    ASSUME NEW a \in Args
    PROVE  /\ \A sched \in Schedules, done \in Marks, owner \in Owners \cup {Keep} :
                 [a EXCEPT !.sched = sched, !.done = done, !.owner = owner] \in Args
           /\ \A excl \in Verdicts, reason \in Reasons :
                 [a EXCEPT !.excl = excl, !.reason = reason] \in Args
BY DEF Args

-----------------------------------------------------------------------------
(***************************************************************************)
(* The handlers are of two kinds: those that leave the exclusion alone and *)
(* those with which an admin decides it.                                   *)
(***************************************************************************)

LeavesVerdict(args) ==
    /\ args \in Args
    /\ Upsert(args)
    /\ UNCHANGED verdict
    /\ args.excl = Keep /\ args.reason = Keep
    /\ args.by \notin Admins => args.done = Done(row) /\ args.owner = Keep

GivesVerdict(args) ==
    /\ args \in Args
    /\ Upsert(args)
    /\ args.by \in Admins
    /\ args.done = Done(row) /\ args.owner = Keep
    /\ verdict' \in Verdicts
    /\ args.excl = verdict'
    /\ args.reason # Keep
    /\ verdict' = "1" => args.reason # ""
    /\ verdict' = "0" => args.reason = ""

LEMMA KeepIsNoValue ==
    Keep \notin Values /\ Keep # "" /\ Keep # "0" /\ Keep # "1" /\ Keep # "why"
BY FlagAssumption DEF Values

LEMMA SaveLeaves ==
    ASSUME TypeOK, NEW n \in Names, NEW sched \in Schedules, NEW done \in Marks,
           NEW owner \in Owners \cup {Keep}, Save(n, sched, done, owner)
    PROVE  \E args : LeavesVerdict(args)
<1> DEFINE args == [AsIs(n) EXCEPT !.sched = sched, !.done = ResolvedDone(n, done),
                                   !.owner = ResolvedOwner(n, owner)]
<1>1. /\ ResolvedDone(n, done) \in Marks
      /\ ResolvedOwner(n, owner) \in Owners \cup {Keep}
      /\ n \notin Admins => ResolvedDone(n, done) = Done(row) /\ ResolvedOwner(n, owner) = Keep
  BY ColumnsTyped DEF ResolvedDone, ResolvedOwner
<1>2. /\ args.by = n /\ args.done = ResolvedDone(n, done)
      /\ args.owner = ResolvedOwner(n, owner)
      /\ args.excl = Keep /\ args.reason = Keep
  BY DEF AsIs
<1>3. args \in Args
  BY <1>1, AsIsTyped, ArgsUpdated
<1>4. Upsert(args) /\ UNCHANGED verdict
  BY DEF Save
<1>5. LeavesVerdict(args)
  <2> HIDE DEF args
  <2> QED BY <1>1, <1>2, <1>3, <1>4 DEF LeavesVerdict
<1> QED BY <1>5

LEMMA SaveOwnerLeaves ==
    ASSUME TypeOK, NEW n \in Names, NEW owner \in Owners, SaveOwner(n, owner)
    PROVE  \E args : LeavesVerdict(args)
<1> DEFINE args == [AsIs(n) EXCEPT !.owner = owner]
<1>1. args = [by |-> n, sched |-> Schedule(row), done |-> Done(row),
              owner |-> owner, excl |-> Keep, reason |-> Keep]
  BY DEF AsIs
<1>2. args \in Args
  BY <1>1, ColumnsTyped DEF Args
<1>3. Upsert(args) /\ UNCHANGED verdict /\ n \in Admins
  BY DEF SaveOwner
<1>4. LeavesVerdict(args)
  <2> HIDE DEF args
  <2> QED BY <1>1, <1>2, <1>3 DEF LeavesVerdict
<1> QED BY <1>4

LEMMA ExcludeGives ==
    ASSUME TypeOK, NEW n \in Names, NEW reason \in Reasons, Exclude(n, reason)
    PROVE  \E args : GivesVerdict(args)
<1> DEFINE args == [AsIs(n) EXCEPT !.excl = "1", !.reason = reason]
<1>1. /\ args.by = n /\ args.done = Done(row) /\ args.owner = Keep
      /\ args.excl = "1" /\ args.reason = reason
  BY DEF AsIs
<1>2. args \in Args
  BY AsIsTyped, ArgsUpdated
<1>3. Upsert(args) /\ verdict' = "1" /\ n \in Admins /\ reason # ""
  BY DEF Exclude
<1>4. GivesVerdict(args)
  <2> HIDE DEF args
  <2> QED BY <1>1, <1>2, <1>3, KeepIsNoValue DEF GivesVerdict
<1> QED BY <1>4

LEMMA RestoreGives ==
    ASSUME TypeOK, NEW n \in Names, Restore(n)
    PROVE  \E args : GivesVerdict(args)
<1> DEFINE args == [AsIs(n) EXCEPT !.excl = "0", !.reason = ""]
<1>1. /\ args.by = n /\ args.done = Done(row) /\ args.owner = Keep
      /\ args.excl = "0" /\ args.reason = ""
  BY DEF AsIs
<1>2. args \in Args
  BY AsIsTyped, ArgsUpdated
<1>3. Upsert(args) /\ verdict' = "0" /\ n \in Admins
  BY DEF Restore
<1>4. GivesVerdict(args)
  <2> HIDE DEF args
  <2> QED BY <1>1, <1>2, <1>3, KeepIsNoValue DEF GivesVerdict
<1> QED BY <1>4

LEMMA Steps ==
    ASSUME TypeOK, Next
    PROVE  \/ \E args : LeavesVerdict(args)
           \/ \E args : GivesVerdict(args)
           \/ \E xl \in Sheets : ReplaceExcel(xl)
           \/ Restart
BY SaveLeaves, SaveOwnerLeaves, ExcludeGives, RestoreGives DEF Next

LEMMA InitTyped == Init => TypeOK
<1> SUFFICES ASSUME Init PROVE TypeOK
  OBVIOUS
<1>1. row \in Row \cup {NoRow} /\ log \in Seq(Entry)
  <2>1. CASE row = NoRow /\ log = <<>>
    BY <2>1
  <2>2. CASE \E n \in Names : row = MigratedRow(n) /\ log = <<MigratedEntry(n)>>
    <3>1. PICK n \in Names : row = MigratedRow(n) /\ log = <<MigratedEntry(n)>>
      BY <2>2
    <3>2. row \in Row
      BY <3>1, NamesNormalised DEF MigratedRow, Row
    <3>3. MigratedEntry(n) \in Entry
      <4> DEFINE new == [f \in {"sched", "done"} |-> IF f = "sched" THEN "date" ELSE "0"]
      <4>1. new \in [{"sched", "done"} -> Values]
        BY DEF Values
      <4>2. {"sched", "done"} \in SUBSET Fields
        BY DEF Fields
      <4>3. new \in UNION {[S -> Values] : S \in SUBSET Fields}
        BY <4>1, <4>2
      <4> QED BY <4>3 DEF MigratedEntry, Entry
    <3> QED BY <3>1, <3>2, <3>3
  <2> QED BY <2>1, <2>2 DEF Init
<1>2. saves \in 0 .. MaxSaves
  <2>1. saves = 0 /\ MaxSaves \in Nat
    BY FlagAssumption DEF Init
  <2> QED BY <2>1
<1> QED BY <1>1, <1>2 DEF Init, TypeOK

\* A restart gives the row an inputter of the right kind.
LEMMA BackfilledTyped ==
    ASSUME TypeOK, row # NoRow
    PROVE  /\ Backfilled(row) \in NormNames \cup {NoOne}
           /\ \/ Backfilled(row) \notin NormAdmins
              \/ Backfilled(row) = row.last
<1>1. row \in Row
  BY DEF TypeOK
<1>2. CASE Ordinary(row.by)
  BY <1>1, <1>2, NamesNormalised DEF Backfilled, Ordinary, Row
<1>3. CASE ~Ordinary(row.by) /\ OrdinaryEntries # {}
  <2> DEFINE k == Max(OrdinaryEntries)
  <2>1. OrdinaryEntries \in SUBSET (1 .. Len(log)) /\ Len(log) \in Nat
    BY DEF TypeOK, OrdinaryEntries
  <2>2. k \in OrdinaryEntries
    BY <1>3, <2>1, MaxIsElement
  <2> HIDE DEF k
  <2>3. log[k] \in Entry /\ Ordinary(log[k].by)
    BY <2>2 DEF TypeOK, OrdinaryEntries
  <2>4. Backfilled(row) = Norm[log[k].by]
    BY <1>3 DEF Backfilled, k
  <2> QED BY <2>3, <2>4, NamesNormalised DEF Entry, Ordinary
<1>4. CASE ~Ordinary(row.by) /\ OrdinaryEntries = {}
  BY <1>1, <1>4 DEF Backfilled, Row
<1> QED BY <1>2, <1>3, <1>4

LEMMA RestartRow ==
    ASSUME TypeOK, Restart
    PROVE  /\ row \in Row /\ row' \in Row
           /\ row # NoRow /\ row' # NoRow
           /\ row'.sched = row.sched /\ row'.done = row.done
           /\ row'.owner = row.owner /\ row'.excl = row.excl
           /\ row'.reason = row.reason /\ row'.by = row.by
           /\ row'.last = Backfilled(row)
<1>1. row # NoRow /\ row' = [row EXCEPT !.last = Backfilled(row)]
  BY DEF Restart
<1>2. row \in Row
  BY <1>1 DEF TypeOK
<1>3. Backfilled(row) \in NormNames \cup {NoOne}
  BY <1>1, BackfilledTyped
<1>4. row' \in Row
  BY <1>1, <1>2, <1>3 DEF Row
<1>5. /\ row'.sched = row.sched /\ row'.done = row.done
      /\ row'.owner = row.owner /\ row'.excl = row.excl
      /\ row'.reason = row.reason /\ row'.by = row.by
      /\ row'.last = Backfilled(row)
  BY <1>1, <1>2 DEF Row
<1> QED BY <1>1, <1>2, <1>4, <1>5, FlagAssumption

LEMMA NextTyped == TypeOK /\ [Next]_vars => TypeOK'
<1> SUFFICES ASSUME TypeOK, [Next]_vars PROVE TypeOK'
  OBVIOUS
<1>1. ASSUME NEW args, LeavesVerdict(args) PROVE TypeOK'
  BY <1>1, UpsertTyped DEF LeavesVerdict, TypeOK
<1>2. ASSUME NEW args, GivesVerdict(args) PROVE TypeOK'
  BY <1>2, UpsertTyped DEF GivesVerdict, TypeOK
<1>3. ASSUME NEW xl \in Sheets, ReplaceExcel(xl) PROVE TypeOK'
  BY <1>3 DEF ReplaceExcel, TypeOK
<1>4. CASE Restart
  <2>1. row' \in Row
    BY <1>4, RestartRow
  <2>2. saves' \in 0 .. MaxSaves
    <3>1. saves \in 0 .. MaxSaves /\ MaxSaves \in Nat
      BY FlagAssumption DEF TypeOK
    <3>2. saves < MaxSaves /\ saves' = saves + 1
      BY <1>4 DEF Restart, Count
    <3> QED BY <3>1, <3>2
  <2> QED BY <1>4, <2>1, <2>2 DEF Restart, TypeOK
<1>5. CASE UNCHANGED vars
  BY <1>5 DEF vars, TypeOK
<1> QED BY <1>1, <1>2, <1>3, <1>4, <1>5, Steps

\* Every value is of its type, in every state of every instance.
THEOREM TypeCorrect == Spec => []TypeOK
BY InitTyped, NextTyped, PTL DEF Spec

-----------------------------------------------------------------------------
(***************************************************************************)
(* Exclusions, reasons and inputters.                                      *)
(***************************************************************************)

\* Inductive: the column holds the last verdict.
VerdictRecorded == verdict # Keep => row # NoRow /\ row.excl = verdict

Inv == TypeOK /\ VerdictRecorded /\ ReasonOfVerdict /\ InputterOrdinary

\* The columns of the row after a save.
LEMMA UpsertRow ==
    ASSUME TypeOK, NEW args \in Args, Upsert(args)
    PROVE  /\ row' # NoRow
           /\ row'.by = args.by
           /\ row'.sched = args.sched
           /\ row'.done = args.done
           /\ row'.owner = IF args.owner = Keep THEN Owner(row) ELSE args.owner
           /\ row'.excl = IF args.excl = Keep THEN Verdict(row) ELSE args.excl
           /\ row'.reason = IF args.reason = Keep THEN Column(row, "reason", Keep)
                            ELSE args.reason
           /\ row'.last = IF Ordinary(args.by) THEN Norm[args.by]
                          ELSE Column(row, "last", NoOne)
<1>1. row' # NoRow
  BY UpsertTyped, FlagAssumption
<1>2. row' = [sched |-> args.sched, done |-> args.done,
              owner |-> Coalesce(args.owner, "owner"),
              excl |-> Coalesce(args.excl, "excl"),
              reason |-> Coalesce(args.reason, "reason"),
              by |-> args.by, last |-> NextInputter(args.by)]
  BY DEF Upsert
<1> QED BY <1>1, <1>2 DEF Coalesce, NextInputter, Owner, Verdict

LEMMA InitInv == Init => Inv
<1> SUFFICES ASSUME Init PROVE Inv
  OBVIOUS
<1>1. VerdictRecorded /\ ReasonOfVerdict
  BY KeepIsNoValue DEF Init, VerdictRecorded, ReasonOfVerdict
<1>2. InputterOrdinary
  BY NamesNormalised DEF Init, InputterOrdinary, MigratedRow, Ordinary
<1> QED BY <1>1, <1>2, InitTyped DEF Inv

LEMMA NextInv == Inv /\ [Next]_vars => Inv'
<1> SUFFICES ASSUME Inv, [Next]_vars PROVE Inv'
  OBVIOUS
<1> USE DEF Inv
<1>1. TypeOK'
  BY NextTyped
<1>2. ASSUME NEW args \in Args, Upsert(args) PROVE InputterOrdinary'
  <2>1. Column(row, "last", NoOne) \notin NormAdmins
    BY NamesNormalised DEF InputterOrdinary, Column
  <2> QED BY <1>2, <2>1, UpsertRow DEF InputterOrdinary, Ordinary
<1>3. ASSUME NEW args, LeavesVerdict(args) PROVE (VerdictRecorded /\ ReasonOfVerdict)'
  <2>1. args \in Args /\ Upsert(args) /\ verdict' = verdict /\ args.excl = Keep /\ args.reason = Keep
    BY <1>3 DEF LeavesVerdict
  <2>2. row' # NoRow /\ row'.excl = Verdict(row) /\ row'.reason = Column(row, "reason", Keep)
    BY <2>1, UpsertRow
  <2> QED BY <2>1, <2>2, KeepIsNoValue
          DEF VerdictRecorded, ReasonOfVerdict, Verdict, Column
<1>4. ASSUME NEW args, GivesVerdict(args) PROVE (VerdictRecorded /\ ReasonOfVerdict)'
  <2>1. args \in Args /\ Upsert(args) /\ args.excl = verdict' /\ verdict' \in Verdicts
    BY <1>4 DEF GivesVerdict
  <2>2. row' # NoRow /\ row'.excl = verdict' /\ row'.reason = args.reason
    BY <1>4, <2>1, UpsertRow, KeepIsNoValue DEF GivesVerdict
  <2> QED BY <1>4, <2>2 DEF GivesVerdict, VerdictRecorded, ReasonOfVerdict
<1>5. ASSUME NEW xl \in Sheets, ReplaceExcel(xl) PROVE Inv'
  BY <1>1, <1>5 DEF ReplaceExcel, VerdictRecorded, ReasonOfVerdict, InputterOrdinary
<1>6. CASE Restart
  <2>1. row # NoRow /\ row \in Row /\ verdict' = verdict
    BY <1>6 DEF Restart, TypeOK
  <2>2. /\ row' # NoRow
        /\ row'.excl = row.excl /\ row'.reason = row.reason
        /\ row'.last = Backfilled(row)
    BY <1>6, RestartRow
  <2>3. InputterOrdinary'
    BY <2>1, <2>2, BackfilledTyped DEF InputterOrdinary
  <2>4. (VerdictRecorded /\ ReasonOfVerdict)'
    BY <2>1, <2>2, KeepIsNoValue DEF VerdictRecorded, ReasonOfVerdict
  <2> QED BY <1>1, <2>3, <2>4
<1>7. CASE UNCHANGED vars
  BY <1>1, <1>7 DEF vars, VerdictRecorded, ReasonOfVerdict, InputterOrdinary
<1>8. ASSUME NEW args, LeavesVerdict(args) \/ GivesVerdict(args) PROVE Inv'
  <2>1. args \in Args /\ Upsert(args)
    BY <1>8 DEF LeavesVerdict, GivesVerdict
  <2> QED BY <1>1, <1>2, <1>3, <1>4, <1>8, <2>1
<1> QED BY <1>5, <1>6, <1>7, <1>8, Steps

LEMMA Invariance == Spec => []Inv
BY InitInv, NextInv, PTL DEF Spec

\* What an admin decided last in the web counts, whatever is saved since and
\* whatever Excel says.
THEOREM VerdictWins == Spec => []WebVerdictWins
<1>1. Inv => WebVerdictWins
  <2> SUFFICES ASSUME Inv PROVE WebVerdictWins
    OBVIOUS
  <2>1. verdict # Keep => Verdict(row) = verdict
    BY DEF Inv, VerdictRecorded, Verdict, Column
  <2>2. table \in {"capacity", "eos", "kernel"}
    BY FlagAssumption DEF Inv, TypeOK, Logged
  <2>3. "0" # Keep /\ "1" # Keep
    BY KeepIsNoValue
  <2> QED
    BY <2>1, <2>2, <2>3 DEF WebVerdictWins, Excluded, Target
<1> QED BY <1>1, Invariance, PTL

\* Exclusions by an admin keep their reason.
THEOREM ReasonsKept == Spec => []ReasonOfVerdict
<1>1. Inv => ReasonOfVerdict
  BY DEF Inv
<1> QED BY <1>1, Invariance, PTL

\* No admin is recorded as an inputter, through saves and restarts.
THEOREM InputterIsOrdinary == Spec => []InputterOrdinary
<1>1. Inv => InputterOrdinary
  BY DEF Inv
<1> QED BY <1>1, Invariance, PTL

-----------------------------------------------------------------------------
(***************************************************************************)
(* What a save may not do.                                                 *)
(***************************************************************************)

LEMMA StepGuardsTargets ==
    ASSUME TypeOK, [Next]_vars, excel' = excel,
           Target(table, excel, row') # Target(table, excel, row)
    PROVE  \/ row'.by \in Admins
           \/ table = "capacity" /\ excel.flag # "O" /\ Schedule(row') # Schedule(row)
<1>1. ASSUME Verdict(row') = Verdict(row)
      PROVE  table = "capacity" /\ excel.flag # "O" /\ Schedule(row') # Schedule(row)
  <2>1. Excluded(table, excel, row') = Excluded(table, excel, row)
    BY <1>1 DEF Excluded
  <2>2. table = "capacity" /\ excel.flag # "O"
    BY <1>1, <2>1 DEF Target
  <2> QED BY <2>1, <2>2 DEF Target, Shown
<1>2. ASSUME NEW args, LeavesVerdict(args) PROVE Verdict(row') = Verdict(row)
  BY <1>2, UpsertRow DEF LeavesVerdict, Verdict, Column
<1>3. ASSUME NEW args, GivesVerdict(args) PROVE row'.by \in Admins
  BY <1>3, UpsertRow DEF GivesVerdict
<1>4. ASSUME NEW xl \in Sheets, ReplaceExcel(xl) PROVE FALSE
  BY <1>4 DEF ReplaceExcel
<1>5. CASE Restart
  <2>1. Verdict(row') = Verdict(row)
    BY <1>5, RestartRow DEF Verdict, Column
  <2> QED BY <1>1, <2>1
<1>6. CASE UNCHANGED vars
  BY <1>1, <1>6 DEF vars
<1> QED BY <1>1, <1>2, <1>3, <1>4, <1>5, <1>6, Steps

\* Only admins change what the completion rate is counted over, but for the
\* schedule of a capacity item that Excel says nothing final about.
THEOREM DenominatorIsGuarded == Spec => DenominatorGuarded
<1>1. TypeOK /\ [Next]_vars =>
          [(excel' = excel /\ Target(table, excel, row') # Target(table, excel, row))
             => \/ row'.by \in Admins
                \/ /\ table = "capacity" /\ excel.flag # "O"
                   /\ Schedule(row') # Schedule(row)]_vars
  BY StepGuardsTargets
<1> QED BY <1>1, TypeCorrect, PTL DEF Spec, DenominatorGuarded

\* Only admins change the completion mark, the owner and the reason.
THEOREM ColumnsOfAdmins == Spec => AdminColumns
<1> DEFINE Same == /\ Done(row') = Done(row) /\ Owner(row') = Owner(row)
                   /\ Column(row', "reason", Keep) = Column(row, "reason", Keep)
<1>1. TypeOK /\ [Next]_vars => Same \/ row'.by \in Admins
  <2> SUFFICES ASSUME TypeOK, [Next]_vars PROVE Same \/ row'.by \in Admins
    OBVIOUS
  <2>1. ASSUME NEW args, LeavesVerdict(args) PROVE Same \/ row'.by \in Admins
    BY <2>1, UpsertRow DEF LeavesVerdict, Done, Owner, Column
  <2>2. ASSUME NEW args, GivesVerdict(args) PROVE row'.by \in Admins
    BY <2>2, UpsertRow DEF GivesVerdict
  <2>3. ASSUME NEW xl \in Sheets, ReplaceExcel(xl) PROVE Same
    BY <2>3 DEF ReplaceExcel, Done, Owner, Column
  <2>4. CASE Restart
    BY <2>4, RestartRow DEF Done, Owner, Column
  <2>5. CASE UNCHANGED vars
    BY <2>5 DEF vars
  <2> QED BY <2>1, <2>2, <2>3, <2>4, <2>5, Steps
<1>2. TypeOK /\ [Next]_vars =>
          [Done(row') # Done(row) \/ Owner(row') # Owner(row)
             \/ Column(row', "reason", Keep) # Column(row, "reason", Keep)
              => row'.by \in Admins]_vars
  BY <1>1
<1> QED BY <1>2, TypeCorrect, PTL DEF Spec, AdminColumns

-----------------------------------------------------------------------------
(***************************************************************************)
(* The inputter a restart works out again is the one there was.            *)
(***************************************************************************)

\* Inductive: as long as every save has left an entry, the inputter is who the
\* last entry of an ordinary person names.
InputterLogged ==
    /\ table \notin Logged => log = <<>>
    /\ row = NoRow => log = <<>>
    /\ row # NoRow /\ Ordinary(row.by) => row.last = Norm[row.by]
    /\ (table \in Logged /\ ~quiet /\ OrdinaryEntries # {})
           => row.last = Norm[log[Max(OrdinaryEntries)].by]

\* A bound that is an element is the greatest element.
LEMMA MaxIs ==
    ASSUME NEW n \in Nat, NEW S \in SUBSET (1 .. n), NEW x \in S, \A y \in S : x >= y
    PROVE  Max(S) = x
<1>1. S # {}
  OBVIOUS
<1>2. \A z \in S : (\A y \in S : z >= y) => z = x
  OBVIOUS
<1>3. \E z \in S : \A y \in S : z >= y
  OBVIOUS
<1>4. Max(S) \in S /\ \A y \in S : Max(S) >= y
  BY <1>3, Zenon DEF Max
<1> QED BY <1>2, <1>4

LEMMA InitLogged == Init => InputterLogged
<1> SUFFICES ASSUME Init PROVE InputterLogged
  OBVIOUS
<1>1. CASE row = NoRow /\ log = <<>>
  BY <1>1 DEF InputterLogged, OrdinaryEntries
<1>2. CASE /\ table \in Logged
           /\ \E n \in Names : row = MigratedRow(n) /\ log = <<MigratedEntry(n)>>
  <2>1. PICK n \in Names : row = MigratedRow(n) /\ log = <<MigratedEntry(n)>>
    BY <1>2
  <2>2. row \in Row /\ row # NoRow
    <3>1. row \in Row
      BY <2>1, NamesNormalised DEF MigratedRow, Row
    <3> QED BY <3>1, FlagAssumption
  <2>3. row.by = n /\ row.last = IF Ordinary(n) THEN Norm[n] ELSE NoOne
    BY <2>1 DEF MigratedRow
  <2>4. ASSUME OrdinaryEntries # {}
        PROVE  Ordinary(n) /\ log[Max(OrdinaryEntries)].by = n
    <3>1. DOMAIN log = {1} /\ log[1].by = n
      BY <2>1 DEF MigratedEntry
    <3>2. Ordinary(n) /\ OrdinaryEntries = {1}
      BY <2>4, <3>1 DEF OrdinaryEntries
    <3>3. Max(OrdinaryEntries) = 1
      BY <3>2, MaxIs
    <3> QED BY <3>1, <3>2, <3>3
  <2> QED BY <1>2, <2>2, <2>3, <2>4 DEF InputterLogged
<1> QED BY <1>1, <1>2 DEF Init

\* A save adds an entry of its own or, in a table with a log, makes quiet true.
LEMMA SaveLogged ==
    ASSUME TypeOK, InputterLogged, NEW args \in Args, Upsert(args)
    PROVE  InputterLogged'
<1>1. /\ row' # NoRow /\ row'.by = args.by
      /\ row'.last = IF Ordinary(args.by) THEN Norm[args.by] ELSE Column(row, "last", NoOne)
      /\ table' = table /\ log \in Seq(Entry)
  BY UpsertRow, UpsertTyped DEF TypeOK
<1>2. CASE table \in Logged /\ quiet' = quiet
           /\ \E new : log' = Append(log, [by |-> args.by, new |-> new])
  <2>1. PICK new : log' = Append(log, [by |-> args.by, new |-> new])
    BY <1>2
  <2> DEFINE entry == [by |-> args.by, new |-> new]
  <2>2. Len(log) \in Nat /\ DOMAIN log = 1 .. Len(log)
    BY <1>1
  <2>3. /\ DOMAIN log' = 1 .. Len(log) + 1
        /\ log'[Len(log) + 1].by = args.by
        /\ \A k \in 1 .. Len(log) : log'[k] = log[k]
    BY <1>1, <2>1
  <2>4. CASE Ordinary(args.by)
    <3>1. /\ Len(log) + 1 \in OrdinaryEntries'
          /\ OrdinaryEntries' \in SUBSET (1 .. Len(log) + 1)
      BY <2>2, <2>3, <2>4 DEF OrdinaryEntries, Ordinary
    <3>2. Max(OrdinaryEntries') = Len(log) + 1
      <4> DEFINE n == Len(log) + 1
                 S == OrdinaryEntries'
      <4>1. n \in Nat /\ S \in SUBSET (1 .. n) /\ n \in S
        BY <2>2, <3>1
      <4> HIDE DEF n, S
      <4>2. \A y \in S : n >= y
        BY <4>1
      <4>3. Max(S) = n
        BY <4>1, <4>2, MaxIs
      <4> QED BY <4>3 DEF n, S
    <3>3. Norm[log'[Max(OrdinaryEntries)'].by] = Norm[args.by]
      BY <2>3, <3>2 DEF Max
    <3> QED BY <1>1, <1>2, <2>4, <3>3 DEF InputterLogged, Ordinary
  <2>5. CASE ~Ordinary(args.by)
    <3>1. OrdinaryEntries' = OrdinaryEntries
      BY <2>2, <2>3, <2>5 DEF OrdinaryEntries, Ordinary
    <3>2. ASSUME OrdinaryEntries # {}
          PROVE  /\ row # NoRow /\ row'.last = row.last
                 /\ log'[Max(OrdinaryEntries)] = log[Max(OrdinaryEntries)]
      <4>1. Max(OrdinaryEntries) \in OrdinaryEntries
        BY <2>2, <3>2, MaxIsElement DEF OrdinaryEntries
      <4>2. Max(OrdinaryEntries) \in 1 .. Len(log)
        BY <2>2, <4>1 DEF OrdinaryEntries
      <4>3. row # NoRow
        BY <4>2 DEF InputterLogged
      <4> QED BY <1>1, <2>3, <2>5, <4>2, <4>3 DEF Column
    <3>3. (table \in Logged /\ ~quiet /\ OrdinaryEntries # {})' =>
              row'.last = Norm[log'[Max(OrdinaryEntries)'].by]
      BY <1>2, <3>1, <3>2 DEF InputterLogged
    <3> QED BY <1>1, <1>2, <2>5, <3>3 DEF InputterLogged, Ordinary
  <2> QED BY <2>4, <2>5
<1>3. CASE log' = log /\ quiet' = TRUE
  <2>1. row = NoRow => log = <<>>
    BY DEF InputterLogged
  <2> QED BY <1>1, <1>3, <2>1 DEF InputterLogged, Ordinary
<1> QED BY <1>2, <1>3 DEF Upsert, Log

\* With every save in the log, a restart finds the inputter there is.
LEMMA RestartFinds ==
    ASSUME TypeOK, InputterLogged, row # NoRow, ~(quiet /\ table \in Logged)
    PROVE  Backfilled(row) = row.last
<1>1. CASE Ordinary(row.by)
  BY <1>1 DEF InputterLogged, Backfilled
<1>2. CASE ~Ordinary(row.by) /\ OrdinaryEntries = {}
  BY <1>2 DEF Backfilled
<1>3. CASE ~Ordinary(row.by) /\ OrdinaryEntries # {}
  <2>1. table \in Logged
    BY <1>3 DEF InputterLogged, OrdinaryEntries
  <2> QED BY <1>3, <2>1 DEF InputterLogged, Backfilled, TypeOK
<1> QED BY <1>1, <1>2, <1>3

LEMMA NextLogged == TypeOK /\ InputterLogged /\ [Next]_vars => InputterLogged'
<1> SUFFICES ASSUME TypeOK, InputterLogged, [Next]_vars PROVE InputterLogged'
  OBVIOUS
<1>1. ASSUME NEW args, LeavesVerdict(args) \/ GivesVerdict(args) PROVE InputterLogged'
  BY <1>1, SaveLogged DEF LeavesVerdict, GivesVerdict
<1>2. ASSUME NEW xl \in Sheets, ReplaceExcel(xl) PROVE InputterLogged'
  BY <1>2 DEF ReplaceExcel, InputterLogged, OrdinaryEntries, Ordinary, Max
<1>3. CASE Restart
  <2>1. /\ row # NoRow /\ row' # NoRow /\ row'.by = row.by /\ row'.last = Backfilled(row)
        /\ table' = table /\ log' = log /\ quiet' = quiet /\ quiet \in BOOLEAN
    BY <1>3, RestartRow DEF Restart, TypeOK
  <2>2. OrdinaryEntries' = OrdinaryEntries
    BY <2>1 DEF OrdinaryEntries, Ordinary
  <2>3. Ordinary(row.by) => Backfilled(row) = Norm[row.by]
    BY DEF Backfilled
  <2>4. (table \in Logged /\ ~quiet) => Backfilled(row) = row.last
    BY <2>1, RestartFinds
  <2> QED BY <2>1, <2>2, <2>3, <2>4 DEF InputterLogged, Ordinary
<1>4. CASE UNCHANGED vars
  BY <1>4 DEF vars, InputterLogged, OrdinaryEntries, Ordinary, Max
<1> QED BY <1>1, <1>2, <1>3, <1>4, Steps

LEMMA StepKeepsInputter ==
    ASSUME TypeOK, InputterLogged, [Next]_vars,
           row # NoRow, saves' # saves, log' = log, row'.by = row.by,
           ~(quiet' /\ table \in Logged)
    PROVE  row'.last = row.last
<1>1. ASSUME NEW args, LeavesVerdict(args) \/ GivesVerdict(args)
      PROVE  row'.last = row.last
  <2>1. args \in Args /\ Upsert(args)
    BY <1>1 DEF LeavesVerdict, GivesVerdict
  <2>2. row'.last = IF Ordinary(row.by) THEN Norm[row.by] ELSE row.last
    BY <2>1, UpsertRow DEF Column
  <2> QED BY <2>2 DEF InputterLogged
<1>2. ASSUME NEW xl \in Sheets, ReplaceExcel(xl) PROVE FALSE
  BY <1>2 DEF ReplaceExcel
<1>3. CASE Restart
  BY <1>3, RestartRow, RestartFinds DEF Restart
<1>4. CASE UNCHANGED vars
  BY <1>4 DEF vars
<1> QED BY <1>1, <1>2, <1>3, <1>4, Steps

\* A restart does not change whom reminders go to, as long as every save has
\* left an entry in the log; for the kernel table it never does.
THEOREM RestartIsSafe == Spec => RestartKeepsInputter
<1>1. Spec => []InputterLogged
  BY InitLogged, NextLogged, TypeCorrect, PTL DEF Spec
<1>2. TypeOK /\ InputterLogged /\ [Next]_vars =>
          [(row # NoRow /\ saves' # saves /\ log' = log /\ row'.by = row.by
            /\ ~(quiet' /\ table \in Logged)) => row'.last = row.last]_vars
  BY StepKeepsInputter
<1> QED BY <1>1, <1>2, TypeCorrect, PTL DEF Spec, RestartKeepsInputter

-----------------------------------------------------------------------------
(***************************************************************************)
(* The change log tells the row: a column that a save changes gets an      *)
(* entry, which is the last one; a column that it leaves keeps its last.   *)
(***************************************************************************)

LoggedOf(f) == {k \in DOMAIN log : f \in DOMAIN log[k].new}

Told(f) ==
    IF LoggedOf(f) # {} THEN row[f] = log[Max(LoggedOf(f))].new[f]
    ELSE row[f] \in {"", Keep} \/ (f = "excl" /\ row.excl = "0")

LogBegins == row = NoRow => log = <<>>

LogInv == LogTellsRow /\ LogBegins

LEMMA TellsEach ==
    LogTellsRow <=> (table \in Logged /\ row # NoRow => \A f \in Fields : Told(f))
BY DEF LogTellsRow, Told, LoggedOf

\* A column of the row after a save.
LEMMA SavedColumn ==
    ASSUME TypeOK, NEW args \in Args, Upsert(args), NEW f \in Fields
    PROVE  row'[f] = IF args[f] = Keep THEN Column(row, f, Keep) ELSE args[f]
<1>1. args.sched # Keep /\ args.done # Keep
  BY KeepIsNoValue DEF Args, Values
<1>2. f \in {"sched", "done", "owner", "excl", "reason"}
  BY DEF Fields
<1> QED
  BY <1>1, <1>2, UpsertRow DEF Owner, Verdict

\* What a save adds to the log of a column.
LEMMA SavedEntry ==
    ASSUME TypeOK, table \in Logged, NEW args \in Args, Upsert(args), NEW f \in Fields
    PROVE  /\ Differs(f, args[f]) =>
                 LoggedOf(f)' # {} /\ log'[Max(LoggedOf(f)')].new[f] = args[f]
           /\ ~Differs(f, args[f]) =>
                 /\ LoggedOf(f)' = LoggedOf(f)
                 /\ \A k \in LoggedOf(f) : log'[k] = log[k]
<1> DEFINE C == {g \in Fields : Differs(g, args[g])}
           entry == [by |-> args.by, new |-> [g \in C |-> args[g]]]
           n == Len(log)
<1>1. log' = Append(log, entry) \/ (log' = log /\ C = {})
  BY DEF Upsert, Log
<1>2. log \in Seq(Entry) /\ n \in Nat /\ DOMAIN log = 1 .. n
  BY DEF TypeOK
<1>3. /\ DOMAIN entry.new = C
      /\ \A g \in C : entry.new[g] = args[g]
      /\ f \in C <=> Differs(f, args[f])
  OBVIOUS
<1> HIDE DEF entry, C
<1>4. CASE log' = Append(log, entry)
  <2>1. /\ DOMAIN log' = 1 .. n + 1 /\ log'[n + 1] = entry
        /\ \A k \in 1 .. n : log'[k] = log[k]
    BY <1>2, <1>4
  <2> HIDE DEF n
  <2>2. ASSUME f \in C
        PROVE  LoggedOf(f)' # {} /\ log'[Max(LoggedOf(f)')].new[f] = args[f]
    <3>1. /\ n + 1 \in LoggedOf(f)' /\ LoggedOf(f)' \in SUBSET (1 .. n + 1)
          /\ \A k \in LoggedOf(f)' : n + 1 >= k
      BY <1>2, <1>3, <2>1, <2>2 DEF LoggedOf
    <3>2. Max(LoggedOf(f)') = n + 1
      <4> DEFINE m == n + 1
                 S == LoggedOf(f)'
      <4>1. m \in Nat /\ m \in S /\ S \in SUBSET (1 .. m) /\ \A k \in S : m >= k
        BY <1>2, <3>1
      <4> HIDE DEF m, S
      <4>2. Max(S) = m
        BY <4>1, MaxIs
      <4> QED BY <4>2 DEF m, S
    <3> QED BY <1>3, <2>1, <2>2, <3>1, <3>2
  <2>3. ASSUME f \notin C
        PROVE  LoggedOf(f)' = LoggedOf(f) /\ \A k \in LoggedOf(f) : log'[k] = log[k]
    <3>1. \A k \in 1 .. n + 1 : k \in 1 .. n \/ k = n + 1
      BY <1>2
    <3>2. 1 .. n \subseteq 1 .. n + 1
      BY <1>2
    <3> QED BY <1>2, <1>3, <2>1, <2>3, <3>1, <3>2 DEF LoggedOf
  <2> QED BY <1>3, <2>2, <2>3
<1>5. CASE log' = log /\ C = {}
  BY <1>3, <1>5 DEF LoggedOf
<1> QED BY <1>1, <1>4, <1>5

LEMMA SaveTells ==
    ASSUME TypeOK, LogInv, NEW args \in Args, Upsert(args)
    PROVE  LogInv'
<1>1. row' # NoRow /\ table' = table
  BY UpsertRow, UpsertTyped
<1>2. ASSUME table \in Logged, NEW f \in Fields PROVE Told(f)'
  <2>1. row'[f] = IF args[f] = Keep THEN Column(row, f, Keep) ELSE args[f]
    BY SavedColumn
  <2>2. CASE Differs(f, args[f])
    <3>1. args[f] # Keep
      BY <2>2 DEF Differs
    <3> QED BY <1>2, <2>1, <2>2, <3>1, SavedEntry DEF Told
  <2>3. CASE ~Differs(f, args[f])
    <3>1. LoggedOf(f)' = LoggedOf(f) /\ \A k \in LoggedOf(f) : log'[k] = log[k]
      BY <1>2, <2>3, SavedEntry
    <3>2. row'[f] = Column(row, f, Keep) \/ row'[f] = Column(row, f, "")
      BY <2>1, <2>3 DEF Differs
    <3>3. CASE row = NoRow
      <4>1. LoggedOf(f) = {}
        BY <3>3 DEF LogInv, LogBegins, LoggedOf
      <4>2. row'[f] \in {"", Keep}
        BY <3>2, <3>3 DEF Column
      <4> QED BY <3>1, <4>1, <4>2 DEF Told
    <3>4. CASE row # NoRow
      <4>1. row'[f] = row[f] /\ Told(f)
        BY <1>2, <3>2, <3>4, TellsEach DEF Column, LogInv
      <4>2. LoggedOf(f) # {} => Max(LoggedOf(f)) \in LoggedOf(f)
        <5>1. Len(log) \in Nat /\ LoggedOf(f) \in SUBSET (1 .. Len(log))
          BY DEF TypeOK, LoggedOf
        <5> QED BY <5>1, MaxIsElement
      <4>3. f = "excl" /\ row.excl = "0" => row'.excl = "0"
        BY <4>1
      <4> QED BY <3>1, <4>1, <4>2, <4>3 DEF Told
    <3> QED BY <3>3, <3>4
  <2> QED BY <2>2, <2>3
<1>3. LogTellsRow'
  BY <1>1, <1>2 DEF LogTellsRow, Told, LoggedOf
<1> QED BY <1>1, <1>3 DEF LogInv, LogBegins

LEMMA InitTells == Init => LogInv
<1> SUFFICES ASSUME Init PROVE LogInv
  OBVIOUS
<1>1. CASE row = NoRow /\ log = <<>>
  BY <1>1 DEF LogInv, LogBegins, LogTellsRow
<1>2. ASSUME NEW n \in Names, row = MigratedRow(n), log = <<MigratedEntry(n)>>
      PROVE  LogInv
  <2>1. /\ DOMAIN log = {1}
        /\ DOMAIN log[1].new = {"sched", "done"}
        /\ log[1].new["sched"] = "date" /\ log[1].new["done"] = "0"
    BY <1>2 DEF MigratedEntry
  <2>2. /\ row.sched = "date" /\ row.done = "0" /\ row.owner = Keep
        /\ row.excl = "0" /\ row.reason = Keep
    BY <1>2 DEF MigratedRow
  <2>3. ASSUME NEW f \in {"sched", "done"} PROVE Told(f)
    <3>1. LoggedOf(f) = {1}
      BY <2>1 DEF LoggedOf
    <3>2. Max({1}) = 1
      BY MaxIs
    <3> QED BY <2>1, <2>2, <2>3, <3>1, <3>2 DEF Told
  <2>4. ASSUME NEW f \in {"owner", "excl", "reason"} PROVE Told(f)
    <3>1. LoggedOf(f) = {}
      BY <2>1 DEF LoggedOf
    <3> QED BY <2>2, <3>1 DEF Told
  <2>5. \A f \in Fields : Told(f)
    BY <2>3, <2>4 DEF Fields
  <2>6. LogTellsRow
    BY <2>5, TellsEach
  <2>7. row # NoRow
    <3>1. (IF Ordinary(n) THEN Norm[n] ELSE NoOne) \in NormNames \cup {NoOne}
      BY NamesNormalised
    <3>2. row \in Row
      BY <1>2, <3>1 DEF MigratedRow, Row
    <3> QED BY <3>2, FlagAssumption
  <2> QED BY <2>6, <2>7 DEF LogInv, LogBegins
<1> QED BY <1>1, <1>2 DEF Init

LEMMA NextTells == TypeOK /\ LogInv /\ [Next]_vars => LogInv'
<1> SUFFICES ASSUME TypeOK, LogInv, [Next]_vars PROVE LogInv'
  OBVIOUS
<1>1. ASSUME NEW args, LeavesVerdict(args) \/ GivesVerdict(args) PROVE LogInv'
  BY <1>1, SaveTells DEF LeavesVerdict, GivesVerdict
<1>2. ASSUME UNCHANGED <<table, log>>, row' = row \/ (row # NoRow /\ row' # NoRow),
             row # NoRow => /\ row'.sched = row.sched /\ row'.done = row.done
                            /\ row'.owner = row.owner /\ row'.excl = row.excl
                            /\ row'.reason = row.reason
      PROVE  LogInv'
  <2>1. row # NoRow => \A f \in Fields : row'[f] = row[f]
    BY <1>2 DEF Fields
  <2> QED BY <1>2, <2>1 DEF LogInv, LogBegins, LogTellsRow
<1>3. CASE Restart
  BY <1>2, <1>3, RestartRow DEF Restart
<1>4. CASE (\E xl \in Sheets : ReplaceExcel(xl)) \/ UNCHANGED vars
  BY <1>2, <1>4 DEF ReplaceExcel, vars
<1> QED BY <1>1, <1>3, <1>4, Steps

\* The last entry of the log for a column has the value in the row, for any
\* number of saves and restarts; a column without one is blank.
THEOREM LogIsTrue == Spec => []LogTellsRow
<1>1. Spec => []LogInv
  BY InitTells, NextTells, TypeCorrect, PTL DEF Spec
<1>2. LogInv => LogTellsRow
  BY DEF LogInv
<1> QED BY <1>1, <1>2, PTL
=============================================================================
