------------------------- MODULE ScheduleInputProofs -------------------------
(***************************************************************************)
(* What ScheduleInput guarantees for any names, owners, schedules in Excel *)
(* and number of saves, by whichever of the three writers there are.       *)
(*                                                                         *)
(* The argument.  As long as no two saves have overlapped, what a save has *)
(* read is the row it overwrites (BeforeIsRow), and what its handler has   *)
(* resolved still holds of the row (DoneResolved).  Whatever overlaps, no  *)
(* row and no save under way names an admin as the inputter (LastOrdinary) *)
(* and the reason in the row is the one last given (ReasonIsLastGiven).    *)
(***************************************************************************)
EXTENDS ScheduleInput, WellFoundedInduction, TLAPS

USE DEF Schedules, Reasons

-----------------------------------------------------------------------------
(***************************************************************************)
(* The greatest and the least element of a set of entries.                 *)
(***************************************************************************)

\* A set of numbers has a least element, which is its Min.
LEMMA MinIsElement ==
    ASSUME NEW S \in SUBSET Nat, S # {}
    PROVE  Min(S) \in S
<1>1. IsWellFoundedOn({ss \in Nat \X Nat : ss[1] < ss[2]}, Nat)
  BY NatLessThanWellFounded DEF OpToRel
<1>2. PICK m \in S : \A y \in S : <<y, m>> \notin {ss \in Nat \X Nat : ss[1] < ss[2]}
  BY <1>1, WFMin, Zenon
<1>3. ASSUME NEW y \in S PROVE m <= y
  <2>1. <<y, m>> \notin {ss \in Nat \X Nat : ss[1] < ss[2]}
    BY <1>2
  <2> QED
    BY <2>1
<1> QED
  BY <1>3 DEF Min

\* A set of numbers with a bound has a greatest element, which is its Max.
LEMMA MaxIsElement ==
    ASSUME NEW n \in Nat, NEW S \in SUBSET (1 .. n), S # {}
    PROVE  Max(S) \in S
<1> DEFINE T == {n - x : x \in S}
<1>1. PICK x \in S : TRUE
  OBVIOUS
<1>2. T \in SUBSET Nat /\ T # {}
  <2>1. \A y \in S : n - y \in Nat
    OBVIOUS
  <2>2. n - x \in T
    OBVIOUS
  <2>3. T \in SUBSET Nat
    BY <2>1
  <2> HIDE DEF T
  <2> QED
    BY <2>2, <2>3
<1>3. Min(T) \in T /\ \A z \in T : Min(T) <= z
  <2> HIDE DEF T
  <2>1. IsWellFoundedOn({ss \in Nat \X Nat : ss[1] < ss[2]}, Nat)
    BY NatLessThanWellFounded DEF OpToRel
  <2>2. PICK m \in T : \A y \in T : <<y, m>> \notin {ss \in Nat \X Nat : ss[1] < ss[2]}
    BY <1>2, <2>1, WFMin, Zenon
  <2>3. ASSUME NEW y \in T PROVE m <= y
    <3>1. <<y, m>> \notin {ss \in Nat \X Nat : ss[1] < ss[2]}
      BY <2>2
    <3> QED
      BY <1>2, <3>1
  <2> QED
    BY <2>3 DEF Min
<1>4. PICK m \in S : Min(T) = n - m
  BY <1>3
<1>5. \A y \in S : m >= y
  <2>1. SUFFICES ASSUME NEW y \in S PROVE m >= y
    OBVIOUS
  <2>2. n - m <= n - y
    BY <1>3, <1>4
  <2> QED
    BY <2>2
<1> QED
  BY <1>5 DEF Max

-----------------------------------------------------------------------------
(***************************************************************************)
(* Types.                                                                  *)
(***************************************************************************)

Inputters == {Norm[n] : n \in AllNames} \cup {NoOne}

LEMMA NamesNormalised ==
    /\ \A n \in AllNames : Norm[n] \in Inputters /\ Norm[n] # NoOne
    /\ NoOne \notin NormAdmins
    /\ Names \subseteq AllNames /\ Admins \subseteq AllNames
    /\ RollbackName \in AllNames
BY InputAssumption DEF Inputters, NormAdmins, AllNames

LEMMA RowTyped ==
    ASSUME row \in Row \cup {NoRow}
    PROVE  /\ ShotOf(row) \in Shot
           /\ ShotOf(row).sched \in Schedules /\ Done(row) \in BOOLEAN
BY InputAssumption DEF Row, Shot, ShotOf, Shot0, Done

LEMMA AsIsTyped ==
    ASSUME TypeOK, NEW n \in AllNames
    PROVE  /\ AsIs(n) \in Args
           /\ AsIs(n).by = n
           /\ AsIs(n).done = Done(row)
           /\ AsIs(n).sched = ShotOf(row).sched
           /\ AsIs(n).reason = Keep
BY RowTyped DEF AsIs, Args, TypeOK

\* The arguments stay of their type with the columns a handler resolves.
LEMMA ArgsUpdated ==
    ASSUME NEW a \in Args, NEW s \in Schedules, NEW d \in BOOLEAN,
           NEW o \in Owners \cup {Keep}, NEW r \in Reasons \cup {Keep},
           NEW c \in BOOLEAN, NEW w \in BOOLEAN
    PROVE  /\ [a EXCEPT !.sched = s, !.done = d, !.owner = o, !.chosen = c] \in Args
           /\ [a EXCEPT !.sched = s, !.done = d, !.chosen = c] \in Args
           /\ [a EXCEPT !.sched = s, !.reason = r, !.chosen = c] \in Args
           /\ [a EXCEPT !.owner = o] \in Args
           /\ [a EXCEPT !.sched = s, !.done = d, !.was = w] \in Args
BY DEF Args

LEMMA LogTyped ==
    ASSUME TypeOK
    PROVE  log \in Seq(LogEntry) /\ Len(log) \in Nat /\ DOMAIN log = 1 .. Len(log)
<1>1. log \in Seq(LogEntry)
  BY DEF TypeOK
<1> QED
  BY <1>1

LEMMA EntryTyped ==
    ASSUME log \in Seq(LogEntry), NEW k \in DOMAIN log
    PROVE  /\ log[k] \in LogEntry
           /\ log[k].old \in Shot /\ log[k].new \in Shot
           /\ log[k].old.sched \in Schedules /\ log[k].old.done \in BOOLEAN
           /\ log[k].by \in AllNames /\ log[k].was \in BOOLEAN
<1>1. log[k] \in LogEntry
  OBVIOUS
<1>2. log[k].old \in Shot /\ log[k].new \in Shot
  BY <1>1 DEF LogEntry
<1> QED
  BY <1>1, <1>2 DEF LogEntry, Shot

\* What a batch has replaced is of the type of the field.
LEMMA RestoredTyped ==
    ASSUME TypeOK, NEW k \in DOMAIN log, NEW n \in Names
    PROVE  /\ Restored(k, n, "sched") \in Schedules \cup {Keep}
           /\ Restored(k, n, "done") \in BOOLEAN \cup {Keep}
<1>1. ASSUME NEW f \in {"sched", "done"}
      PROVE  \/ Restored(k, n, f) = Keep
             \/ \E j \in DOMAIN log : Restored(k, n, f) = log[j].old[f]
  <2>1. CASE Replaced(k, n, f) = {}
    BY <2>1 DEF Restored
  <2>2. CASE Replaced(k, n, f) # {}
    <3>1. Replaced(k, n, f) \in SUBSET (k .. Len(log))
      BY DEF Replaced
    <3>2. k .. Len(log) \subseteq DOMAIN log /\ DOMAIN log \subseteq Nat
      BY LogTyped
    <3>3. Min(Replaced(k, n, f)) \in DOMAIN log
      BY <2>2, <3>1, <3>2, MinIsElement
    <3> QED
      BY <2>2, <3>3 DEF Restored
  <2> QED
    BY <2>1, <2>2
<1>2. \A j \in DOMAIN log : log[j].old.sched \in Schedules /\ log[j].old.done \in BOOLEAN
  BY EntryTyped DEF TypeOK
<1>3. Restored(k, n, "sched") \in Schedules \cup {Keep}
  BY <1>1, <1>2
<1>4. Restored(k, n, "done") \in BOOLEAN \cup {Keep}
  BY <1>1, <1>2
<1> QED
  BY <1>3, <1>4

-----------------------------------------------------------------------------
(***************************************************************************)
(* The handlers: each begins a save with arguments of its kind.            *)
(***************************************************************************)

\* What the handlers have in common: a save of arguments of their type begins,
\* and nobody but an admin and the rollback passes another completion mark than
\* the row has.
Sends(w, a) ==
    /\ a \in Args
    /\ w \in Writers
    /\ ~Saving(w)
    /\ Pass(w, a)
    /\ saves' \in 0 .. MaxSaves
    /\ a.by \in Admins \cup {RollbackName} \/ a.done = Done(row)

LEMMA CountTyped ==
    ASSUME TypeOK, Count
    PROVE  saves' \in 0 .. MaxSaves
<1>1. MaxSaves \in Nat
  BY InputAssumption
<1>2. saves \in 0 .. MaxSaves
  BY DEF TypeOK
<1> QED
  BY <1>1, <1>2 DEF Count

LEMMA BeginSends ==
    ASSUME TypeOK, NEW w, NEW a \in Args, Begin(w, a),
           a.by \in Admins \cup {RollbackName} \/ a.done = Done(row)
    PROVE  Sends(w, a)
BY CountTyped DEF Begin, Sends, Saving

LEMMA SaveSends ==
    ASSUME TypeOK, NEW n \in Names, NEW shown \in Schedules, NEW sched \in Schedules,
           NEW done \in BOOLEAN, NEW owner \in Owners \cup {Keep},
           Save(n, shown, sched, done, owner)
    PROVE  \E w, a : Sends(w, a)
<1> DEFINE a == [AsIs(n) EXCEPT !.sched = sched, !.done = ResolvedDone(n, done),
                                !.owner = ResolvedOwner(n, owner),
                                !.chosen = sched # shown]
<1>1. n \in AllNames
  BY NamesNormalised
<1>2. /\ ResolvedDone(n, done) \in BOOLEAN
      /\ ResolvedOwner(n, owner) \in Owners \cup {Keep}
      /\ n \in Admins \/ ResolvedDone(n, done) = Done(row)
  BY RowTyped DEF ResolvedDone, ResolvedOwner, TypeOK
<1>3. a.by = n /\ a.done = ResolvedDone(n, done)
  BY DEF AsIs
<1>4. a \in Args
  BY <1>1, <1>2, AsIsTyped, ArgsUpdated
<1>5. Begin(Loop, a)
  BY DEF Save
<1> HIDE DEF a
<1>6. Sends(Loop, a)
  BY <1>2, <1>3, <1>4, <1>5, BeginSends
<1> QED
  BY <1>6

LEMMA SaveFormSends ==
    ASSUME TypeOK, NEW n \in Names, NEW sched \in Schedules, NEW done \in BOOLEAN,
           SaveForm(n, sched, done)
    PROVE  \E w, a : Sends(w, a)
<1> DEFINE a == [AsIs(n) EXCEPT !.sched = sched, !.done = ResolvedDone(n, done),
                                !.chosen = TRUE]
<1>1. n \in AllNames
  BY NamesNormalised
<1>2. ResolvedDone(n, done) \in BOOLEAN /\ (n \in Admins \/ ResolvedDone(n, done) = Done(row))
  BY RowTyped DEF ResolvedDone, TypeOK
<1>3. a.by = n /\ a.done = ResolvedDone(n, done)
  BY DEF AsIs
<1>4. a \in Args
  BY <1>1, <1>2, AsIsTyped, ArgsUpdated
<1>5. Begin(Form, a)
  BY DEF SaveForm
<1> HIDE DEF a
<1>6. Sends(Form, a)
  BY <1>2, <1>3, <1>4, <1>5, BeginSends
<1> QED
  BY <1>6

LEMMA ExcludeSends ==
    ASSUME TypeOK, NEW n \in Names, NEW reason \in Reasons, Exclude(n, reason)
    PROVE  \E w, a : Sends(w, a)
<1> DEFINE a == [AsIs(n) EXCEPT !.sched = "X", !.reason = reason, !.chosen = TRUE]
<1>1. n \in AllNames
  BY NamesNormalised
<1>2. a.by = n
  BY DEF AsIs
<1>3. a \in Args
  BY <1>1, AsIsTyped, ArgsUpdated
<1>4. Begin(Loop, a) /\ n \in Admins
  BY DEF Exclude
<1> HIDE DEF a
<1>5. Sends(Loop, a)
  BY <1>2, <1>3, <1>4, BeginSends
<1> QED
  BY <1>5

LEMMA RestoreSends ==
    ASSUME TypeOK, NEW n \in Names, Restore(n)
    PROVE  \E w, a : Sends(w, a)
<1> DEFINE a == [AsIs(n) EXCEPT !.sched = "", !.reason = "", !.chosen = TRUE]
<1>1. n \in AllNames
  BY NamesNormalised
<1>2. a.by = n
  BY DEF AsIs
<1>3. a \in Args
  BY <1>1, AsIsTyped, ArgsUpdated
<1>4. Begin(Loop, a) /\ n \in Admins
  BY DEF Restore
<1> HIDE DEF a
<1>5. Sends(Loop, a)
  BY <1>2, <1>3, <1>4, BeginSends
<1> QED
  BY <1>5

LEMMA SaveOwnerSends ==
    ASSUME TypeOK, NEW n \in Names, NEW owner \in Owners, SaveOwner(n, owner)
    PROVE  \E w, a : Sends(w, a)
<1> DEFINE a == [AsIs(n) EXCEPT !.owner = owner]
<1>1. n \in AllNames
  BY NamesNormalised
<1>2. a.by = n
  BY DEF AsIs
<1>3. a \in Args
  BY <1>1, AsIsTyped, ArgsUpdated
<1>4. Begin(Loop, a) /\ n \in Admins
  BY DEF SaveOwner
<1> HIDE DEF a
<1>5. Sends(Loop, a)
  BY <1>2, <1>3, <1>4, BeginSends
<1> QED
  BY <1>5

LEMMA RollbackSends ==
    ASSUME TypeOK, Rollback
    PROVE  \E w, a : Sends(w, a)
<1> DEFINE s == IF job[Script].sched = Keep THEN AsIs(RollbackName).sched
                ELSE job[Script].sched
           d == IF job[Script].done = Keep THEN AsIs(RollbackName).done
                ELSE job[Script].done
           a == [AsIs(RollbackName) EXCEPT !.sched = s, !.done = d,
                                           !.was = job[Script].was]
<1>1. RollbackName \in AllNames /\ Script \in Writers
  BY NamesNormalised DEF Rollback
<1>2. job[Script] \in Batch
  BY <1>1 DEF Rollback, TypeOK, Job
<1>3. s \in Schedules /\ d \in BOOLEAN /\ job[Script].was \in BOOLEAN
  BY <1>1, <1>2, AsIsTyped, RowTyped DEF Batch, TypeOK
<1>4. a.by = RollbackName
  BY DEF AsIs
<1>5. a \in Args
  <2> HIDE DEF s, d
  <2> QED
    BY <1>1, <1>3, AsIsTyped, ArgsUpdated
<1>6. Pass(Script, a) /\ saves' = saves /\ ~Saving(Script)
  BY DEF Rollback, Saving
<1> HIDE DEF a
<1>7. Sends(Script, a)
  BY <1>1, <1>4, <1>5, <1>6 DEF Sends, TypeOK
<1> QED
  BY <1>7

\* The steps there are.
LEMMA Steps ==
    ASSUME TypeOK, Next
    PROVE  \/ \E w, a : Sends(w, a)
           \/ \E n \in Names, k \in DOMAIN log : ReadBatch(k, n)
           \/ Replace
           \/ \E w \in Writers : ReadBefore(w) \/ Write(w)
           \/ Restart
BY SaveSends, SaveFormSends, ExcludeSends, RestoreSends, SaveOwnerSends, RollbackSends DEF Next

-----------------------------------------------------------------------------
(***************************************************************************)
(* The types are kept.                                                     *)
(***************************************************************************)

LEMMA InitTyped == Init => TypeOK
<1> SUFFICES ASSUME Init PROVE TypeOK
  OBVIOUS
<1>1. MaxSaves \in Nat
  BY InputAssumption
<1>2. saves \in 0 .. MaxSaves /\ log \in Seq(LogEntry)
  BY <1>1 DEF Init
<1>3. excel \in Schedules /\ screens \subseteq Schedules /\ job \in [Writers -> Job \cup {NoJob}]
  BY InputAssumption DEF Init
<1> QED
  BY <1>2, <1>3 DEF Init, TypeOK

LEMMA PassTyped ==
    ASSUME TypeOK, NEW w, NEW a, Sends(w, a)
    PROVE  TypeOK'
<1>1. [at |-> "before", before |-> NoRow, args |-> a] \in Job
  BY DEF Job, Sends
<1>2. job' \in [Writers -> Job \cup {NoJob}]
  BY <1>1 DEF Sends, Pass, TypeOK
<1> QED
  BY <1>2 DEF Sends, Pass, TypeOK

LEMMA BatchTyped ==
    ASSUME TypeOK, NEW n \in Names, NEW k \in DOMAIN log, ReadBatch(k, n)
    PROVE  TypeOK'
<1> DEFINE b == [at |-> "restore", sched |-> Restored(k, n, "sched"),
                 done |-> Restored(k, n, "done"), was |-> log[k].was]
<1>1. saves' \in 0 .. MaxSaves
  BY CountTyped DEF ReadBatch
<1>2. b \in Job
  BY RestoredTyped, EntryTyped DEF Job, Batch, TypeOK
<1>3. job' = [job EXCEPT ![Script] = b]
  BY DEF ReadBatch
<1> HIDE DEF b
<1>4. job' \in [Writers -> Job \cup {NoJob}]
  BY <1>2, <1>3 DEF TypeOK
<1> QED
  BY <1>1, <1>4 DEF ReadBatch, TypeOK

\* What the screens show is a schedule.
LEMMA ScreensTyped ==
    ASSUME screens \subseteq Schedules, screens' = screens \cup OnScreen',
           row' \in Row \cup {NoRow}, excel' \in Schedules
    PROVE  screens' \subseteq Schedules
<1>1. Shown(row)' \in Schedules
  BY InputAssumption DEF Row, ShotOf, Shot0, Shown
<1> QED
  BY <1>1 DEF OnScreen

LEMMA ReplaceTyped ==
    ASSUME TypeOK, Replace
    PROVE  TypeOK'
<1>1. excel' \in Schedules
  BY InputAssumption DEF Replace
<1>2. screens' \subseteq Schedules
  BY <1>1, ScreensTyped DEF Replace, TypeOK
<1> QED
  BY <1>1, <1>2 DEF Replace, TypeOK

\* A save under way, and what it passes to upsert_input.
LEMMA JobTyped ==
    ASSUME TypeOK, NEW w \in Writers, Saving(w)
    PROVE  /\ job[w] \in Job
           /\ job[w].before \in Row \cup {NoRow}
           /\ job[w].args \in Args
           /\ job[w].args.by \in AllNames /\ job[w].args.sched \in Schedules
           /\ job[w].args.done \in BOOLEAN
           /\ job[w].args.owner \in Owners \cup {Keep}
           /\ job[w].args.reason \in Reasons \cup {Keep}
<1>1. job[w] \in Job /\ job[w].at # "restore"
  BY DEF TypeOK, Saving
<1>2. job[w].before \in Row \cup {NoRow} /\ job[w].args \in Args
  BY <1>1 DEF Job, Batch
<1> QED
  BY <1>1, <1>2 DEF Args

\* The row a save writes: the columns it passes, the others kept.
LEMMA Written ==
    ASSUME TypeOK, NEW w \in Writers, Write(w)
    PROVE  /\ Saving(w) /\ job[w].at = "write"
           /\ row' = [sched |-> job[w].args.sched, done |-> job[w].args.done,
                      owner |-> Coalesce(row, job[w].args.owner, "owner"),
                      reason |-> Coalesce(row, job[w].args.reason, "reason"),
                      by |-> job[w].args.by,
                      last |-> NextInputter(job[w].before, job[w].args.by)]
           /\ row' \in Row
           /\ row' # NoRow
           /\ row'.last = NextInputter(job[w].before, job[w].args.by)
           /\ row'.reason = Coalesce(row, job[w].args.reason, "reason")
           /\ row'.sched = job[w].args.sched /\ row'.by = job[w].args.by
           /\ ShotOf(row') = [sched |-> job[w].args.sched, done |-> job[w].args.done]
           /\ Done(row') = job[w].args.done
<1>1. /\ Saving(w) /\ job[w].at = "write"
      /\ row' = [sched |-> job[w].args.sched, done |-> job[w].args.done,
                 owner |-> Coalesce(row, job[w].args.owner, "owner"),
                 reason |-> Coalesce(row, job[w].args.reason, "reason"),
                 by |-> job[w].args.by,
                 last |-> NextInputter(job[w].before, job[w].args.by)]
  BY DEF Write, RowOf, Saving
<1>2. /\ Coalesce(row, job[w].args.owner, "owner") \in Owners \cup {Keep}
      /\ Coalesce(row, job[w].args.reason, "reason") \in Reasons \cup {Keep}
  <2>1. row # NoRow => row.owner \in Owners \cup {Keep} /\ row.reason \in Reasons \cup {Keep}
    BY DEF TypeOK, Row
  <2> QED
    BY <1>1, <2>1, JobTyped DEF Coalesce
<1>3. NextInputter(job[w].before, job[w].args.by) \in {Norm[n] : n \in AllNames} \cup {NoOne}
  <2>1. job[w].before # NoRow
        => job[w].before.last \in {Norm[n] : n \in AllNames} \cup {NoOne}
    BY <1>1, JobTyped DEF Row
  <2> QED
    BY <1>1, <2>1, JobTyped DEF NextInputter
<1>4. row' \in Row
  BY <1>1, <1>2, <1>3, JobTyped DEF Row
<1>5. row' # NoRow
  BY <1>4, InputAssumption
<1> QED
  BY <1>1, <1>4, <1>5 DEF ShotOf, Done

LEMMA NewEntryTyped ==
    ASSUME TypeOK, NEW w \in Writers, Write(w)
    PROVE  Entry(job[w].before, job[w].args) \in LogEntry
<1>1. Saving(w)
  BY Written
<1>2. ShotOf(job[w].before) \in Shot
  BY <1>1, JobTyped DEF ShotOf, Shot0, Shot, Row
<1>3. [sched |-> job[w].args.sched, done |-> job[w].args.done] \in Shot
  BY <1>1, JobTyped DEF Shot
<1>4. Excluded(job[w].before) \in BOOLEAN
  BY DEF Excluded
<1> QED
  BY <1>1, <1>2, <1>3, <1>4, JobTyped DEF Entry, LogEntry

LEMMA WriteTyped ==
    ASSUME TypeOK, NEW w \in Writers, Write(w)
    PROVE  TypeOK'
<1>1. Saving(w) /\ row' \in Row
  BY Written
<1>2. Entry(job[w].before, job[w].args) \in LogEntry
  BY NewEntryTyped
<1>3. log' \in Seq(LogEntry)
  <2>1. log' = Append(log, Entry(job[w].before, job[w].args)) \/ log' = log
    BY DEF Write
  <2> QED
    BY <1>2, <2>1, LogTyped
<1>4. job' \in [Writers -> Job \cup {NoJob}]
  BY DEF Write, TypeOK
<1>5. entered' \in AllNames \cup {NoOne}
  <2>1. entered' = job[w].args.by \/ entered' = entered
    BY DEF Write
  <2> QED
    BY <1>1, <2>1, JobTyped DEF TypeOK
<1>6. apart' \in BOOLEAN /\ given' \in Reasons \cup {Keep}
  BY <1>1, JobTyped DEF Write, TypeOK
<1>7. screens' \subseteq Schedules
  BY <1>1, ScreensTyped DEF Write, TypeOK
<1> QED
  BY <1>1, <1>3, <1>4, <1>5, <1>6, <1>7 DEF Write, TypeOK

\* What a restart recomputes: the name of an ordinary person, or what the row
\* had.
LEMMA RestartInputter ==
    ASSUME TypeOK, row # NoRow
    PROVE  \/ Backfilled(row) = row.last
           \/ \E n \in AllNames : Ordinary(n) /\ Backfilled(row) = Norm[n]
<1>1. row.by \in AllNames
  BY DEF TypeOK, Row
<1>2. CASE Ordinary(row.by)
  BY <1>1, <1>2 DEF Backfilled
<1>3. CASE ~Ordinary(row.by) /\ OrdinaryEntries # {}
  <2>1. Len(log) \in Nat /\ OrdinaryEntries \in SUBSET (1 .. Len(log))
    BY LogTyped DEF OrdinaryEntries
  <2>2. Max(OrdinaryEntries) \in OrdinaryEntries
    BY <1>3, <2>1, MaxIsElement
  <2>3. log[Max(OrdinaryEntries)].by \in AllNames /\ Ordinary(log[Max(OrdinaryEntries)].by)
    BY <2>2, EntryTyped DEF OrdinaryEntries, TypeOK
  <2> QED
    BY <1>3, <2>3 DEF Backfilled
<1>4. CASE ~Ordinary(row.by) /\ OrdinaryEntries = {}
  BY <1>4 DEF Backfilled
<1> QED
  BY <1>2, <1>3, <1>4

\* A restart leaves everything of the row but the inputter.
LEMMA Restarted ==
    ASSUME TypeOK, Restart
    PROVE  /\ row' \in Row \cup {NoRow}
           /\ row' = NoRow <=> row = NoRow
           /\ ShotOf(row') = ShotOf(row) /\ Done(row') = Done(row)
           /\ row # NoRow => /\ row'.sched = row.sched /\ row'.by = row.by
                             /\ row'.reason = row.reason
                             /\ row'.last = Backfilled(row)
           /\ given' = given
<1>0. given' = given
  BY DEF Restart
<1>1. CASE row = NoRow
  BY <1>0, <1>1 DEF Restart, ShotOf, Done
<1>2. CASE row # NoRow
  <2>1. row \in Row /\ row' = [row EXCEPT !.last = Backfilled(row)]
    BY <1>2 DEF Restart, TypeOK
  <2>2. Backfilled(row) \in {Norm[n] : n \in AllNames} \cup {NoOne}
    BY <1>2, <2>1, RestartInputter DEF Row
  <2>3. row' \in Row
    BY <2>1, <2>2 DEF Row
  <2>4. row' # NoRow
    BY <2>3, InputAssumption
  <2>5. /\ row'.sched = row.sched /\ row'.by = row.by /\ row'.done = row.done
        /\ row'.reason = row.reason /\ row'.last = Backfilled(row)
    BY <2>1 DEF Row
  <2> QED
    BY <1>0, <1>2, <2>3, <2>4, <2>5 DEF ShotOf, Done
<1> QED
  BY <1>1, <1>2

LEMMA RestartTyped ==
    ASSUME TypeOK, Restart
    PROVE  TypeOK'
<1>1. saves' \in 0 .. MaxSaves
  BY CountTyped DEF Restart
<1>2. job' \in [Writers -> Job \cup {NoJob}] /\ apart' \in BOOLEAN
  BY DEF Restart, TypeOK
<1> QED
  BY <1>1, <1>2, Restarted DEF Restart, TypeOK

LEMMA NextTyped == TypeOK /\ [Next]_vars => TypeOK'
<1> SUFFICES ASSUME TypeOK, [Next]_vars PROVE TypeOK'
  OBVIOUS
<1>3. ASSUME NEW w \in Writers, ReadBefore(w) PROVE TypeOK'
  <2>1. job[w] \in Job /\ job[w].at = "before"
    BY <1>3 DEF ReadBefore, TypeOK
  <2>2. [[job[w] EXCEPT !.at = "write"] EXCEPT !.before = row] \in Job
    BY <2>1 DEF Job, Batch, TypeOK
  <2>3. job' = [job EXCEPT ![w] = [[job[w] EXCEPT !.at = "write"] EXCEPT !.before = row]]
    BY <1>3 DEF ReadBefore, TypeOK
  <2>4. job' \in [Writers -> Job \cup {NoJob}]
    BY <2>2, <2>3 DEF TypeOK
  <2> QED
    BY <1>3, <2>4 DEF ReadBefore, TypeOK
<1>4. ASSUME UNCHANGED vars PROVE TypeOK'
  BY <1>4 DEF vars, TypeOK
<1> QED
  BY <1>3, <1>4, PassTyped, BatchTyped, ReplaceTyped, WriteTyped, RestartTyped, Steps

\* The row, the log, the screens, the saves under way and the histories keep
\* their types, whatever is saved, rolled back or restarted.
THEOREM ScheduleTyped == Spec => []TypeOK
<1>1. Init => TypeOK
  BY InitTyped
<1>2. TypeOK /\ [Next]_vars => TypeOK'
  BY NextTyped
<1> QED
  BY <1>1, <1>2, PTL DEF Spec

-----------------------------------------------------------------------------
(***************************************************************************)
(* The inductive invariant.                                                *)
(***************************************************************************)

\* The save of writer w has read the row.
Reads(w) == Saving(w) /\ job[w].at = "write"

\* No admin's name is carried on by a save under way.
LastOrdinary ==
    /\ InputterOrdinary
    /\ \A w \in Writers :
          Saving(w) /\ job[w].before # NoRow => job[w].before.last \notin NormAdmins

\* What a save has read, and what its handler has resolved, is still so.
BeforeIsRow == apart => \A w \in Writers : Reads(w) => job[w].before = row
DoneResolved ==
    apart => \A w \in Writers :
        Saving(w) => \/ job[w].args.by \in Admins \cup {RollbackName}
                   \/ job[w].args.done = Done(row)

\* No reason has been given for an item without a row.
NothingGiven == row = NoRow => given = Keep

InputInv == TypeOK /\ LastOrdinary /\ BeforeIsRow /\ DoneResolved /\ AuditCurrent
            /\ ReasonIsLastGiven /\ NothingGiven

-----------------------------------------------------------------------------
(***************************************************************************)
(* What each step does to the saves under way.                             *)
(***************************************************************************)

\* A save begins: the row and the other saves stay as they are.
LEMMA BeginJobs ==
    ASSUME TypeOK, NEW w, NEW a, Sends(w, a)
    PROVE  /\ w \in Writers /\ a \in Args
           /\ UNCHANGED <<row, log, apart, given>>
           /\ \A v \in Writers \ {w} : job'[v] = job[v]
           /\ job'[w].at = "before" /\ job'[w].before = NoRow /\ job'[w].args = a
BY DEF Sends, Pass, TypeOK

\* A step that touches neither the row nor a save under way.
Aside ==
    /\ UNCHANGED <<row, log, apart, given>>
    /\ \A v \in Writers : job'[v] # job[v] => ~Saving(v)'

\* Reading the batch and another sheet are such steps.
LEMMA AsideSteps ==
    ASSUME TypeOK
    PROVE  /\ \A n \in Names, k \in DOMAIN log : ReadBatch(k, n) => Aside
           /\ Replace => Aside
           /\ UNCHANGED vars => Aside
<1>1. ASSUME NEW n \in Names, NEW k \in DOMAIN log, ReadBatch(k, n) PROVE Aside
  <2>1. job'[Script].at = "restore" /\ \A v \in Writers \ {Script} : job'[v] = job[v]
    BY <1>1 DEF ReadBatch, TypeOK
  <2> QED
    BY <1>1, <2>1 DEF Aside, ReadBatch, Saving
<1>2. Replace => Aside
  BY DEF Replace, Aside
<1>3. UNCHANGED vars => Aside
  BY DEF vars, Aside
<1> QED
  BY <1>1, <1>2, <1>3

\* A save reads the row.
LEMMA ReadJobs ==
    ASSUME TypeOK, NEW w \in Writers, ReadBefore(w)
    PROVE  /\ UNCHANGED <<row, log, apart, given>>
           /\ \A v \in Writers \ {w} : job'[v] = job[v]
           /\ Saving(w)
           /\ job'[w].before = row /\ job'[w].args = job[w].args
<1>1. job[w] \in Job /\ job[w].at = "before"
  BY DEF ReadBefore, TypeOK
<1>2. job'[w] = [[job[w] EXCEPT !.at = "write"] EXCEPT !.before = row]
  BY DEF ReadBefore, TypeOK
<1>3. job'[w].before = row /\ job'[w].args = job[w].args
  BY <1>1, <1>2 DEF Job, Batch
<1> QED
  BY <1>3 DEF ReadBefore, TypeOK, Saving

\* A save ends; it has overlapped with none if no other is under way.
LEMMA WriteJobs ==
    ASSUME TypeOK, NEW w \in Writers, Write(w)
    PROVE  /\ job'[w] = NoJob
           /\ \A v \in Writers \ {w} : job'[v] = job[v]
           /\ apart' => apart /\ \A v \in Writers : ~Saving(v)'
BY DEF Write, TypeOK, Saving

\* A restart leaves at most the script's save, and overlaps with that.
LEMMA RestartJobs ==
    ASSUME TypeOK, Restart
    PROVE  /\ \A v \in Writers : job'[v] = NoJob \/ job'[v] = job[v]
           /\ apart' => apart /\ \A v \in Writers : ~Saving(v)'
           /\ UNCHANGED <<log, given>>
BY InputAssumption DEF Restart, Saving, TypeOK

-----------------------------------------------------------------------------
(***************************************************************************)
(* The invariant of the inputter and the log.                              *)
(***************************************************************************)

LEMMA InputInit == Init => InputInv
<1> SUFFICES ASSUME Init PROVE InputInv
  OBVIOUS
<1>1. \A w \in Writers : job[w] = NoJob
  BY DEF Init
<1> QED
  BY <1>1, InitTyped DEF Init, InputInv, LastOrdinary, InputterOrdinary,
     BeforeIsRow, DoneResolved, AuditCurrent, ReasonIsLastGiven, NothingGiven, Saving, Reads

\* The name a save records is never an admin's.
LEMMA NextInputterOrdinary ==
    ASSUME NEW before, before # NoRow => before.last \notin NormAdmins, NEW by
    PROVE  NextInputter(before, by) \notin NormAdmins
BY NamesNormalised DEF NextInputter

LEMMA BeginKeepsInput ==
    ASSUME InputInv, NEW w, NEW a, Sends(w, a)
    PROVE  InputInv'
<1>0. TypeOK
  BY DEF InputInv
<1>1. TypeOK'
  BY <1>0, PassTyped
<1>2. LastOrdinary'
  BY <1>0, BeginJobs DEF InputInv, LastOrdinary, InputterOrdinary, Saving
<1>3. BeforeIsRow'
  BY <1>0, BeginJobs DEF InputInv, BeforeIsRow, Reads, Saving
<1>4. DoneResolved'
  <2>1. a.by \in Admins \cup {RollbackName} \/ a.done = Done(row)
    BY DEF Sends
  <2>2. Done(row)' = Done(row)
    BY <1>0, BeginJobs DEF Done, ShotOf
  <2> QED
    BY <1>0, <2>1, <2>2, BeginJobs DEF InputInv, DoneResolved, Saving
<1>5. AuditCurrent'
  <2>1. ShotOf(row)' = ShotOf(row)
    BY <1>0, BeginJobs DEF ShotOf
  <2> QED
    BY <1>0, <2>1, BeginJobs DEF InputInv, AuditCurrent
<1>6. ReasonIsLastGiven' /\ NothingGiven'
  BY <1>0, BeginJobs DEF InputInv, ReasonIsLastGiven, NothingGiven
<1> QED
  BY <1>1, <1>2, <1>3, <1>4, <1>5, <1>6 DEF InputInv

LEMMA ReadKeepsInput ==
    ASSUME InputInv, NEW w \in Writers, ReadBefore(w), TypeOK'
    PROVE  InputInv'
<1>0. TypeOK
  BY DEF InputInv
<1>1. LastOrdinary'
  BY <1>0, ReadJobs DEF InputInv, LastOrdinary, InputterOrdinary, Saving
<1>2. BeforeIsRow'
  BY <1>0, ReadJobs DEF InputInv, BeforeIsRow, Reads, Saving
<1>3. DoneResolved'
  <2>1. Done(row)' = Done(row)
    BY <1>0, ReadJobs DEF Done, ShotOf
  <2> QED
    BY <1>0, <2>1, ReadJobs DEF InputInv, DoneResolved, Saving
<1>4. AuditCurrent'
  <2>1. ShotOf(row)' = ShotOf(row)
    BY <1>0, ReadJobs DEF ShotOf
  <2> QED
    BY <1>0, <2>1, ReadJobs DEF InputInv, AuditCurrent
<1>5. ReasonIsLastGiven' /\ NothingGiven'
  BY <1>0, ReadJobs DEF InputInv, ReasonIsLastGiven, NothingGiven
<1> QED
  BY <1>1, <1>2, <1>3, <1>4, <1>5 DEF InputInv

\* The log ends with what the row is now, if the save has read the row it
\* writes over.
LEMMA WriteIsLogged ==
    ASSUME TypeOK, AuditCurrent, NEW w \in Writers, Write(w),
           apart => job[w].before = row
    PROVE  AuditCurrent'
<1> SUFFICES ASSUME apart' PROVE log' # <<>> /\ Last(log').new = ShotOf(row')
  BY DEF AuditCurrent
<1>1. apart /\ job[w].before = row
  BY WriteJobs
<1>2. ShotOf(row') = [sched |-> job[w].args.sched, done |-> job[w].args.done]
  BY Written
<1>3. CASE log' = Append(log, Entry(job[w].before, job[w].args))
  <2>0. Entry(job[w].before, job[w].args) \in LogEntry
    BY NewEntryTyped
  <2>1. log' # <<>> /\ Last(log') = Entry(job[w].before, job[w].args)
    BY <1>3, <2>0, LogTyped DEF Last
  <2> QED
    BY <1>2, <2>1 DEF Entry
<1>4. CASE ~Changed(job[w].before, job[w].args) /\ log' = log
  <2>1. row # NoRow /\ ShotOf(row) = [sched |-> job[w].args.sched, done |-> job[w].args.done]
    BY <1>1, <1>4 DEF Changed
  <2> QED
    BY <1>1, <1>2, <1>4, <2>1 DEF AuditCurrent
<1> QED
  BY <1>3, <1>4 DEF Write

LEMMA WriteKeepsInput ==
    ASSUME InputInv, NEW w \in Writers, Write(w), TypeOK'
    PROVE  InputInv'
<1>0. TypeOK /\ Saving(w) /\ Reads(w)
  BY Written DEF InputInv, Reads
<1>1. LastOrdinary'
  <2>1. row'.last \notin NormAdmins
    BY <1>0, Written, NextInputterOrdinary DEF InputInv, LastOrdinary, Saving
  <2> QED
    BY <1>0, <2>1, WriteJobs DEF InputInv, LastOrdinary, InputterOrdinary, Saving
<1>2. BeforeIsRow' /\ DoneResolved'
  BY <1>0, WriteJobs DEF BeforeIsRow, DoneResolved, Reads, Saving
<1>3. AuditCurrent'
  BY <1>0, WriteIsLogged DEF InputInv, BeforeIsRow
<1>4. ReasonIsLastGiven'
  <2>1. row'.reason = Coalesce(row, job[w].args.reason, "reason")
    BY <1>0, Written
  <2>2. row = NoRow => given = Keep
    BY DEF InputInv, NothingGiven
  <2> QED
    BY <2>1, <2>2 DEF Write, Coalesce, InputInv, ReasonIsLastGiven
<1>5. NothingGiven'
  BY <1>0, Written DEF NothingGiven
<1> QED
  BY <1>1, <1>2, <1>3, <1>4, <1>5 DEF InputInv

LEMMA RestartKeepsInput ==
    ASSUME InputInv, Restart
    PROVE  InputInv'
<1>0. TypeOK
  BY DEF InputInv
<1>1. TypeOK'
  BY <1>0, RestartTyped
<1>2. LastOrdinary'
  <2>1. row' # NoRow => row'.last \notin NormAdmins
    BY <1>0, Restarted, RestartInputter DEF InputInv, LastOrdinary, InputterOrdinary, Ordinary
  <2> QED
    BY <1>0, <2>1, RestartJobs DEF InputInv, LastOrdinary, InputterOrdinary, Saving
<1>3. BeforeIsRow' /\ DoneResolved'
  BY <1>0, RestartJobs DEF BeforeIsRow, DoneResolved, Reads
<1>4. AuditCurrent'
  BY <1>0, Restarted, RestartJobs DEF InputInv, AuditCurrent
<1>5. ReasonIsLastGiven' /\ NothingGiven'
  BY <1>0, Restarted DEF InputInv, ReasonIsLastGiven, NothingGiven
<1> QED
  BY <1>1, <1>2, <1>3, <1>4, <1>5 DEF InputInv

LEMMA AsideKeepsInput ==
    ASSUME InputInv, Aside, TypeOK'
    PROVE  InputInv'
<1>1. LastOrdinary'
  BY DEF Aside, InputInv, LastOrdinary, InputterOrdinary, Saving
<1>2. BeforeIsRow' /\ DoneResolved'
  BY DEF Aside, InputInv, BeforeIsRow, DoneResolved, Reads, Saving, Done, ShotOf
<1>3. AuditCurrent' /\ ReasonIsLastGiven' /\ NothingGiven'
  BY DEF Aside, InputInv, AuditCurrent, ReasonIsLastGiven, NothingGiven, ShotOf
<1> QED
  BY <1>1, <1>2, <1>3 DEF InputInv

LEMMA InputNext == InputInv /\ [Next]_vars => InputInv'
<1> SUFFICES ASSUME InputInv, [Next]_vars PROVE InputInv'
  OBVIOUS
<1>0. TypeOK /\ TypeOK'
  BY NextTyped DEF InputInv
<1>1. Aside => InputInv'
  BY <1>0, AsideKeepsInput
<1> QED
  BY <1>0, <1>1, AsideSteps, BeginKeepsInput, ReadKeepsInput, WriteKeepsInput,
     RestartKeepsInput, Steps

LEMMA InputInvariant == Spec => []InputInv
BY InputInit, InputNext, PTL DEF Spec

\* An admin, however the name is written, is never recorded as the inputter
\* whom reminders go to, also when saves overlap or the program restarts.
THEOREM AdminsAreNoInputters == Spec => []InputterOrdinary
<1>1. InputInv => InputterOrdinary
  BY DEF InputInv, LastOrdinary
<1> QED
  BY <1>1, InputInvariant, PTL

\* The last entry of the change log agrees with the row as long as no two
\* saves overlap.
THEOREM LogIsCurrent == Spec => []AuditCurrent
<1>1. InputInv => AuditCurrent
  BY DEF InputInv
<1> QED
  BY <1>1, InputInvariant, PTL

\* What a step that writes the row may do to the completion mark and to the
\* inputter, if saves have not overlapped.
LEMMA RowSteps ==
    ASSUME InputInv, [Next]_vars
    PROVE  \/ row' = row
           \/ Restart
           \/ \E w \in Writers : Write(w)
<1>1. Aside => row' = row
  BY DEF Aside
<1> QED
  BY <1>1, AsideSteps, BeginJobs, ReadJobs, Steps DEF InputInv

\* Nobody but an admin, and the rollback of a batch, changes the completion
\* mark as long as no two saves overlap.
THEOREM OthersKeepDone == Spec => AdminOnlyDone
<1>1. ASSUME InputInv, [Next]_vars, apart', Done(row') # Done(row)
      PROVE  row'.by \in Admins \cup {RollbackName}
  <2>1. PICK w \in Writers : Write(w)
    BY <1>1, RowSteps, Restarted DEF InputInv
  <2>2. /\ Saving(w) /\ row'.by = job[w].args.by
        /\ Done(row') = job[w].args.done
    BY <1>1, <2>1, Written DEF InputInv
  <2>3. apart
    BY <1>1, <2>1, WriteJobs DEF InputInv
  <2> QED
    BY <1>1, <2>2, <2>3 DEF InputInv, DoneResolved, Saving
<1>2. InputInv /\ [Next]_vars
      => ((apart' /\ Done(row') # Done(row)) => row'.by \in Admins \cup {RollbackName})
  BY <1>1
<1> QED
  BY <1>2, InputInvariant, PTL DEF Spec, AdminOnlyDone

\* A recorded inputter is never forgotten as long as no two saves overlap.
THEOREM InputterStays == Spec => InputterKept
<1>1. ASSUME InputInv, [Next]_vars, apart', row # NoRow, row.last # NoOne
      PROVE  row'.last # NoOne
  <2>1. CASE Restart
    BY <1>1, <2>1, Restarted, RestartInputter, NamesNormalised DEF InputInv
  <2>2. ASSUME NEW w \in Writers, Write(w) PROVE row'.last # NoOne
    <3>1. apart /\ job[w].at = "write" /\ Saving(w)
      BY <1>1, <2>2, WriteJobs, Written DEF InputInv
    <3>2. job[w].before = row /\ job[w].args.by \in AllNames
      BY <1>1, <3>1, JobTyped DEF InputInv, BeforeIsRow, Reads, Saving
    <3>3. row'.last = NextInputter(row, job[w].args.by)
      BY <1>1, <2>2, <3>2, Written DEF InputInv
    <3> QED
      BY <1>1, <3>2, <3>3, NamesNormalised DEF NextInputter
  <2> QED
    BY <1>1, <2>1, <2>2, RowSteps
<1>2. InputInv /\ [Next]_vars
      => ((apart' /\ row # NoRow /\ row.last # NoOne) => row'.last # NoOne)
  BY <1>1
<1> QED
  BY <1>2, InputInvariant, PTL DEF Spec, InputterKept

-----------------------------------------------------------------------------
\* The reason on record is the one given with the last decision to exclude the
\* item or to take that back, for any X that is typed or written in Excel and
\* however saves, rollbacks and restarts overlap.
THEOREM ReasonIsTraced == Spec => []ReasonIsLastGiven
<1>1. InputInv => ReasonIsLastGiven
  BY DEF InputInv
<1> QED
  BY <1>1, InputInvariant, PTL

=============================================================================
