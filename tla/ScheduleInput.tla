---------------------------- MODULE ScheduleInput ----------------------------
(***************************************************************************)
(* One row of schedule_input (a DR item in a half-year), the handlers of   *)
(* app/web/routes/dr.py that save it whole, its change_log, and what other *)
(* parts read out of it: the exclusion (updated_by an admin, schedule X)   *)
(* and the inputter a reminder goes to.                                    *)
(*                                                                         *)
(* A save is three steps on separate connections: the handler resolves     *)
(* what it writes, upsert_input reads `before', one transaction writes.    *)
(* The async handlers share the event loop and do not interleave with each *)
(* other (writer Loop); the sync handler of POST /save runs in the thread  *)
(* pool (Form) and scripts/rollback_bulk_save.py in a process of its own   *)
(* (Script), which reads the log before it reads the row.                  *)
(***************************************************************************)
EXTENDS Naturals, Sequences, SequencesExt

CONSTANTS
    Names,          \* input names people type
    Admins,         \* settings.admin_set
    Norm,           \* the name without a parenthesised part (_normalize_actor)
    RollbackName,   \* "rollback-by-..." of the rollback script
    NoOne,          \* the empty name
    NoRow,          \* the item has no row
    Keep,           \* None: the column keeps its value; NULL in the row
    NoJob,
    Loop, Form, Script,
    Writers,        \* the writers there are
    Typed,          \* what people type as a schedule
    Excels,         \* the schedules an Excel sheet may have
    Owners,
    MaxSaves        \* bound: saves and restarts

Schedules == {"", "date", "X"}
Reasons == {"", "why"}
AllNames == Names \cup {RollbackName}
NormAdmins == {Norm[a] : a \in Admins}

Row == [sched : Schedules, done : BOOLEAN, owner : Owners \cup {Keep},
        reason : Reasons \cup {Keep}, by : AllNames,
        last : {Norm[n] : n \in AllNames} \cup {NoOne}]
Shot == [sched : Schedules, done : BOOLEAN]
LogEntry == [old : Shot, new : Shot, by : AllNames, was : BOOLEAN]

\* What upsert_input is called with, with two ghosts (AsIs), and how far it is.
Args == [by : AllNames, sched : Schedules, done : BOOLEAN,
         owner : Owners \cup {Keep}, reason : Reasons \cup {Keep},
         chosen : BOOLEAN, was : BOOLEAN]
\* The script has read from the log what a batch replaced (Keep: nothing).
Batch == [at : {"restore"}, sched : Schedules \cup {Keep}, done : BOOLEAN \cup {Keep},
          was : BOOLEAN]
Job == [at : {"before", "write"}, before : Row \cup {NoRow}, args : Args] \cup Batch

ASSUME InputAssumption ==
    /\ Admins \subseteq Names
    /\ DOMAIN Norm = AllNames
    /\ NoOne \notin {Norm[n] : n \in AllNames}
    /\ RollbackName \notin Names /\ Norm[RollbackName] \notin NormAdmins
    /\ Writers \subseteq {Loop, Form, Script}
    /\ Script \notin {Loop, Form} /\ Loop # Form
    /\ NoRow \notin Row /\ NoJob \notin Job
    /\ Keep \notin Reasons /\ Keep \notin Schedules /\ Keep \notin BOOLEAN
    /\ Typed \subseteq Schedules
    /\ Excels \subseteq Schedules
    /\ MaxSaves \in Nat

VARIABLES
    excel,   \* the schedule in the Excel sheet
    row,     \* the row in schedule_input
    log,     \* change_log: an entry per save that changed something
    screens, \* the schedules that dashboards of any age may show in the input cell
    job,     \* what each writer is doing
    saves,   \* saves and restarts so far
    entered, \* history: who changed the schedule the screens show
    apart,   \* history: no save has overlapped with another or with a restart
    given    \* history: the reason of the last decision to exclude or restore

vars == <<excel, row, log, screens, job, saves, entered, apart, given>>

-----------------------------------------------------------------------------
(***************************************************************************)
(* What is read out of the row.                                            *)
(***************************************************************************)

Shot0 == [sched |-> "", done |-> FALSE]
ShotOf(r) == IF r = NoRow THEN Shot0 ELSE [sched |-> r.sched, done |-> r.done]
Done(r) == ShotOf(r).done

\* load_dr_items_merged: a blank web schedule shows the Excel one.
Shown(r) == IF ShotOf(r).sched = "" THEN excel ELSE r.sched

\* _admin_excluded, excluded_completion_date
Excluded(r) == r # NoRow /\ Shown(r) = "X" /\ r.by \in Admins

\* What a dashboard loaded now shows; an excluded item has no input cells.
OnScreen == IF Excluded(row) THEN {} ELSE {Shown(row)}

FromWeb(r) == r # NoRow /\ (r.sched # "" \/ r.done \/ r.owner # Keep)

\* inputter_of
Inputter(r) ==
    IF ~FromWeb(r) THEN NoOne
    ELSE LET name == IF r.last # NoOne THEN r.last ELSE Norm[r.by]
         IN  IF name \in Admins THEN NoOne ELSE name

TypeOK ==
    /\ excel \in Schedules
    /\ row \in Row \cup {NoRow}
    /\ log \in Seq(LogEntry)
    /\ screens \subseteq Schedules
    /\ job \in [Writers -> Job \cup {NoJob}]
    /\ saves \in 0 .. MaxSaves
    /\ entered \in AllNames \cup {NoOne}
    /\ apart \in BOOLEAN
    /\ given \in Reasons \cup {Keep}

Init ==
    /\ excel \in Excels
    /\ row = NoRow
    /\ log = <<>>
    /\ screens = {excel}
    /\ job = [w \in Writers |-> NoJob]
    /\ saves = 0
    /\ entered = NoOne
    /\ apart = TRUE
    /\ given = Keep

-----------------------------------------------------------------------------
(***************************************************************************)
(* The first step of a save: the handler resolves what it will write.      *)
(***************************************************************************)

Count ==
    /\ saves < MaxSaves
    /\ saves' = saves + 1

\* The arguments of upsert_input that leave the row as it is.  Two ghosts: has
\* the sender chosen the schedule, and was the item excluded before the batch
\* that is rolled back.
AsIs(by) ==
    [by |-> by, sched |-> ShotOf(row).sched, done |-> Done(row), owner |-> Keep,
     reason |-> Keep, chosen |-> FALSE, was |-> FALSE]

\* Writer w has resolved what it passes to upsert_input.
Pass(w, args) ==
    /\ job' = [job EXCEPT ![w] = [at |-> "before", before |-> NoRow, args |-> args]]
    /\ UNCHANGED <<excel, row, log, screens, entered, apart, given>>

Begin(w, args) ==
    /\ w \in Writers
    /\ job[w] = NoJob
    /\ Count
    /\ Pass(w, args)

\* Fault in ResolvedDone: the value a non-admin sends is taken.
ResolvedDoneUnchecked(by, requested) == requested

\* _resolve_is_done
ResolvedDone(by, requested) == IF by \in Admins THEN requested ELSE Done(row)

\* resolve_owner
ResolvedOwner(by, requested) == IF by \in Admins THEN requested ELSE Keep

\* Another Excel sheet is uploaded.
Replace ==
    /\ excel' \in Excels \ {excel}
    /\ UNCHANGED <<row, log, job, saves, entered, apart, given>>
    /\ screens' = screens \cup OnScreen'

\* Someone saves what a page shows, having edited some cells or none:
\* api_save, and api_bulk_save, which does not pass the owner.
Save(n, shown, sched, done, owner) ==
    /\ shown \in screens
    /\ sched \in Typed \cup {shown}
    /\ Begin(Loop, [AsIs(n) EXCEPT !.sched = sched, !.done = ResolvedDone(n, done),
                                   !.owner = ResolvedOwner(n, owner),
                                   !.chosen = sched # shown])

\* save_schedule (POST /save), in the thread pool
SaveForm(n, sched, done) ==
    /\ sched \in Typed
    /\ Begin(Form, [AsIs(n) EXCEPT !.sched = sched, !.done = ResolvedDone(n, done),
                                   !.chosen = TRUE])

\* api_exclude
Exclude(n, reason) ==
    /\ n \in Admins
    /\ reason # ""
    /\ Begin(Loop, [AsIs(n) EXCEPT !.sched = "X", !.reason = reason, !.chosen = TRUE])

\* api_exclude with excluded = false
Restore(n) ==
    /\ n \in Admins
    /\ Begin(Loop, [AsIs(n) EXCEPT !.sched = "", !.reason = "", !.chosen = TRUE])

\* api_save_owner
SaveOwner(n, owner) ==
    /\ n \in Admins
    /\ Begin(Loop, [AsIs(n) EXCEPT !.owner = owner])

\* rollback_bulk_save.main: for each field the oldest value in the window
\* (from entry k on) that a save of `by' replaced.
Replaced(k, by, field) ==
    {j \in k .. Len(log) : log[j].by = by /\ log[j].old[field] # log[j].new[field]}

Restored(k, by, field) ==
    IF Replaced(k, by, field) = {} THEN Keep
    ELSE log[Min(Replaced(k, by, field))].old[field]

ReadBatch(k, by) ==
    /\ Script \in Writers
    /\ job[Script] = NoJob
    /\ log[k].by = by
    /\ Count
    /\ job' = [job EXCEPT ![Script] =
                  [at |-> "restore", sched |-> Restored(k, by, "sched"),
                   done |-> Restored(k, by, "done"), was |-> log[k].was]]
    /\ UNCHANGED <<excel, row, log, screens, entered, apart, given>>

\* Then the row is read: a field the batch did not change keeps its value.
Rollback ==
    /\ Script \in Writers
    /\ job[Script] # NoJob
    /\ job[Script].at = "restore"
    /\ LET batch == job[Script]
           current == AsIs(RollbackName)
       IN  Pass(Script, [current EXCEPT
                  !.sched = IF batch.sched = Keep THEN current.sched ELSE batch.sched,
                  !.done = IF batch.done = Keep THEN current.done ELSE batch.done,
                  !.was = batch.was])
    /\ UNCHANGED saves

-----------------------------------------------------------------------------
(***************************************************************************)
(* upsert_input: read `before', then write the row and the log.            *)
(***************************************************************************)

ReadBefore(w) ==
    /\ job[w] # NoJob
    /\ job[w].at = "before"
    /\ job' = [job EXCEPT ![w].at = "write", ![w].before = row]
    /\ UNCHANGED <<excel, row, log, screens, saves, entered, apart, given>>

\* Fault in NextInputter: the name is compared as it was typed.
NextInputterExact(before, by) ==
    IF by \notin Admins THEN Norm[by]
    ELSE IF before = NoRow THEN NoOne ELSE before.last

\* Fault in NextInputter: an admin's save forgets the inputter.
NextInputterForgets(before, by) ==
    IF Norm[by] \notin NormAdmins THEN Norm[by] ELSE NoOne

\* _next_last_inputter
NextInputter(before, by) ==
    IF Norm[by] \notin NormAdmins THEN Norm[by]
    ELSE IF before = NoRow THEN NoOne ELSE before.last

\* COALESCE(excluded.column, schedule_input.column)
Coalesce(r, new, column) ==
    IF new # Keep THEN new ELSE IF r = NoRow THEN Keep ELSE r[column]

\* Fault in RowOf: what is not passed is kept from the row read before.
RowOfRead(before, args) ==
    [sched |-> args.sched, done |-> args.done,
     owner |-> Coalesce(before, args.owner, "owner"),
     reason |-> Coalesce(before, args.reason, "reason"),
     by |-> args.by, last |-> NextInputter(before, args.by)]

\* The row INSERT ... ON CONFLICT leaves.
RowOf(before, args) ==
    [sched |-> args.sched, done |-> args.done,
     owner |-> Coalesce(row, args.owner, "owner"),
     reason |-> Coalesce(row, args.reason, "reason"),
     by |-> args.by, last |-> NextInputter(before, args.by)]

\* Fault in Changed: the completion mark is not compared.
ChangedSchedule(before, args) ==
    before = NoRow \/ before.sched # args.sched

\* The log gets an entry from the first save of an item (is_done was ""), and
\* from one that changes the schedule or the completion mark.
Changed(before, args) ==
    before = NoRow \/ ShotOf(before) # [sched |-> args.sched, done |-> args.done]

Entry(before, args) ==
    [old |-> ShotOf(before), new |-> [sched |-> args.sched, done |-> args.done],
     by |-> args.by, was |-> Excluded(before)]

\* A writer is on its way from what it has resolved to the write.
Saving(w) == job[w] # NoJob /\ job[w].at # "restore"

\* Other saves leave an entry if another column changes (mode, evidence, note,
\* owner, reason), which is left open here.
Write(w) ==
    /\ job[w] # NoJob
    /\ job[w].at = "write"
    /\ LET before == job[w].before
           args == job[w].args
       IN  /\ row' = RowOf(before, args)
           /\ \/ log' = Append(log, Entry(before, args))
              \/ ~Changed(before, args) /\ log' = log
           /\ entered' = IF args.chosen \/ Shown(row') # Shown(row)
                         THEN args.by ELSE entered
           /\ given' = IF args.reason = Keep THEN given ELSE args.reason
    /\ job' = [job EXCEPT ![w] = NoJob]
    /\ apart' = (apart /\ \A v \in Writers \ {w} : ~Saving(v))
    /\ UNCHANGED <<excel, saves>>
    /\ screens' = screens \cup OnScreen'

-----------------------------------------------------------------------------
(***************************************************************************)
(* A restart: what was under way in the program is lost, not the script;   *)
(* init_db recomputes last_inputter (_backfill_last_inputter_from_log).    *)
(***************************************************************************)

Ordinary(name) == Norm[name] \notin NormAdmins
OrdinaryEntries == {k \in DOMAIN log : Ordinary(log[k].by)}

Backfilled(r) ==
    IF Ordinary(r.by) THEN Norm[r.by]
    ELSE IF OrdinaryEntries # {} THEN Norm[log[Max(OrdinaryEntries)].by]
    ELSE r.last

Restart ==
    /\ Count
    /\ row' = IF row = NoRow THEN NoRow ELSE [row EXCEPT !.last = Backfilled(row)]
    /\ job' = [w \in Writers |-> IF w = Script THEN job[w] ELSE NoJob]
    /\ apart' = (apart /\ (Script \in Writers => ~Saving(Script)))
    /\ UNCHANGED <<excel, log, screens, entered, given>>

Next ==
    \/ \E n \in Names :
          \/ \E shown, sched \in Schedules, done \in BOOLEAN, owner \in Owners \cup {Keep} :
                Save(n, shown, sched, done, owner)
          \/ \E sched \in Schedules, done \in BOOLEAN : SaveForm(n, sched, done)
          \/ \E reason \in Reasons : Exclude(n, reason)
          \/ Restore(n)
          \/ \E owner \in Owners : SaveOwner(n, owner)
          \/ \E k \in DOMAIN log : ReadBatch(k, n)
    \/ Rollback
    \/ Replace
    \/ \E w \in Writers : ReadBefore(w) \/ Write(w)
    \/ Restart

Spec == Init /\ [][Next]_vars

-----------------------------------------------------------------------------
(***************************************************************************)
(* Properties.                                                             *)
(***************************************************************************)

\* Nobody but an admin, and the rollback of a batch, changes the completion
\* mark of an item, whatever an old page shows and whoever saved since it was
\* loaded, as long as no two saves overlap.
AdminOnlyDone ==
    [][(apart' /\ Done(row') # Done(row)) => row'.by \in Admins \cup {RollbackName}]_vars

\* An admin, however the name is written, is never recorded as the inputter
\* whom reminders go to, and a recorded inputter is never forgotten as long as
\* no two saves overlap.
InputterOrdinary == row # NoRow => row.last \notin NormAdmins
InputterKept ==
    [][(apart' /\ row # NoRow /\ row.last # NoOne) => row'.last # NoOne]_vars

\* The last entry of the change log agrees with the row, as long as no two
\* saves overlap.
AuditCurrent ==
    (apart /\ row # NoRow) => (log # <<>> /\ Last(log).new = ShotOf(row))

\* The reason on record is the one given with the last decision to exclude the
\* item or to take that back, so that it can be traced why the item is not
\* counted: no other save, rollback or restart loses it or brings an old one
\* back, however they overlap and whatever X people type or Excel has.
ReasonIsLastGiven == row # NoRow => row.reason = given

(***************************************************************************)
(* What comments, docstrings and the page promise and the code does not do *)
(***************************************************************************)

\* dr.py:295: only an admin sets or clears the completion mark, also when two
\* saves overlap.
AdminOnlyDoneAlways == [][Done(row') # Done(row) => row'.by \in Admins]_vars

\* db.py:398: a save records what it changes, also when saves overlap.
AuditCurrentAlways == row # NoRow => (log # <<>> /\ Last(log).new = ShotOf(row))

\* db.py:111: an admin's save keeps the inputter there was, also when another
\* save overlaps.
InputterKeptAlways == [][(row # NoRow /\ row.last # NoOne) => row'.last # NoOne]_vars

\* completion.py:158: an X typed by somebody who is no admin, or written in the
\* Excel sheet, is no exclusion.
OnlyAdminsXExcludes == Excluded(row) => entered \in Admins

\* dr.py:307: only admins take an exclusion back.
AdminOnlyExclusion ==
    [][Excluded(row) /\ ~Excluded(row') => row'.by \in Admins]_vars

\* dr.py:309: excluded:false brings the item back into the list of targets.
RestoreBringsBack ==
    [][(job[Loop] # NoJob /\ job[Loop].at = "write" /\ job[Loop].args.reason = ""
        /\ job'[Loop] = NoJob /\ row' # row /\ log' # log) => ~Excluded(row')]_vars

\* dr.py:324: why an item has been excluded is always on record.  An X that an
\* admin types, or saves with the page, has no reason; the rollback of a batch
\* that took the exclusion back leaves such an X.
ExclusionHasReasonAlways == Excluded(row) => row.reason \notin {"", Keep}

\* reminder.py:131: an entry made by an admin has no inputter.
AdminEntryHasNoInputter ==
    (row # NoRow /\ entered \in Admins /\ row.sched # "") => Inputter(row) = NoOne

\* reminder.py:128: who only left a note is not the one who entered the
\* schedule.
InputterEnteredSchedule ==
    Inputter(row) # NoOne => entered # NoOne

\* rollback_bulk_save.py:7: every item is put back to its state before the
\* batch.
RollbackPutsBack ==
    [][(job[Script] # NoJob /\ job[Script].at = "write" /\ job'[Script] = NoJob
        /\ log' # log) => Excluded(row') = job[Script].args.was]_vars
=============================================================================
