------------------------------ MODULE FlagInput ------------------------------
(***************************************************************************)
(* One row of capacity_input, eos_input or kernel_input: unlike the DR row *)
(* it has a column for the exclusion, which a save leaves alone.           *)
(*                                                                         *)
(* Every writer of these tables is an async handler that does not await    *)
(* after it has its request, so on the event loop a save (resolve, read    *)
(* `before', write the row and the log) is one step.  What a person sends  *)
(* may come from a page that is arbitrarily old.                           *)
(***************************************************************************)
EXTENDS Naturals, Sequences, FiniteSetsExt

CONSTANTS
    Names,       \* input names people type
    Admins,      \* capacity_admin_set, eos_admin_set, kernel_admin_set
    Norm,        \* the name without a parenthesised part (_normalize_actor)
    NoOne,       \* the empty name
    NoRow,       \* the item has no row
    Keep,        \* None: the column keeps its value; NULL in the row
    Owners,
    Tables,      \* the tables looked at
    Sheets,      \* what the Excel sheet may say of the item
    FromBefore,  \* may the table be older than the column is_excluded?
    MaxSaves     \* bound: saves and restarts

Schedules == {"", "date"}
Marks == {"0", "1"}      \* is_done
Verdicts == {"0", "1"}   \* is_excluded
Reasons == {"", "why"}
Values == Schedules \cup Marks \cup Verdicts \cup Reasons \cup Owners
NormAdmins == {Norm[a] : a \in Admins}
NormNames == {Norm[n] : n \in Names}
Logged == {"capacity", "eos"}   \* kernel_input has no change log

\* What the sheet says: to be done, not to be done, no answer, and, for EoS
\* ('EOS 진행 → 제외'), to be done at first and not any more.
Flags == {"O", "X", "", "OX"}

Row == [sched : Schedules, done : Marks, owner : Owners \cup {Keep},
        excl : Verdicts \cup {Keep}, reason : Reasons \cup {Keep},
        by : Names, last : NormNames \cup {NoOne}]

\* A save's entries in the change log: who, and the new value of each column
\* that changed.
Fields == {"sched", "done", "owner", "excl", "reason"}
Entry == [by : Names, new : UNION {[S -> Values] : S \in SUBSET Fields}]

ASSUME FlagAssumption ==
    /\ Admins \subseteq Names
    /\ DOMAIN Norm = Names
    /\ NoOne \notin NormNames
    /\ NoRow \notin Row
    /\ Keep \notin Values
    /\ Tables \subseteq Logged \cup {"kernel"}
    /\ Sheets \subseteq [flag : Flags, sched : Schedules]
    /\ FromBefore \in BOOLEAN
    /\ MaxSaves \in Nat

VARIABLES
    table,    \* the table the row is in
    excel,    \* what the Excel sheet there is now says of the item
    row,
    log,      \* capacity_change_log, eos_change_log, the entries of a save
              \* as one
    saves,    \* saves and restarts so far
    verdict,  \* history: the last exclusion or restoration by an admin
    quiet     \* history: some save has left no entry in the log

vars == <<table, excel, row, log, saves, verdict, quiet>>

-----------------------------------------------------------------------------
(***************************************************************************)
(* What is read out of the row.                                            *)
(***************************************************************************)

Ordinary(name) == Norm[name] \notin NormAdmins

Column(r, field, default) == IF r = NoRow THEN default ELSE r[field]
Schedule(r) == Column(r, "sched", "")
Done(r) == Column(r, "done", "0")
Owner(r) == Column(r, "owner", Keep)
Verdict(r) == Column(r, "excl", Keep)

\* schedule_raw: a blank web schedule shows the Excel one.
Shown(xl, r) == IF Schedule(r) = "" THEN xl.sched ELSE Schedule(r)

\* was_originally_target: the first value in the cell
OriginalTarget(xl) == xl.flag \in {"O", "OX"}

\* classify_eos_status: the last value in the cell
StatusExcluded(xl) == xl.flag \in {"X", "OX"}

\* Fault in Excluded: the Excel flag counts whatever the web says.
ExcludedByEither(t, xl, r) ==
    \/ Verdict(r) = "1"
    \/ t = "capacity" /\ xl.flag = "X"
    \/ t = "eos" /\ StatusExcluded(xl)

\* What the screens list as excluded.  A restoration in the web overrides the
\* capacity sheet; the EoS sheet's status it does not; the kernel sheet has none.
Excluded(t, xl, r) ==
    \/ Verdict(r) = "1"
    \/ t = "capacity" /\ Verdict(r) = Keep /\ xl.flag = "X"
    \/ t = "eos" /\ StatusExcluded(xl)

\* is_target: what the completion rate is counted over.  For EoS the status
\* now does not count, what the sheet said first does.
Target(t, xl, r) ==
    \/ /\ t = "capacity"
       /\ ~Excluded(t, xl, r)
       /\ xl.flag = "O" \/ Shown(xl, r) # ""
    \/ t = "eos" /\ Verdict(r) # "1" /\ OriginalTarget(xl)
    \/ t = "kernel" /\ ~Excluded(t, xl, r)

TypeOK ==
    /\ table \in Tables
    /\ excel \in Sheets
    /\ row \in Row \cup {NoRow}
    /\ log \in Seq(Entry)
    /\ saves \in 0 .. MaxSaves
    /\ verdict \in Verdicts \cup {Keep}
    /\ quiet \in BOOLEAN

\* ALTER TABLE ... ADD COLUMN is_excluded INTEGER DEFAULT 0
MigratedRow(n) ==
    [sched |-> "date", done |-> "0", owner |-> Keep, excl |-> "0",
     reason |-> Keep, by |-> n, last |-> IF Ordinary(n) THEN Norm[n] ELSE NoOne]

MigratedEntry(n) ==
    [by |-> n, new |-> [f \in {"sched", "done"} |-> IF f = "sched" THEN "date" ELSE "0"]]

Init ==
    /\ table \in Tables
    /\ excel \in Sheets
    /\ saves = 0
    /\ verdict = Keep
    /\ quiet = FALSE
    /\ \/ row = NoRow /\ log = <<>>
       \/ /\ FromBefore
          /\ table \in Logged
          /\ \E n \in Names : row = MigratedRow(n) /\ log = <<MigratedEntry(n)>>

-----------------------------------------------------------------------------
(***************************************************************************)
(* upsert_capacity_input, upsert_eos_input, upsert_kernel_input            *)
(***************************************************************************)

Count ==
    /\ saves < MaxSaves
    /\ saves' = saves + 1

\* Fault in NextInputter: the name is compared as it was typed.
NextInputterExact(by) ==
    IF by \notin Admins THEN Norm[by] ELSE Column(row, "last", NoOne)

\* _next_last_inputter
NextInputter(by) ==
    IF Ordinary(by) THEN Norm[by] ELSE Column(row, "last", NoOne)

\* Fault in Coalesce: what is not passed becomes NULL.
CoalesceNot(new, field) == new

\* COALESCE(excluded.column, capacity_input.column)
Coalesce(new, field) == IF new = Keep THEN Column(row, field, Keep) ELSE new

\* Fault in Differs: the log compares with the first value there was.
DiffersFromBlank(field, new) == new \notin {Keep, "", "0"}

\* The log compares str(before.get(field, "")); what is Keep is not compared.
Differs(field, new) ==
    /\ new # Keep
    /\ new # Column(row, field, "")

\* Columns left out of the model (evidence, note) may give an entry, too.
Log(args) ==
    LET changed == {f \in Fields : Differs(f, args[f])}
    IN  \/ /\ table \in Logged
           /\ log' = Append(log, [by |-> args.by, new |-> [f \in changed |-> args[f]]])
           /\ UNCHANGED quiet
        \/ /\ table \notin Logged \/ changed = {}
           /\ quiet' = TRUE
           /\ UNCHANGED log

Upsert(args) ==
    /\ Count
    /\ row' = [sched |-> args.sched, done |-> args.done,
               owner |-> Coalesce(args.owner, "owner"),
               excl |-> Coalesce(args.excl, "excl"),
               reason |-> Coalesce(args.reason, "reason"),
               by |-> args.by, last |-> NextInputter(args.by)]
    /\ Log(args)
    /\ UNCHANGED <<table, excel>>

\* The arguments that leave the columns as they are.
AsIs(by) ==
    [by |-> by, sched |-> Schedule(row), done |-> Done(row),
     owner |-> Keep, excl |-> Keep, reason |-> Keep]

-----------------------------------------------------------------------------
(***************************************************************************)
(* The handlers.                                                           *)
(***************************************************************************)

\* Fault in ResolvedDone: the value a non-admin sends is taken.
ResolvedDoneUnchecked(by, requested) == requested

\* _resolve_capacity_is_done, _resolve_eos_is_done, _resolve_kernel_is_done
ResolvedDone(by, requested) == IF by \in Admins THEN requested ELSE Done(row)

\* resolve_owner
ResolvedOwner(by, requested) == IF by \in Admins THEN requested ELSE Keep

\* api_*_save, and api_*_bulk_save, which passes no owner
Save(n, sched, done, owner) ==
    /\ Upsert([AsIs(n) EXCEPT !.sched = sched, !.done = ResolvedDone(n, done),
                              !.owner = ResolvedOwner(n, owner)])
    /\ UNCHANGED verdict

\* Fault in Exclude: the reason is not asked for.
ExcludeUnasked(n, reason) ==
    /\ n \in Admins
    /\ Upsert([AsIs(n) EXCEPT !.excl = "1", !.reason = reason])
    /\ verdict' = "1"

\* api_*_exclude
Exclude(n, reason) ==
    /\ n \in Admins
    /\ reason # ""
    /\ Upsert([AsIs(n) EXCEPT !.excl = "1", !.reason = reason])
    /\ verdict' = "1"

\* api_*_exclude with excluded = false
Restore(n) ==
    /\ n \in Admins
    /\ Upsert([AsIs(n) EXCEPT !.excl = "0", !.reason = ""])
    /\ verdict' = "0"

\* api_*_save_owner
SaveOwner(n, owner) ==
    /\ n \in Admins
    /\ Upsert([AsIs(n) EXCEPT !.owner = owner])
    /\ UNCHANGED verdict

\* Somebody replaces the Excel file.
ReplaceExcel(xl) ==
    /\ xl # excel
    /\ excel' = xl
    /\ UNCHANGED <<table, row, log, saves, verdict, quiet>>

-----------------------------------------------------------------------------
(***************************************************************************)
(* A restart: init_db works last_inputter out again.                       *)
(***************************************************************************)

OrdinaryEntries == {k \in DOMAIN log : Ordinary(log[k].by)}

\* Fault in Backfilled: the log goes before updated_by, oldest entry first.
BackfilledOldest(r) ==
    IF OrdinaryEntries # {} THEN Norm[log[Min(OrdinaryEntries)].by]
    ELSE IF Ordinary(r.by) THEN Norm[r.by] ELSE r.last

\* _backfill_last_inputter_from_log, _backfill_kernel_last_inputter; for the
\* kernel table the log is empty.
Backfilled(r) ==
    IF Ordinary(r.by) THEN Norm[r.by]
    ELSE IF OrdinaryEntries # {} THEN Norm[log[Max(OrdinaryEntries)].by]
    ELSE r.last

Restart ==
    /\ row # NoRow
    /\ Count
    /\ row' = [row EXCEPT !.last = Backfilled(row)]
    /\ UNCHANGED <<table, excel, log, verdict, quiet>>

Next ==
    \/ \E n \in Names :
          \/ \E sched \in Schedules, done \in Marks, owner \in Owners \cup {Keep} :
                Save(n, sched, done, owner)
          \/ \E reason \in Reasons : Exclude(n, reason)
          \/ Restore(n)
          \/ \E owner \in Owners : SaveOwner(n, owner)
    \/ \E xl \in Sheets : ReplaceExcel(xl)
    \/ Restart

Spec == Init /\ [][Next]_vars

-----------------------------------------------------------------------------
(***************************************************************************)
(* Properties.                                                             *)
(***************************************************************************)

\* What an admin has decided last in the web is what counts, whatever is saved
\* since from whichever page, and whatever a later Excel file says: what is taken
\* out stays out, what is taken back is in again.  For EoS taking back returns to
\* what the sheet says, no more and no less.
WebVerdictWins ==
    /\ verdict = "1" => Excluded(table, excel, row) /\ ~Target(table, excel, row)
    /\ (verdict = "0" /\ table # "eos") => ~Excluded(table, excel, row)
    /\ (verdict = "0" /\ table = "eos") =>
           /\ Excluded(table, excel, row) <=> StatusExcluded(excel)
           /\ Target(table, excel, row) <=> OriginalTarget(excel)

\* An item an admin has taken out has a reason on record, one taken back has
\* none.
ReasonOfVerdict ==
    /\ verdict = "1" => row.reason \notin {"", Keep}
    /\ verdict = "0" => row.reason = ""

\* A save by somebody who is no admin does not change what the completion rate
\* is counted over, but for a schedule entered (or withdrawn) for a capacity
\* item nobody had answered for.
DenominatorGuarded ==
    [][(excel' = excel /\ Target(table, excel, row') # Target(table, excel, row))
          => \/ row'.by \in Admins
             \/ /\ table = "capacity" /\ excel.flag # "O"
                /\ Schedule(row') # Schedule(row)]_vars

\* Nobody but an admin changes the completion mark, the owner or the reason,
\* from whichever page.
AdminColumns ==
    [][Done(row') # Done(row) \/ Owner(row') # Owner(row)
         \/ Column(row', "reason", Keep) # Column(row, "reason", Keep)
          => row'.by \in Admins]_vars

\* An admin, however the name is written, is never recorded as the inputter.
InputterOrdinary == row # NoRow => row.last \notin NormAdmins

\* A restart does not change whom reminders go to, as long as every save has
\* left an entry; for the kernel table, which has no log, never.
RestartKeepsInputter ==
    [][(row # NoRow /\ saves' # saves /\ log' = log /\ row'.by = row.by
        /\ ~(quiet' /\ table \in Logged)) => row'.last = row.last]_vars

\* The change log tells each column of the row: its last entry for the column
\* has the value, and a column without an entry is blank; every exclusion has
\* an entry.
LogTellsRow ==
    (table \in Logged /\ row # NoRow) =>
        \A f \in Fields :
            LET entries == {k \in DOMAIN log : f \in DOMAIN log[k].new}
            IN  IF entries # {} THEN row[f] = log[Max(entries)].new[f]
                ELSE row[f] \in {"", Keep} \/ (f = "excl" /\ row.excl = "0")

(***************************************************************************)
(* A comment the code does not keep to.                                    *)
(***************************************************************************)

\* capacity_loader.py:100: as long as nobody has touched it in the web, the
\* Excel sheet decides.
ExcelDecidesUntouched ==
    (table = "capacity" /\ verdict = Keep) =>
        (Excluded(table, excel, row) <=> excel.flag = "X")
=============================================================================
