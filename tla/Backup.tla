-------------------------------- MODULE Backup --------------------------------
(***************************************************************************)
(* scripts/backup_db.py: full and differential backups of tracker.db.      *)
(*                                                                         *)
(* One run fetches a snapshot of the database, writes it whole or as the   *)
(* difference from the newest full backup, and prunes what is older than   *)
(* the retention.  Every file operation is a step of its own, because the  *)
(* run can be killed (or the disk be full) between any two of them and     *)
(* nothing is written through a temporary file.                            *)
(*                                                                         *)
(* A unit of time is the minute of a file's name; days are one unit long.  *)
(* A file's name is the minute in which its run began, but the run itself  *)
(* compares with a time that keeps its seconds, so it may be past the      *)
(* beginning of that minute.  The database is one table with a UNIQUE      *)
(* column and a schema version.                                            *)
(***************************************************************************)
EXTENDS Naturals

CONSTANTS
    Rowids,      \* the rowids of the table
    Keys,        \* the values of its UNIQUE column
    Vals,        \* what its other columns hold
    NoRow,       \* no row has this rowid
    NoDb,        \* a restore that fails gives no database
    NoFile,      \* no backup with this stamp
    Week,        \* the age at which a full backup is due (7 days)
    FullDays,    \* the days of the week on which one is made anyway
    Keep,        \* --keep-days, not 0: a run would remove its own diff
    SameMinute,  \* a second run may begin in the minute of the last one
    MaxNow,      \* bound: the clock
    MaxWrites    \* bound: changes of the database

Row == [key : Keys, val : Vals]

ASSUME ConstantsAssumption ==
    /\ NoRow \notin Row
    /\ Week \in Nat \ {0}
    /\ FullDays \subseteq 0 .. Week - 1
    /\ Keep \in Nat \ {0}
    /\ SameMinute \in BOOLEAN
    /\ MaxNow \in Nat
    /\ MaxWrites \in Nat

Stamps == 0 .. MaxNow

\* The UNIQUE column holds no key twice.
Unique(rows) ==
    \A q, r \in Rowids :
        (rows[q] # NoRow /\ rows[r] # NoRow /\ rows[q].key = rows[r].key) => q = r

Table == {rows \in [Rowids -> Row \cup {NoRow}] : Unique(rows)}

Db == [schema : Nat, rows : Table]

ASSUME DbAssumption == NoDb \notin Db

-----------------------------------------------------------------------------
(***************************************************************************)
(* The difference between two databases.                                   *)
(***************************************************************************)

\* The rows a patch deletes and the rows it inserts.
Patch == [gone : SUBSET Rowids, put : [Rowids -> Row \cup {NoRow}]]

NoPatch == [gone |-> {}, put |-> [r \in Rowids |-> NoRow]]

\* make_diff: DELETE for the rowids that are gone, INSERT OR REPLACE for the
\* rows that are new or differ.
Diff(base, cur) ==
    [gone |-> {r \in Rowids : base[r] # NoRow /\ cur[r] = NoRow},
     put |-> [r \in Rowids |-> IF cur[r] # base[r] THEN cur[r] ELSE NoRow]]

\* executescript of that SQL.  INSERT OR REPLACE also deletes the row that
\* stands in its way on the UNIQUE column.
Apply(base, d) ==
    [r \in Rowids |->
        IF d.put[r] # NoRow THEN d.put[r]
        ELSE IF \/ base[r] = NoRow
                \/ r \in d.gone
                \/ \E q \in Rowids : d.put[q] # NoRow /\ d.put[q].key = base[r].key
             THEN NoRow
             ELSE base[r]]

-----------------------------------------------------------------------------
(***************************************************************************)
(* A file is "whole", or "empty" (opened and not yet written), or          *)
(* "partial": gzip reads some of it and then raises.  Of a "headed" diff   *)
(* the first line, which names the base, can still be read.                *)
(***************************************************************************)
FullFile == [state : {"whole"}, db : Db] \cup [state : {"empty", "partial"}, db : {NoDb}]

DiffFile == [state : {"whole", "empty", "partial", "headed"},
             base : Stamps, schema : Nat, patch : Patch]

ASSUME FileAssumption == NoFile \notin FullFile \cup DiffFile

VARIABLES
    clock,   \* the time
    db,      \* /app/data/tracker.db in the pod
    writes,  \* changes of it so far
    full,    \* full/tracker-<stamp>.db.gz
    diff,    \* diff/tracker-<stamp>.sql.gz
    pc,      \* where the run is, "idle" between runs
    run,     \* the local variables of the run
    begun,   \* 1 + the stamp of the last run, 0 before the first
    taken    \* history: every backup written to its end, and of which database

worldVars == <<clock, db, writes>>
files == <<full, diff>>
vars == <<worldVars, files, pc, run, begun, taken>>

Kinds == {"full", "diff"}

\* now and past: the minute of datetime.now(), and has it seconds?  base: the
\* stamp of last_full; needed: the bases the remaining diffs name.
Run == [now : Stamps, past : BOOLEAN, forced : BOOLEAN, snap : Db \cup {NoDb},
        kind : Kinds, base : Stamps, needed : SUBSET Stamps]

NoRun == [now |-> 0, past |-> FALSE, forced |-> FALSE, snap |-> NoDb, kind |-> "full",
          base |-> 0, needed |-> {}]

Backups == [kind : Kinds, stamp : Stamps, of : Db]

TypeOK ==
    /\ clock \in Stamps
    /\ db \in Db
    /\ writes \in Nat
    /\ full \in [Stamps -> FullFile \cup {NoFile}]
    /\ diff \in [Stamps -> DiffFile \cup {NoFile}]
    /\ pc \in {"idle", "fetch", "choose", "open", "write", "diffs", "bases", "fulls"}
    /\ run \in Run
    /\ begun \in Nat
    /\ taken \subseteq Backups

Init ==
    /\ clock = 0
    /\ \E rows \in Table : db = [schema |-> 1, rows |-> rows]
    /\ writes = 0
    /\ full = [s \in Stamps |-> NoFile]
    /\ diff = [s \in Stamps |-> NoFile]
    /\ pc = "idle"
    /\ run = NoRun
    /\ begun = 0
    /\ taken = {}

Goto(from, to) == pc = from /\ pc' = to

\* The process ends: normally, by an exception, or killed.
End == pc' = "idle" /\ run' = NoRun

-----------------------------------------------------------------------------
(***************************************************************************)
(* The world.                                                              *)
(***************************************************************************)

Tick ==
    /\ clock < MaxNow
    /\ clock' = clock + 1
    /\ UNCHANGED <<db, writes, files, pc, run, begun, taken>>

ChangeDb(new) ==
    /\ writes < MaxWrites
    /\ writes' = writes + 1
    /\ db' = new
    /\ UNCHANGED <<clock, files, pc, run, begun, taken>>

\* The application commits some rows ...
Write(rows) == ChangeDb([db EXCEPT !.rows = rows])

\* ... or init_db adds a column.
Migrate == ChangeDb([db EXCEPT !.schema = @ + 1])

-----------------------------------------------------------------------------
(***************************************************************************)
(* backup: from the snapshot to the file.                                  *)
(***************************************************************************)

Begin(forced, past) ==
    /\ Goto("idle", "fetch")
    /\ SameMinute \/ clock >= begun
    /\ run' = [NoRun EXCEPT !.now = clock, !.past = past, !.forced = forced]
    /\ begun' = clock + 1
    /\ UNCHANGED <<worldVars, files, taken>>

\* A consistent copy through the sqlite backup API; the clock may have moved.
Fetch ==
    /\ Goto("fetch", "choose")
    /\ run' = [run EXCEPT !.snap = db]
    /\ UNCHANGED <<worldVars, files, begun, taken>>

IsNewest(s) ==
    /\ full[s] # NoFile
    /\ \A u \in Stamps : full[u] # NoFile => u <= s

WantFull(s) ==
    \/ run.forced
    \/ run.now % Week \in FullDays
    \/ run.now - s >= Week

\* An empty gzip file unpacks to an empty database, which has no tables.
BaseDb(s) ==
    IF full[s].state = "empty"
    THEN [schema |-> 0, rows |-> [r \in Rowids |-> NoRow]]
    ELSE full[s].db

\* The patch is kept only if applying it gives the snapshot back.
Reproduces(base) ==
    /\ base.schema = run.snap.schema
    /\ Apply(base.rows, Diff(base.rows, run.snap.rows)) = run.snap.rows

ChooseFull ==
    /\ Goto("choose", "open")
    /\ \A s \in Stamps :
           IsNewest(s) =>
               \/ WantFull(s)
               \/ full[s].state # "partial" /\ ~Reproduces(BaseDb(s))
    /\ run' = [run EXCEPT !.kind = "full"]
    /\ UNCHANGED <<worldVars, files, begun, taken>>

ChooseDiff ==
    /\ Goto("choose", "open")
    /\ \E s \in Stamps :
           /\ IsNewest(s)
           /\ ~WantFull(s)
           /\ full[s].state # "partial"
           /\ Reproduces(BaseDb(s))
           /\ run' = [run EXCEPT !.kind = "diff", !.base = s]
    /\ UNCHANGED <<worldVars, files, begun, taken>>

\* The newest full backup cannot be unpacked: the run raises.
ChooseRaises ==
    /\ pc = "choose"
    /\ \E s \in Stamps : IsNewest(s) /\ ~WantFull(s) /\ full[s].state = "partial"
    /\ End
    /\ UNCHANGED <<worldVars, files, begun, taken>>

NewDiff(state) ==
    LET base == BaseDb(run.base).rows
    IN  [state |-> state, base |-> run.base, schema |-> run.snap.schema,
         patch |-> IF state = "whole" THEN Diff(base, run.snap.rows) ELSE NoPatch]

NewFull(state) == [state |-> state, db |-> IF state = "whole" THEN run.snap ELSE NoDb]

\* _write_private: the file of the run has been left in this state.
Leave(state) ==
    IF run.kind = "full"
    THEN /\ full' = [full EXCEPT ![run.now] = NewFull(state)]
         /\ diff' = diff
    ELSE /\ diff' = [diff EXCEPT ![run.now] = NewDiff(state)]
         /\ full' = full

\* os.open with O_CREAT and O_TRUNC ...
Open ==
    /\ Goto("open", "write")
    /\ Leave("empty")
    /\ UNCHANGED <<worldVars, run, begun, taken>>

\* ... and write, flushed when the file is closed.
WriteAll ==
    /\ Goto("write", "diffs")
    /\ Leave("whole")
    /\ taken' = taken \cup {[kind |-> run.kind, stamp |-> run.now, of |-> run.snap]}
    /\ UNCHANGED <<worldVars, run, begun>>

-----------------------------------------------------------------------------
(***************************************************************************)
(* prune: expired diffs first, then the full backups nobody needs.         *)
(***************************************************************************)

\* Has the run's time gone by more than this since the minute s began?
OlderThan(s, age) ==
    \/ s + age < run.now
    \/ run.past /\ s + age = run.now

\* Fault in Expired: the cutoff is one unit too late.
ExpiredEarly(s) == OlderThan(s, Keep - 1)

\* _stamp(d) < cutoff
Expired(s) == OlderThan(s, Keep)

ExpiredDiff(s) == diff[s] # NoFile /\ Expired(s)

UnlinkDiff(s) ==
    /\ pc = "diffs"
    /\ ExpiredDiff(s)
    /\ \A u \in Stamps : ExpiredDiff(u) => s <= u
    /\ diff' = [diff EXCEPT ![s] = NoFile]
    /\ UNCHANGED <<worldVars, full, pc, run, begun, taken>>

DiffsPruned ==
    /\ Goto("diffs", "bases")
    /\ \A s \in Stamps : ~ExpiredDiff(s)
    /\ UNCHANGED <<worldVars, files, run, begun, taken>>

\* _base_of: an empty diff names no base.
HasBase(s) == diff[s] # NoFile /\ diff[s].state \in {"whole", "headed"}

ReadBases ==
    /\ Goto("bases", "fulls")
    /\ \A s \in Stamps : diff[s] # NoFile => diff[s].state # "partial"
    /\ run' = [run EXCEPT !.needed = {diff[s].base : s \in {u \in Stamps : HasBase(u)}}]
    /\ UNCHANGED <<worldVars, files, begun, taken>>

\* Reading the first line of a diff cut off before it raises.
ReadBasesRaises ==
    /\ pc = "bases"
    /\ \E s \in Stamps : diff[s] # NoFile /\ diff[s].state = "partial"
    /\ End
    /\ UNCHANGED <<worldVars, files, begun, taken>>

\* Fault: the bases of the remaining diffs are not protected.
RemovableUnneeded(s) == full[s] # NoFile /\ Expired(s) /\ ~IsNewest(s)

\* Fault: every expired full backup goes.
RemovableExpired(s) == full[s] # NoFile /\ Expired(s)

Removable(s) ==
    /\ full[s] # NoFile
    /\ Expired(s)
    /\ ~IsNewest(s)
    /\ s \notin run.needed

UnlinkFull(s) ==
    /\ pc = "fulls"
    /\ Removable(s)
    /\ \A u \in Stamps : Removable(u) => s <= u
    /\ full' = [full EXCEPT ![s] = NoFile]
    /\ UNCHANGED <<worldVars, diff, pc, run, begun, taken>>

Finish ==
    /\ pc = "fulls"
    /\ \A s \in Stamps : ~Removable(s)
    /\ End
    /\ UNCHANGED <<worldVars, files, begun, taken>>

-----------------------------------------------------------------------------
(***************************************************************************)
(* The run ends early.                                                     *)
(***************************************************************************)

\* Killed, no running pod, a failed integrity check, an I/O error ...
Stop ==
    /\ pc \notin {"idle", "write"}
    /\ End
    /\ UNCHANGED <<worldVars, files, begun, taken>>

\* ... or stopped while writing: any part of the file may be on the disk.
StopWriting ==
    /\ pc = "write"
    /\ \E state \in {"empty", "partial", "headed"} :
           /\ run.kind = "full" => state # "headed"
           /\ Leave(state)
    /\ End
    /\ UNCHANGED <<worldVars, begun, taken>>

Next ==
    \/ Tick
    \/ Migrate
    \/ \E rows \in Table : Write(rows)
    \/ \E forced, past \in BOOLEAN : Begin(forced, past)
    \/ Fetch
    \/ ChooseFull
    \/ ChooseDiff
    \/ ChooseRaises
    \/ Open
    \/ WriteAll
    \/ \E s \in Stamps : UnlinkDiff(s)
    \/ DiffsPruned
    \/ ReadBases
    \/ ReadBasesRaises
    \/ \E s \in Stamps : UnlinkFull(s)
    \/ Finish
    \/ Stop
    \/ StopWriting

Spec == Init /\ [][Next]_vars

-----------------------------------------------------------------------------
(***************************************************************************)
(* restore, and the properties.                                            *)
(***************************************************************************)

IsWhole(f) == f # NoFile /\ f.state = "whole"

\* restore of a full backup, and of a diff on top of its base.
RestoredDiff(d) ==
    IF IsWhole(d) /\ IsWhole(full[d.base])
    THEN [schema |-> full[d.base].db.schema, rows |-> Apply(full[d.base].db.rows, d.patch)]
    ELSE NoDb

Restored(b) ==
    IF b.kind = "diff" THEN RestoredDiff(diff[b.stamp])
    ELSE IF IsWhole(full[b.stamp]) THEN full[b.stamp].db
    ELSE NoDb

Present(b) == (IF b.kind = "diff" THEN diff[b.stamp] ELSE full[b.stamp]) # NoFile

\* Every backup that was written and is still there restores the database it
\* was taken of: a diff keeps its base however old that is, and whatever runs
\* were killed in between (backup_db.py:13).
KeptRestores == \A b \in taken : Present(b) => Restored(b) = b.of

\* A backup restores what it was taken of until the retention, counted from the
\* minute in its name, is over (--keep-days).
RetentionHolds == \A b \in taken : clock < b.stamp + Keep => Restored(b) = b.of

\* The last backup that was written restores, however long ago that was and
\* however the runs since then ended: pruning never leaves nothing.
LatestRestores ==
    \A b \in taken :
        (\A c \in taken : c.stamp <= b.stamp) => Restored(b) = b.of

(***************************************************************************)
(* The inductive invariant behind the three of them, for runs that do not  *)
(* begin in the minute of an earlier one.                                  *)
(***************************************************************************)

Writing == {"fetch", "choose", "open", "write"}

Pruning == {"diffs", "bases", "fulls"}

\* Stamps only grow, and a run has fetched a database that has tables.
RunOK ==
    /\ begun <= clock + 1
    /\ pc # "idle" => run.now + 1 = begun
    /\ db.schema > 0
    /\ pc \notin {"idle", "fetch"} => run.snap \in Db /\ run.snap.schema > 0

\* The stamp of a run is new until the run has written its file.
StampIsNew ==
    /\ \A s \in Stamps : full[s] # NoFile \/ diff[s] # NoFile => s < begun
    /\ \A b \in taken : b.stamp < begun
    /\ pc \in Writing =>
           /\ ~IsWhole(full[run.now])
           /\ ~IsWhole(diff[run.now])
           /\ \A b \in taken : b.stamp # run.now

\* The base a diff is about to be written on is whole and was verified.
BaseVerified ==
    pc \in {"open", "write"} /\ run.kind = "diff" =>
        IsWhole(full[run.base]) /\ Reproduces(full[run.base].db)

\* The bases read before the full backups are pruned are those of all diffs.
BasesRead == pc = "fulls" => \A s \in Stamps : IsWhole(diff[s]) => diff[s].base \in run.needed

\* A run prunes only after it wrote a backup of its own.
WroteFirst == pc \in Pruning => \E b \in taken : b.stamp = run.now

RecentPresent == \A b \in taken : clock < b.stamp + Keep => Present(b)

LatestPresent ==
    \A b \in taken : (\A c \in taken : c.stamp <= b.stamp) => Present(b)

BackupInv ==
    /\ TypeOK
    /\ RunOK
    /\ StampIsNew
    /\ BaseVerified
    /\ BasesRead
    /\ WroteFirst
    /\ KeptRestores
    /\ RecentPresent
    /\ LatestPresent

(***************************************************************************)
(* What one might expect and the code does not do.                         *)
(***************************************************************************)

\* A backup is there until its own age exceeds the retention
\* (backup_db.py:13).  Not so: the name has lost the seconds, so a run in the
\* last minute of the retention may remove it up to a minute early.
RetentionToTheMinute ==
    \A b \in taken : clock <= b.stamp + Keep => Restored(b) = b.of

\* A run that is neither killed nor refused its snapshot succeeds.  Not so: a
\* full backup cut off while it was written stays the newest one and makes
\* every following run raise until the next full backup is due.
RunsRecover == [][~ChooseRaises]_vars
=============================================================================
