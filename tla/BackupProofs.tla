----------------------------- MODULE BackupProofs -----------------------------
(***************************************************************************)
(* What Backup guarantees for any table, keys, retention, calendar and     *)
(* length of the history, as long as no two runs share a stamp.  A run     *)
(* prunes with a time that may be past the minute of its stamp, so what it *)
(* removes is as old as the retention or older (OnlyExpiredGo).            *)
(***************************************************************************)
EXTENDS Backup, TLAPS

-----------------------------------------------------------------------------
(***************************************************************************)
(* Patches.                                                                *)
(***************************************************************************)

LEMMA DiffTyped ==
    ASSUME NEW base \in Table, NEW cur \in Table
    PROVE  Diff(base, cur) \in Patch
BY DEF Diff, Patch, Table

LEMMA NoPatchTyped == NoPatch \in Patch
BY DEF NoPatch, Patch

\* Applying the patch make_diff wrote between two tables gives the second
\* one, although INSERT OR REPLACE may delete rows the patch does not name:
\* keys are unique in the second table, so no unchanged row is in the way.
THEOREM PatchReproduces ==
    ASSUME NEW base \in Table, NEW cur \in Table
    PROVE  Apply(base, Diff(base, cur)) = cur
<1> DEFINE d == Diff(base, cur)
<1>1. base \in [Rowids -> Row \cup {NoRow}] /\ cur \in [Rowids -> Row \cup {NoRow}]
  BY DEF Table
<1>2. SUFFICES ASSUME NEW r \in Rowids PROVE Apply(base, d)[r] = cur[r]
  BY <1>1 DEF Apply
<1>3. \A q \in Rowids : d.put[q] = IF cur[q] # base[q] THEN cur[q] ELSE NoRow
  BY DEF Diff
<1>4. \A q \in Rowids : q \in d.gone <=> base[q] # NoRow /\ cur[q] = NoRow
  BY DEF Diff
<1>5. CASE d.put[r] # NoRow
  BY <1>3, <1>5 DEF Apply
<1>6. CASE d.put[r] = NoRow /\ cur[r] = NoRow
  BY <1>3, <1>4, <1>6 DEF Apply
<1>7. CASE d.put[r] = NoRow /\ cur[r] # NoRow
  <2>1. cur[r] = base[r]
    BY <1>3, <1>7
  <2>2. \A q \in Rowids : d.put[q] # NoRow => d.put[q].key # base[r].key
    <3>1. SUFFICES ASSUME NEW q \in Rowids, d.put[q] # NoRow, d.put[q].key = base[r].key
                   PROVE  FALSE
      OBVIOUS
    <3>2. d.put[q] = cur[q] /\ cur[q] # base[q]
      BY <1>3, <3>1
    <3>3. cur[q] # NoRow /\ cur[q].key = cur[r].key
      BY <2>1, <3>1, <3>2
    <3>4. q = r
      BY <1>7, <3>3 DEF Table, Unique
    <3> QED BY <2>1, <3>2, <3>4
  <2>3. r \notin d.gone
    BY <1>4, <1>7
  <2> HIDE DEF d
  <2>4. Apply(base, d)[r] = base[r]
    BY <1>7, <2>1, <2>2, <2>3 DEF Apply
  <2> QED BY <2>1, <2>4
<1> QED BY <1>5, <1>6, <1>7

-----------------------------------------------------------------------------
(***************************************************************************)
(* Types.                                                                  *)
(***************************************************************************)

LEMMA StampTyped == ASSUME NEW s \in Stamps PROVE s \in Nat
BY ConstantsAssumption DEF Stamps

LEMMA WholeTyped ==
    ASSUME TypeOK, NEW s \in Stamps, IsWhole(full[s])
    PROVE  full[s].db \in Db
BY DEF TypeOK, IsWhole, FullFile

LEMMA NewFileTyped ==
    ASSUME TypeOK, RunOK, pc \notin {"idle", "fetch"},
           NEW state \in {"whole", "empty", "partial", "headed"},
           state = "whole" /\ run.kind = "diff" => BaseVerified /\ pc = "write"
    PROVE  /\ state # "headed" => NewFull(state) \in FullFile
           /\ run.kind = "diff" => NewDiff(state) \in DiffFile
<1>1. run.snap \in Db /\ run.base \in Stamps /\ run.snap.schema \in Nat
      /\ run.snap.rows \in Table
  BY DEF RunOK, TypeOK, Run, Db
<1>2. state # "headed" => NewFull(state) \in FullFile
  BY <1>1 DEF NewFull, FullFile
<1>3. ASSUME run.kind = "diff" PROVE NewDiff(state) \in DiffFile
  <2>1. CASE state # "whole"
    BY <1>1, <2>1, NoPatchTyped DEF NewDiff, DiffFile
  <2>2. CASE state = "whole"
    <3>1. IsWhole(full[run.base])
      BY <1>3, <2>2 DEF BaseVerified
    <3>2. full[run.base].db \in Db /\ full[run.base].state = "whole"
      BY <1>1, <3>1, WholeTyped DEF IsWhole
    <3>3. BaseDb(run.base) = full[run.base].db
      BY <3>2 DEF BaseDb
    <3>4. Diff(BaseDb(run.base).rows, run.snap.rows) \in Patch
      BY <1>1, <3>2, <3>3, DiffTyped DEF Db
    <3> QED BY <1>1, <2>2, <3>4 DEF NewDiff, DiffFile
  <2> QED BY <2>1, <2>2
<1> QED BY <1>2, <1>3

LEMMA LeaveTyped ==
    ASSUME TypeOK, RunOK, pc \notin {"idle", "fetch"},
           NEW state \in {"whole", "empty", "partial", "headed"},
           run.kind = "full" => state # "headed",
           state = "whole" /\ run.kind = "diff" => BaseVerified /\ pc = "write",
           Leave(state)
    PROVE  /\ full' \in [Stamps -> FullFile \cup {NoFile}]
           /\ diff' \in [Stamps -> DiffFile \cup {NoFile}]
<1>1. run.kind \in {"full", "diff"}
  BY DEF TypeOK, Run, Kinds
<1>2. CASE run.kind = "full"
  <2>1. NewFull(state) \in FullFile
    BY <1>2, NewFileTyped
  <2> QED BY <1>2, <2>1 DEF Leave, TypeOK
<1>3. CASE run.kind = "diff"
  <2>1. NewDiff(state) \in DiffFile
    BY <1>3, NewFileTyped
  <2> QED BY <1>3, <2>1 DEF Leave, TypeOK
<1> QED BY <1>1, <1>2, <1>3

LEMMA NoRunTyped == NoRun \in Run
BY ConstantsAssumption DEF NoRun, Run, Stamps, Kinds

LEMMA TypeStep ==
    ASSUME TypeOK, RunOK, BaseVerified, [Next]_vars
    PROVE  TypeOK'
<1> USE DEF TypeOK, Goto
<1>1. CASE Tick
  BY <1>1, ConstantsAssumption DEF Tick, files, Stamps
<1>2. CASE Migrate
  <2>1. db' \in Db
    BY <1>2 DEF Migrate, ChangeDb, Db
  <2> QED BY <1>2, <2>1 DEF Migrate, ChangeDb, files
<1>3. CASE \E rows \in Table : Write(rows)
  <2>1. db' \in Db
    BY <1>3 DEF Write, ChangeDb, Db
  <2> QED BY <1>3, <2>1 DEF Write, ChangeDb, files
<1>4. CASE \E forced, past \in BOOLEAN : Begin(forced, past)
  <2>1. PICK forced \in BOOLEAN, past \in BOOLEAN : Begin(forced, past)
    BY <1>4
  <2>2. run' \in Run
    BY <2>1, NoRunTyped DEF Begin, Run
  <2>3. begun' \in Nat
    BY <2>1, StampTyped DEF Begin
  <2> QED BY <2>1, <2>2, <2>3 DEF Begin, files, worldVars
<1>5. CASE Fetch
  BY <1>5 DEF Fetch, files, worldVars, Run
<1>6. CASE ChooseFull
  BY <1>6 DEF ChooseFull, files, worldVars, Run, Kinds
<1>7. CASE ChooseDiff
  BY <1>7 DEF ChooseDiff, files, worldVars, Run, Kinds
<1>8. CASE ChooseRaises \/ ReadBasesRaises \/ Finish \/ Stop
  BY <1>8, NoRunTyped DEF ChooseRaises, ReadBasesRaises, Finish, Stop, End, files, worldVars
<1>9. CASE Open
  <2>1. Leave("empty")
    BY <1>9 DEF Open
  <2>2. /\ full' \in [Stamps -> FullFile \cup {NoFile}]
        /\ diff' \in [Stamps -> DiffFile \cup {NoFile}]
    BY <1>9, <2>1, LeaveTyped DEF Open
  <2> QED BY <1>9, <2>2 DEF Open, worldVars
<1>10. CASE WriteAll
  <2>1. Leave("whole")
    BY <1>10 DEF WriteAll
  <2>2. /\ full' \in [Stamps -> FullFile \cup {NoFile}]
        /\ diff' \in [Stamps -> DiffFile \cup {NoFile}]
    BY <1>10, <2>1, LeaveTyped DEF WriteAll
  <2>3. run.snap \in Db
    BY <1>10 DEF WriteAll, RunOK
  <2>4. taken' \subseteq Backups
    BY <1>10, <2>3 DEF WriteAll, Backups, Run
  <2> QED BY <1>10, <2>2, <2>4 DEF WriteAll, worldVars
<1>11. CASE \E s \in Stamps : UnlinkDiff(s)
  BY <1>11 DEF UnlinkDiff, worldVars
<1>12. CASE DiffsPruned
  BY <1>12 DEF DiffsPruned, worldVars, files
<1>13. CASE ReadBases
  <2>1. \A s \in Stamps : HasBase(s) => diff[s].base \in Stamps
    BY DEF HasBase, DiffFile
  <2>2. run'.needed \in SUBSET Stamps
    BY <1>13, <2>1 DEF ReadBases, Run
  <2>3. run' \in Run
    BY <1>13, <2>2 DEF ReadBases, Run
  <2> QED BY <1>13, <2>3 DEF ReadBases, worldVars, files
<1>14. CASE \E s \in Stamps : UnlinkFull(s)
  BY <1>14 DEF UnlinkFull, worldVars
<1>15. CASE StopWriting
  <2>1. PICK state \in {"empty", "partial", "headed"} :
            (run.kind = "full" => state # "headed") /\ Leave(state)
    BY <1>15 DEF StopWriting
  <2>2. /\ full' \in [Stamps -> FullFile \cup {NoFile}]
        /\ diff' \in [Stamps -> DiffFile \cup {NoFile}]
    BY <1>15, <2>1, LeaveTyped DEF StopWriting
  <2> QED BY <1>15, <2>2, NoRunTyped DEF StopWriting, End, worldVars
<1>16. CASE UNCHANGED vars
  BY <1>16 DEF vars, files, worldVars
<1> QED BY <1>1, <1>2, <1>3, <1>4, <1>5, <1>6, <1>7, <1>8, <1>9, <1>10, <1>11, <1>12,
           <1>13, <1>14, <1>15, <1>16 DEF Next

-----------------------------------------------------------------------------
(***************************************************************************)
(* The shape of a run.                                                     *)
(***************************************************************************)

LEMMA RunStep ==
    ASSUME TypeOK, RunOK, [Next]_vars
    PROVE  RunOK'
<1> USE DEF RunOK, TypeOK, Goto
<1>0. clock \in Nat /\ begun \in Nat
  BY StampTyped
<1>1. CASE Tick
  BY <1>0, <1>1 DEF Tick, files
<1>2. CASE Migrate \/ \E rows \in Table : Write(rows)
  BY <1>2 DEF Migrate, Write, ChangeDb, files, Db
<1>3. CASE \E forced, past \in BOOLEAN : Begin(forced, past)
  BY <1>0, <1>3, NoRunTyped DEF Begin, files, worldVars, Run
<1>4. CASE Fetch
  BY <1>4 DEF Fetch, files, worldVars, Run
<1>5. CASE ChooseFull \/ ChooseDiff
  BY <1>5 DEF ChooseFull, ChooseDiff, files, worldVars, Run
<1>6. CASE ChooseRaises \/ ReadBasesRaises \/ Finish \/ Stop \/ StopWriting
  BY <1>6 DEF ChooseRaises, ReadBasesRaises, Finish, Stop, StopWriting, End, files, worldVars
<1>7. CASE Open \/ WriteAll \/ DiffsPruned
  BY <1>7 DEF Open, WriteAll, DiffsPruned, files, worldVars
<1>8. CASE ReadBases
  BY <1>8 DEF ReadBases, files, worldVars, Run
<1>9. CASE \E s \in Stamps : UnlinkDiff(s) \/ UnlinkFull(s)
  BY <1>9 DEF UnlinkDiff, UnlinkFull, worldVars
<1>10. CASE UNCHANGED vars
  BY <1>10 DEF vars, files, worldVars
<1> QED BY <1>1, <1>2, <1>3, <1>4, <1>5, <1>6, <1>7, <1>8, <1>9, <1>10 DEF Next

\* The actions that leave the files and the history of backups alone, apart
\* from the beginning of a run.
Quiet ==
    \/ Tick \/ Migrate \/ \E rows \in Table : Write(rows)
    \/ Fetch \/ ChooseFull \/ ChooseDiff \/ ChooseRaises
    \/ DiffsPruned \/ ReadBases \/ ReadBasesRaises \/ Finish \/ Stop

LEMMA QuietKeeps ==
    ASSUME Quiet
    PROVE  UNCHANGED <<full, diff, taken, begun>>
BY DEF Quiet, Tick, Migrate, Write, ChangeDb, Fetch, ChooseFull, ChooseDiff, ChooseRaises,
       DiffsPruned, ReadBases, ReadBasesRaises, Finish, Stop, files

\* Splits a step for the lemmas below.
LEMMA StepKinds ==
    ASSUME [Next]_vars
    PROVE  \/ Quiet
           \/ \E forced, past \in BOOLEAN : Begin(forced, past)
           \/ Open \/ WriteAll \/ StopWriting
           \/ \E s \in Stamps : UnlinkDiff(s)
           \/ \E s \in Stamps : UnlinkFull(s)
           \/ UNCHANGED vars
BY DEF Next, Quiet

\* Where a quiet step leads, and that it keeps the run it does not end.
LEMMA QuietRun ==
    ASSUME TypeOK, Quiet
    PROVE  /\ pc' \in Writing => pc \in Writing
           /\ (pc = "write" /\ pc' \in Writing) => pc' = "write"
           /\ pc' \in Pruning => pc \in Pruning
           /\ pc' # "idle" => run'.now = run.now
BY DEF Quiet, Tick, Migrate, Write, ChangeDb, Fetch, ChooseFull, ChooseDiff, ChooseRaises,
       DiffsPruned, ReadBases, ReadBasesRaises, Finish, Stop, End, Goto, Writing, Pruning,
       TypeOK, Run

\* What a run leaves at its stamp: other stamps keep their files, and the
\* file is whole only when it was written to its end.
LEMMA LeaveEffect ==
    ASSUME TypeOK, NEW state, Leave(state)
    PROVE  /\ \A s \in Stamps : s # run.now => full'[s] = full[s] /\ diff'[s] = diff[s]
           /\ run.kind = "full" => diff' = diff /\ full'[run.now] = NewFull(state)
           /\ run.kind = "diff" => full' = full /\ diff'[run.now] = NewDiff(state)
           /\ run.kind \in {"full", "diff"}
BY DEF Leave, TypeOK, Run, Kinds

LEMMA NotWhole ==
    ASSUME NEW state, state # "whole"
    PROVE  ~IsWhole(NewFull(state)) /\ ~IsWhole(NewDiff(state))
BY DEF IsWhole, NewFull, NewDiff

LEMMA StampStep ==
    ASSUME ~SameMinute, TypeOK, RunOK, StampIsNew, [Next]_vars
    PROVE  StampIsNew'
<1>0. clock \in Nat /\ begun \in Nat /\ run.now \in Stamps
  BY StampTyped DEF TypeOK, Run
<1>1. CASE Quiet
  <2>1. UNCHANGED <<full, diff, taken, begun>>
    BY <1>1, QuietKeeps
  <2>2. pc' \in Writing => pc \in Writing /\ run'.now = run.now
    BY <1>1, QuietRun DEF Writing
  <2> QED BY <2>1, <2>2 DEF StampIsNew, IsWhole
<1>2. CASE \E forced, past \in BOOLEAN : Begin(forced, past)
  <2>1. clock >= begun /\ begun' = clock + 1 /\ run'.now = clock
        /\ UNCHANGED <<full, diff, taken>>
    BY <1>2, NoRunTyped DEF Begin, files, Run
  <2>2. \A s \in Stamps : full[s] # NoFile \/ diff[s] # NoFile => s < clock + 1
    BY <1>0, <2>1, StampTyped DEF StampIsNew
  <2>3. \A b \in taken : b.stamp \in Nat /\ b.stamp < clock
    <3>1. \A b \in taken : b.stamp \in Stamps
      BY DEF TypeOK, Backups
    <3> QED BY <1>0, <2>1, <3>1, StampTyped DEF StampIsNew
  <2>4. full[clock] = NoFile /\ diff[clock] = NoFile
    BY <1>0, <2>1 DEF StampIsNew, TypeOK
  <2>5. \A b \in taken : b.stamp < clock + 1 /\ b.stamp # clock
    BY <1>0, <2>3
  <2> QED BY <2>1, <2>2, <2>4, <2>5 DEF StampIsNew, IsWhole
<1>3. CASE Open \/ StopWriting
  <2>1. /\ taken' = taken /\ begun' = begun
        /\ pc # "idle"
        /\ pc' \in Writing => pc \in Writing /\ run'.now = run.now
    BY <1>3 DEF Open, StopWriting, End, Goto, Writing
  <2>2. PICK state : state # "whole" /\ Leave(state)
    BY <1>3 DEF Open, StopWriting
  <2>3. \A s \in Stamps : full'[s] # NoFile \/ diff'[s] # NoFile => s < begun
    BY <1>0, <2>1, <2>2, LeaveEffect, StampTyped DEF StampIsNew, RunOK
  <2>4. pc' \in Writing => ~IsWhole(full'[run.now]) /\ ~IsWhole(diff'[run.now])
    BY <2>1, <2>2, LeaveEffect, NotWhole DEF StampIsNew
  <2> QED BY <2>1, <2>3, <2>4 DEF StampIsNew
<1>4. CASE WriteAll
  <2>1. Leave("whole") /\ pc # "idle" /\ pc' = "diffs" /\ begun' = begun
        /\ taken' = taken \cup {[kind |-> run.kind, stamp |-> run.now, of |-> run.snap]}
    BY <1>4 DEF WriteAll, Goto
  <2>2. \A s \in Stamps : full'[s] # NoFile \/ diff'[s] # NoFile => s < begun
    BY <1>0, <2>1, LeaveEffect, StampTyped DEF StampIsNew, RunOK
  <2>3. \A b \in taken' : b.stamp < begun
    BY <1>0, <2>1, StampTyped DEF StampIsNew, RunOK
  <2> QED BY <2>1, <2>2, <2>3 DEF StampIsNew, Writing
<1>5. CASE (\E s \in Stamps : UnlinkDiff(s)) \/ (\E s \in Stamps : UnlinkFull(s))
  <2>1. UNCHANGED <<pc, begun, taken>> /\ pc \notin Writing
    BY <1>5 DEF UnlinkDiff, UnlinkFull, Writing
  <2>2. \A u \in Stamps : full'[u] # NoFile \/ diff'[u] # NoFile
                            => full[u] # NoFile \/ diff[u] # NoFile
    BY <1>5 DEF UnlinkDiff, UnlinkFull, TypeOK
  <2> QED BY <2>1, <2>2 DEF StampIsNew
<1>6. CASE UNCHANGED vars
  BY <1>6 DEF StampIsNew, IsWhole, vars, files
<1> QED BY <1>1, <1>2, <1>3, <1>4, <1>5, <1>6, StepKinds

LEMMA BaseStep ==
    ASSUME TypeOK, RunOK, StampIsNew, BaseVerified, [Next]_vars
    PROVE  BaseVerified'
<1>1. CASE ChooseDiff
  <2>1. PICK s \in Stamps : /\ IsNewest(s)
                            /\ full[s].state # "partial"
                            /\ Reproduces(BaseDb(s))
                            /\ run' = [run EXCEPT !.kind = "diff", !.base = s]
    BY <1>1 DEF ChooseDiff
  <2>2. run'.base = s /\ run'.snap = run.snap
    BY <2>1 DEF TypeOK, Run
  <2>3. full[s] \in FullFile /\ full[s] # NoFile
    BY <2>1 DEF IsNewest, TypeOK
  <2>4. full[s].state # "empty"
    <3>1. ASSUME full[s].state = "empty" PROVE FALSE
      <4>1. BaseDb(s).schema = 0
        BY <3>1 DEF BaseDb
      <4>2. run.snap.schema > 0 /\ run.snap.schema \in Nat
        BY <1>1 DEF ChooseDiff, RunOK, Goto, Db
      <4> QED BY <2>1, <4>1, <4>2 DEF Reproduces
    <3> QED BY <3>1
  <2>5. IsWhole(full[s]) /\ BaseDb(s) = full[s].db
    BY <2>1, <2>3, <2>4 DEF IsWhole, FullFile, BaseDb
  <2>6. full' = full
    BY <1>1 DEF ChooseDiff, files
  <2> QED BY <2>1, <2>2, <2>5, <2>6 DEF BaseVerified, Reproduces
<1>2. CASE Open
  <2>1. Leave("empty") /\ pc = "open" /\ run' = run
    BY <1>2 DEF Open, Goto
  <2>2. CASE run.kind = "diff"
    <3>1. full' = full
      BY <2>1, <2>2, LeaveEffect
    <3> QED BY <2>1, <2>2, <3>1 DEF BaseVerified, Reproduces
  <2>3. CASE run.kind # "diff"
    BY <2>1, <2>3 DEF BaseVerified
  <2> QED BY <2>2, <2>3
<1>3. CASE Tick \/ Migrate \/ \E rows \in Table : Write(rows)
  BY <1>3 DEF Tick, Migrate, Write, ChangeDb, files, BaseVerified, Reproduces
<1>4. CASE ChooseFull
  BY <1>4 DEF ChooseFull, BaseVerified, TypeOK, Run
<1>5. CASE pc' \notin {"open", "write"}
  BY <1>5 DEF BaseVerified
<1>6. CASE UNCHANGED vars
  BY <1>6 DEF vars, files, BaseVerified, Reproduces
<1> QED BY <1>1, <1>2, <1>3, <1>4, <1>5, <1>6 DEF Next, Begin, Fetch, ChooseRaises, WriteAll,
           UnlinkDiff, DiffsPruned, ReadBases, ReadBasesRaises, UnlinkFull, Finish, Stop,
           StopWriting, End, Goto

LEMMA BasesStep ==
    ASSUME TypeOK, BasesRead, [Next]_vars
    PROVE  BasesRead'
<1>1. CASE ReadBases
  <2>1. run'.needed = {diff[s].base : s \in {u \in Stamps : HasBase(u)}} /\ diff' = diff
    BY <1>1 DEF ReadBases, files, TypeOK, Run
  <2>2. \A s \in Stamps : IsWhole(diff[s]) => HasBase(s)
    BY DEF IsWhole, HasBase
  <2> QED BY <2>1, <2>2 DEF BasesRead
<1>2. CASE pc = "fulls" /\ UNCHANGED <<run, diff>>
  BY <1>2 DEF BasesRead
<1>3. CASE pc' # "fulls"
  BY <1>3 DEF BasesRead
<1>4. pc' = "fulls" => ReadBases \/ (pc = "fulls" /\ UNCHANGED <<run, diff>>)
  BY DEF Next, Tick, Migrate, Write, ChangeDb, Begin, Fetch, ChooseFull, ChooseDiff,
         ChooseRaises, Open, WriteAll, UnlinkDiff, DiffsPruned, ReadBasesRaises, UnlinkFull,
         Finish, Stop, StopWriting, End, Goto, vars, files
<1> QED BY <1>1, <1>2, <1>3, <1>4

LEMMA WroteStep ==
    ASSUME TypeOK, WroteFirst, [Next]_vars
    PROVE  WroteFirst'
<1>1. CASE Quiet
  BY <1>1, QuietKeeps, QuietRun DEF WroteFirst, Pruning
<1>2. CASE WriteAll
  <2> DEFINE new == [kind |-> run.kind, stamp |-> run.now, of |-> run.snap]
  <2>1. new \in taken' /\ new.stamp = run.now /\ run' = run
    BY <1>2 DEF WriteAll
  <2> QED BY <2>1 DEF WroteFirst
<1>3. CASE (\E s \in Stamps : UnlinkDiff(s)) \/ (\E s \in Stamps : UnlinkFull(s))
  BY <1>3 DEF UnlinkDiff, UnlinkFull, WroteFirst
<1>4. CASE (\E forced, past \in BOOLEAN : Begin(forced, past)) \/ Open \/ StopWriting
  BY <1>4 DEF Begin, Open, StopWriting, End, Goto, WroteFirst, Pruning
<1>5. CASE UNCHANGED vars
  BY <1>5 DEF vars, WroteFirst
<1> QED BY <1>1, <1>2, <1>3, <1>4, <1>5, StepKinds

-----------------------------------------------------------------------------
(***************************************************************************)
(* Backups restore.                                                        *)
(***************************************************************************)

\* A backup is left alone by a step that keeps its file, and for a diff the
\* full backup it stands on.
LEMMA RestoredDepends ==
    ASSUME NEW b \in taken,
           b.kind = "diff" => diff'[b.stamp] = diff[b.stamp],
           b.kind = "diff" /\ IsWhole(diff[b.stamp]) =>
               full'[diff[b.stamp].base] = full[diff[b.stamp].base],
           b.kind # "diff" => full'[b.stamp] = full[b.stamp]
    PROVE  /\ Present(b)' = Present(b)
           /\ Restored(b)' = Restored(b)
BY DEF Present, Restored, RestoredDiff, IsWhole

LEMMA TakenTyped ==
    ASSUME TypeOK, NEW b \in taken
    PROVE  b.stamp \in Stamps /\ b.of \in Db /\ b.kind \in {"full", "diff"}
BY DEF TypeOK, Backups, Kinds

\* A backup that restores has a whole file, and so has its base.
LEMMA RestoredIsWhole ==
    ASSUME TypeOK, NEW b \in taken, Restored(b) = b.of
    PROVE  /\ b.kind = "diff" => /\ IsWhole(diff[b.stamp])
                                 /\ diff[b.stamp].base \in Stamps
                                 /\ IsWhole(full[diff[b.stamp].base])
           /\ b.kind # "diff" => IsWhole(full[b.stamp])
<1>1. b.of # NoDb /\ b.stamp \in Stamps
  BY TakenTyped, DbAssumption
<1>2. CASE b.kind = "diff"
  <2>1. RestoredDiff(diff[b.stamp]) # NoDb
    BY <1>1, <1>2 DEF Restored
  <2>2. IsWhole(diff[b.stamp]) /\ IsWhole(full[diff[b.stamp].base])
    BY <2>1 DEF RestoredDiff
  <2>3. diff[b.stamp] \in DiffFile
    BY <1>1, <2>2 DEF IsWhole, TypeOK
  <2> QED BY <1>2, <2>2, <2>3 DEF DiffFile
<1>3. CASE b.kind # "diff"
  BY <1>1, <1>3 DEF Restored
<1> QED BY <1>2, <1>3

\* The backup a run has just written restores its snapshot.
LEMMA NewRestores ==
    ASSUME TypeOK, RunOK, StampIsNew, BaseVerified, WriteAll,
           NEW b \in taken', b.stamp = run.now
    PROVE  b.of = run.snap /\ Present(b)' /\ Restored(b)' = b.of
<1>1. Leave("whole") /\ pc = "write" /\ run.snap \in Db
  BY DEF WriteAll, Goto, RunOK
<1>2. b = [kind |-> run.kind, stamp |-> run.now, of |-> run.snap]
  BY <1>1 DEF WriteAll, StampIsNew, Writing
<1>3. run.kind \in {"full", "diff"} /\ run.now \in Stamps /\ run.base \in Stamps
  BY DEF TypeOK, Run, Kinds
<1>4. CASE run.kind = "full"
  <2>1. full'[run.now] = NewFull("whole")
    BY <1>1, <1>4, LeaveEffect
  <2>2. NewFull("whole") = [state |-> "whole", db |-> run.snap]
    BY DEF NewFull
  <2>3. NewFull("whole") \in FullFile
    BY <1>1, <2>2 DEF FullFile
  <2>4. NewFull("whole") # NoFile
    BY <2>3, FileAssumption
  <2> QED BY <1>2, <1>4, <2>1, <2>2, <2>4 DEF Present, Restored, IsWhole
<1>5. CASE run.kind = "diff"
  <2>1. full' = full /\ diff'[run.now] = NewDiff("whole")
    BY <1>1, <1>5, LeaveEffect
  <2>2. IsWhole(full[run.base]) /\ Reproduces(full[run.base].db)
    BY <1>1, <1>5 DEF BaseVerified
  <2>3. BaseDb(run.base) = full[run.base].db
    BY <2>2 DEF BaseDb, IsWhole
  <2>4. NewDiff("whole") = [state |-> "whole", base |-> run.base, schema |-> run.snap.schema,
                            patch |-> Diff(full[run.base].db.rows, run.snap.rows)]
    BY <2>3 DEF NewDiff
  <2>5. NewDiff("whole") \in DiffFile
    BY <1>1, <1>5, NewFileTyped
  <2>6. NewDiff("whole") # NoFile
    BY <2>5, FileAssumption
  <2>7. /\ diff'[b.stamp] = NewDiff("whole") /\ diff'[b.stamp] # NoFile
        /\ diff'[b.stamp].state = "whole"
        /\ diff'[b.stamp].base = run.base
        /\ diff'[b.stamp].patch = Diff(full[run.base].db.rows, run.snap.rows)
    <3>1. b.stamp = run.now
      BY <1>2
    <3> HIDE <1>2
    <3> QED BY <2>1, <2>4, <2>6, <3>1
  <2>8. Restored(b)' = [schema |-> full[run.base].db.schema,
                        rows |-> Apply(full[run.base].db.rows,
                                       Diff(full[run.base].db.rows, run.snap.rows))]
    <3>1. b.kind = "diff"
      BY <1>2, <1>5
    <3>2. IsWhole(diff[b.stamp])' /\ IsWhole(full[diff[b.stamp].base])'
      BY <2>1, <2>2, <2>7 DEF IsWhole
    <3>3. Restored(b)' = [schema |-> full'[diff'[b.stamp].base].db.schema,
                          rows |-> Apply(full'[diff'[b.stamp].base].db.rows,
                                         diff'[b.stamp].patch)]
      BY <3>1, <3>2 DEF Restored, RestoredDiff
    <3> QED BY <2>1, <2>7, <3>3
  <2>9. Restored(b)' = [schema |-> run.snap.schema, rows |-> run.snap.rows]
    BY <2>2, <2>8 DEF Reproduces
  <2>10. run.snap = [schema |-> run.snap.schema, rows |-> run.snap.rows]
    BY <1>1 DEF Db
  <2> QED BY <1>2, <1>5, <2>6, <2>7, <2>9, <2>10 DEF Present
<1> QED BY <1>3, <1>4, <1>5

LEMMA KeptStep ==
    ASSUME TypeOK, RunOK, StampIsNew, BaseVerified, BasesRead, KeptRestores, [Next]_vars
    PROVE  KeptRestores'
<1>1. CASE UNCHANGED <<full, diff, taken>>
  BY <1>1 DEF KeptRestores, Present, Restored, RestoredDiff, IsWhole
<1>2. CASE Open \/ StopWriting \/ WriteAll
  <2>1. PICK state : Leave(state) /\ (state = "whole" => WriteAll)
    BY <1>2 DEF Open, StopWriting, WriteAll
  <2>2. SUFFICES ASSUME NEW b \in taken', Present(b)'
                 PROVE  Restored(b)' = b.of
    BY DEF KeptRestores
  <2>3. CASE b.stamp = run.now /\ WriteAll
    BY <2>3, NewRestores
  <2>4. CASE b \in taken
    <3>1. b.stamp \in Stamps /\ b.stamp # run.now /\ b.kind \in {"full", "diff"}
      BY <1>2, <2>4, TakenTyped DEF Open, StopWriting, WriteAll, Goto, StampIsNew, Writing
    <3>2. full'[b.stamp] = full[b.stamp] /\ diff'[b.stamp] = diff[b.stamp]
      BY <2>1, <3>1, LeaveEffect
    <3>3. Restored(b) = b.of
      BY <2>2, <2>4, <3>2 DEF KeptRestores, Present
    <3>4. ASSUME b.kind = "diff"
          PROVE  full'[diff[b.stamp].base] = full[diff[b.stamp].base]
      <4>1. diff[b.stamp].base \in Stamps /\ IsWhole(full[diff[b.stamp].base])
        BY <2>4, <3>3, <3>4, RestoredIsWhole
      <4>2. ~IsWhole(full[run.now])
        BY <1>2 DEF Open, StopWriting, WriteAll, Goto, StampIsNew, Writing
      <4> QED BY <2>1, <4>1, <4>2, LeaveEffect
    <3> QED BY <2>4, <3>2, <3>3, <3>4, RestoredDepends
  <2>5. b \notin taken => b.stamp = run.now /\ WriteAll
    BY <1>2 DEF Open, StopWriting, WriteAll
  <2> QED BY <2>3, <2>4, <2>5
<1>3. CASE \E s \in Stamps : UnlinkDiff(s)
  <2>1. PICK s \in Stamps : diff' = [diff EXCEPT ![s] = NoFile] /\ UNCHANGED <<full, taken>>
    BY <1>3 DEF UnlinkDiff
  <2>2. SUFFICES ASSUME NEW b \in taken, Present(b)'
                 PROVE  Restored(b)' = b.of
    BY <2>1 DEF KeptRestores
  <2>3. b.kind = "diff" => diff'[b.stamp] = diff[b.stamp]
    BY <2>1, <2>2, TakenTyped DEF Present, TypeOK
  <2>4. Present(b)' = Present(b) /\ Restored(b)' = Restored(b)
    BY <2>1, <2>3, RestoredDepends
  <2> QED BY <2>2, <2>4 DEF KeptRestores
<1>4. CASE \E s \in Stamps : UnlinkFull(s)
  <2>1. PICK s \in Stamps : /\ full' = [full EXCEPT ![s] = NoFile]
                            /\ UNCHANGED <<diff, taken>>
                            /\ pc = "fulls" /\ s \notin run.needed
    BY <1>4 DEF UnlinkFull, Removable
  <2>2. SUFFICES ASSUME NEW b \in taken, Present(b)'
                 PROVE  Restored(b)' = b.of
    BY <2>1 DEF KeptRestores
  <2>3. b.kind # "diff" => full'[b.stamp] = full[b.stamp]
    BY <2>1, <2>2, TakenTyped DEF Present, TypeOK
  <2>4. Present(b)
    BY <2>1, <2>2, <2>3 DEF Present
  <2>5. b.kind = "diff" => full'[diff[b.stamp].base] = full[diff[b.stamp].base]
    <3>1. ASSUME b.kind = "diff" PROVE diff[b.stamp].base \in run.needed
                                       /\ diff[b.stamp].base \in Stamps
      BY <2>1, <2>4, <3>1, RestoredIsWhole, TakenTyped DEF KeptRestores, BasesRead
    <3> QED BY <2>1, <3>1 DEF TypeOK
  <2>6. Restored(b)' = Restored(b)
    BY <2>1, <2>3, <2>5, RestoredDepends
  <2> QED BY <2>4, <2>6 DEF KeptRestores
<1>5. \/ UNCHANGED <<full, diff, taken>>
      \/ Open \/ StopWriting \/ WriteAll
      \/ \E s \in Stamps : UnlinkDiff(s)
      \/ \E s \in Stamps : UnlinkFull(s)
  <2>1. (\E forced, past \in BOOLEAN : Begin(forced, past)) => UNCHANGED <<full, diff, taken>>
    BY DEF Begin, files
  <2>2. UNCHANGED vars => UNCHANGED <<full, diff, taken>>
    BY DEF vars, files
  <2> QED BY <2>1, <2>2, StepKinds, QuietKeeps
<1> QED BY <1>1, <1>2, <1>3, <1>4, <1>5

-----------------------------------------------------------------------------
(***************************************************************************)
(* Backups stay.                                                           *)
(***************************************************************************)

\* A step that adds no backup removes only expired ones, and never one with
\* the stamp of the run or the base of a backup that is there.
LEMMA OnlyExpiredGo ==
    ASSUME TypeOK, RunOK, StampIsNew, BasesRead, KeptRestores, [Next]_vars,
           NEW b \in taken, Present(b), ~ Present(b)'
    PROVE  b.stamp + Keep <= run.now /\ pc \in Pruning
<1>1. /\ b.stamp \in Stamps /\ b.kind \in {"full", "diff"}
      /\ b.stamp \in Nat /\ Keep \in Nat /\ run.now \in Nat
  BY TakenTyped, StampTyped, ConstantsAssumption DEF TypeOK, Run
<1>2. ~ UNCHANGED <<full, diff>>
  BY DEF Present
<1>3. CASE Open \/ StopWriting \/ WriteAll
  <2>1. PICK state : Leave(state) /\ b.stamp # run.now
    BY <1>3 DEF Open, StopWriting, WriteAll, Goto, StampIsNew, Writing
  <2> QED BY <1>1, <2>1, LeaveEffect DEF Present
<1>4. CASE \E s \in Stamps : UnlinkDiff(s)
  BY <1>1, <1>4 DEF UnlinkDiff, ExpiredDiff, Expired, OlderThan, Present, Pruning, TypeOK
<1>5. CASE \E s \in Stamps : UnlinkFull(s)
  BY <1>1, <1>5 DEF UnlinkFull, Removable, Expired, OlderThan, Present, Pruning, TypeOK
<1>6. Quiet \/ (\E forced, past \in BOOLEAN : Begin(forced, past)) \/ UNCHANGED vars
          => UNCHANGED <<full, diff>>
  BY QuietKeeps DEF Begin, vars, files
<1> QED BY <1>2, <1>3, <1>4, <1>5, <1>6, StepKinds

LEMMA TakenGrows ==
    ASSUME [Next]_vars
    PROVE  taken' = taken \/ WriteAll
<1>1. Quiet \/ (\E forced, past \in BOOLEAN : Begin(forced, past)) \/ UNCHANGED vars \/ Open \/ StopWriting
          \/ (\E s \in Stamps : UnlinkDiff(s)) \/ (\E s \in Stamps : UnlinkFull(s))
      => taken' = taken
  BY QuietKeeps DEF Begin, vars, Open, StopWriting, UnlinkDiff, UnlinkFull
<1> QED BY <1>1, StepKinds

LEMMA ClockGrows ==
    ASSUME TypeOK, [Next]_vars
    PROVE  clock' \in Nat /\ clock' >= clock /\ clock \in Nat
<1>1. clock \in Nat
  BY StampTyped DEF TypeOK
<1>2. clock' = clock \/ clock' = clock + 1
  BY DEF Next, Tick, Migrate, Write, ChangeDb, Begin, Fetch, ChooseFull, ChooseDiff,
         ChooseRaises, Open, WriteAll, UnlinkDiff, DiffsPruned, ReadBases, ReadBasesRaises,
         UnlinkFull, Finish, Stop, StopWriting, worldVars, vars
<1> QED BY <1>1, <1>2

LEMMA RecentStep ==
    ASSUME TypeOK, RunOK, StampIsNew, BaseVerified, BasesRead, KeptRestores, RecentPresent,
           [Next]_vars
    PROVE  RecentPresent'
<1>1. SUFFICES ASSUME NEW b \in taken', clock' < b.stamp + Keep
               PROVE  Present(b)'
  BY DEF RecentPresent
<1>2. CASE b \in taken
  <2>1. b.stamp \in Nat /\ Keep \in Nat /\ run.now \in Nat /\ begun \in Nat
    BY <1>2, TakenTyped, StampTyped, ConstantsAssumption DEF TypeOK, Run
  <2>2. Present(b)
    BY <1>1, <1>2, <2>1, ClockGrows DEF RecentPresent
  <2>3. ASSUME ~ Present(b)' PROVE FALSE
    <3>1. b.stamp + Keep <= run.now /\ pc \in Pruning
      BY <1>2, <2>2, <2>3, OnlyExpiredGo
    <3>2. run.now <= clock
      BY <2>1, <3>1, ClockGrows DEF RunOK, Pruning
    <3> QED BY <1>1, <2>1, <3>1, <3>2, ClockGrows
  <2> QED BY <2>3
<1>3. CASE b \notin taken
  <2>1. WriteAll /\ b.stamp = run.now
    BY <1>3, TakenGrows DEF WriteAll
  <2> QED BY <2>1, NewRestores
<1> QED BY <1>2, <1>3

LEMMA LatestStep ==
    ASSUME TypeOK, RunOK, StampIsNew, BaseVerified, BasesRead, KeptRestores, WroteFirst,
           LatestPresent, [Next]_vars
    PROVE  LatestPresent'
<1>1. SUFFICES ASSUME NEW b \in taken', \A c \in taken' : c.stamp <= b.stamp
               PROVE  Present(b)'
  BY DEF LatestPresent
<1>2. CASE b \in taken
  <2>1. b.stamp \in Nat /\ Keep \in Nat \ {0} /\ run.now \in Nat
    BY <1>2, TakenTyped, StampTyped, ConstantsAssumption DEF TypeOK, Run
  <2>2. taken \subseteq taken'
    BY TakenGrows DEF WriteAll
  <2>3. Present(b)
    BY <1>1, <1>2, <2>2 DEF LatestPresent
  <2>4. ASSUME ~ Present(b)' PROVE FALSE
    <3>1. b.stamp + Keep <= run.now /\ pc \in Pruning
      BY <1>2, <2>3, <2>4, OnlyExpiredGo
    <3>2. PICK c \in taken : c.stamp = run.now
      BY <3>1 DEF WroteFirst
    <3>3. run.now <= b.stamp
      BY <1>1, <2>2, <3>2
    <3> QED BY <2>1, <3>1, <3>3
  <2> QED BY <2>4
<1>3. CASE b \notin taken
  <2>1. WriteAll /\ b.stamp = run.now
    BY <1>3, TakenGrows DEF WriteAll
  <2> QED BY <2>1, NewRestores
<1> QED BY <1>2, <1>3

-----------------------------------------------------------------------------
(***************************************************************************)
(* The theorems.                                                           *)
(***************************************************************************)

LEMMA InitInv ==
    ASSUME Init
    PROVE  BackupInv
<1>1. 0 \in Stamps
  BY ConstantsAssumption DEF Stamps
<1>2. TypeOK
  BY <1>1, NoRunTyped DEF Init, TypeOK, Db
<1>3. RunOK
  BY DEF Init, RunOK
<1>4. StampIsNew /\ BaseVerified /\ BasesRead /\ WroteFirst
  BY DEF Init, StampIsNew, BaseVerified, BasesRead, WroteFirst, Writing, Pruning
<1>5. KeptRestores /\ RecentPresent /\ LatestPresent
  BY DEF Init, KeptRestores, RecentPresent, LatestPresent
<1> QED BY <1>2, <1>3, <1>4, <1>5 DEF BackupInv

\* BackupInv is inductive as long as no two runs begin in the same minute.
THEOREM BackupInvariant ==
    ASSUME ~SameMinute
    PROVE  Spec => []BackupInv
<1>1. Init => BackupInv
  BY InitInv
<1>2. BackupInv /\ [Next]_vars => BackupInv'
  <2>1. SUFFICES ASSUME BackupInv, [Next]_vars PROVE BackupInv'
    OBVIOUS
  <2>2. TypeOK' /\ RunOK'
    BY <2>1, TypeStep, RunStep DEF BackupInv
  <2>3. StampIsNew' /\ BaseVerified'
    BY <2>1, StampStep, BaseStep DEF BackupInv
  <2>4. BasesRead' /\ WroteFirst'
    BY <2>1, BasesStep, WroteStep DEF BackupInv
  <2>5. KeptRestores' /\ RecentPresent' /\ LatestPresent'
    BY <2>1, KeptStep, RecentStep, LatestStep DEF BackupInv
  <2> QED BY <2>2, <2>3, <2>4, <2>5 DEF BackupInv
<1> QED BY <1>1, <1>2, PTL DEF Spec

\* The types of the backup directory, the run and the history.
THEOREM BackupTypes ==
    ASSUME ~SameMinute
    PROVE  Spec => []TypeOK
<1>1. BackupInv => TypeOK
  BY DEF BackupInv
<1> QED BY <1>1, BackupInvariant, PTL

\* Whatever runs were killed in between, a backup that is still there restores
\* the database it was taken of (scripts/backup_db.py, restore and prune).
THEOREM KeptBackupsRestore ==
    ASSUME ~SameMinute
    PROVE  Spec => []KeptRestores
<1>1. BackupInv => KeptRestores
  BY DEF BackupInv
<1> QED BY <1>1, BackupInvariant, PTL

\* A backup restores until its retention, counted from the minute in its name, is
\* over, wherever in their minutes the runs prune, for any --keep-days from 1 on,
\* also one shorter than the distance between full backups.
THEOREM RetentionIsKept ==
    ASSUME ~SameMinute
    PROVE  Spec => []RetentionHolds
<1>1. BackupInv => RetentionHolds
  BY DEF BackupInv, RetentionHolds, KeptRestores, RecentPresent
<1> QED BY <1>1, BackupInvariant, PTL

\* The last backup written restores, however long ago it was written and
\* however the later runs ended.
THEOREM LatestBackupRestores ==
    ASSUME ~SameMinute
    PROVE  Spec => []LatestRestores
<1>1. BackupInv => LatestRestores
  BY DEF BackupInv, LatestRestores, KeptRestores, LatestPresent
<1> QED BY <1>1, BackupInvariant, PTL
=============================================================================
