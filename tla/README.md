# Verification of the prevention tracker

TLA+ models of the prevention tracker (a FastAPI service that tracks DR drills,
capacity work, end-of-service conversions and kernel patches), model-checked
with TLC, with proofs checked by TLAPS. Paths below are relative to `src/`.

## 1. Inventory

The service is one process: a uvicorn worker with an event loop (the `async`
handlers), its thread pool (the `def` handlers), APScheduler's thread (weekly
reports) and background threads that refresh caches. State is in SQLite
(`app/models/db.py`), in module-level caches, in one JSON file and in the
browser pages that people have open. Data comes from Excel sheets, JIRA,
Polestar, the CMDB (Insight) and Confluence; results go to Teams.

| Part | State | Operations | What is hard | What makes it correct |
|---|---|---|---|---|
| External-data caches: `dr_data.py`, `eos_data.py`, `capacity_data.py` | `_cache` (value, time), `_refresh_lock`; one per half for DR | look, background refresh, forced refresh, invalidate, prewarm | many threads, a query of seconds, failures, a target list that changes meanwhile | one query at a time; data never goes back; a stale value is replaced; every request ends |
| Polestar evidence: `eos_data.py`, `eos_polestar.py` | table `eos_polestar_seen` | refresh (query, record, merge, store), admin's clear, exclusions | servers disappear from Polestar after conversion; outages, some of which look like an empty answer; targets that change during a query; failed writes; crashes | what was seen converted stays so; a failure is not a disposal; a clear lasts |
| Schedule input (DR): `routes/dr.py`, `db.py`, `excel_loader.py`, `dashboard.html` | `schedule_input`, `change_log`, open pages | save, bulk save, form save, exclude, restore, save owner, rollback script, backfill at start | rows are saved whole from pages that may be old; three kinds of writers; the exclusion is derived from other columns | admin-only columns; audit log agrees with the row; the reason of an exclusion stays traceable; reminders reach who entered the schedule |
| Capacity, EoS, kernel inputs: `routes/capacity.py`, `eos.py`, `kernel.py`, `db.py`, the loaders | `capacity_input`, `eos_input`, `kernel_input`, two change logs, the Excel file | save, bulk save, exclude, restore, save owner, backfill, replacing the Excel file | an exclusion with three values next to what Excel says; columns a save must leave alone; rows older than the column | the last verdict in the web counts; only admins change what is counted; the log tells the row |
| Reports: `report.py`, `eos_report.py`, `capacity_report.py`, `report_check.py`, `last_report.py` | `report_snapshot`, `_last` | collect, check against the last snapshot, post, remember, record | scheduler and admin send at once; Teams refuses; sources fail quietly; counts that fall for good reasons | a drop is warned of, no false alarm, only what was sent is recorded |
| Kernel patch levels: `kernel_patched.py` | `_web_state`, the snapshot file, two locks; a second cache for REST/Excel | look, background refresh, forced refresh, load from disk | a Chromium per read; restarts with other settings; retry interval | one Chromium; own snapshot only, and no older one; an old one is replaced |
| Completion rules: `completion.py`, `capacity.py`, `eos.py`, `kernel.py`, `capacity_data.get_matched_items`, `dr_data.compute_h2_items`, the selection in the `*reminder.py` | none: each page judges anew from rows, tickets, Polestar and today's date | judge, plan, promote, derive the second half, choose whom to ask | dates, half-year windows, several tickets, midnight, sources that fail, rules that read each other's results | no completion is lost by time or by one more ticket, none gained by an outage; figures already given stay; nobody pending is forgotten |
| Ticket matching: `matcher.py`, `dr_match.py` | none | match by address, host name, CMDB key | text data | - |
| Reminders: `reminder.py`, `capacity_reminder.py`, `eos_reminder.py`, the `remind_preview` and `remind-dm` handlers of three routes, `remind_preview.html` | three log tables, open preview pages | group, vote for a representative, offer the owners, preview, send a direct message, mark what was sent | several owners, namesakes, owners without a team, tickets' requesters, one log for several kinds and tabs, pages of any age | who is greeted is who is written to; who entered a date hears of it; nobody is asked twice |
| Evidence check: `evidence_check.py` | a dictionary of ticket statuses, its time | ask JIRA in chunks, key by key after a failure, record what is missing, flag a row | no lock; the dictionary is replaced while answers are on their way; one unknown key fails a chunk; outages | nothing older than the last emptying is kept; a flag is the row's own |
| Backup: `scripts/backup_db.py` | files named by the minute | full backup, diff against the last full one, verify, prune, restore | kills at any step, torn files, a base that must outlive its diffs, migrations, `INSERT OR REPLACE` on a unique column | what was written and is still there restores; the retention holds |
| Owner check: `owner_check.py` | none | compare the owners of CMDB, JIRA and Excel | text data | - |
| Clients, loaders, chat, AI, portal, teams page | - | I/O, parsing, prompts, read-only views | - | - |

The parts interact through function calls in one process, through SQLite (each
`get_conn` is a connection and a transaction of its own), and through
`invalidate_cache` / `prewarm`, which handlers call after they change targets.

## 2. Plan

1. `SwrCache` - the caches; safety, liveness, proofs. *Done.*
2. `EosEvidence` - the latch, on top of one refresh at a time. *Done, with proofs of
   its safety.*
3. `ScheduleInput` - the DR row and its writers. *Done, with proofs.*
4. `ReportSend` - sending and checking reports. *Done, with proofs of its safety for
   any number of senders.*
5. `KernelWeb` - the web-grid snapshot. *Done, with proofs of its safety.*
6. `AbstractCache` - what a cache promises ("a read returns some state of the
   source, never older than the read before"); `SwrCache` and `KernelWeb`
   implement it by a refinement mapping. *Done, proved for both.*
7. `FlagInput` - the capacity, EoS and kernel inputs. *Done, with proofs.*
8. `Completion` - the judging rules of the four domains, the promotion of
   capacity targets, the H1-to-H2 targets. *Done, with proofs.* The counts
   over all targets, and the buckets of the screens, remain.
9. `Backup` - full backups and diffs, with kills. *Done, with proofs.*
10. `Remind` - grouping, votes, recipients, messages and their log. *Done, with
    proofs.*
11. `EvidenceCheck` - the status of the tickets cited as evidence. *Done, with
    proofs.*
12. To come: `SwrCache` composed with `EosEvidence`; `ScheduleInput` composed with `Completion` (the checkbox shows
    the judged completion); the owner check; the order in which `dr_match` merges
    tickets.

Theorems worth having: type correctness and the safety invariants of each
state machine; that the caches implement the abstract one; that a patch gives
back what it was taken of.

## 3. Modules and the code

**`SwrCache`** models one cache. `pc[t]` is where a thread is in
`get_ticket_map` / `get_eos_data` / `get_tickets` or in `run`: *look* (the
read under `_cache_lock`), *kick* (`_refresh_in_background`), *ask*
(`requested_at = time.time()`), *wait* (`with _refresh_lock`), *recheck*,
*collect*, *store*, *release*. The external system is a version number
(`issues`), the target list another (`sheet`); a value is the pair it was
collected from, or the empty map of a failed query (`ok = FALSE`). Time is
reduced to the two comparisons the code makes: is the entry older than the
TTL, was it stored after this thread's `requested_at`.

**`AbstractCache`** is what a cache is for, without locks or threads: the source
has a version, the cache and each reader hold none or one that there has been,
and none of them ever goes back to an older one. `ServesForward` in `SwrCache`
maps a collected value to the version of the tickets in it and an empty map or
no value to nothing; in `KernelWeb` it maps a snapshot to the version of the
grid it was read at, and one that was read with other settings, when it reaches
a reader, to a version the grid has not had, which the abstract cache cannot
answer with.

**`EosEvidence`** models the four steps of `eos_data._collect_external` for a
set of items, the table, the cached result and the admin's clear, which is a
delete and then `invalidate_cache`. A refresh asks for the targets loaded before it
began (`asked`), while an admin excludes items or takes them back and the Excel
sheet changes (`targets`). A query fails (`QueryFails`), answers (`QueryOk`), or is
answered 200 with no list (`QueryEmpty`), of which `polestar_client.py:63` makes an
empty one. `missed` and `hidden` are history: what was '_OLD' and not in the answer
of this refresh, and of the one the screens show. That one refresh runs at a time
is `SwrCache!SingleFlight`, checked and proved there.

**`ScheduleInput`** models one row of `schedule_input`. A save is three steps:
the handler resolves what it writes (`_resolve_is_done`, `resolve_owner`),
`upsert_input` reads `before`, one transaction writes the row and the log. The
`async` handlers run to their end on the event loop, so they are one writer;
the `def` handler of `POST /save` and the rollback script are two more. The script
reads the log first (`ReadBatch`) and the row later (`Rollback`), and is not ended by
a restart of the program. `screens` are the schedules that dashboards of any age may
have in their input cells (an excluded item has none, `OnScreen`), `excel` is what the
sheet has now; both may be an X. Of the columns, the model keeps those that
the properties need: schedule, completion mark, owner, reason, `updated_by`,
`last_inputter`; a save that changes only other columns is the choice, in
`Write`, to add a log entry or not. `apart` and `given` are history: no two saves
have overlapped, nor a save of the script with a restart; the reason that came with
the last decision to exclude or restore.

**`FlagInput`** models one row of any of the other three input tables. Their
only writers are `async` handlers without an `await` after the request has been
read, so a save is one step: resolve (`_resolve_*_is_done`, `resolve_owner`),
read `before`, write the row and the log (`Upsert`). What is sent is arbitrary,
which covers pages of any age. `excl` is the column `is_excluded` (0, 1 or NULL),
`Excluded` and `Target` are what the three loaders make of the row and of the
Excel sheet, which can be replaced at any time. For EoS the sheet's status cell is
read twice, its first value for the target (`OriginalTarget`) and its last one for
the exclusion (`StatusExcluded`), which a restoration in the web does not undo.
`FromBefore` adds rows that were
there before `ALTER TABLE ... ADD COLUMN is_excluded ... DEFAULT 0`. The log
keeps for each save the new values of the columns it changed.

**`ReportSend`** models `send_report` and its two siblings, one step per call:
collect, check (per domain), post, remember, record (per domain), by any number of
senders at once. The real count goes up (`Progress`) and down (`Setback`): a date that
had come is put off, a target is excluded, a disk that counts because it is due by the
end of next week is planned for later. A source that fails quietly loses completions,
which is `Collect` with counts below the real ones. `beside` is history: the pairs of
reports that were on their way together. The last snapshot is the one recorded last:
the code orders them by the time of recording, so the clock is taken not to go back.

**`KernelWeb`** models `_web_state`, the snapshot file, the refresh lock, the
worker and forced refreshes. A snapshot is the key (settings) it was read with
and the version of the grid. The first look of a process takes it from disk
(`TakeFromDisk`) or, when there is none or it cannot be read, goes on without.

**`Completion`** models one target of one domain while days go by. A behaviour
keeps what the pages read: the row (of both halves for DR), what Excel says,
the tickets that match, what Polestar says, which sources fail. A date is a
number of days, a year two halves of `HalfLen` days; texts are their kind and a
day, so `Parse` is `parse_schedule` / `parse_eos_schedule` on kinds. `Judge`
is one of `judge`, `judge_capacity`, `judge_eos`, `judge_kernel`; `Mode2` is
`compute_h2_items`, `Status` the promotion in `get_matched_items`, `Planned`
the reclassification in `calc_*_completion`, `AskedBlank`, `AskedHinted` and
`AskedToAnswer` the choice the reminders make. All of them are pure; the steps
are those of the world they look at. `asof` is the date a handler took when it
began: `capacity_data.py:168` and `dr_data.py:98` take it again.

**`Backup`** models `backup_db.py` and the directory it writes. A database is a
schema and a table of rows with a unique key. A run is a program counter through
`backup`: *fetch* the snapshot, *choose* full or diff (with `make_diff`, and
`_content_hash` of base plus diff compared with the snapshot), *open* and
*write* the file, then `prune` in the order of the code: expired *diffs*, the
*bases* the remaining ones name, expired *fulls*. Expired files are unlinked
one by one. A run can be killed at each step (`Stop`); while it writes it leaves
an empty file, one that raises when it is read to the end, or one of which the
header with the base can still be read. `Restored` is `restore`. The clock
counts days, `Week` of them in a week, each with one minute in which runs begin; the
stamp in a name is cut to that minute, and `past` says whether the time `prune`
compares it with has seconds (`OlderThan`); a run that begins within the minute of
an earlier one, and so gets its name, is a constant (`SameMinute`).

**`Remind`** models the three reminders over a few items: what the details say
of them (`Planned`, `Replied`, `Hinted`, `Upcoming`), the groups and votes
(`GroupOf`, `Representative`), the owners the page offers (`Candidates`, with the
rule for names without a team), the drafts (`DraftOf` for DR, `PlainDraft` for
capacity and EoS, `Merged` for the two sheets of capacity), the preview pages
(`OpenDr`, `OpenCapacity`, `OpenEos`), the messages and their logs (`ApiRemindDM`
and its two likes), and the option a browser shows as selected (`Default`). The
items change under an open page: schedules are entered and age, tickets are
matched, replies come. What an item is to the reminders is an input here; how it
comes about is in `ScheduleInput`, `FlagInput` and `Completion`.

**`EvidenceCheck`** models `evidence_check.py` with several requests at once.
`pc[t]` goes through `get_statuses`: *empty* the dictionary, *stamp* it, find what
is *missing*, *ask*, *blank*, *judge*. Dictionaries are told apart by the number of
the emptying: Python looks up the one that `update` will write to before it asks
JIRA, while `setdefault` writes to the one in place. A chunk fails if it has a key
that does not exist, or if JIRA does not answer; then each key is asked alone.
`seen` and `unheard` are history: what JIRA said since the dictionary in place
came, and for which keys it said nothing.

Operators whose comment says *Fault* are mutations: plausible bugs of the
definition that follows them, used to see that each property can fail.

## 4. Runs

| Run | Question | Bounds |
|---|---|---|
| `cache_safety` | one collection at a time; the cache implements `AbstractCache` | 2 threads and the background thread, 2 changes of the source, 1 poke (a forced request, exclusion or invalidation), collections and thread starts that fail; deadlock is not checked since the lock may be lost when a thread cannot be started |
| `cache_liveness` | every request ends, a stale value is replaced | 2 threads, 1 poke, raising collections |
| `evidence` | what was shown stays, no failure is a disposal, what was cleared fades | 2 items, 2 days, 2 clears, crashes or changes of the targets |
| `input` | audit, reasons, completion marks and inputters, with all three kinds of writers | an admin, the admin's name with a team, another person; a date, an X or nothing typed, an X or nothing in Excel; 3 saves, rollbacks or restarts |
| `flag_input` | the web verdict wins, who may change what, the log tells the row | all three tables, an admin, the admin's name with a team, two others; 4 saves or restarts; 4 contents of the Excel row |
| `completion` | neither time nor a ticket takes a completion back, an outage gives none, an exclusion is not retroactive, nobody pending is forgotten | a target of each domain, a year of 4 days and half a year more, 2 tickets, 2 edits, tickets or failures (recoveries and days are free) |
| `report_weekly` | drops are warned of, no false alarm, all is recorded | EoS (2 domains, the count of one of them moves), 2 senders, refused posts and stops, 3 reports, 1 target |
| `report_sent` | (refuted) what is recorded was sent | 1 sender, 1 report |
| `kernel` | one Chromium; the snapshot implements `AbstractCache`; an old one is replaced in the end | 2 requests and the worker, 2 settings, 1 change of the grid, 1 restart |
| `backup` | what is kept restores, for the retention, and the last one always | 2 rows, 2 keys, 6 days, weeks of 3 days, retention of 2 days, 1 write and 1 migration |
| `remind` | who is greeted, told, asked, and marked as sent | 2 items with up to 2 owners (namesakes, no team, none), one or two services and servers, an owner and an admin who save, 2 changes or messages, in each domain |
| `evidence_check` | nothing older than the emptying is kept; a flag is the key's own | 2 requests for the 3 keys of a page, in chunks of 2, 1 change of a ticket, the dictionary replaced twice, by both requests or by one after it has expired |

The bounds are enough for the cases in question. A race in a cache is between
two threads and the background thread, over an older and a newer state; a
third request thread only waits as the second does. An item of the evidence
is independent of the others, two show that a clear of one leaves the other.
In the inputs the shortest way to each hazard takes a row that exists, an old
page, a save by somebody else and a restart: four steps. A snapshot is
compared with one before it, so three reports of two domains cover a missing
record and a later drop. The shortest way to lose a completion takes two tickets
of a half and a day, to rewrite a figure an exclusion after the half and the day
before it; the second year is there for dates without a year. A backup needs its
base, a diff on it, and a run after both have expired: five days with a retention
of two; a patch goes wrong between two rows that exchange a key. Two items in one
group are enough for a vote, for a namesake and for a merged server, one message
and a page that is opened after it for a wrong mark. Two keys fill a chunk and
the third is in the next. The counters `MaxIssues`, `MaxPokes`, `MaxDay`,
`MaxEvents`, `MaxTickets`, `MaxSaves`, `MaxReports`, `MaxGrid`, `MaxRestarts`,
`MaxNow`, `MaxWrites`, `MaxChanges` and `MaxEmptied`, and `Moving` (the domains whose
count moves), exist only to make the state space finite; `ScheduleInput`, `FlagInput`, `Completion`, `ReportSend`, `Backup`,
`Remind` and `EvidenceCheck` stop when they are used up, so deadlock is not
checked there.

### Fairness

Threads of a running process go on (weak fairness of each step of a thread);
the external clients have timeouts, so a collection ends. A thread blocked on
a lock gets it if the lock is free again and again (strong fairness of
`Acquire`): Python's locks promise no order, but after a refresh the next
background refresh is a whole TTL away, so a waiting thread cannot be
overtaken for ever. `VisitedSpec` and `KernelWeb` assume that somebody
keeps opening the dashboard - a stale value is by design replaced only when
somebody looks - and that not *every* reading fails or raises. The evidence
run assumes that refreshes start again and again, for the same reason.

## 5. Disagreements between comments and code

One run of the project refutes what a comment says (`PROJECT.json`,
findings): a report that Teams refused is recorded as sent (`report_sent`).

The modules state further promises that the code does not keep. They are no
runs of the project, but each has a configuration that shows a shortest
behaviour (`tlc -config <file> <MC module>`). A configuration that refutes several
properties has one of them enabled and the others in comments; each is refuted
when it is the enabled one:

| Property | Configuration | What happens |
|---|---|---|
| `StaleIsReplaced` | `MCSwrCache_lostlock.cfg` | a thread that cannot be started leaves the refresh lock taken, and no refresh runs any more (`dr_data.py:156` has the next request try again) |
| `ForcedIsCurrent` | `MCSwrCache_refuted.cfg` | a forced request that waited is given data read before it asked |
| `FailureKeepsValue` | `MCSwrCache_refuted.cfg` | a failed JIRA query replaces the last good value |
| `CacheMatchesTargets` | `MCSwrCache_refuted.cfg` | a refresh under way puts back a value for the old targets after an exclusion |
| `OutageIsNotDisposal` | `MCEosEvidence_refuted.cfg` | an outage that shows as a 200 answer without a list makes every recorded server look disposed of, and an item taken back during a refresh looks so until the next one (`eos_data.py:118`) |
| `QueryResultShown` | `MCEosEvidence_refuted.cfg` | a server found for the first time is not shown when the table cannot be written (`eos_data.py:95` says it is) |
| `ClearSticks` | `MCEosEvidence_refuted.cfg` | a refresh under way shows a cleared observation again (until the next one: `ClearedFades`) |
| `OnlyAdminsXExcludes` | `MCScheduleInput_refuted.cfg` | an admin who saves another cell of a row with somebody else's X excludes the item (`completion.py:158`) |
| `RestoreBringsBack` | `MCScheduleInput_excelx.cfg` | restoring a row with an X in Excel leaves it excluded |
| `AdminOnlyDoneAlways` | `MCScheduleInput_refuted.cfg` | `POST /save` and an async save interleave: an admin's mark is undone |
| `AuditCurrentAlways` | `MCScheduleInput_refuted.cfg` | of two saves that overlap the second finds the row as it was before both, sees no change, and leaves the log with what the first one wrote (`db.py:398`) |
| `InputterKeptAlways` | `MCScheduleInput_refuted.cfg` | an admin's save that read the row before another's first save of it puts back that there was no inputter (`db.py:111`) |
| `AdminOnlyExclusion` | `MCScheduleInput_refuted.cfg` | a save from an old page takes an exclusion back |
| `AdminEntryHasNoInputter` | `MCScheduleInput_refuted.cfg` | an admin's schedule is attributed to an earlier inputter |
| `InputterEnteredSchedule` | `MCScheduleInput_rollback.cfg` | who saves a note becomes the inputter of the Excel schedule |
| `RollbackPutsBack` | `MCScheduleInput_rollback.cfg` | a rollback does not restore an exclusion |
| `ExclusionHasReasonAlways` | `MCScheduleInput_excelx.cfg`, `MCScheduleInput_rollback.cfg` | an admin's save of a row with an X in Excel excludes it without a reason; a rollback brings back an X whose reason was cleared, and an admin's next save makes it an exclusion without one (`dr.py:324`) |
| `OneRealAYear` | `MCCompletion_refuted.cfg` | a target whose real training an admin took out is a non-stop one in the second half, and has no real training in the year (`date_utils.py:49`) |
| `ExcelDecidesUntouched` | `MCFlagInput_migrated.cfg` | a capacity row older than the column `is_excluded` gets a 0, which the loader takes for a restoration: the X in Excel no longer excludes (`capacity_loader.py:102`) |
| `PromotedIsCompleted` | `MCCompletion_refuted.cfg` | a page begun before midnight promotes a capacity target by tomorrow's date and judges it by its own: it counts, and is shown as pending (`capacity_data.py:165`) |
| `ExcludedIsNotAsked` | `MCCompletion_refuted.cfg` | until the half ends, a target an admin took out is among those asked for an exact date: its X is a text without one |
| `HintedIsApproximate` | `MCCompletion_refuted.cfg` | whoever entered a full date is asked for an exact one: in capacity as long as there is no ticket, elsewhere once it has passed (`reminder.py:507`) |
| `DoneIsNotAsked` | `MCCompletion_refuted.cfg` | completed targets without a schedule are asked for one (`README.md:210`) |
| `ShownIsSent` | `MCReportSend_sent.cfg` | a refused report is shown as the last one sent |
| `DropsAreWarnedAlways` | `MCReportSend_race.cfg` | two reports on their way together are compared with the one before both, and a drop from one to the other goes unwarned (`report_check.py:37`) |
| `NoAlarmFromLater` | `MCReportSend_race.cfg` | the report collected first is checked last, and is said to have lost what was completed after it |
| `DropIsFault` | `MCReportSend_race.cfg` | a date put off, an exclusion or a plan moved lowers the count with every source answering (`report_check.py:57` says that it cannot) |
| `ProgressIsNoAnomaly` | `MCReportSend_progress.cfg` | the EoS composition contains the month's completions |
| `RetrySpaced` | `MCKernelWeb_retry.cfg` | a request that decided before an attempt starts another right after it |
| `KeptRestores` | `MCBackup_minute.cfg` | a second full backup within the minute replaces the base of a diff; the diff then restores another database |
| `RetentionToTheMinute` | `MCBackup_torn.cfg` | the stamp has lost the seconds, so a run within the last minute of the retention removes a backup up to a minute early (`backup_db.py:13`) |
| `RunsRecover` | `MCBackup_torn.cfg` | a full backup cut off while it was written is taken for the last one, and every run raises until the next full one is due |
| `AlwaysGreetsRecipient` | `MCRemind_refuted.cfg` | in capacity and EoS the browser preselects the first owner when the representative is written without a team, and the draft greets the representative (`reminder.py:393` takes care of it in DR) |
| `RequesterFirst` | `MCRemind_refuted.cfg` | the requester of the ticket is not preferred when JIRA writes the team behind the name (`reminder.py:308`) |
| `NamesakesApart` | `MCRemind_dr.cfg` | of two people of one name the first one offered replaces the elected one (`reminder.py:282`) |
| `OneDraftPerServer` | `MCRemind_refuted.cfg` | a server with one blank row and one hinted row is in two drafts of a team (`capacity_reminder.py:28`) |
| `SentIsThis` | `MCRemind_dr.cfg`, `MCRemind_refuted.cfg` | a message from the tab of one mode, or of another kind in capacity and EoS, marks a draft as sent (`dr.py:490`) |
| `LastSuccessShown` | `MCRemind_dr.cfg` | a failed retry hides that a message went out before (`dr.py:90`) |
| `BlankIsGone` | `MCEvidenceCheck_race.cfg` | a request that was asking while another emptied the dictionary records tickets that exist as missing, for ten minutes (`evidence_check.py:71`) |
| `NoFlagWithoutAnswer` | `MCEvidenceCheck_outage.cfg` | an outage of JIRA flags every row as citing no ticket, since the failures are swallowed key by key and never reach the handler that leaves the flags out (`evidence_check.py:107`) |

## 6. Proofs

`SwrCacheProofs` proves, for any set of threads and any bounds: type
correctness, `LockDiscipline`, `SingleFlight`, `NoRollback`, `MonotonicReads`
and `ServesForward`, that the cache implements `AbstractCache`. The assumptions
are `ConstantsAssumption` only (the background thread is none of the request
threads, the null values are no values).

The argument: the lock is held by exactly the thread that is between
acquisition and release (`LockDiscipline`), an inductive invariant given the
types; `SingleFlight` follows. `NoRollback` needs more than the lock: the
thread about to store must have collected a state at least as new as the one in
the cache. `CacheInv` says so: nothing in the cache, in a thread or in an
answer is ahead of the source (`NothingAhead`), and the value a storing thread
holds covers the cache and what readers have been given or are about to be
given (`ReadersCovered`). It holds when a thread collects, since it collects
the present state, and stays until it stores, since nobody else collects or
stores meanwhile (`SingleFlight`). `MonotonicReads` follows from the same
invariant. `ServesForward` puts the two together, and adds that what is held or
answered is a version there has been (`NothingAhead`): each step of `SwrCache` is
a step of `AbstractCache` or leaves what it sees unchanged.

`KernelWebProofs` proves type correctness, `OneChromium` and `ServesForward`, that
the snapshot implements `AbstractCache` too, for any requests, settings, versions of
the grid and restarts, from `WebAssumption`. `OneChromium` is inductive given the
types. The refinement needs three invariants more. Every snapshot in memory, on
disk or on a screen is of a version the grid has had (`NothingAhead`). Memory covers
the screens, and before the disk has been looked at nothing is in memory or on a
screen (`MemoryCovers`), so that the first look cannot put something older there.
What a thread has read covers memory and disk until it has stored it, and is what
memory holds from then on (`ReadCovers`), so that a forced refresh does not answer
with less than was shown. Snapshots of other settings are outside of all of it: they
are never shown, and a restart begins a new history of the screens.

`BackupProofs` proves `KeptRestores`, `RetentionHolds` and `LatestRestores`, for any
table, keys, calendar, retention (of at least a day: with `--keep-days 0` a run
removes the diff it has just written) and length of the history, from the assumptions
of the module and one more, that no run begins within the minute of another
(`~SameMinute`; without it the first is false, see section 5). `PatchReproduces` is
the fact everything rests on: `Apply(base, Diff(base, cur)) = cur`, although
`INSERT OR REPLACE` deletes rows that hold the same unique key, because keys are
unique in `cur`. The invariant (`BackupInv`) says where a run may break what is
there: the stamp of a run is new until it has written (`StampIsNew`), so it
destroys no backup; the base of a diff about to be written has been read and
verified (`BaseVerified`); the bases `prune` has read are those of all diffs that
are left (`BasesRead`), so it removes none of them; and it prunes only after it
has written its own (`WroteFirst`), which keeps the newest full backup and with
it the last backup (`LatestPresent`).

`TeamsProofs` has the proofs about what goes to Teams. Of `Remind` it proves
`GreetsRecipient`, `SentIsOfKind`, `InputterIsTold` and `PendingIsAskedOnce`, for any
items, registers, people, admins and any number of events, from
`RemindAssumption`. A message may be sent from a page that was opened long
before, so the invariant speaks of pages: the option that each draft of an open
DR page preselects bears the name the draft greets (`PageAddresses`), and what
the log keeps as the kind is the kind of the page (`LogTruthful`). That every
draft of `DraftOf` has an option of its owner's `raw` is a lemma of its own, in
two cases as in the code. `InputterIsTold` needs that `last` is never an admin.
`PendingIsAskedOnce` follows from the way drafts are made, in any state: an item
is blank or hinted, not both, and has one group (`GroupDraftItems`), and the first
row of its server stays in the group (`ServerStays`).

Of `ReportSend` it proves the types, `DropsAreWarned` and `NoFalseAlarm`, for any
number of senders at any time, any domains, targets, progress, setbacks, failures,
stops and number of reports, from `ReportAssumption` alone. Nothing in the code keeps
two senders apart, and what the comments promise is false for reports on their way
together (section 5); the properties say what is left: two such reports are told
apart by `beside`, and about all others the comparison is right. Neither is
inductive. A report is checked against the last snapshot there is, and recorded
later, when another may be the last one; but whatever was recorded in between was on
its way when this one was, so the report stays warned of what it lost against the
last snapshot or was on its way together with it (`Compared`). That needs that every
report collected after one that a sender is busy with is its pair (`Paired`), that no
report has two senders (`OwnReports`), and that none is recorded before it has been
checked (`Unrecorded`). An alarm about a report whose sources answered means that the
one it was compared with counted more, and it counted at most what there was
(`Lower`).

`EvidenceProofs` proves `HeldWasSeen` and `BlankIsOwn`, for any number of
requests, keys and emptyings. The answers a request carries count only while the
dictionary they are for is the one in place; `GotWasSeen` and `GapIsOwn` tie
those, and only those, to what JIRA said since. After an emptying no answers on
their way are for the new dictionary, as no request holds one of the future
(`NoneOfTheFuture`).

Of the latch it proves `ShownStaysShown`, `FailureIsNotDisposal` and
`FirstSeenFixed`, for any items, days, changes of the targets and other events, with
answers that fail or are empty, from `LatchAssumption` (the null values are no
values). A refresh carries what it learned through steps between
which servers change, an admin clears and the process may die, so the invariant
(`LatchInv`) says what each of its variables still means later on: an observation
is of an item that is '_OLD' or was (`SeenIsPast`); what Polestar answered is or was
so, and what it left out although it is on record has left or was not named by this
very answer (`AnswerIsPast`); a merged result and the cached one show all that the
screens have shown and not cleared, and as gone only what has left or what their own
answer did not name (`MergedCovers`, `ViewCovers`). The answer that names nothing is
what makes the comment in the code too strong: `OutageIsNotDisposal`, section 5. `Merge`
makes it so because it reads the table again and not what the refresh recorded.
`FirstSeenFixed` needs that no observation is of a later day than today.

`ScheduleInputProofs` proves `AuditCurrent`, `ReasonIsLastGiven`, `AdminOnlyDone`,
`InputterOrdinary` and `InputterKept`, for any people, texts, reasons, saves and
restarts, with the three writers interleaved, from `InputAssumption`. A save is
torn into three steps, so the invariant (`InputInv`) says what a writer between
two of them knows: as long as no saves have overlapped, the row it read before is
the row there is (`BeforeIsRow`), and a completion mark it is about to write is
the row's unless an admin sends it (`DoneResolved`). The inputter of the row is
ordinary whatever has overlapped (`LastOrdinary`). `AuditCurrent` and the
completion mark hold while saves stay apart (`apart`); section 5 has what happens
when they do not. `ReasonIsLastGiven` needs no such hypothesis, nor one on what is typed
or in the Excel sheet: the column is written in one transaction that keeps what is in
the row *then* when no reason is passed, so a save that read an older row does not
bring back its reason (the fault `RowOfRead`); an item without a row has been given
none (`NothingGiven`). That an excluded item *has* a reason is more than the code
ensures: an X typed by an admin, or in Excel, excludes without one (section 5).

`FlagInputProofs` proves all properties of `FlagInput`, for any names, admins, owners,
tables, Excel contents and number of saves, from `FlagAssumption` (admins are names, the null values are no values). `Steps`
reduces the handlers to two kinds: those that leave the exclusion alone
(`LeavesVerdict`) and those with which an admin decides it (`GivesVerdict`);
`UpsertRow` gives the columns of the row after a save. `WebVerdictWins` is not
inductive, since it speaks of what is shown and an Excel file may hide a lost
column; `VerdictRecorded` says that the column holds the last verdict, and is.
`RestartKeepsInputter` needs `InputterLogged`: as long as every save has left an
entry, the inputter is whom the last entry of an ordinary person names. Its
proof, and that of types over a restart, rest on `MaxIsElement`, the greatest
element of a bounded set of numbers, by well-founded induction. `LogTellsRow` is
inductive once an empty row has an empty log (`LogBegins`): a column a save changes
gets the last entry, one it leaves keeps its own (`SavedEntry`).

`CompletionProofs` proves all properties of `Completion` that hold, for halves
of any length, any texts an entry may hold, any kernel targets and any number
of days, tickets and events, from `CompletionAssumption` (the domains are the
four, a half has a day, texts and targets are ones the code knows). What is
judged depends on which ticket is picked, the newest of those that count, so the
proofs first do away with the choice: a non-empty set of tickets has a newest
one (`NewestIsOne`: no ticket is born after `MaxDay`, and `<` is well-founded),
hence a ticket is picked iff one counts (`PickedIff`, `BasisIff`). What is left
is that `Counting` grows with the day and the tickets and shrinks with failing
sources: `BasisStays` and `BasisNotGained` carry it over to the judgement, one
case per domain. `ExclusionIsNotRetroactive` needs that an edit leaves the
tickets alone (`EditKeepsBasis`). `ModeSettles` is not a consequence of the
types: a row saved in the future would make the exclusion of the first half
begin later; that no row is (`RowsPast`) is the strengthening.
`PendingIsAskedOrDated` and `AnsweredByWork` are state properties that follow
from the types, by cases over the domains and over what a text may be.

Model-checked only: the five liveness properties (`EveryRequestEnds`,
`StaleIsReplaced`, `ClearedFades`, `PostedIsRecorded`, `ExpiredIsReplaced`), which are
out of the prover's reach. Every invariant and action property of a passing run
is a theorem. What the runs add to the theorems is that the bounds let the
interesting cases happen: each property fails there when the fault named in
`PROJECT.json` is put into the model.

## 7. Not modelled

- Texts: the parsing of Excel, HTML, PDF and JIRA texts, ticket matching
  (`matcher.py`, `dr_match.py`), prompts and chats, the wording of reminders, the
  rendering of pages and reports. What they yield is an input of the models.
- The paging of `jira_client.search`, which fetches pages by offset in parallel
  while the result may change: the models let a query return anything, and
  nothing in the code promises more.
- The counts over all targets, and the buckets of the weekly notice.
- The owner check and the EoS weekly plan (from Confluence and the chat): one is a
  read-only comparison, the other two tables of rows with no further logic.
- The second cache of kernel levels (REST, Excel), used when the grid is not.
- `restore_dr_from_export.py`, a one-time import; the copying of the snapshot out
  of the pod (`fetch_snapshot`) beyond that it may fail.

Access control is as the code has it: a name in a request. One process is assumed
(`k8s/deployment.yaml` runs one replica, one uvicorn worker).
