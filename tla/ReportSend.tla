------------------------------ MODULE ReportSend ------------------------------
(***************************************************************************)
(* Sending a progress report (send_report, send_eos_report and             *)
(* send_capacity_report): collect the metrics, check each domain against   *)
(* the last snapshot, post to Teams, keep the text for the screen          *)
(* (last_report), record a snapshot per domain.  A report is sent by the   *)
(* weekly job in the scheduler's thread or by an admin's request in the    *)
(* thread pool; nothing keeps two of them apart.  The completed count of   *)
(* the targets moves meanwhile, up and down.                               *)
(*                                                                         *)
(* Of the rules of detect_anomalies the model has those on the completed   *)
(* count and on the composition; the number of targets is constant, and    *)
(* the two weekly counts are left out.                                     *)
(***************************************************************************)
EXTENDS Integers, Sequences, SequencesExt

CONSTANTS
    Senders,        \* threads that send
    ReportDomains,  \* the domains of the report, in order
    Total,          \* number of targets
    Moving,         \* bound: the domains whose completed count moves
    DoneInComposition,  \* the composition counts completed targets (EoS)
    PostMayFail,    \* Teams may refuse, or no webhook is set
    MayStop,        \* the process may die, the table may refuse a row
    NoReport,
    MaxReports      \* bound: reports in a behaviour

Issue == {"zero", "drop", "jump", "composition"}
DomainSet == Range(ReportDomains)
Counts == [DomainSet -> 0 .. Total]

ASSUME ReportAssumption ==
    /\ ReportDomains \in Seq(DomainSet) /\ ReportDomains # <<>>
    /\ Total \in Nat \ {0}
    /\ Moving \subseteq DomainSet
    /\ {DoneInComposition, PostMayFail, MayStop} \subseteq BOOLEAN
    /\ MaxReports \in Nat
    /\ NoReport \notin 1 .. MaxReports

VARIABLES
    done,      \* completed targets of each domain, in reality
    reports,   \* the reports built so far: metrics, warnings
    snapshots, \* report_snapshot: of each domain, the reports recorded
    channel,   \* the reports in the Teams channel
    last,      \* last_report._last: what the dashboard shows as sent
    job,       \* of each sender: where it is, its report, the domain it is at
    cut,       \* history: the reports whose sending was cut short
    beside     \* history: the pairs of reports that were on their way together

sendVars == <<done, reports, snapshots, channel, last, job, cut, beside>>

\* Completed targets as collected and, a history variable, as they were then.
Report == [done : Counts, real : Counts, warned : [DomainSet -> SUBSET Issue]]

Idle == [at |-> "idle", id |-> NoReport, k |-> 0]
Job == [at : {"check", "post", "remember", "record"}, id : 1 .. MaxReports,
        k : DOMAIN ReportDomains]

TypeOK ==
    /\ done \in Counts
    /\ reports \in Seq(Report) /\ Len(reports) <= MaxReports
    /\ snapshots \in [DomainSet -> Seq(1 .. MaxReports)]
    /\ \A d \in DomainSet : Range(snapshots[d]) \subseteq DOMAIN reports
    /\ channel \subseteq DOMAIN reports
    /\ last \in DOMAIN reports \cup {NoReport}
    /\ job \in [Senders -> Job \cup {Idle}]
    /\ \A s \in Senders : job[s] = Idle \/ job[s].id \in DOMAIN reports
    /\ cut \subseteq DOMAIN reports
    /\ beside \subseteq SUBSET (1 .. MaxReports)

SendInit ==
    /\ done = [d \in DomainSet |-> 0]
    /\ reports = <<>>
    /\ snapshots = [d \in DomainSet |-> <<>>]
    /\ channel = {}
    /\ last = NoReport
    /\ job = [s \in Senders |-> Idle]
    /\ cut = {}
    /\ beside = {}

-----------------------------------------------------------------------------
(***************************************************************************)
(* detect_anomalies                                                        *)
(***************************************************************************)

Abs(n) == IF n < 0 THEN -n ELSE n

\* Fault in Issues: the counts are compared the wrong way round.
IssuesReversed(cur, prev) ==
    {k \in Issue :
        \/ k = "drop" /\ cur > prev
        \/ k = "jump" /\ Abs(cur - prev) * 100 >= 20 * Total
        \/ k = "composition" /\ DoneInComposition /\ cur # prev}

\* Against the last snapshot: the count fell, the rate moved by 20 points or
\* more, the composition changed.
Issues(cur, prev) ==
    {k \in Issue :
        \/ k = "drop" /\ cur < prev
        \/ k = "jump" /\ Abs(cur - prev) * 100 >= 20 * Total
        \/ k = "composition" /\ DoneInComposition /\ cur # prev}

\* Without one: nothing is completed.
FirstIssues(cur) == {k \in Issue : k = "zero" /\ cur = 0}

-----------------------------------------------------------------------------
Progress(d) ==
    /\ done[d] < Total
    /\ done' = [done EXCEPT ![d] = @ + 1]
    /\ UNCHANGED <<reports, snapshots, channel, last, job, cut, beside>>

\* A date that had come is put off, a completed target is excluded, a disk due
\* by the end of next week, which counts as done, is planned for later.
Setback(d) ==
    /\ done[d] > 0
    /\ done' = [done EXCEPT ![d] = @ - 1]
    /\ UNCHANGED <<reports, snapshots, channel, last, job, cut, beside>>

Busy == {s \in Senders : job[s] # Idle}

\* _build, build_eos_report: a source that fails quietly loses completions.
\* What it raises ends the sending before anything has changed.
Collect(s, counts) ==
    /\ job[s] = Idle
    /\ Len(reports) < MaxReports
    /\ \A d \in DomainSet : counts[d] <= done[d]
    /\ reports' = Append(reports,
          [done |-> counts, real |-> done, warned |-> [d \in DomainSet |-> {}]])
    /\ job' = [job EXCEPT ![s] = [at |-> "check", id |-> Len(reports) + 1, k |-> 1]]
    /\ beside' = beside \cup {{job[t].id, Len(reports) + 1} : t \in Busy}
    /\ UNCHANGED <<done, snapshots, channel, last, cut>>

\* Sender s is done with its domain: on to the next one, or to `then'.
NextDomain(s, then) ==
    job' = [job EXCEPT ![s] =
               IF job[s].k < Len(ReportDomains)
               THEN [job[s] EXCEPT !.k = job[s].k + 1] ELSE then]

At(s, step) == job[s].at = step

\* Fault in Found: the comparison is with the first snapshot of the domain.
FoundByFirst(s) ==
    LET d == ReportDomains[job[s].k]
        cur == reports[job[s].id].done[d]
    IN  IF snapshots[d] = <<>> THEN FirstIssues(cur)
        ELSE Issues(cur, reports[Head(snapshots[d])].done[d])

\* What check_report finds in the report of sender s for the domain it is at.
Found(s) ==
    LET d == ReportDomains[job[s].k]
        cur == reports[job[s].id].done[d]
    IN  IF snapshots[d] = <<>> THEN FirstIssues(cur)
        ELSE Issues(cur, reports[Last(snapshots[d])].done[d])

\* check_report, for one domain.  A warning does not stop the report.
Check(s) ==
    /\ At(s, "check")
    /\ reports' = [reports EXCEPT
                      ![job[s].id].warned[ReportDomains[job[s].k]] = Found(s)]
    /\ NextDomain(s, [job[s] EXCEPT !.at = "post", !.k = 1])
    /\ UNCHANGED <<done, snapshots, channel, last, cut, beside>>

Go(s, step) == job' = [job EXCEPT ![s].at = step]

\* send_teams_message; its result is not looked at.
PostReport(s) ==
    /\ At(s, "post")
    /\ \/ channel' = channel \cup {job[s].id}
       \/ PostMayFail /\ channel' = channel
    /\ Go(s, "remember")
    /\ UNCHANGED <<done, reports, snapshots, last, cut, beside>>

\* last_report.remember
Remember(s) ==
    /\ At(s, "remember")
    /\ last' = job[s].id
    /\ Go(s, "record")
    /\ UNCHANGED <<done, reports, snapshots, channel, cut, beside>>

\* Fault in Record: the snapshot goes to the first domain only.
RecordFirstOnly(s) ==
    /\ At(s, "record")
    /\ snapshots' = [snapshots EXCEPT ![ReportDomains[1]] = Append(@, job[s].id)]
    /\ NextDomain(s, Idle)
    /\ UNCHANGED <<done, reports, channel, last, cut, beside>>

\* record_sent, a transaction per domain
Record(s) ==
    /\ At(s, "record")
    /\ snapshots' = [snapshots EXCEPT ![ReportDomains[job[s].k]] = Append(@, job[s].id)]
    /\ NextDomain(s, Idle)
    /\ UNCHANGED <<done, reports, channel, last, cut, beside>>

\* The table is not read, or refuses the row; the job logs the exception, the
\* request fails.
Raises(s) ==
    /\ MayStop
    /\ At(s, "check") \/ At(s, "record")
    /\ cut' = cut \cup {job[s].id}
    /\ job' = [job EXCEPT ![s] = Idle]
    /\ UNCHANGED <<done, reports, snapshots, channel, last, beside>>

Crash ==
    /\ MayStop
    /\ cut' = cut \cup {job[s].id : s \in Busy}
    /\ job' = [s \in Senders |-> Idle]
    /\ last' = NoReport
    /\ UNCHANGED <<done, reports, snapshots, channel, beside>>

Step(s) ==
    \/ Check(s)
    \/ PostReport(s)
    \/ Remember(s)
    \/ Record(s)

SendNext ==
    \/ \E d \in Moving : Progress(d) \/ Setback(d)
    \/ \E s \in Senders : Step(s) \/ Raises(s)
    \/ \E s \in Senders, counts \in Counts : Collect(s, counts)
    \/ Crash

SendSpec == SendInit /\ [][SendNext]_sendVars
FairSendSpec == SendSpec /\ \A s \in Senders : WF_sendVars(Step(s))

-----------------------------------------------------------------------------
(***************************************************************************)
(* Properties.                                                             *)
(***************************************************************************)

\* A report that is recorded with fewer completed targets than the snapshot
\* before it carries a warning for that (report_check.py compares it with the
\* last snapshot), whoever sent the two, whatever failed in between, unless the
\* two were on their way together.
DropsAreWarned ==
    \A d \in DomainSet : \A i \in 2 .. Len(snapshots[d]) :
        LET prev == snapshots[d][i - 1]
            cur == snapshots[d][i]
        IN  reports[cur].done[d] < reports[prev].done[d]
                => "drop" \in reports[cur].warned[d] \/ {prev, cur} \in beside

\* Some report that counted for report r was collected before it, or while it
\* was on its way, when really more targets were completed.
MoreBefore(r, d) ==
    \E q \in Range(snapshots[d]) :
        /\ reports[r].real[d] < reports[q].real[d]
        /\ q < r \/ {q, r} \in beside

\* A domain whose sources answered is said to have lost completed targets only
\* if it has: when a report recorded before was collected, there were more of
\* them.  A source that failed for that earlier report raises no alarm in this
\* one.  (While two reports are on their way, the alarm of the one collected
\* first may be about what the other one found later.)
NoFalseAlarm ==
    \A r \in DOMAIN reports, d \in DomainSet :
        (reports[r].done[d] = reports[r].real[d] /\ "drop" \in reports[r].warned[d])
            => MoreBefore(r, d)

\* In the end every report in the channel is recorded in each of its domains,
\* unless the process or the table stopped its sending.
PostedIsRecorded ==
    <>[](\A r \in channel :
            r \in cut \/ \A d \in DomainSet : r \in Range(snapshots[d]))

(***************************************************************************)
(* What the comments promise and the code does not do.                     *)
(***************************************************************************)

\* report_check.py:137: the snapshot is stored after the report has really been
\* sent.
RecordedIsSent ==
    \A d \in DomainSet : Range(snapshots[d]) \subseteq channel

\* last_report.py:22: the text is kept right after the report has been sent.
ShownIsSent == last # NoReport => last \in channel

\* report.py:150: the composition has nothing in it that moves with normal
\* progress, which would make the warning meaningless.
ProgressIsNoAnomaly ==
    \A r \in DOMAIN reports, d \in DomainSet :
        (\A q \in 1 .. r : reports[q].done = reports[q].real) =>
            "composition" \notin reports[r].warned[d]

\* report_check.py:57: completion accumulates and cannot go down; if it did, a
\* source or the matching is at fault.
DropIsFault ==
    \A r \in DOMAIN reports, d \in DomainSet :
        "drop" \in reports[r].warned[d] => reports[r].done # reports[r].real

\* report_check.py:37: a report is compared with the last one sent.  Two on their
\* way together are both compared with the one before them.
DropsAreWarnedAlways ==
    \A d \in DomainSet : \A i \in 2 .. Len(snapshots[d]) :
        reports[snapshots[d][i]].done[d] < reports[snapshots[d][i - 1]].done[d]
            => "drop" \in reports[snapshots[d][i]].warned[d]

\* The same: the one collected first may be compared with the later one, and be
\* said to have lost what was completed after it.
NoAlarmFromLater ==
    \A r \in DOMAIN reports, d \in DomainSet :
        (reports[r].done[d] = reports[r].real[d] /\ "drop" \in reports[r].warned[d])
            => \E q \in 1 .. r - 1 : reports[r].real[d] < reports[q].real[d]
=============================================================================
