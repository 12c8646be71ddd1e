------------------------------ MODULE Completion ------------------------------
(***************************************************************************)
(* When a target counts as completed, in the four domains: DR training     *)
(* ("dr", a row for each half of the year), capacity, EoS and kernel       *)
(* patches (one row, judged in the second half).  A behaviour is about one *)
(* target of one domain; targets are judged one by one.                    *)
(*                                                                         *)
(* Days go by, people edit the row, tickets are opened and edited in JIRA, *)
(* the asset changes, sources fail.  Nothing is stored by the code under   *)
(* study: each page judges anew, as of the date it took when its handler   *)
(* began, which at midnight is no longer today.                            *)
(***************************************************************************)
EXTENDS Naturals, FiniteSets

CONSTANTS
    Domains,
    HalfLen,      \* days in half a year
    Targets,      \* settings.kernel_target_map: version wanted, by OS series
    None,         \* None
    Texts,        \* bound: what people write in the schedule column
    MaxDay,       \* bound: the last day
    MaxTickets,   \* bound: tickets of the target
    MaxEvents     \* bound: edits, tickets, failures and changes of the asset

YearLen == 2 * HalfLen
Days == 0..MaxDay
Halves == {"H1", "H2"}
Versions == 0..1

\* A schedule as written: blank, X, a day of the year ("6/15"), a full date, a
\* month ("11 wol yejeong", here the last day of it), a month marked as done.
Text == [kind : {"blank", "x"}, at : {0}]
            \cup [kind : {"day", "month", "done"}, at : 0..(YearLen - 1)]
            \cup [kind : {"date"}, at : Days]
Written == [dr       |-> {"blank", "x", "day", "date", "month"},
            capacity |-> {"blank", "day", "month"},
            eos      |-> {"blank", "month", "done"},
            kernel   |-> {"blank", "day", "month"}]

\* An Excel row with the saved row merged into it.
Row == [sched : Text, mark : BOOLEAN, by : {"admin", "person", ""}, at : Days]

\* eos: an IP change that lists the target as _OLD, one that does not, one that
\* was cancelled, a mere creation.  capacity: of this sheet, of the other.
Kinds == [dr       |-> {"real", "nonstop", "other"},
          capacity |-> {"expand", "elsewhere"},
          eos      |-> {"old", "ip", "cancelled", "create"},
          kernel   |-> {}]
Ticket == [born : Days, kind : UNION {Kinds[d] : d \in Domains},
           on : Days \cup {None},     \* its planned date
           link : Days \cup {None}]   \* that of the change it was moved to
NoTicket == [kind |-> "none"]

\* Polestar's word: nothing, renamed to _OLD (eos; what is recorded of it, so
\* that it stays when Polestar fails), or the OS patch level.
Asset == [kind : {"none", "renamed", "listed", "unreadable", "level"},
          series : {"8", "9"}, ver : Versions]
Observed == [dr |-> {"none"}, capacity |-> {"none"}, eos |-> {"none", "renamed"},
             kernel |-> {"none", "listed", "unreadable", "level"}]

\* What Excel says of the target: the method of the first half, whether to
\* expand, nothing of interest, the OS series.
Sheets == [dr |-> {"real", "nonstop"}, capacity |-> {"O", "X", ""},
           eos |-> {"O"}, kernel |-> {"8", "9"}]
Sources == [dr |-> {"H1", "H2"}, capacity |-> {"jira", "links"},
            eos |-> {"jira"}, kernel |-> {"levels"}]

ASSUME CompletionAssumption ==
    /\ Domains \subseteq {"dr", "capacity", "eos", "kernel"}
    /\ HalfLen \in Nat \ {0}
    /\ MaxDay \in Nat
    /\ MaxTickets \in Nat /\ MaxEvents \in Nat
    /\ None \notin Nat
    /\ Texts \subseteq Text
    /\ Targets \in UNION {[S -> Versions] : S \in SUBSET {"8", "9"}}

VARIABLES
    day,      \* date.today()
    asof,     \* the date a page under construction took
    dom,      \* the domain of the target
    row,      \* of each half; "H2" is the only one outside "dr"
    sheet,
    tickets,  \* those that match the target
    asset,
    down,     \* sources that fail
    events    \* bound: events so far

vars == <<day, asof, dom, row, sheet, tickets, asset, down, events>>

-----------------------------------------------------------------------------
(***************************************************************************)
(* Dates.                                                                  *)
(***************************************************************************)

YearOf(d) == d \div YearLen
HalfStart(y, h) == y * YearLen + (IF h = "H1" THEN 0 ELSE HalfLen)
HalfEnd(y, h) == HalfStart(y, h) + (HalfLen - 1)
Later(d, e) == IF d >= e THEN d ELSE e

\* Texts without a year are of the year the target is looked at.  Only EoS
\* takes a month for a date, the last day of it.
Parse(text, y) ==
    IF text.kind = "day" \/ (dom = "eos" /\ text.kind \in {"month", "done"})
        THEN y * YearLen + text.at
    ELSE IF text.kind = "date" THEN text.at
    ELSE None

-----------------------------------------------------------------------------
(***************************************************************************)
(* Tickets.                                                                *)
(***************************************************************************)

\* Those a page sees: none if JIRA fails; capacity, those of its sheet.
Seen(h) ==
    CASE dom = "dr" -> IF h \in down THEN {} ELSE tickets
      [] dom = "capacity" ->
            IF "jira" \in down THEN {} ELSE {t \in tickets : t.kind = "expand"}
      [] OTHER -> IF "jira" \in down THEN {} ELSE tickets

\* The day a ticket stands for.
DoneDate(t) ==
    CASE t.kind \in {"real", "old", "ip"} -> t.on
      [] t.kind = "nonstop" -> t.born
      [] t.kind = "expand" ->
            IF t.on # None THEN t.on
            ELSE IF "links" \in down THEN None ELSE t.link
      [] OTHER -> None

InHalf(t, y, h) ==
    /\ DoneDate(t) # None
    /\ HalfStart(y, h) <= DoneDate(t) /\ DoneDate(t) <= HalfEnd(y, h)

Newest(T) == CHOOSE t \in T : \A u \in T : u.born <= t.born

\* Fault: only what is still to come counts.
NotYetCounting(h, d) ==
    {t \in Seen(h) : InHalf(t, YearOf(d), h) /\ DoneDate(t) >= d}
\* Fault: the newest ticket is picked before the dates are looked at.
NewestCounting(h, d) ==
    {t \in Seen(h) : /\ t = Newest(Seen(h))
                     /\ InHalf(t, YearOf(d), h) /\ DoneDate(t) <= d}
Counting(h, d) ==
    {t \in Seen(h) : InHalf(t, YearOf(d), h) /\ DoneDate(t) <= d}

\* The ticket a completion rests on: a real one before a non-stop one.
Basis(h, d) ==
    LET of(kinds) == {t \in Counting(h, d) : t.kind \in kinds}
        first == IF dom = "eos" THEN {"old"} ELSE {"real", "expand"}
    IN  IF of(first) # {} THEN Newest(of(first))
        ELSE IF of({"nonstop"}) # {} THEN Newest(of({"nonstop"}))
        ELSE NoTicket

-----------------------------------------------------------------------------
(***************************************************************************)
(* Judging, as of day d.                                                   *)
(***************************************************************************)

Excluded(h) == row[h].sched.kind = "x" /\ row[h].by = "admin"

\* Fault: an exclusion always counts from the end of the half.
EndOfHalf(h, d) == HalfEnd(YearOf(d), h)
ExcludedOn(h, d) == Later(HalfEnd(YearOf(d), h), row[h].at)

JudgeDr(h, d) ==
    \/ row[h].mark
    \/ Excluded(h) /\ d >= ExcludedOn(h, d)
    \/ Basis(h, d) # NoTicket

JudgeCapacity(d) == row["H2"].mark \/ Basis("H2", d) # NoTicket

MarkedDone(text) == text.kind = "done"

JudgeEos(d) ==
    \/ row["H2"].mark
    \/ Basis("H2", d) # NoTicket
    \/ asset.kind = "renamed"
    \/ MarkedDone(row["H2"].sched)

MeetsTarget(a) ==
    /\ sheet \in DOMAIN Targets
    /\ a.series = sheet
    /\ a.ver >= Targets[sheet]

Level == IF "levels" \in down THEN "none" ELSE asset.kind

\* Fault: a server nothing is known of is taken for one with a blank level.
JudgeByGet == row["H2"].mark \/ Level \in {"none", "listed"}
                  \/ (Level = "level" /\ MeetsTarget(asset))
JudgeKernel == row["H2"].mark \/ Level = "listed"
                   \/ (Level = "level" /\ MeetsTarget(asset))

Judge(h, d) ==
    CASE dom = "dr" -> JudgeDr(h, d)
      [] dom = "capacity" -> JudgeCapacity(d)
      [] dom = "eos" -> JudgeEos(d)
      [] dom = "kernel" -> JudgeKernel

\* Which rows there are.
Judged == IF dom = "dr" THEN Halves ELSE {"H2"}

-----------------------------------------------------------------------------
(***************************************************************************)
(* What follows from the judgement.                                        *)
(***************************************************************************)

\* DR: the method of the second half, from the first half as of today.
\* Fault: the rows of the first half are judged in the default half, the second.
ModeByDefaultHalf ==
    IF sheet = "real" /\ (row["H1"].mark \/ Basis("H2", day) # NoTicket)
    THEN "nonstop" ELSE "real"
Mode2 == IF sheet = "real" /\ Judge("H1", day) THEN "nonstop" ELSE "real"

\* capacity: what the target is after promotion, which looks at today.
Silent == sheet = "" /\ row["H2"].sched.kind = "blank"
\* Fault: any ticket that matches promotes.
PromotedByMatch ==
    IF sheet = "X" THEN "excluded"
    ELSE IF ~Silent \/ Seen("H2") # {} THEN "target" ELSE "no_reply"
Status ==
    IF sheet = "X" THEN "excluded"
    ELSE IF ~Silent \/ JudgeCapacity(day) THEN "target" ELSE "no_reply"

Target == dom = "capacity" => Status = "target"

\* Is the page's target planned?  Capacity looks for a ticket, the others for
\* a date that has not gone by in vain.
Scheduled(h) == Parse(row[h].sched, YearOf(asof))
Matched(h) == \E t \in Seen(h) : InHalf(t, YearOf(asof), h)

\* Fault: any date is a plan.
PlannedIfDated(h) ==
    IF dom = "capacity" THEN Matched(h) ELSE Scheduled(h) # None
Planned(h) ==
    IF dom = "capacity" THEN Matched(h)
    ELSE /\ Scheduled(h) # None
         /\ ~(Scheduled(h) < asof /\ ~Judge(h, asof))

\* The reminders that ask for a date: to a blank schedule, or to one that is
\* taken for approximate.
AskedBlank(h) == Target /\ ~Planned(h) /\ row[h].sched.kind = "blank"
AskedHinted(h) == Target /\ ~Planned(h) /\ row[h].sched.kind # "blank"
AskedForDate(h) == AskedBlank(h) \/ AskedHinted(h)
\* The one of capacity that asks whether to expand.
AskedToAnswer == dom = "capacity" /\ Status = "no_reply"

-----------------------------------------------------------------------------
(***************************************************************************)
(* Steps.                                                                  *)
(***************************************************************************)

Init ==
    /\ day = 0 /\ asof = 0
    /\ dom \in Domains
    /\ row = [h \in Halves |-> [sched |-> [kind |-> "blank", at |-> 0],
                                mark |-> FALSE, by |-> "", at |-> 0]]
    /\ sheet \in Sheets[dom]
    /\ tickets = {}
    /\ asset = [kind |-> "none", series |-> "8", ver |-> 0]
    /\ down = {}
    /\ events = 0

Event == events < MaxEvents /\ events' = events + 1

\* A page takes seconds: at most one midnight goes by while it is made.
NextDay ==
    /\ day < MaxDay /\ asof = day
    /\ day' = day + 1
    /\ UNCHANGED <<asof, dom, row, sheet, tickets, asset, down, events>>

TakeDate ==
    /\ asof # day /\ asof' = day
    /\ UNCHANGED <<day, dom, row, sheet, tickets, asset, down, events>>

ResolvedMark(h, who, mark) == IF who = "admin" THEN mark ELSE row[h].mark

Sched(d) == {text \in Texts : text.kind \in Written[d]}

\* Someone saves the row.
Edit(h) ==
    /\ Event
    /\ \E who \in {"admin", "person"}, text \in Sched(dom), mark \in BOOLEAN :
            row' = [row EXCEPT ![h] = [sched |-> text, by |-> who, at |-> day,
                                       mark |-> ResolvedMark(h, who, mark)]]
    /\ UNCHANGED <<day, asof, dom, sheet, tickets, asset, down>>

\* The Excel file is replaced: who saved the row last stays.
Replace(h) ==
    /\ Event
    /\ \E text \in Sched(dom), mark \in BOOLEAN :
            row' = [row EXCEPT ![h].sched = text, ![h].mark = mark]
    /\ sheet' \in Sheets[dom]
    /\ UNCHANGED <<day, asof, dom, tickets, asset, down>>

\* A ticket with a date of its own, a linked one or none.
Drawn(born) ==
    [born : {born}, kind : Kinds[dom], on : Days \cup {None}, link : {None}]
    \cup [born : {born}, kind : Kinds[dom] \cap {"expand"}, on : {None}, link : Days]

OpenTicket ==
    /\ Event
    /\ Cardinality(tickets) < MaxTickets
    /\ \E t \in Drawn(day) : t \notin tickets /\ tickets' = tickets \cup {t}
    /\ UNCHANGED <<day, asof, dom, row, sheet, asset, down>>

EditTicket ==
    /\ Event
    /\ \E t \in tickets : \E u \in Drawn(t.born) :
            tickets' = (tickets \ {t}) \cup {u}
    /\ UNCHANGED <<day, asof, dom, row, sheet, asset, down>>

Observe ==
    /\ Event
    /\ asset' \in {a \in Asset : /\ a.kind \in Observed[dom]
                                 /\ a.kind = "level" \/ (a.series = "8" /\ a.ver = 0)}
    /\ UNCHANGED <<day, asof, dom, row, sheet, tickets, down>>

Fail ==
    /\ Event
    /\ \E s \in Sources[dom] \ down : down' = down \cup {s}
    /\ UNCHANGED <<day, asof, dom, row, sheet, tickets, asset>>

Recover ==
    /\ \E s \in down : down' = down \ {s}
    /\ UNCHANGED <<day, asof, dom, row, sheet, tickets, asset, events>>

Next ==
    \/ NextDay \/ TakeDate
    \/ \E h \in Judged : Edit(h) \/ Replace(h)
    \/ OpenTicket \/ EditTicket \/ Observe \/ Fail \/ Recover

Spec == Init /\ [][Next]_vars

-----------------------------------------------------------------------------
(***************************************************************************)
(* Properties.                                                             *)
(***************************************************************************)

\* Types; a page's date is today's or yesterday's.
TypeOK ==
    /\ day \in Days /\ asof \in Days /\ asof <= day /\ day <= asof + 1
    /\ dom \in Domains
    /\ row \in [Halves -> Row]
    /\ sheet \in Sheets[dom]
    /\ tickets \subseteq Ticket
    /\ asset \in Asset
    /\ down \subseteq Sources[dom]
    /\ events \in 0..MaxEvents

\* Within a year the passing of time never takes a completion back.
TimeUndoesNothing ==
    [][NextDay /\ YearOf(day') = YearOf(day) =>
        \A h \in Judged : Judge(h, day) => Judge(h, day)']_vars

\* One more ticket never takes a completion back, although one ticket, the
\* newest, is picked to show.
NewTicketUndoesNothing ==
    [][OpenTicket => \A h \in Judged : Judge(h, day) => Judge(h, day)']_vars

\* A source that fails never completes anything.
OutageNeverCompletes ==
    [][Fail => \A h \in Judged : Judge(h, day)' => Judge(h, day)]_vars

\* Figures already given are not rewritten: to exclude a target changes what it
\* counts for from today on, and inside the half not even today.
ExclusionIsNotRetroactive ==
    [][\A h \in Judged :
        Edit(h) /\ row'[h].sched.kind = "x" /\ row'[h].mark = row[h].mark
                /\ row[h].sched.kind # "x" =>
            \A d \in Days : d < Later(day, HalfEnd(YearOf(d), h)) =>
                (Judge(h, d)' <=> Judge(h, d))]_vars

\* Once the second half has begun, its method is settled as far as time goes.
ModeSettles ==
    [][NextDay /\ dom = "dr" /\ YearOf(day') = YearOf(day)
            /\ day >= HalfStart(YearOf(day), "H2") =>
        Mode2' = Mode2]_vars

\* A target that is not completed has a date to come, or is asked for one (there
\* are no reminders of kernel patches).
PendingIsAskedOrDated ==
    \A h \in Judged :
        dom # "kernel" /\ Target /\ ~Judge(h, asof) =>
            \/ AskedForDate(h)
            \/ Scheduled(h) # None /\ Scheduled(h) >= asof
            \/ \E t \in Seen(h) : DoneDate(t) # None /\ DoneDate(t) > asof

\* A target nobody answered for is in the denominator just when it is completed,
\* and whom a ticket answers for is asked for nothing (on a page that is made
\* within a day).
AnsweredByWork ==
    dom = "capacity" /\ asof = day /\ Silent =>
        /\ Status = "target" <=> Judge("H2", asof)
        /\ Basis("H2", asof) # NoTicket => ~AskedToAnswer /\ ~AskedForDate("H2")

-----------------------------------------------------------------------------
(***************************************************************************)
(* Not so: statements of the repository that the code does not keep.       *)
(***************************************************************************)

\* One real training a year: what was to be real in the first half and is
\* non-stop in the second has been real in the first.
OneRealAYear ==
    dom = "dr" /\ day >= HalfStart(YearOf(day), "H2") /\ down = {}
        /\ sheet = "real" /\ Mode2 = "nonstop" =>
        \/ row["H1"].mark
        \/ \E t \in Counting("H1", day) : t.kind = "real"

\* Whoever is promoted is shown as completed, at midnight too.
PromotedIsCompleted ==
    dom = "capacity" /\ Silent /\ Status = "target" => Judge("H2", asof)

\* Only a schedule without a date is taken for approximate.
HintedIsApproximate ==
    \A h \in Judged : AskedHinted(h) => Scheduled(h) = None

\* A target an admin took out is not asked for a date (its X is a text without
\* one).
ExcludedIsNotAsked ==
    dom = "dr" => \A h \in Judged : Excluded(h) => ~AskedForDate(h)

\* Nobody is asked when the work will be who has done it.
DoneIsNotAsked ==
    \A h \in Judged : Judge(h, asof) => ~AskedForDate(h)
=============================================================================
