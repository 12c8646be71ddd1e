------------------------------- MODULE Remind -------------------------------
(***************************************************************************)
(* The reminders of DR, capacity and EoS: who is asked for what, in which  *)
(* draft, and what the preview page and the log make of it.                *)
(*                                                                         *)
(* The preview groups the items to ask about by service (DR) or operating  *)
(* team (capacity, EoS), elects a representative among the owners and      *)
(* offers the owners in a drop-down whose default is the representative;   *)
(* an upcoming task goes to the person who entered its date.  The page     *)
(* sends one direct message per draft, to the option that is selected.     *)
(*                                                                         *)
(* A schedule is what the reminders tell apart: nothing, a text, a month   *)
(* (this one), a date that is far, near (pre_work_remind_days) or past.    *)
(* Names are clean_name's; an owner's `raw' is the pair of name and team.  *)
(***************************************************************************)
EXTENDS Naturals, Sequences, FiniteSetsExt

CONSTANTS
    N,          \* number of items, in the order of the sheet
    Domains,    \* of "dr", "capacity", "eos": the reminders there are
    MaxOwners,  \* bound: owners in a cell
    Registers,  \* what the sheet and the CMDB may say of the items
    NoTeam,     \* an owner without a team
    NoOne,
    Editors,    \* who saves schedules on the web
    Admins,     \* settings.admin_set
    Requesters, \* display names of the JSM requester of a ticket
    MaxEvents   \* bound: events and messages

Items == 1 .. N
Kinds == {"blank", "hinted", "upcoming", "no_reply"}
Schedules == {"none", "text", "month", "far", "near", "past"}
Modes == {"real", "nonstop"}
Tabs == Modes \cup {"all"}

ASSUME RemindAssumption ==
    /\ N \in Nat
    /\ MaxOwners \in Nat
    /\ MaxEvents \in Nat
    /\ Domains \subseteq {"dr", "capacity", "eos"}
    /\ NoOne \notin Editors \cup Admins

VARIABLES
    domain,  \* which of the three
    sheet,   \* of each item: group, owners, mode, server, schedule, CMDB owners
    work,    \* of each item: web schedule, who saved it, ticket, reply, done
    page,    \* the open preview
    log,     \* the messages sent, in order (remind_log and its two likes)
    events

vars == <<domain, sheet, work, page, log, events>>

NoPage == [kind |-> "none", drafts |-> {}]
NewWork == [sched |-> "none", by |-> NoOne, last |-> NoOne, replied |-> TRUE,
            ticket |-> FALSE, requester |-> [name |-> NoOne, full |-> FALSE],
            done |-> FALSE]

Init ==
    /\ domain \in Domains
    /\ sheet \in Registers
    /\ \E replied \in [Items -> BOOLEAN] :
          /\ domain = "dr" => \A i \in Items : replied[i]
          /\ work = [i \in Items |-> [NewWork EXCEPT !.replied = replied[i]]]
    /\ page = NoPage
    /\ log = <<>>
    /\ events = 0

-----------------------------------------------------------------------------
(***************************************************************************)
(* Which items a kind of reminder is about.                                *)
(***************************************************************************)

\* A blank web schedule shows the one of the sheet.
Shown(i) == IF work[i].sched = "none" THEN sheet[i].sched ELSE work[i].sched

\* EoS reads a month as its last day.
Dated(i) == Shown(i) \in {"far", "near", "past"} \/ (domain = "eos" /\ Shown(i) = "month")

\* `planned' of the details: an open date, in capacity a ticket.
Planned(i) ==
    IF domain = "capacity" THEN work[i].ticket
    ELSE Dated(i) /\ (Shown(i) # "past" \/ work[i].done)

\* In capacity a schedule, and work that is done, is an answer too.
Replied(i) == work[i].replied \/ (domain = "capacity" /\ (Shown(i) # "none" \/ work[i].done))

\* has_schedule_hint
Hinted(i) == Shown(i) # "none"

\* is_upcoming; an X is no date and no month, so that the check of the
\* exclusion there changes nothing.
Upcoming(i) ==
    /\ ~work[i].done
    /\ ~work[i].ticket
    /\ Shown(i) \in {"near", "month"}

\* The items of a kind; the details hold the targets only.
About(i, kind) ==
    \/ kind = "blank" /\ Replied(i) /\ ~Planned(i) /\ ~Hinted(i)
    \/ kind = "hinted" /\ Replied(i) /\ ~Planned(i) /\ Hinted(i)
    \/ kind = "upcoming" /\ domain = "dr" /\ Upcoming(i)
    \/ kind = "no_reply" /\ domain # "dr" /\ ~Replied(i)

\* Fault in InputterOf: the last one who saved, the admin included.
InputterOfBy(i) ==
    IF work[i].sched = "none" \/ work[i].by \in Admins THEN NoOne ELSE work[i].by

\* inputter_of
InputterOf(i) ==
    IF work[i].sched = "none" THEN NoOne
    ELSE LET name == IF work[i].last # NoOne THEN work[i].last ELSE work[i].by
         IN  IF name \in Admins THEN NoOne ELSE name

-----------------------------------------------------------------------------
(***************************************************************************)
(* Owners: the representative and the drop-down.  A group is a set of      *)
(* items; a place in it is an item and a position in its owner cell.       *)
(***************************************************************************)

\* clean_name takes the parenthesis off a display name, and leaves the team of
\* "name (note) - team" on it, which makes it no one's name.
CleanName(display) == IF display.full THEN NoOne ELSE display.name

\* pick_priority_owner
Top(i) ==
    LET owners == sheet[i].owners
        asked == {k \in DOMAIN owners : owners[k].name = CleanName(work[i].requester)}
    IN  owners[IF asked = {} THEN 1 ELSE Min(asked)]

Votes(group, owner) == Cardinality({i \in group : Top(i) = owner})

\* pick_representative: the first one to get the most votes.
Representative(group) ==
    Top(Min({i \in group :
        \A j \in group : Votes(group, Top(j)) <= Votes(group, Top(i))}))

\* The places of the owners in a group, and the first of some places.
Places(group) ==
    {p \in group \X (1 .. MaxOwners) : p[2] \in DOMAIN sheet[p[1]].owners}
OwnerAt(place) == sheet[place[1]].owners[place[2]]
FirstOf(places) ==
    LET i == Min({p[1] : p \in places})
    IN  <<i, Min({p[2] : p \in {q \in places : q[1] = i}})>>

\* team_via_cmdb; lookup_cmdb_assets has only the items that are not planned.
TeamViaCmdb(name, group, fallback) ==
    LET found == {i \in group :
                     ~Planned(i) /\ sheet[i].asset.name = name /\ sheet[i].asset.team # NoTeam}
    IN  IF found = {} THEN fallback ELSE sheet[Min(found)].asset.team

\* team_of_inputter
TeamOfInputter(name, group) ==
    LET found == {p \in Places(group) : OwnerAt(p).name = name /\ OwnerAt(p).team # NoTeam}
    IN  IF found # {} THEN OwnerAt(FirstOf(found)).team
        ELSE TeamViaCmdb(name, group, NoTeam)

\* An option of the drop-down; the team is the CMDB's in DR.
Option(owner, group) ==
    [raw |-> owner, name |-> owner.name,
     team |-> IF domain = "dr" THEN TeamViaCmdb(owner.name, group, owner.team)
              ELSE owner.team]

\* candidates_of: each name and team once; a name without a team only if it has
\* no team anywhere.  The places are those that stay; their order is that of the
\* first appearance.
Stay(group) ==
    {p \in Places(group) :
        OwnerAt(p).team = NoTeam =>
            \A q \in Places(group) : OwnerAt(q).name = OwnerAt(p).name =>
                OwnerAt(q).team = NoTeam}
Candidates(group) == {Option(OwnerAt(p), group) : p \in Stay(group)}

-----------------------------------------------------------------------------
(***************************************************************************)
(* Drafts: the items, the person addressed, the options and the first of   *)
(* them.                                                                   *)
(***************************************************************************)

\* get_remind_log_summary: the services a message of the kind has been tried for.
RemindLogSummary(kind) ==
    {log[k].key : k \in {j \in DOMAIN log : log[j].column = kind}}

\* get_capacity_remind_log_summary, get_eos_remind_log_summary: the teams a
\* message of any kind has been tried for; the tables have no column for it.
CapacityRemindLogSummary == {log[k].key : k \in DOMAIN log}
EosRemindLogSummary == {log[k].key : k \in DOMAIN log}

Sent(kind, key) ==
    \/ domain = "dr" /\ key \in RemindLogSummary(kind)
    \/ domain = "capacity" /\ key \in CapacityRemindLogSummary
    \/ domain = "eos" /\ key \in EosRemindLogSummary

\* Fault in Merged: in every domain.
MergedAlways(group) ==
    {i \in group : \A j \in group : sheet[j].server = sheet[i].server => i <= j}

\* merge_same_server: the first row of each server.
Merged(group) ==
    {i \in group : \A j \in group :
        (domain = "capacity" /\ sheet[j].server = sheet[i].server) => i <= j}

Card(kind, key, group, owner, offered, front) ==
    [key |-> key, items |-> Merged(group), owner |-> owner, offered |-> offered,
     front |-> front, sent |-> Sent(kind, key)]

FrontOf(group) == Option(OwnerAt(FirstOf(Stay(group))), group)

\* The draft of capacity and EoS: the owner is addressed as written in the cell.
PlainDraft(kind, key, group, owner) ==
    Card(kind, key, group, owner, Candidates(group), FrontOf(group))

\* _draft: the owner is replaced by the first candidate of that name, or put in
\* front of the candidates.
DraftOf(kind, key, group, owner) ==
    LET namesakes == {p \in Stay(group) : OwnerAt(p).name = owner.name}
        itself == [raw |-> owner, name |-> owner.name, team |-> owner.team]
    IN  IF namesakes # {}
        THEN Card(kind, key, group, OwnerAt(FirstOf(namesakes)), Candidates(group),
                  FrontOf(group))
        ELSE Card(kind, key, group, owner, Candidates(group) \cup {itself}, itself)

\* Those of the items that are in the tab of a mode; "all" is every mode.
InTab(i, mode) == mode = "all" \/ sheet[i].mode = mode

\* group_and_vote skips an item that has no owner.
GroupOf(kind, mode, key) ==
    {i \in Items : /\ About(i, kind)
                   /\ InTab(i, mode)
                   /\ sheet[i].owners # <<>>
                   /\ sheet[i].group = key
                   /\ kind = "upcoming" => InputterOf(i) = NoOne}

InputterGroupOf(mode, name) ==
    {i \in Items : About(i, "upcoming") /\ InTab(i, mode) /\ InputterOf(i) = name}

Keys == {sheet[i].group : i \in Items}
Inputters == {InputterOf(i) : i \in Items} \ {NoOne}

\* Fault in GroupDrafts: the drafts of DR are made like those of capacity.
GroupDraftsPlain(kind, mode) ==
    {PlainDraft(kind, key, GroupOf(kind, mode, key), Representative(GroupOf(kind, mode, key))) :
        key \in {k \in Keys : GroupOf(kind, mode, k) # {}}}

\* _service_groups; group_capacity_unplanned, group_eos_unplanned and their
\* no_reply likes.
GroupDrafts(kind, mode) ==
    LET Draft(key, group) ==
            IF domain = "dr" THEN DraftOf(kind, key, group, Representative(group))
            ELSE PlainDraft(kind, key, group, Representative(group))
    IN  {Draft(key, GroupOf(kind, mode, key)) :
            key \in {k \in Keys : GroupOf(kind, mode, k) # {}}}

\* _inputter_groups
InputterDrafts(mode) ==
    LET Draft(name, group) ==
            DraftOf("upcoming", name, group,
                    [name |-> name, team |-> TeamOfInputter(name, group)])
    IN  {Draft(name, InputterGroupOf(mode, name)) :
            name \in {n \in Inputters : InputterGroupOf(mode, n) # {}}}

\* group_unplanned_by_service
Drafts(kind, mode) ==
    GroupDrafts(kind, mode) \cup (IF kind = "upcoming" THEN InputterDrafts(mode) ELSE {})

\* What the browser shows as selected: the option that is marked, else the first.
Default(draft) ==
    IF \E o \in draft.offered : o.raw = draft.owner
    THEN CHOOSE o \in draft.offered : o.raw = draft.owner
    ELSE draft.front

\* _last_remind_by_service: of the last message of each kind, those that went
\* out; the position in the log is the time.
LastRemind(key) ==
    LET Tried(kind) == {k \in DOMAIN log : log[k].key = key /\ log[k].kind = kind}
    IN  Max({0} \cup {k \in UNION {Tried(kind) : kind \in {"blank", "hinted"}} :
                         log[k].ok /\ \A j \in Tried(log[k].kind) : j <= k})

-----------------------------------------------------------------------------
(***************************************************************************)
(* What happens to the items.                                              *)
(***************************************************************************)

Count ==
    /\ events < MaxEvents
    /\ events' = events + 1

\* Somebody saves a schedule on the web.
Enter(i, name, sched) ==
    /\ Count
    /\ work' = [work EXCEPT ![i].sched = sched, ![i].by = name,
                            ![i].last = IF name \in Admins THEN @ ELSE name]
    /\ UNCHANGED <<domain, sheet, page, log>>

\* Time passes over a schedule that was entered.
Ages(i) ==
    /\ Count
    /\ \/ work[i].sched = "far" /\ work' = [work EXCEPT ![i].sched = "near"]
       \/ work[i].sched = "near" /\ work' = [work EXCEPT ![i].sched = "past"]
       \/ /\ work[i].sched = "month"
          /\ work' = [work EXCEPT ![i].sched = IF domain = "eos" THEN "past" ELSE "text"]
    /\ UNCHANGED <<domain, sheet, page, log>>

\* A ticket is matched with the item.
TicketMatched(i, requester) ==
    /\ Count
    /\ work' = [work EXCEPT ![i].ticket = TRUE, ![i].requester = requester]
    /\ UNCHANGED <<domain, sheet, page, log>>

\* The item is answered for (capacity, EoS) or completed.
Answer(i) ==
    /\ Count
    /\ ~work[i].replied
    /\ work' = [work EXCEPT ![i].replied = TRUE]
    /\ UNCHANGED <<domain, sheet, page, log>>

Complete(i) ==
    /\ Count
    /\ ~work[i].done
    /\ work[i].replied \/ domain = "capacity"
    /\ work' = [work EXCEPT ![i].done = TRUE]
    /\ UNCHANGED <<domain, sheet, page, log>>

-----------------------------------------------------------------------------
(***************************************************************************)
(* The preview and its messages.                                           *)
(***************************************************************************)

Show(kind, mode) ==
    /\ Drafts(kind, mode) # {}
    /\ page' = [kind |-> kind, drafts |-> Drafts(kind, mode)]
    /\ page' # page
    /\ UNCHANGED <<domain, sheet, work, log, events>>

\* remind_preview: the tabs of the modes, and three kinds in each.
OpenDr(kind, mode) ==
    /\ domain = "dr"
    /\ kind # "no_reply"
    /\ Show(kind, mode)

\* capacity_remind_preview: both sheets together.
OpenCapacity(kind) ==
    /\ domain = "capacity"
    /\ kind # "upcoming"
    /\ Show(kind, "all")

\* eos_remind_preview
OpenEos(kind) ==
    /\ domain = "eos"
    /\ kind # "upcoming"
    /\ Show(kind, "all")

\* A message that was tried; `column' is the kind the table keeps of it, `kind',
\* `greets' and `items' are what it was.
Entry(draft, to, greets, ok, column) ==
    [key |-> draft.key, kind |-> page.kind, column |-> column, to |-> to,
     greets |-> greets, items |-> draft.items, ok |-> ok]

\* Fault in LogRemind: the page does not pass the kind.
LogRemindBlank(draft, to, greets, ok) ==
    log' = Append(log, Entry(draft, to, greets, ok, "blank"))

\* log_remind
LogRemind(draft, to, greets, ok) ==
    log' = Append(log, Entry(draft, to, greets, ok, page.kind))

\* log_capacity_remind
LogCapacityRemind(draft, to, greets, ok) ==
    log' = Append(log, Entry(draft, to, greets, ok, "any"))

\* log_eos_remind
LogEosRemind(draft, to, greets, ok) ==
    log' = Append(log, Entry(draft, to, greets, ok, "any"))

Post(draft) ==
    /\ Count
    /\ draft \in page.drafts
    /\ UNCHANGED <<domain, sheet, work, page>>

\* api_remind_dm: the message goes out, or not; it is logged in both cases.
ApiRemindDM(draft, to, greets, ok) ==
    /\ domain = "dr"
    /\ Post(draft)
    /\ LogRemind(draft, to, greets, ok)

ApiCapacityRemindDM(draft, to, greets, ok) ==
    /\ domain = "capacity"
    /\ Post(draft)
    /\ LogCapacityRemind(draft, to, greets, ok)

ApiEosRemindDM(draft, to, greets, ok) ==
    /\ domain = "eos"
    /\ Post(draft)
    /\ LogEosRemind(draft, to, greets, ok)

SendDM(draft, to, greets, ok) ==
    \/ ApiRemindDM(draft, to, greets, ok)
    \/ ApiCapacityRemindDM(draft, to, greets, ok)
    \/ ApiEosRemindDM(draft, to, greets, ok)

\* The drop-down is left alone.
Send(draft, ok) == SendDM(draft, Default(draft), draft.owner.name, ok)

\* changeRecipient puts the name of the option into the greeting.
SendTo(draft, to, ok) ==
    /\ to \in draft.offered
    /\ SendDM(draft, to, to.name, ok)

Next ==
    \/ \E i \in Items :
          \/ \E name \in Editors, sched \in Schedules \ {"past"} : Enter(i, name, sched)
          \/ Ages(i)
          \/ \E requester \in Requesters : TicketMatched(i, requester)
          \/ Answer(i)
          \/ Complete(i)
    \/ \E kind \in Kinds :
          \/ \E mode \in Tabs : OpenDr(kind, mode)
          \/ OpenCapacity(kind)
          \/ OpenEos(kind)
    \/ \E draft \in page.drafts, ok \in BOOLEAN :
          \/ Send(draft, ok)
          \/ \E to \in draft.offered : SendTo(draft, to, ok)

Spec == Init /\ [][Next]_vars

-----------------------------------------------------------------------------
(***************************************************************************)
(* Properties.                                                             *)
(***************************************************************************)

\* A DR message goes to the person its greeting names, whether the sender has
\* touched the drop-down or not, and however old the page is.
GreetsRecipient ==
    domain = "dr" => \A k \in DOMAIN log : log[k].greets = log[k].to.name

\* Whoever, not being an admin, has entered the schedule of an upcoming task is
\* the one who hears of it, also if an admin has saved the item since, and it
\* is in no other draft of the tab.
InputterIsTold ==
    \A mode \in Tabs, i \in Items :
        LET drafts == {d \in Drafts("upcoming", mode) : i \in d.items}
        IN  (drafts # {} /\ work[i].sched # "none" /\ work[i].last # NoOne) =>
                \E d \in drafts : drafts = {d} /\ Default(d).name = work[i].last

\* An item without a plan that has an owner is asked for in one draft, as blank
\* or as hinted; in capacity that may be the draft of another row of its server.
PendingIsAskedOnce ==
    \A i \in Items :
        (Replied(i) /\ ~Planned(i) /\ sheet[i].owners # <<>>) =>
            LET drafts == {d \in Drafts("blank", "all") \cup Drafts("hinted", "all") :
                              i \in d.items}
                server == {d \in Drafts("blank", "all") \cup Drafts("hinted", "all") :
                              \E j \in d.items : sheet[j].server = sheet[i].server}
            IN  /\ Cardinality(drafts) <= 1
                /\ drafts = {} => domain = "capacity" /\ server # {}

\* A DR draft is shown as sent before only if a message of its kind has been
\* tried for its group.
SentIsOfKind ==
    domain = "dr" => \A d \in page.drafts :
        d.sent => \E k \in DOMAIN log : log[k].key = d.key /\ log[k].kind = page.kind

(***************************************************************************)
(* What comments promise and the code does not do.                         *)
(***************************************************************************)

\* reminder.py:393: the person preselected is always the one of the draft, or a
\* message would go to the wrong person; the drafts of capacity and EoS do not
\* see to that.
AlwaysGreetsRecipient == \A k \in DOMAIN log : log[k].greets = log[k].to.name

\* reminder.py:308: the owner who requested the latest ticket comes first;
\* owner_check.py:9 says how JIRA writes that name: with the team behind it.
RequesterFirst ==
    \A i \in Items :
        (\E k \in DOMAIN sheet[i].owners :
            sheet[i].owners[k].name = work[i].requester.name)
                => Top(i).name = work[i].requester.name

\* reminder.py:282: people of the same name in different teams are kept apart.
NamesakesApart ==
    domain = "dr" => \A kind \in {"blank", "hinted"}, key \in Keys :
        LET group == GroupOf(kind, "all", key)
        IN  (group # {} /\ Representative(group).team # NoTeam) =>
                \A d \in GroupDrafts(kind, "all") :
                    d.key = key => d.owner = Representative(group)

\* capacity_reminder.py:28: no server is reminded of twice.
OneDraftPerServer ==
    domain = "capacity" => \A i, j \in Items :
        (sheet[i].server = sheet[j].server /\ sheet[i].group = sheet[j].group) =>
            Cardinality({d \in Drafts("blank", "all") \cup Drafts("hinted", "all") :
                            {i, j} \cap d.items # {}}) <= 1

\* dr.py:490: what has not been sent is not taken for sent; the tabs of the two
\* modes share the log, and so do the kinds in capacity and EoS.
SentIsThis ==
    \A d \in page.drafts : d.sent =>
        \E k \in DOMAIN log : log[k].items \cap d.items # {} /\ log[k].kind = page.kind

\* dr.py:90: the status tab shows when a service last got a message; a failed
\* retry hides it.
LastSuccessShown ==
    \A key \in Keys :
        LastRemind(key) = Max({0} \cup {k \in DOMAIN log :
            log[k].key = key /\ log[k].kind \in {"blank", "hinted"} /\ log[k].ok})
=============================================================================
