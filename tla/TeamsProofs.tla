----------------------------- MODULE TeamsProofs ----------------------------
(***************************************************************************)
(* Proofs about what goes to Teams: the reminders (Remind) and the         *)
(* progress reports (ReportSend).  They share no state.                    *)
(*                                                                         *)
(* Remind: in DR a message greets whom it goes to, a draft is shown as     *)
(* sent only after a message of its kind, and the person who entered the   *)
(* date of an upcoming task is the one who hears of it.                    *)
(*                                                                         *)
(* ReportSend: with any number of senders, at any time. A report that has  *)
(* been checked in a domain is warned of a drop against the last snapshot  *)
(* of it, or was on its way together with that one (Compared); a report is *)
(* in no snapshot before it has been checked (Unrecorded); and every       *)
(* report collected since the one a sender is busy with was on its way     *)
(* together with it (Paired), so that an alarm about a later report is     *)
(* about such a one.                                                       *)
(***************************************************************************)
EXTENDS Remind, ReportSend, FiniteSetTheorems, WellFoundedInduction, TLAPS

-----------------------------------------------------------------------------
(***************************************************************************)
(* Reminders.                                                              *)
(***************************************************************************)

\* The least of some natural numbers is one of them, and no other is less.
LEMMA MinIsLeast ==
    ASSUME NEW S, S \subseteq Nat, S # {}
    PROVE  Min(S) \in S /\ \A y \in S : Min(S) <= y
<1>1. IsWellFoundedOn({ss \in Nat \X Nat : ss[1] < ss[2]}, Nat)
  BY NatLessThanWellFounded DEF OpToRel
<1>2. PICK m \in S : \A y \in S : <<y, m>> \notin {ss \in Nat \X Nat : ss[1] < ss[2]}
  BY <1>1, WFMin, Zenon
<1>3. \A y \in S : m <= y
  <2>1. SUFFICES ASSUME NEW y \in S PROVE m <= y
    OBVIOUS
  <2>2. ~ (y < m)
    BY <1>2
  <2> QED BY <2>2
<1> QED BY <1>3 DEF Min

LEMMA MinIsMember ==
    ASSUME NEW S, S \subseteq Nat, S # {}
    PROVE  Min(S) \in S
BY MinIsLeast

\* The first of some places of a group is one of them.
LEMMA FirstIsMember ==
    ASSUME NEW group, group \subseteq Items,
           NEW places, places \subseteq Places(group), places # {}
    PROVE  FirstOf(places) \in places
<1> DEFINE is == {p[1] : p \in places}
           i == Min(is)
           row == {q \in places : q[1] = i}
           ks == {p[2] : p \in row}
<1>1. \A p \in places : p \in group \X (1 .. MaxOwners)
  BY DEF Places
<1>2. \A p \in places : p = <<p[1], p[2]>> /\ p[1] \in Nat /\ p[2] \in Nat
  BY <1>1, RemindAssumption DEF Items
<1>3. i \in is
  BY <1>2, MinIsMember
<1>4. row # {}
  BY <1>3
<1>5. Min(ks) \in ks
  BY <1>2, <1>4, MinIsMember
<1>6. <<i, Min(ks)>> \in places
  BY <1>2, <1>5
<1> QED BY <1>6 DEF FirstOf

\* A draft of DR is addressed to somebody of the name it is made for, and that
\* is the option the browser selects.
LEMMA DraftAddresses ==
    ASSUME NEW kind, NEW key, NEW group, NEW owner, group \subseteq Items
    PROVE  /\ DraftOf(kind, key, group, owner).owner.name = owner.name
           /\ Default(DraftOf(kind, key, group, owner)).name = owner.name
           /\ DraftOf(kind, key, group, owner).key = key
           /\ DraftOf(kind, key, group, owner).items = Merged(group)
           /\ DraftOf(kind, key, group, owner).sent = Sent(kind, key)
<1> DEFINE d == DraftOf(kind, key, group, owner)
           namesakes == {p \in Stay(group) : OwnerAt(p).name = owner.name}
           itself == [raw |-> owner, name |-> owner.name, team |-> owner.team]
<1>1. CASE namesakes # {}
  <2> DEFINE place == FirstOf(namesakes)
             first == OwnerAt(place)
  <2>1. d = Card(kind, key, group, first, Candidates(group), FrontOf(group))
    BY <1>1 DEF DraftOf
  <2>2. place \in namesakes
    BY <1>1, FirstIsMember DEF Stay
  <2> HIDE DEF place
  <2>3. place \in Stay(group) /\ first.name = owner.name
    BY <2>2
  <2>4. Option(first, group) \in Candidates(group)
    BY <2>3 DEF Candidates
  <2>5. /\ d.owner = first
        /\ d.offered = Candidates(group)
        /\ d.items = Merged(group)
        /\ d.key = key
        /\ d.sent = Sent(kind, key)
    BY <2>1 DEF Card
  <2> HIDE DEF d, first
  <2>6. \A o \in d.offered : o.raw = first => o.name = first.name
    BY <2>5 DEF Candidates, Option
  <2>7. \E o \in d.offered : o.raw = first
    BY <2>4, <2>5 DEF Option
  <2>8. Default(d).name = first.name
    BY <2>5, <2>6, <2>7 DEF Default
  <2> QED BY <2>3, <2>5, <2>8 DEF d
<1>2. CASE namesakes = {}
  <2>1. d = Card(kind, key, group, owner, Candidates(group) \cup {itself}, itself)
    BY <1>2 DEF DraftOf
  <2>2. itself \in d.offered /\ itself.raw = owner
    BY <2>1 DEF Card
  <2>3. \A o \in d.offered : o.raw = owner => o.name = owner.name
    BY <2>1 DEF Card, Candidates, Option
  <2>4. /\ d.owner = owner
        /\ d.items = Merged(group)
        /\ d.key = key
        /\ d.sent = Sent(kind, key)
    BY <2>1 DEF Card
  <2> HIDE DEF d
  <2>5. Default(d).name = owner.name
    BY <2>2, <2>3, <2>4 DEF Default
  <2> QED BY <2>4, <2>5 DEF d
<1> QED BY <1>1, <1>2

\* The same of the drafts of upcoming tasks.
LEMMA UpcomingAddresses ==
    ASSUME NEW key, NEW group, NEW owner, group \subseteq Items
    PROVE  /\ Default(DraftOf("upcoming", key, group, owner)).name = owner.name
           /\ DraftOf("upcoming", key, group, owner).items = Merged(group)
BY DraftAddresses

LEMMA InputterAddressed ==
    ASSUME NEW name, NEW group, group \subseteq Items, NEW team
    PROVE  Default(DraftOf("upcoming", name, group, [name |-> name, team |-> team])).name = name
<1> DEFINE owner == [name |-> name, team |-> team]
<1>1. owner.name = name
  OBVIOUS
<1> HIDE DEF owner
<1>2. Default(DraftOf("upcoming", name, group, owner)).name = owner.name
  BY UpcomingAddresses
<1> QED BY <1>1, <1>2 DEF owner

\* The draft made for a key.
DraftFor(kind, mode, key) ==
    LET group == GroupOf(kind, mode, key)
    IN  IF domain = "dr" THEN DraftOf(kind, key, group, Representative(group))
        ELSE PlainDraft(kind, key, group, Representative(group))

\* Every draft of DR has these traits.
LEMMA DraftsAddress ==
    ASSUME domain = "dr", NEW kind, NEW mode, NEW d \in Drafts(kind, mode)
    PROVE  /\ Default(d).name = d.owner.name
           /\ d.sent = Sent(kind, d.key)
<1>1. CASE d \in GroupDrafts(kind, mode)
  <2>1. PICK key : d = DraftOf(kind, key, GroupOf(kind, mode, key),
                               Representative(GroupOf(kind, mode, key)))
    BY <1>1 DEF GroupDrafts
  <2>2. GroupOf(kind, mode, key) \subseteq Items
    BY DEF GroupOf
  <2> DEFINE group == GroupOf(kind, mode, key)
             owner == Representative(group)
  <2> HIDE DEF group, owner
  <2>3. /\ DraftOf(kind, key, group, owner).owner.name = owner.name
        /\ Default(DraftOf(kind, key, group, owner)).name = owner.name
        /\ DraftOf(kind, key, group, owner).key = key
        /\ DraftOf(kind, key, group, owner).sent = Sent(kind, key)
    BY <2>2, DraftAddresses DEF group
  <2>4. d = DraftOf(kind, key, group, owner)
    BY <2>1 DEF group, owner
  <2> QED BY <2>3, <2>4
<1>2. CASE kind = "upcoming" /\ d \in InputterDrafts(mode)
  <2>1. PICK name : d = DraftOf("upcoming", name, InputterGroupOf(mode, name),
                    [name |-> name, team |-> TeamOfInputter(name, InputterGroupOf(mode, name))])
    BY <1>2 DEF InputterDrafts
  <2>2. InputterGroupOf(mode, name) \subseteq Items
    BY DEF InputterGroupOf
  <2> DEFINE group == InputterGroupOf(mode, name)
             owner == [name |-> name, team |-> TeamOfInputter(name, group)]
  <2> HIDE DEF group, owner
  <2>3. /\ DraftOf(kind, name, group, owner).owner.name = owner.name
        /\ Default(DraftOf(kind, name, group, owner)).name = owner.name
        /\ DraftOf(kind, name, group, owner).key = name
        /\ DraftOf(kind, name, group, owner).sent = Sent(kind, name)
    BY <2>2, DraftAddresses DEF group
  <2>4. d = DraftOf(kind, name, group, owner)
    BY <1>2, <2>1 DEF group, owner
  <2> QED BY <1>2, <2>3, <2>4
<1> QED BY <1>1, <1>2 DEF Drafts

-----------------------------------------------------------------------------
(***************************************************************************)
(* The inductive invariant: the name of an inputter is no admin's; a draft *)
(* on the page has the traits above; the log is a sequence whose messages  *)
(* greet whom they went to and keep their kind.                            *)
(***************************************************************************)

InputterIsNoAdmin == \A i \in Items : work[i].last = NoOne \/ work[i].last \notin Admins

Entries ==
    [sched : Schedules, by : Editors \cup {NoOne}, last : Editors \cup {NoOne},
     replied : BOOLEAN, ticket : BOOLEAN,
     requester : Requesters \cup {NewWork.requester}, done : BOOLEAN]

WorkShaped == work \in [Items -> Entries]

LogShaped == \E entries : log \in Seq(entries)

PageAddresses == domain = "dr" => \A d \in page.drafts : Default(d).name = d.owner.name

LogTruthful ==
    domain = "dr" => \A k \in DOMAIN log :
        log[k].greets = log[k].to.name /\ log[k].column = log[k].kind

IInv ==
    /\ WorkShaped
    /\ InputterIsNoAdmin
    /\ LogShaped
    /\ PageAddresses
    /\ LogTruthful
    /\ SentIsOfKind

LEMMA InitHolds == Init => IInv
<1> SUFFICES ASSUME Init PROVE IInv
  OBVIOUS
<1>1. PICK replied \in [Items -> BOOLEAN] :
         work = [i \in Items |-> [NewWork EXCEPT !.replied = replied[i]]]
  BY DEF Init
<1>2. \A i \in Items : work[i] \in Entries /\ work[i].last = NoOne
  <2>1. \A i \in Items : work[i] = [NewWork EXCEPT !.replied = replied[i]]
    BY <1>1
  <2>2. NewWork \in Entries /\ NewWork.last = NoOne
    BY DEF NewWork, Entries, Schedules
  <2> QED BY <2>1, <2>2 DEF Entries
<1>3. WorkShaped /\ InputterIsNoAdmin
  BY <1>1, <1>2 DEF WorkShaped, InputterIsNoAdmin
<1>4. LogShaped
  BY DEF Init, LogShaped
<1>5. PageAddresses /\ LogTruthful /\ SentIsOfKind
  BY DEF Init, NoPage, PageAddresses, LogTruthful, SentIsOfKind
<1> QED BY <1>3, <1>4, <1>5 DEF IInv

\* The log grows at its end.
LEMMA LogGrows ==
    ASSUME LogShaped, NEW entry, log' = Append(log, entry)
    PROVE  /\ LogShaped'
           /\ \A k \in DOMAIN log : k \in DOMAIN log' /\ log'[k] = log[k]
           /\ \A k \in DOMAIN log' : k \in DOMAIN log \/ log'[k] = entry
<1>1. PICK entries : log \in Seq(entries)
  BY DEF LogShaped
<1>2. log \in Seq(entries \cup {entry})
  BY <1>1
<1>3. log' \in Seq(entries \cup {entry})
  BY <1>2
<1>4. LogShaped'
  BY <1>3 DEF LogShaped
<1> QED BY <1>1, <1>4

\* A step of the items touches neither the page nor the log.
LEMMA WorkStep ==
    ASSUME IInv, UNCHANGED <<domain, page, log>>, WorkShaped', InputterIsNoAdmin'
    PROVE  IInv'
BY DEF IInv, LogShaped, PageAddresses, LogTruthful, SentIsOfKind

LEMMA OpenStep ==
    ASSUME IInv, NEW kind, NEW mode, Show(kind, mode)
    PROVE  IInv'
<1>1. /\ page' = [kind |-> kind, drafts |-> Drafts(kind, mode)]
      /\ UNCHANGED <<domain, sheet, work, log, events>>
  BY DEF Show
<1>2. PageAddresses'
  BY <1>1, DraftsAddress DEF PageAddresses, Default
<1>3. SentIsOfKind'
  <2> SUFFICES ASSUME domain = "dr", NEW d \in Drafts(kind, mode), d.sent
               PROVE  \E k \in DOMAIN log : log[k].key = d.key /\ log[k].kind = kind
    BY <1>1 DEF SentIsOfKind
  <2>1. Sent(kind, d.key)
    BY DraftsAddress
  <2> QED BY <2>1 DEF Sent, RemindLogSummary, IInv, LogTruthful
<1>4. WorkShaped' /\ InputterIsNoAdmin' /\ LogShaped' /\ LogTruthful'
  BY <1>1 DEF IInv, WorkShaped, InputterIsNoAdmin, LogShaped, LogTruthful
<1> QED BY <1>2, <1>3, <1>4 DEF IInv

LEMMA SendStep ==
    ASSUME IInv, NEW draft \in page.drafts, NEW to, NEW greets, NEW ok,
           SendDM(draft, to, greets, ok),
           domain = "dr" => greets = to.name
    PROVE  IInv'
<1>0. PICK entry : /\ log' = Append(log, entry)
                   /\ entry.greets = greets
                   /\ entry.to = to
                   /\ domain = "dr" => entry.column = entry.kind
  BY DEF SendDM, ApiRemindDM, ApiCapacityRemindDM, ApiEosRemindDM, LogRemind,
         LogCapacityRemind, LogEosRemind, Entry
<1>1. log' = Append(log, entry) /\ UNCHANGED <<domain, sheet, work, page>>
  BY <1>0 DEF SendDM, ApiRemindDM, ApiCapacityRemindDM, ApiEosRemindDM, Post
<1>2. /\ entry.greets = greets
      /\ entry.to = to
      /\ domain = "dr" => entry.column = entry.kind
  BY <1>0
<1>3. /\ LogShaped'
      /\ \A k \in DOMAIN log : k \in DOMAIN log' /\ log'[k] = log[k]
      /\ \A k \in DOMAIN log' : k \in DOMAIN log \/ log'[k] = entry
  BY <1>1, LogGrows DEF IInv
<1>4. LogTruthful'
  BY <1>1, <1>2, <1>3 DEF IInv, LogTruthful
<1>5. SentIsOfKind'
  BY <1>1, <1>3 DEF IInv, SentIsOfKind
<1>6. WorkShaped' /\ InputterIsNoAdmin' /\ PageAddresses'
  BY <1>1 DEF IInv, WorkShaped, InputterIsNoAdmin, PageAddresses
<1> QED BY <1>3, <1>4, <1>5, <1>6 DEF IInv

LEMMA StepHolds == IInv /\ [Next]_vars => IInv'
<1> SUFFICES ASSUME IInv, [Next]_vars PROVE IInv'
  OBVIOUS
<1>1. ASSUME NEW i \in Items, NEW name \in Editors, NEW sched \in Schedules \ {"past"},
             Enter(i, name, sched)
      PROVE  IInv'
  <2> DEFINE entry == [work[i] EXCEPT !.sched = sched, !.by = name,
                                      !.last = IF name \in Admins THEN @ ELSE name]
  <2>1. work' = [work EXCEPT ![i] = entry]
    BY <1>1 DEF Enter
  <2>2. work[i] \in Entries
    BY DEF IInv, WorkShaped
  <2>3. /\ entry \in Entries
        /\ entry.last = (IF name \in Admins THEN work[i].last ELSE name)
    BY <2>2 DEF Entries
  <2> HIDE DEF entry
  <2>4. WorkShaped'
    BY <2>1, <2>3 DEF IInv, WorkShaped
  <2>5. InputterIsNoAdmin'
    BY <2>1, <2>3 DEF IInv, WorkShaped, InputterIsNoAdmin
  <2> QED BY <1>1, <2>4, <2>5, WorkStep DEF Enter
<1>2. ASSUME NEW i \in Items, Ages(i) PROVE IInv'
  <2>0. PICK sched \in Schedules : work' = [work EXCEPT ![i].sched = sched]
    BY <1>2 DEF Ages, Schedules
  <2>1. WorkShaped' /\ InputterIsNoAdmin'
    BY <2>0 DEF IInv, WorkShaped, InputterIsNoAdmin, Entries
  <2> QED BY <1>2, <2>1, WorkStep DEF Ages
<1>3. ASSUME NEW i \in Items, NEW requester \in Requesters, TicketMatched(i, requester)
      PROVE  IInv'
  <2>1. WorkShaped' /\ InputterIsNoAdmin'
    BY <1>3 DEF TicketMatched, IInv, WorkShaped, InputterIsNoAdmin, Entries
  <2> QED BY <1>3, <2>1, WorkStep DEF TicketMatched
<1>4. ASSUME NEW i \in Items, Answer(i) \/ Complete(i) PROVE IInv'
  <2>1. WorkShaped' /\ InputterIsNoAdmin'
    BY <1>4 DEF Answer, Complete, IInv, WorkShaped, InputterIsNoAdmin, Entries
  <2> QED BY <1>4, <2>1, WorkStep DEF Answer, Complete
<1>5. ASSUME NEW kind \in Kinds,
             \/ \E mode \in Tabs : OpenDr(kind, mode)
             \/ OpenCapacity(kind)
             \/ OpenEos(kind)
      PROVE  IInv'
  BY <1>5, OpenStep DEF OpenDr, OpenCapacity, OpenEos
<1>6. ASSUME NEW draft \in page.drafts, NEW ok \in BOOLEAN, Send(draft, ok)
      PROVE  IInv'
  <2>1. domain = "dr" => draft.owner.name = Default(draft).name
    BY DEF IInv, PageAddresses
  <2> QED BY <1>6, <2>1, SendStep DEF Send
<1>7. ASSUME NEW draft \in page.drafts, NEW ok \in BOOLEAN, NEW to \in draft.offered,
             SendTo(draft, to, ok)
      PROVE  IInv'
  BY <1>7, SendStep DEF SendTo
<1>8. CASE UNCHANGED vars
  BY <1>8, WorkStep DEF vars, IInv, WorkShaped, InputterIsNoAdmin
<1> QED BY <1>1, <1>2, <1>3, <1>4, <1>5, <1>6, <1>7, <1>8 DEF Next

\* The inductive invariant holds throughout.
THEOREM RemindInvariant == Spec => []IInv
<1> QED BY InitHolds, StepHolds, PTL DEF Spec

\* In DR no message greets one person and goes to another: what is selected by
\* default in a draft is the person it is made for.
THEOREM MessagesGreetRecipient == Spec => []GreetsRecipient
<1>1. IInv => GreetsRecipient
  BY DEF IInv, LogTruthful, GreetsRecipient
<1> QED BY <1>1, RemindInvariant, PTL

\* In DR what the page shows as sent has been tried, with that kind.
THEOREM SentMarksAreOfKind == Spec => []SentIsOfKind
<1>1. IInv => SentIsOfKind
  BY DEF IInv
<1> QED BY <1>1, RemindInvariant, PTL

\* Who entered the date of an upcoming task is addressed, and nobody else.
THEOREM InputterIsAddressed == Spec => []InputterIsTold
<1>1. IInv => InputterIsTold
  <2> SUFFICES ASSUME IInv, NEW mode \in Tabs, NEW i \in Items,
                      NEW d \in Drafts("upcoming", mode), i \in d.items,
                      work[i].sched # "none", work[i].last # NoOne
               PROVE  LET drafts == {e \in Drafts("upcoming", mode) : i \in e.items}
                      IN  \E e \in drafts : drafts = {e} /\ Default(e).name = work[i].last
    BY DEF InputterIsTold
  <2>a. PICK name : name = work[i].last
    OBVIOUS
  <2>b. PICK group : group = InputterGroupOf(mode, name)
    OBVIOUS
  <2>c. PICK owner : owner = [name |-> name, team |-> TeamOfInputter(name, group)]
    OBVIOUS
  <2>d. PICK only : only = DraftOf("upcoming", name, group, owner)
    OBVIOUS
  <2>1. InputterOf(i) = name /\ name # NoOne
    BY <2>a DEF InputterOf, IInv, InputterIsNoAdmin
  <2>2. ASSUME NEW e \in Drafts("upcoming", mode), i \in e.items PROVE e = only
    <3>1. CASE e \in GroupDrafts("upcoming", mode)
      <4>1. PICK key :
               \/ e = DraftOf("upcoming", key, GroupOf("upcoming", mode, key),
                              Representative(GroupOf("upcoming", mode, key)))
               \/ e = PlainDraft("upcoming", key, GroupOf("upcoming", mode, key),
                                 Representative(GroupOf("upcoming", mode, key)))
        BY <3>1 DEF GroupDrafts
      <4>2. e.items = Merged(GroupOf("upcoming", mode, key))
        <5> DEFINE of == GroupOf("upcoming", mode, key)
                   rep == Representative(of)
        <5>1. of \subseteq Items
          BY DEF GroupOf
        <5> HIDE DEF of, rep
        <5>2. PlainDraft("upcoming", key, of, rep).items = Merged(of)
          BY DEF PlainDraft, Card
        <5>3. DraftOf("upcoming", key, of, rep).items = Merged(of)
          BY <5>1, UpcomingAddresses
        <5>4. \/ e = DraftOf("upcoming", key, of, rep)
              \/ e = PlainDraft("upcoming", key, of, rep)
          BY <4>1 DEF of, rep
        <5>5. e.items = Merged(of)
          BY <5>2, <5>3, <5>4
        <5> QED BY <5>5 DEF of
      <4>3. InputterOf(i) = NoOne
        BY <2>2, <4>2 DEF Merged, GroupOf
      <4> QED BY <2>1, <4>3
    <3>2. CASE e \in InputterDrafts(mode)
      <4>1. PICK who : e = DraftOf("upcoming", who, InputterGroupOf(mode, who),
                             [name |-> who, team |-> TeamOfInputter(who, InputterGroupOf(mode, who))])
        BY <3>2 DEF InputterDrafts
      <4>2. e.items = Merged(InputterGroupOf(mode, who))
        BY <4>1 DEF DraftOf, Card
      <4>3. InputterOf(i) = who
        BY <2>2, <4>2 DEF Merged, InputterGroupOf
      <4> QED BY <2>1, <2>b, <2>c, <2>d, <4>1, <4>3
    <3> QED BY <3>1, <3>2 DEF Drafts
  <2>3. group \subseteq Items /\ owner.name = name
    BY <2>b, <2>c DEF InputterGroupOf
  <2>4. Default(only).name = name
    BY <2>3, <2>c, <2>d, InputterAddressed
  <2>5. d = only
    BY <2>2
  <2>6. {e \in Drafts("upcoming", mode) : i \in e.items} = {d}
    BY <2>2, <2>5
  <2> QED BY <2>a, <2>4, <2>5, <2>6
<1> QED BY <1>1, RemindInvariant, PTL

-----------------------------------------------------------------------------
\* A draft of a kind other than upcoming is made for a group, of the items of
\* that group that stay in.
LEMMA GroupDraftItems ==
    ASSUME NEW kind, kind # "upcoming", NEW mode, NEW d \in Drafts(kind, mode)
    PROVE  \E key \in Keys :
              /\ d = DraftFor(kind, mode, key)
              /\ d.items = Merged(GroupOf(kind, mode, key))
<1>1. PICK key \in Keys : d = DraftFor(kind, mode, key)
  BY DEF Drafts, GroupDrafts, DraftFor
<1> DEFINE of == GroupOf(kind, mode, key)
           rep == Representative(of)
<1>2. of \subseteq Items
  BY DEF GroupOf
<1>3. d \in {DraftOf(kind, key, of, rep), PlainDraft(kind, key, of, rep)}
  BY <1>1 DEF DraftFor
<1> HIDE DEF of, rep
<1>4. PlainDraft(kind, key, of, rep).items = Merged(of)
  BY DEF PlainDraft, Card
<1>5. DraftOf(kind, key, of, rep).items = Merged(of)
  BY <1>2, DraftAddresses
<1>6. d.items = Merged(of)
  BY <1>3, <1>4, <1>5
<1> QED BY <1>1, <1>6 DEF of

\* A group that has items has a draft.
LEMMA GroupHasDraft ==
    ASSUME NEW kind, kind # "upcoming", NEW mode, NEW key \in Keys,
           GroupOf(kind, mode, key) # {}
    PROVE  /\ DraftFor(kind, mode, key) \in Drafts(kind, mode)
           /\ DraftFor(kind, mode, key).items = Merged(GroupOf(kind, mode, key))
<1> DEFINE of == GroupOf(kind, mode, key)
           rep == Representative(of)
<1>1. DraftFor(kind, mode, key) \in Drafts(kind, mode)
  BY DEF Drafts, GroupDrafts, DraftFor
<1>2. of \subseteq Items
  BY DEF GroupOf
<1>3. DraftFor(kind, mode, key)
         \in {DraftOf(kind, key, of, rep), PlainDraft(kind, key, of, rep)}
  BY DEF DraftFor
<1> HIDE DEF of, rep
<1>4. PlainDraft(kind, key, of, rep).items = Merged(of)
  BY DEF PlainDraft, Card
<1>5. DraftOf(kind, key, of, rep).items = Merged(of)
  BY <1>2, DraftAddresses
<1>6. DraftFor(kind, mode, key).items = Merged(of)
  BY <1>3, <1>4, <1>5
<1> QED BY <1>1, <1>6 DEF of

\* Of the rows of a server in a group one stays in.
LEMMA ServerStays ==
    ASSUME NEW group, group \subseteq Items, NEW i \in group
    PROVE  \E j \in Merged(group) : sheet[j].server = sheet[i].server
<1> DEFINE rows == {j \in group : sheet[j].server = sheet[i].server}
           first == Min(rows)
<1>1. rows \subseteq Nat /\ rows # {}
  <2>1. Items \subseteq Nat
    BY RemindAssumption DEF Items
  <2>2. i \in rows
    OBVIOUS
  <2> QED BY <2>1, <2>2
<1>2. first \in rows /\ \A j \in rows : first <= j
  BY <1>1, MinIsLeast
<1> HIDE DEF first
<1>3. first \in Merged(group)
  BY <1>2 DEF Merged
<1> QED BY <1>2, <1>3

\* An item without a plan is asked for in one draft at most, and in none only if
\* another row of its server stands for it, in capacity.
THEOREM PendingAskedOnce == Spec => []PendingIsAskedOnce
<1>1. PendingIsAskedOnce
  <2>1. SUFFICES ASSUME NEW i \in Items, Replied(i), ~Planned(i), sheet[i].owners # <<>>
        PROVE  LET all == Drafts("blank", "all") \cup Drafts("hinted", "all")
                   drafts == {d \in all : i \in d.items}
                   server == {d \in all :
                                 \E j \in d.items : sheet[j].server = sheet[i].server}
               IN  /\ Cardinality(drafts) <= 1
                   /\ drafts = {} => domain = "capacity" /\ server # {}
    BY DEF PendingIsAskedOnce
  <2> DEFINE all == Drafts("blank", "all") \cup Drafts("hinted", "all")
             drafts == {d \in all : i \in d.items}
             kind == IF Hinted(i) THEN "hinted" ELSE "blank"
             key == sheet[i].group
             group == GroupOf(kind, "all", key)
             only == DraftFor(kind, "all", key)
  <2>2. ASSUME NEW d \in drafts PROVE d = only
    <3>1. PICK k \in {"blank", "hinted"} : d \in Drafts(k, "all")
      OBVIOUS
    <3>2. PICK g \in Keys : /\ d = DraftFor(k, "all", g)
                            /\ d.items = Merged(GroupOf(k, "all", g))
      BY <3>1, GroupDraftItems
    <3>3. i \in GroupOf(k, "all", g)
      BY <2>2, <3>2 DEF Merged
    <3>4. About(i, k) /\ g = key
      BY <3>3 DEF GroupOf
    <3>5. k = kind
      BY <3>1, <3>4 DEF About
    <3> QED BY <3>2, <3>4, <3>5
  <2>3. Cardinality(drafts) <= 1
    <3>1. drafts = {} \/ drafts = {only}
      BY <2>2
    <3> HIDE DEF drafts, only
    <3>2. Cardinality({}) = 0 /\ Cardinality({only}) = 1
      BY FS_EmptySet, FS_Singleton
    <3> QED BY <3>1, <3>2
  <2>4. i \in group /\ group \subseteq Items /\ key \in Keys /\ kind # "upcoming"
    BY <2>1 DEF GroupOf, About, InTab, Keys
  <2> HIDE DEF kind, key
  <2>5. only \in all /\ only.items = Merged(group)
    <3>1. only \in Drafts(kind, "all") /\ only.items = Merged(group)
      BY <2>4, GroupHasDraft
    <3>2. kind \in {"blank", "hinted"}
      BY DEF kind
    <3> QED BY <3>1, <3>2
  <2>6. domain # "capacity" => i \in Merged(group)
    BY <2>4 DEF Merged
  <2>7. \E j \in Merged(group) : sheet[j].server = sheet[i].server
    BY <2>4, ServerStays
  <2> HIDE DEF group, only
  <2> QED BY <2>3, <2>5, <2>6, <2>7
<1> QED BY <1>1, PTL

-----------------------------------------------------------------------------
(***************************************************************************)
(* Progress reports.                                                       *)
(***************************************************************************)

USE DEF Counts

\* The last of a sequence, and a sequence with one more.
LEMMA LastOf ==
    ASSUME NEW T, NEW q \in Seq(T), q # <<>>
    PROVE  Last(q) \in Range(q) /\ Last(q) = q[Len(q)] /\ Len(q) \in DOMAIN q
BY DEF Last, Range

LEMMA RangeAppend ==
    ASSUME NEW q \in Seq(1 .. MaxReports), NEW x \in 1 .. MaxReports
    PROVE  /\ Append(q, x) \in Seq(1 .. MaxReports)
           /\ Range(Append(q, x)) = Range(q) \cup {x}
<1>1. Append(q, x) \in Seq(1 .. MaxReports) /\ Len(Append(q, x)) = Len(q) + 1
  OBVIOUS
<1>2. \A i \in DOMAIN Append(q, x) : Append(q, x)[i] = IF i = Len(q) + 1 THEN x ELSE q[i]
  OBVIOUS
<1>3. DOMAIN Append(q, x) = DOMAIN q \cup {Len(q) + 1}
  OBVIOUS
<1> QED
  BY <1>1, <1>2, <1>3 DEF Range

\* What a report holds.
LEMMA ReportTyped ==
    ASSUME TypeOK, NEW r \in DOMAIN reports
    PROVE  /\ r \in 1 .. MaxReports /\ r \in 1 .. Len(reports)
           /\ reports[r] \in Report
           /\ reports[r].done \in Counts /\ reports[r].real \in Counts
           /\ reports[r].warned \in [DomainSet -> SUBSET Issue]
<1>1. reports[r] \in Report /\ r \in 1 .. Len(reports) /\ Len(reports) <= MaxReports
  BY DEF TypeOK
<1>2. r \in 1 .. MaxReports
  BY <1>1, ReportAssumption DEF TypeOK
<1> QED
  BY <1>1, <1>2 DEF Report

\* The domain a sender is at.
LEMMA JobTyped ==
    ASSUME TypeOK, NEW s \in Senders, job[s].at # "idle"
    PROVE  /\ job[s] \in Job /\ job[s] # Idle
           /\ job[s].id \in DOMAIN reports
           /\ job[s].k \in 1 .. Len(ReportDomains) /\ Len(ReportDomains) \in Nat
           /\ ReportDomains[job[s].k] \in DomainSet
<1>1. job[s] \in Job /\ job[s] # Idle
  BY DEF TypeOK, Idle
<1>2. job[s].k \in 1 .. Len(ReportDomains) /\ Len(ReportDomains) \in Nat
  BY <1>1, ReportAssumption DEF Job
<1> QED
  BY <1>1, <1>2, ReportAssumption DEF TypeOK

\* A sender is idle exactly when it is at "idle".
LEMMA BusyTyped ==
    ASSUME TypeOK, NEW s \in Senders
    PROVE  job[s] = Idle <=> job[s].at = "idle"
<1>1. Idle.at = "idle"
  BY DEF Idle
<1>2. \A j \in Job : j.at # "idle"
  BY DEF Job
<1> QED
  BY <1>1, <1>2 DEF TypeOK

-----------------------------------------------------------------------------
\* The types at the start, and after each step.
LEMMA SendInitTyped == SendInit => TypeOK
<1> SUFFICES ASSUME SendInit PROVE TypeOK
  OBVIOUS
<1>1. done \in Counts
  BY ReportAssumption DEF SendInit
<1>2. reports \in Seq(Report) /\ Len(reports) <= MaxReports
  BY ReportAssumption DEF SendInit
<1>3. snapshots \in [DomainSet -> Seq(1 .. MaxReports)]
  BY DEF SendInit
<1>4. \A d \in DomainSet : Range(snapshots[d]) \subseteq DOMAIN reports
  BY DEF SendInit, Range
<1> QED
  BY <1>1, <1>2, <1>3, <1>4 DEF SendInit, TypeOK

LEMMA FoundTyped ==
    ASSUME NEW s
    PROVE  Found(s) \in SUBSET Issue
BY DEF Found, FirstIssues, Issues

\* The sender goes on to the next domain, or to the next step.
LEMMA NextDomainTyped ==
    ASSUME TypeOK, NEW s \in Senders, job[s].at # "idle",
           NEW then \in Job \cup {Idle}, then = Idle \/ then.id = job[s].id,
           NextDomain(s, then)
    PROVE  /\ job' \in [Senders -> Job \cup {Idle}]
           /\ \A t \in Senders \ {s} : job'[t] = job[t]
           /\ job[s].k < Len(ReportDomains)
              => /\ job'[s].at = job[s].at /\ job'[s].id = job[s].id
                 /\ job'[s].k = job[s].k + 1
           /\ job[s].k = Len(ReportDomains) => job'[s] = then
           /\ job'[s] = Idle \/ job'[s].id = job[s].id
<1>1. job[s] \in Job /\ job[s].k \in 1 .. Len(ReportDomains) /\ Len(ReportDomains) \in Nat
  BY JobTyped
<1>2. CASE job[s].k < Len(ReportDomains)
  <2>1. job[s].k + 1 \in DOMAIN ReportDomains
    BY <1>1, <1>2, ReportAssumption
  <2>2. [job[s] EXCEPT !.k = job[s].k + 1] \in Job
    BY <1>1, <2>1 DEF Job
  <2>3. job' = [job EXCEPT ![s] = [job[s] EXCEPT !.k = job[s].k + 1]]
    BY <1>2 DEF NextDomain, TypeOK
  <2>4. job'[s] = [job[s] EXCEPT !.k = job[s].k + 1]
    BY <2>3 DEF TypeOK
  <2>5. /\ job'[s].at = job[s].at /\ job'[s].id = job[s].id
        /\ job'[s].k = job[s].k + 1
    BY <1>1, <2>4 DEF Job
  <2> QED
    BY <1>1, <1>2, <2>2, <2>3, <2>5 DEF TypeOK
<1>3. CASE job[s].k = Len(ReportDomains)
  <2>1. ~(job[s].k < Len(ReportDomains))
    BY <1>1, <1>3
  <2>2. job' = [job EXCEPT ![s] = then]
    BY <2>1 DEF NextDomain
  <2>3. job'[s] = then /\ \A t \in Senders \ {s} : job'[t] = job[t]
    BY <2>2 DEF TypeOK
  <2>4. job' \in [Senders -> Job \cup {Idle}]
    BY <2>2 DEF TypeOK
  <2> QED
    BY <2>1, <2>3, <2>4
<1> QED
  BY <1>1, <1>2, <1>3

\* A report is checked: its warnings for the domain at hand are what is found.
LEMMA CheckReports ==
    ASSUME TypeOK, NEW s \in Senders, Check(s)
    PROVE  LET id == job[s].id
               d == ReportDomains[job[s].k]
           IN  /\ job[s].at = "check" /\ job[s].at # "idle"
               /\ id \in DOMAIN reports /\ d \in DomainSet
               /\ reports' \in Seq(Report) /\ Len(reports') = Len(reports)
               /\ DOMAIN reports' = DOMAIN reports
               /\ \A r \in DOMAIN reports :
                     /\ reports'[r].done = reports[r].done
                     /\ reports'[r].real = reports[r].real
                     /\ \A e \in DomainSet :
                           reports'[r].warned[e] =
                               IF r = id /\ e = d THEN Found(s) ELSE reports[r].warned[e]
<1> DEFINE id == job[s].id
           d == ReportDomains[job[s].k]
           new == [reports[id] EXCEPT !.warned[d] = Found(s)]
<1>1. job[s].at = "check" /\ job[s].at # "idle"
  BY DEF Check, At
<1>2. id \in DOMAIN reports /\ d \in DomainSet
  BY <1>1, JobTyped
<1>3. reports' = [reports EXCEPT ![id] = new]
  BY DEF Check
<1>4. /\ reports[id] \in Report /\ reports[id].warned \in [DomainSet -> SUBSET Issue]
      /\ Found(s) \in SUBSET Issue
  BY <1>2, ReportTyped, FoundTyped
<1> HIDE DEF id, d
<1>5. /\ new = [reports[id] EXCEPT !.warned = [reports[id].warned EXCEPT ![d] = Found(s)]]
      /\ [reports[id].warned EXCEPT ![d] = Found(s)] \in [DomainSet -> SUBSET Issue]
  BY <1>2, <1>4 DEF Report
<1>6. /\ new \in Report /\ new.done = reports[id].done /\ new.real = reports[id].real
      /\ new.warned = [reports[id].warned EXCEPT ![d] = Found(s)]
  BY <1>2, <1>4, <1>5 DEF Report
<1> HIDE DEF new
<1>7. /\ reports' \in Seq(Report) /\ Len(reports') = Len(reports)
      /\ DOMAIN reports' = DOMAIN reports
  BY <1>2, <1>3, <1>6 DEF TypeOK
<1>8. \A r \in DOMAIN reports : reports'[r] = IF r = id THEN new ELSE reports[r]
  BY <1>2, <1>3 DEF TypeOK
<1>9. \A r \in DOMAIN reports :
          /\ reports'[r].done = reports[r].done
          /\ reports'[r].real = reports[r].real
          /\ \A e \in DomainSet :
                reports'[r].warned[e] =
                    IF r = id /\ e = d THEN Found(s) ELSE reports[r].warned[e]
  BY <1>2, <1>4, <1>6, <1>8
<1> QED
  BY <1>1, <1>2, <1>7, <1>9 DEF id, d

\* A check, and what comes after it, keep the types.
LEMMA CheckTyped ==
    ASSUME TypeOK, NEW s \in Senders, Check(s)
    PROVE  TypeOK'
<1> DEFINE then == [job[s] EXCEPT !.at = "post", !.k = 1]
<1>1. job[s].at # "idle"
  BY CheckReports
<1>2. then \in Job /\ then.id = job[s].id
  <2>1. job[s] \in Job /\ 1 \in DOMAIN ReportDomains
    BY <1>1, JobTyped, ReportAssumption
  <2> QED
    BY <2>1 DEF Job
<1>3. NextDomain(s, then)
  BY DEF Check
<1> HIDE DEF then
<1>4. /\ job' \in [Senders -> Job \cup {Idle}]
      /\ \A t \in Senders :
            \/ job'[t] \in {Idle, job[t]}
            \/ job'[t].id = job[t].id /\ job[t] # Idle
  BY <1>1, <1>2, <1>3, NextDomainTyped, BusyTyped
<1>5. \A t \in Senders : job'[t] = Idle \/ job'[t].id \in DOMAIN reports'
  BY <1>4, CheckReports DEF TypeOK
<1> QED
  BY <1>4, <1>5, CheckReports DEF Check, TypeOK

LEMMA RestOfSend ==
    ASSUME TypeOK, NEW s \in Senders,
           PostReport(s) \/ Remember(s) \/ Record(s) \/ Raises(s)
    PROVE  /\ job[s].at # "idle" /\ job[s].id \in DOMAIN reports
           /\ job' \in [Senders -> Job \cup {Idle}]
           /\ \A t \in Senders \ {s} : job'[t] = job[t]
           /\ job'[s] = Idle \/ job'[s].id = job[s].id
           /\ UNCHANGED <<done, reports>>
<1>1. ASSUME NEW step \in {"remember", "record"}, Go(s, step), job[s].at # "idle"
      PROVE  /\ job' \in [Senders -> Job \cup {Idle}]
             /\ \A t \in Senders \ {s} : job'[t] = job[t]
             /\ job'[s].id = job[s].id
  <2>1. job[s] \in Job
    BY <1>1, JobTyped
  <2>2. [job[s] EXCEPT !.at = step] \in Job /\ [job[s] EXCEPT !.at = step].id = job[s].id
    BY <2>1 DEF Job
  <2>3. job' = [job EXCEPT ![s] = [job[s] EXCEPT !.at = step]]
    BY <1>1 DEF Go
  <2> QED
    BY <2>2, <2>3 DEF TypeOK
<1>2. CASE PostReport(s)
  <2>1. job[s].at # "idle" /\ Go(s, "remember") /\ UNCHANGED <<done, reports>>
    BY <1>2 DEF PostReport, At
  <2> QED
    BY <1>1, <2>1, JobTyped
<1>3. CASE Remember(s)
  <2>1. job[s].at # "idle" /\ Go(s, "record") /\ UNCHANGED <<done, reports>>
    BY <1>3 DEF Remember, At
  <2> QED
    BY <1>1, <2>1, JobTyped
<1>4. CASE Record(s)
  <2>1. job[s].at # "idle" /\ NextDomain(s, Idle) /\ UNCHANGED <<done, reports>>
    BY <1>4 DEF Record, At
  <2> QED
    BY <2>1, JobTyped, NextDomainTyped
<1>5. CASE Raises(s)
  <2>1. job[s].at # "idle" /\ job' = [job EXCEPT ![s] = Idle] /\ UNCHANGED <<done, reports>>
    BY <1>5 DEF Raises, At
  <2> QED
    BY <2>1, JobTyped DEF TypeOK
<1> QED
  BY <1>2, <1>3, <1>4, <1>5

\* What is kept of a report that is sent: its number.
LEMMA SentKept ==
    ASSUME TypeOK, NEW s \in Senders,
           PostReport(s) \/ Remember(s) \/ Record(s) \/ Raises(s)
    PROVE  /\ channel' \subseteq channel \cup {job[s].id}
           /\ snapshots' \in [DomainSet -> Seq(1 .. MaxReports)]
           /\ \A d \in DomainSet :
                 Range(snapshots'[d]) \subseteq Range(snapshots[d]) \cup {job[s].id}
           /\ last' \in {last, job[s].id} /\ cut' \subseteq cut \cup {job[s].id}
           /\ beside' = beside
<1>1. job[s].id \in 1 .. MaxReports /\ job[s].at # "idle"
  BY RestOfSend, ReportTyped
<1>2. CASE PostReport(s)
  <2>1. /\ channel' = channel \cup {job[s].id} \/ channel' = channel
        /\ UNCHANGED <<snapshots, last, cut, beside>>
    BY <1>2 DEF PostReport
  <2> QED
    BY <2>1 DEF TypeOK
<1>3. CASE Remember(s)
  <2>1. UNCHANGED <<channel, snapshots, cut, beside>> /\ last' = job[s].id
    BY <1>3 DEF Remember
  <2> QED
    BY <2>1 DEF TypeOK
<1>4. CASE Record(s)
  <2>1. ReportDomains[job[s].k] \in DomainSet
    BY <1>1, JobTyped
  <2>2. \A d \in DomainSet :
           /\ Append(snapshots[d], job[s].id) \in Seq(1 .. MaxReports)
           /\ Range(Append(snapshots[d], job[s].id)) = Range(snapshots[d]) \cup {job[s].id}
    BY <1>1, RangeAppend DEF TypeOK
  <2>3. \A d \in DomainSet :
           snapshots'[d] = IF d = ReportDomains[job[s].k]
                           THEN Append(snapshots[d], job[s].id) ELSE snapshots[d]
    BY <1>4, <2>1 DEF Record, TypeOK
  <2>4. snapshots' \in [DomainSet -> Seq(1 .. MaxReports)]
    BY <1>4, <2>1, <2>2 DEF Record, TypeOK
  <2>5. UNCHANGED <<channel, last, cut, beside>>
    BY <1>4 DEF Record
  <2>6. \A d \in DomainSet :
           Range(snapshots'[d]) \subseteq Range(snapshots[d]) \cup {job[s].id}
    BY <2>2, <2>3
  <2> QED
    BY <2>4, <2>5, <2>6 DEF TypeOK
<1>5. CASE Raises(s)
  BY <1>5 DEF Raises, TypeOK
<1> QED
  BY <1>2, <1>3, <1>4, <1>5

\* A report is built: the earlier ones stay as they are.
LEMMA CollectReports ==
    ASSUME TypeOK, NEW s \in Senders, NEW counts \in Counts, Collect(s, counts)
    PROVE  LET id == Len(reports) + 1
           IN  /\ reports' \in Seq(Report) /\ Len(reports') = id /\ id <= MaxReports
               /\ DOMAIN reports' = DOMAIN reports \cup {id} /\ id \in DOMAIN reports'
               /\ \A r \in DOMAIN reports : reports'[r] = reports[r]
               /\ reports'[id].done = counts
               /\ reports'[id].real = done
               /\ reports'[id].warned = [d \in DomainSet |-> {}]
               /\ job' \in [Senders -> Job \cup {Idle}]
               /\ \A t \in Senders \ {s} : job'[t] = job[t]
               /\ job'[s].at = "check" /\ job'[s].id = id /\ job'[s].k = 1
<1> DEFINE id == Len(reports) + 1
           new == [done |-> counts, real |-> done, warned |-> [d \in DomainSet |-> {}]]
           j == [at |-> "check", id |-> id, k |-> 1]
<1>1. new \in Report
  BY DEF Report, TypeOK
<1>2. reports \in Seq(Report) /\ Len(reports) \in Nat /\ Len(reports) < MaxReports
  BY DEF Collect, TypeOK
<1>3. reports' = Append(reports, new)
  BY DEF Collect
<1>4. /\ new.done = counts /\ new.warned = [d \in DomainSet |-> {}]
      /\ new.real = done
  OBVIOUS
<1> HIDE DEF new
<1>5. /\ reports' \in Seq(Report) /\ Len(reports') = id /\ id <= MaxReports
      /\ DOMAIN reports' = DOMAIN reports \cup {id} /\ id \in DOMAIN reports'
      /\ \A r \in DOMAIN reports : reports'[r] = reports[r]
      /\ reports'[id] = new
  BY <1>1, <1>2, <1>3, ReportAssumption
<1>6. j \in Job
  BY <1>2, ReportAssumption DEF Job
<1>7. job' = [job EXCEPT ![s] = j]
  BY DEF Collect
<1>8. /\ job' \in [Senders -> Job \cup {Idle}]
      /\ \A t \in Senders \ {s} : job'[t] = job[t]
      /\ job'[s] = j
  BY <1>6, <1>7 DEF TypeOK
<1> QED
  BY <1>4, <1>5, <1>8

LEMMA SendNextTyped == TypeOK /\ [SendNext]_sendVars => TypeOK'
<1> SUFFICES ASSUME TypeOK, [SendNext]_sendVars PROVE TypeOK'
  OBVIOUS
<1>1. ASSUME NEW d \in DomainSet, Progress(d) \/ Setback(d) PROVE TypeOK'
  <2>1. done[d] \in 0 .. Total /\ Total \in Nat
    BY ReportAssumption DEF TypeOK
  <2>2. \E n \in 0 .. Total : done' = [done EXCEPT ![d] = n]
    <3>1. CASE Progress(d)
      <4>1. done[d] + 1 \in 0 .. Total
        BY <2>1, <3>1 DEF Progress
      <4> QED
        BY <3>1, <4>1 DEF Progress
    <3>2. CASE Setback(d)
      <4>1. done[d] - 1 \in 0 .. Total
        BY <2>1, <3>2 DEF Setback
      <4> QED
        BY <3>2, <4>1 DEF Setback
    <3> QED
      BY <1>1, <3>1, <3>2
  <2>3. done' \in Counts
    BY <2>2 DEF TypeOK
  <2> QED
    BY <1>1, <2>3 DEF Progress, Setback, TypeOK
<1>2. ASSUME NEW s \in Senders, PostReport(s) \/ Remember(s) \/ Record(s) \/ Raises(s)
      PROVE  TypeOK'
  <2>1. job[s].id \in DOMAIN reports /\ UNCHANGED <<done, reports>>
    BY <1>2, RestOfSend
  <2>2. \A t \in Senders : job'[t] = Idle \/ job'[t].id \in DOMAIN reports'
    BY <1>2, <2>1, RestOfSend DEF TypeOK
  <2>3. \A d \in DomainSet : Range(snapshots'[d]) \subseteq DOMAIN reports'
    BY <1>2, <2>1, SentKept DEF TypeOK
  <2>4. last' \in DOMAIN reports' \cup {NoReport} /\ cut' \subseteq DOMAIN reports'
        /\ channel' \subseteq DOMAIN reports' /\ beside' = beside
    BY <1>2, <2>1, SentKept DEF TypeOK
  <2> QED
    BY <1>2, <2>1, <2>2, <2>3, <2>4, RestOfSend, SentKept DEF TypeOK
<1>3. ASSUME NEW s \in Senders, NEW counts \in Counts, Collect(s, counts) PROVE TypeOK'
  <2>1. UNCHANGED <<done, snapshots, channel, last, cut>>
    BY <1>3 DEF Collect
  <2>2. /\ DOMAIN reports \subseteq DOMAIN reports'
        /\ reports' \in Seq(Report) /\ Len(reports') <= MaxReports
    <3>1. /\ reports' \in Seq(Report) /\ Len(reports') = Len(reports) + 1
          /\ Len(reports) + 1 <= MaxReports
          /\ DOMAIN reports' = DOMAIN reports \cup {Len(reports) + 1}
      BY <1>3, CollectReports
    <3> QED
      BY <3>1
  <2>3. \A t \in Senders : job'[t] = Idle \/ job'[t].id \in DOMAIN reports'
    <3>1. job'[s].id \in DOMAIN reports' /\ \A t \in Senders \ {s} : job'[t] = job[t]
      BY <1>3, CollectReports
    <3>2. \A t \in Senders : job[t] = Idle \/ job[t].id \in DOMAIN reports'
      BY <2>2 DEF TypeOK
    <3> QED
      BY <3>1, <3>2
  <2>4. beside' \subseteq SUBSET (1 .. MaxReports)
    <3>1. ASSUME NEW t \in Busy PROVE job[t].id \in 1 .. MaxReports
      <4>1. t \in Senders /\ job[t].at # "idle"
        BY BusyTyped DEF Busy
      <4>2. job[t].id \in DOMAIN reports
        BY <4>1, JobTyped
      <4> QED
        BY <4>2, ReportTyped
    <3>2. Len(reports) + 1 \in 1 .. MaxReports
      BY <1>3, ReportAssumption DEF Collect, TypeOK
    <3>3. beside' = beside \cup {{job[t].id, Len(reports) + 1} : t \in Busy}
      BY <1>3 DEF Collect
    <3>4. \A x, y \in 1 .. MaxReports : {x, y} \in SUBSET (1 .. MaxReports)
      OBVIOUS
    <3>5. \A t \in Busy : {job[t].id, Len(reports) + 1} \in SUBSET (1 .. MaxReports)
      BY <3>1, <3>2, <3>4
    <3>6. beside \subseteq SUBSET (1 .. MaxReports)
      BY DEF TypeOK
    <3>7. ASSUME NEW p \in beside' PROVE p \in SUBSET (1 .. MaxReports)
      <4>1. p \in beside \/ \E t \in Busy : p = {job[t].id, Len(reports) + 1}
        BY <3>3, <3>7
      <4>2. CASE p \in beside
        BY <3>6, <4>2
      <4>3. CASE \E t \in Busy : p = {job[t].id, Len(reports) + 1}
        <5> PICK t \in Busy : p = {job[t].id, Len(reports) + 1}
          BY <4>3
        <5> QED
          BY <3>5, Zenon
      <4> QED
        BY <4>1, <4>2, <4>3
    <3> QED
      BY <3>7
  <2>5. /\ done' \in Counts /\ snapshots' \in [DomainSet -> Seq(1 .. MaxReports)]
        /\ \A d \in DomainSet : Range(snapshots'[d]) \subseteq DOMAIN reports'
        /\ channel' \subseteq DOMAIN reports' /\ cut' \subseteq DOMAIN reports'
        /\ last' \in DOMAIN reports' \cup {NoReport}
    BY <2>1, <2>2 DEF TypeOK
  <2> QED
    BY <1>3, <2>2, <2>3, <2>4, <2>5, CollectReports DEF TypeOK
<1>4. CASE Crash
  <2>1. {job[s].id : s \in Busy} \subseteq DOMAIN reports
    BY DEF Busy, TypeOK
  <2> QED
    BY <1>4, <2>1 DEF Crash, TypeOK
<1>5. CASE UNCHANGED sendVars
  BY <1>5 DEF sendVars, TypeOK
<1> QED
  BY <1>1, <1>2, <1>3, <1>4, <1>5, CheckTyped, ReportAssumption DEF SendNext, Step

\* The variables keep their types, whoever sends.
THEOREM ReportTypes == SendSpec => []TypeOK
BY SendInitTyped, SendNextTyped, PTL DEF SendSpec

-----------------------------------------------------------------------------
\* What a source fails to tell is missing from the count.
Lower == \A r \in DOMAIN reports, d \in DomainSet : reports[r].done[d] <= reports[r].real[d]

\* A report collected after one that is on its way still was on its way
\* together with it.
Paired ==
    \A s \in Senders : job[s] # Idle =>
        \A y \in DOMAIN reports : y > job[s].id => {y, job[s].id} \in beside

\* No report has two senders.
OwnReports ==
    \A s, t \in Senders :
        (s # t /\ job[s] # Idle /\ job[t] # Idle) => job[s].id # job[t].id

Unrecorded ==
    \A s \in Senders : job[s].at \in {"check", "post", "remember"} =>
        \A d \in DomainSet : job[s].id \notin Range(snapshots[d])

\* Report r is warned of what it lost against the last snapshot of domain d, or
\* was on its way together with it.
WarnedOfDrop(r, d) ==
    LET prev == Last(snapshots[d])
    IN  (snapshots[d] # <<>> /\ reports[r].done[d] < reports[prev].done[d])
            => "drop" \in reports[r].warned[d] \/ {prev, r} \in beside

ComparedOf(s) ==
    /\ job[s].at \in {"post", "remember", "record"} =>
          \A d \in DomainSet : WarnedOfDrop(job[s].id, d)
    /\ job[s].at = "check" =>
          \A i \in 1 .. job[s].k - 1 : WarnedOfDrop(job[s].id, ReportDomains[i])

Compared == \A s \in Senders : ComparedOf(s)

SendInv ==
    /\ TypeOK
    /\ Lower
    /\ Paired
    /\ OwnReports
    /\ Unrecorded
    /\ Compared
    /\ DropsAreWarned
    /\ NoFalseAlarm

LEMMA SendBegins == SendInit => SendInv
<1> SUFFICES ASSUME SendInit PROVE SendInv
  OBVIOUS
<1>1. Lower /\ NoFalseAlarm
  BY DEF SendInit, Lower, NoFalseAlarm
<1>2. \A s \in Senders : job[s] = Idle /\ job[s].at = "idle"
  BY DEF SendInit, Idle
<1>3. Paired /\ OwnReports /\ Unrecorded /\ Compared
  BY <1>2 DEF Paired, OwnReports, Unrecorded, Compared, ComparedOf
<1>4. DropsAreWarned
  BY DEF SendInit, DropsAreWarned
<1> QED
  BY <1>1, <1>3, <1>4, SendInitTyped DEF SendInv

\* Where a sender is after its step.
LEMMA CheckMoves ==
    ASSUME TypeOK, NEW s \in Senders, Check(s)
    PROVE  /\ \A t \in Senders \ {s} : job'[t] = job[t]
           /\ job'[s].id = job[s].id /\ job'[s] # Idle
           /\ job[s].k \in 1 .. Len(ReportDomains) /\ Len(ReportDomains) \in Nat
           /\ \/ job'[s].at = "check" /\ job'[s].k = job[s].k + 1
              \/ job'[s].at = "post" /\ job[s].k = Len(ReportDomains)
<1> DEFINE then == [job[s] EXCEPT !.at = "post", !.k = 1]
<1>1. job[s].at = "check" /\ job[s].at # "idle"
  BY CheckReports
<1>2. job[s] \in Job /\ job[s].k \in 1 .. Len(ReportDomains) /\ Len(ReportDomains) \in Nat
  BY <1>1, JobTyped
<1>3. then \in Job /\ then.id = job[s].id /\ then.at = "post"
  <2>1. 1 \in DOMAIN ReportDomains
    BY ReportAssumption
  <2> QED
    BY <1>2, <2>1 DEF Job
<1>4. NextDomain(s, then)
  BY DEF Check
<1> HIDE DEF then
<1>5. /\ \A t \in Senders \ {s} : job'[t] = job[t]
      /\ job'[s].id = job[s].id
      /\ \/ job'[s].at = "check" /\ job'[s].k = job[s].k + 1
         \/ job'[s].at = "post" /\ job[s].k = Len(ReportDomains)
  <2>1. job[s].k < Len(ReportDomains) \/ job[s].k = Len(ReportDomains)
    BY <1>2
  <2> QED
    BY <1>1, <1>3, <1>4, <2>1, NextDomainTyped
<1>6. job'[s] # Idle
  BY <1>5 DEF Idle
<1> QED
  BY <1>2, <1>5, <1>6

LEMMA SendMoves ==
    ASSUME TypeOK, NEW s \in Senders
    PROVE  /\ PostReport(s) => job'[s].at = "remember" /\ job[s].at = "post"
           /\ Remember(s) => job'[s].at = "record"
           /\ Record(s) \/ Raises(s) => job'[s].at \in {"record", "idle"}
<1>1. ASSUME NEW step, Go(s, step), job[s].at # "idle" PROVE job'[s].at = step
  <2>1. job[s] \in Job
    BY <1>1, JobTyped
  <2>2. [job[s] EXCEPT !.at = step].at = step
    BY <2>1 DEF Job
  <2>3. job' = [job EXCEPT ![s] = [job[s] EXCEPT !.at = step]]
    BY <1>1 DEF Go
  <2> QED
    BY <2>2, <2>3 DEF TypeOK
<1>2. ASSUME PostReport(s) PROVE job'[s].at = "remember" /\ job[s].at = "post"
  <2>1. job[s].at = "post" /\ Go(s, "remember")
    BY <1>2 DEF PostReport, At
  <2> QED
    BY <1>1, <2>1
<1>3. ASSUME Remember(s) PROVE job'[s].at = "record"
  <2>1. job[s].at = "remember" /\ Go(s, "record")
    BY <1>3 DEF Remember, At
  <2> QED
    BY <1>1, <2>1
<1>4. Idle.at = "idle"
  BY DEF Idle
<1>5. ASSUME Record(s) PROVE job'[s].at \in {"record", "idle"}
  <2>1. job[s].at = "record" /\ NextDomain(s, Idle)
    BY <1>5 DEF Record, At
  <2>2. job[s].k \in 1 .. Len(ReportDomains) /\ Len(ReportDomains) \in Nat
    BY <2>1, JobTyped
  <2>3. job[s].k < Len(ReportDomains) \/ job[s].k = Len(ReportDomains)
    BY <2>2
  <2> QED
    BY <1>4, <2>1, <2>3, NextDomainTyped
<1>6. ASSUME Raises(s) PROVE job'[s].at \in {"record", "idle"}
  BY <1>4, <1>6 DEF Raises, TypeOK
<1> QED
  BY <1>2, <1>3, <1>5, <1>6

\* What neither sends nor collects moves no sender on.
LEMMA QuietMoves ==
    ASSUME TypeOK, (\E d \in Moving : Progress(d) \/ Setback(d)) \/ Crash \/ UNCHANGED sendVars
    PROVE  /\ UNCHANGED <<reports, snapshots, channel, beside>>
           /\ \A s \in Senders :
                 \/ job'[s] = job[s]
                 \/ job'[s] = Idle /\ job'[s].at = "idle"
BY DEF Progress, Setback, Crash, Idle, sendVars

\* A recorded report is one that was built.
LEMMA RecordedBuilt ==
    ASSUME TypeOK, NEW d \in DomainSet
    PROVE  /\ Range(snapshots[d]) \subseteq DOMAIN reports
           /\ snapshots[d] \in Seq(1 .. MaxReports)
           /\ \A q \in Range(snapshots[d]) : q \in Nat /\ q <= Len(reports)
<1>1. snapshots[d] \in Seq(1 .. MaxReports) /\ Range(snapshots[d]) \subseteq DOMAIN reports
  BY DEF TypeOK
<1>2. \A q \in DOMAIN reports : q \in Nat /\ q <= Len(reports)
  BY DEF TypeOK
<1> QED
  BY <1>1, <1>2

-----------------------------------------------------------------------------
\* While the counts, its warnings and the snapshots are what they were, a
\* report stays warned.
LEMMA WarnedStays ==
    ASSUME TypeOK, NEW r \in DOMAIN reports, NEW d \in DomainSet,
           \A q \in DOMAIN reports : reports'[q].done = reports[q].done,
           reports'[r].warned[d] = reports[r].warned[d],
           snapshots' = snapshots, beside \subseteq beside',
           WarnedOfDrop(r, d)
    PROVE  WarnedOfDrop(r, d)'
<1>1. snapshots[d] # <<>> => Last(snapshots[d]) \in DOMAIN reports
  BY RecordedBuilt, LastOf
<1> QED
  BY <1>1 DEF WarnedOfDrop

\* The same of all the reports that are recorded.
LEMMA RecordedStay ==
    ASSUME TypeOK, DropsAreWarned,
           \A q \in DOMAIN reports : reports'[q].done = reports[q].done,
           \A d \in DomainSet : \A q \in Range(snapshots[d]) :
               reports'[q].warned[d] = reports[q].warned[d],
           snapshots' = snapshots, beside \subseteq beside'
    PROVE  DropsAreWarned'
<1> SUFFICES ASSUME NEW d \in DomainSet, NEW i \in 2 .. Len(snapshots[d]),
                    reports'[snapshots[d][i]].done[d] < reports'[snapshots[d][i - 1]].done[d]
             PROVE  \/ "drop" \in reports'[snapshots[d][i]].warned[d]
                    \/ {snapshots[d][i - 1], snapshots[d][i]} \in beside'
  BY DEF DropsAreWarned
<1>1. snapshots[d][i - 1] \in Range(snapshots[d]) /\ snapshots[d][i] \in Range(snapshots[d])
  <2>1. snapshots[d] \in Seq(1 .. MaxReports)
    BY RecordedBuilt
  <2>2. i - 1 \in DOMAIN snapshots[d] /\ i \in DOMAIN snapshots[d]
    BY <2>1
  <2> QED
    BY <2>2 DEF Range
<1>2. snapshots[d][i - 1] \in DOMAIN reports /\ snapshots[d][i] \in DOMAIN reports
  BY <1>1, RecordedBuilt
<1> QED
  BY <1>1, <1>2 DEF DropsAreWarned

\* An alarm that was right stays right as reports are built and recorded.
LEMMA AlarmsStay ==
    ASSUME NEW r \in DOMAIN reports, NEW d \in DomainSet, TypeOK,
           \A q \in DOMAIN reports : reports'[q].real = reports[q].real,
           Range(snapshots[d]) \subseteq Range(snapshots'[d]),
           beside \subseteq beside', MoreBefore(r, d)
    PROVE  MoreBefore(r, d)'
<1>1. Range(snapshots[d]) \subseteq DOMAIN reports
  BY RecordedBuilt
<1> QED
  BY <1>1 DEF MoreBefore

\* A step that leaves reports, snapshots and pairs alone, and in which each
\* sender stays, ends, or goes from posting on to recording.
LEMMA SenderMoves ==
    ASSUME SendInv, TypeOK', UNCHANGED <<reports, snapshots, beside>>,
           \A s \in Senders :
              \/ job'[s] = job[s]
              \/ job'[s] = Idle /\ job'[s].at = "idle"
              \/ /\ job'[s].id = job[s].id /\ job[s] # Idle
                 /\ \/ job[s].at = "post" /\ job'[s].at = "remember"
                    \/ job[s].at = "remember" /\ job'[s].at = "record"
    PROVE  SendInv'
<1>1. Lower' /\ DropsAreWarned' /\ NoFalseAlarm'
  BY DEF SendInv, Lower, DropsAreWarned, NoFalseAlarm, MoreBefore
<1>2. Paired' /\ OwnReports'
  BY DEF SendInv, Paired, OwnReports
<1>3. Unrecorded'
  BY DEF SendInv, Unrecorded
<1>4. ASSUME NEW s \in Senders PROVE ComparedOf(s)'
  <2>1. ComparedOf(s)
    BY DEF SendInv, Compared
  <2>2. CASE job'[s] = job[s]
    BY <2>1, <2>2 DEF ComparedOf, WarnedOfDrop
  <2>3. CASE job'[s].at = "idle"
    BY <2>3 DEF ComparedOf
  <2>4. CASE /\ job'[s].id = job[s].id /\ job[s].at \in {"post", "remember"}
             /\ job'[s].at \in {"remember", "record"}
    BY <2>1, <2>4 DEF ComparedOf, WarnedOfDrop
  <2> QED
    BY <2>2, <2>3, <2>4
<1> QED
  BY <1>1, <1>2, <1>3, <1>4 DEF SendInv, Compared

-----------------------------------------------------------------------------
\* A new report is the last of all, is on its way together with every other
\* one that is, and has not been checked.
LEMMA CollectHolds ==
    ASSUME SendInv, NEW s \in Senders, NEW counts \in Counts, Collect(s, counts)
    PROVE  SendInv'
<1> DEFINE id == Len(reports) + 1
<1>0. TypeOK /\ TypeOK'
  BY SendNextTyped DEF SendInv, SendNext
<1>1. /\ DOMAIN reports' = DOMAIN reports \cup {id}
      /\ \A r \in DOMAIN reports : reports'[r] = reports[r]
      /\ reports'[id].done = counts /\ reports'[id].real = done
      /\ reports'[id].warned = [d \in DomainSet |-> {}]
      /\ \A t \in Senders \ {s} : job'[t] = job[t]
      /\ job'[s].at = "check" /\ job'[s].id = id /\ job'[s].k = 1
  BY <1>0, CollectReports
<1>2. /\ snapshots' = snapshots
      /\ beside' = beside \cup {{job[t].id, id} : t \in Busy}
      /\ \A d \in DomainSet : counts[d] <= done[d]
  BY DEF Collect
<1>3. \A r \in DOMAIN reports : r \in Nat /\ r < id
  BY <1>0 DEF TypeOK
<1>4. \A t \in Senders : job[t] # Idle => job[t].id \in DOMAIN reports
  BY <1>0 DEF TypeOK
<1>5. beside \subseteq beside'
      /\ \A t \in Senders : job[t] # Idle => {id, job[t].id} \in beside'
  <2>1. \A t \in Busy : {job[t].id, id} = {id, job[t].id}
    OBVIOUS
  <2> QED
    BY <1>2, <2>1 DEF Busy
<1> HIDE DEF id
<1>6. Lower'
  BY <1>1, <1>2 DEF SendInv, Lower
<1>7. Paired'
  <2>1. SUFFICES ASSUME NEW t \in Senders, job'[t] # Idle,
                        NEW y \in DOMAIN reports', y > job'[t].id
                 PROVE  {y, job'[t].id} \in beside'
    BY DEF Paired
  <2>2. t # s
    <3>1. ASSUME t = s PROVE FALSE
      <4>1. job'[t].id = id /\ (y \in DOMAIN reports \/ y = id)
        BY <1>1, <3>1
      <4>2. id \in Nat
        BY <1>0 DEF id, TypeOK
      <4> QED
        BY <1>3, <2>1, <4>1, <4>2
    <3> QED
      BY <3>1
  <2>3. job'[t] = job[t] /\ job[t] # Idle
    BY <1>1, <2>1, <2>2
  <2>4. CASE y = id
    BY <1>5, <2>3, <2>4
  <2>5. CASE y \in DOMAIN reports
    BY <1>5, <2>1, <2>3, <2>5 DEF SendInv, Paired
  <2> QED
    BY <1>1, <2>4, <2>5
<1>8. OwnReports'
  <2>1. id \notin DOMAIN reports
    <3>1. id \in Nat /\ ~ (id < id)
      BY <1>0 DEF id, TypeOK
    <3> QED
      BY <1>3, <3>1
  <2> QED
    BY <1>1, <1>4, <2>1 DEF SendInv, OwnReports
<1>9. Unrecorded'
  <2>1. id \notin DOMAIN reports
    <3>1. id \in Nat /\ ~ (id < id)
      BY <1>0 DEF id, TypeOK
    <3> QED
      BY <1>3, <3>1
  <2>2. \A d \in DomainSet : id \notin Range(snapshots[d])
    BY <1>0, <2>1, RecordedBuilt
  <2> QED
    BY <1>1, <1>2, <2>2 DEF SendInv, Unrecorded
<1>10. ASSUME NEW t \in Senders PROVE ComparedOf(t)'
  <2>1. CASE t = s
    BY <1>1, <2>1 DEF ComparedOf
  <2>2. CASE t # s
    <3>1. job'[t] = job[t] /\ ComparedOf(t)
      BY <1>1, <2>2 DEF SendInv, Compared
    <3>2. CASE job[t].at = "idle"
      BY <3>1, <3>2 DEF ComparedOf
    <3>3. CASE job[t].at # "idle"
      <4>1. /\ job[t].id \in DOMAIN reports
            /\ job[t].k \in 1 .. Len(ReportDomains) /\ Len(ReportDomains) \in Nat
        BY <1>0, <3>3, JobTyped
      <4>0. PICK r \in DOMAIN reports : r = job[t].id
        BY <4>1
      <4>2. \A d \in DomainSet : WarnedOfDrop(r, d) => WarnedOfDrop(r, d)'
        BY <1>0, <1>1, <1>2, <1>5, WarnedStays
      <4>3. \A i \in 1 .. job[t].k - 1 : ReportDomains[i] \in DomainSet
        BY <4>1, ReportAssumption
      <4> QED
        BY <3>1, <4>0, <4>2, <4>3 DEF ComparedOf
    <3> QED
      BY <3>2, <3>3
  <2> QED
    BY <2>1, <2>2
<1>11. DropsAreWarned'
  <2>1. \A d \in DomainSet : \A q \in Range(snapshots[d]) : q \in DOMAIN reports
    BY <1>0, RecordedBuilt
  <2> QED
    BY <1>0, <1>1, <1>2, <1>5, <2>1, RecordedStay DEF SendInv
<1>12. NoFalseAlarm'
  <2>1. SUFFICES ASSUME NEW r \in DOMAIN reports', NEW d \in DomainSet,
                        reports'[r].done[d] = reports'[r].real[d],
                        "drop" \in reports'[r].warned[d]
                 PROVE  MoreBefore(r, d)'
    BY DEF NoFalseAlarm
  <2>2. r \in DOMAIN reports
    BY <1>1, <2>1
  <2>3. MoreBefore(r, d)
    BY <1>1, <2>1, <2>2 DEF SendInv, NoFalseAlarm
  <2> QED
    BY <1>0, <1>1, <1>2, <1>5, <2>2, <2>3, AlarmsStay
<1> QED
  BY <1>0, <1>6, <1>7, <1>8, <1>9, <1>10, <1>11, <1>12 DEF SendInv, Compared

\* A check compares the report with the last snapshot, which is of another
\* report, and finds a drop only and always if that one counted more.
LEMMA FoundDrop ==
    ASSUME TypeOK, Unrecorded, NEW s \in Senders, Check(s)
    PROVE  LET id == job[s].id
               d == ReportDomains[job[s].k]
               prev == Last(snapshots[d])
           IN  /\ snapshots[d] = <<>> => "drop" \notin Found(s)
               /\ snapshots[d] # <<>> =>
                     /\ prev \in DOMAIN reports /\ prev # id
                     /\ prev \in Range(snapshots[d])
                     /\ "drop" \in Found(s)
                           <=> reports[id].done[d] < reports[prev].done[d]
<1> DEFINE id == job[s].id
           d == ReportDomains[job[s].k]
           prev == Last(snapshots[d])
<1>1. job[s].at = "check" /\ d \in DomainSet
  BY CheckReports
<1>2. ASSUME snapshots[d] = <<>> PROVE "drop" \notin Found(s)
  BY <1>2 DEF Found, FirstIssues
<1>3. ASSUME snapshots[d] # <<>>
      PROVE  prev \in DOMAIN reports /\ prev # id /\ prev \in Range(snapshots[d])
  <2>1. /\ snapshots[d] \in Seq(1 .. MaxReports)
        /\ Range(snapshots[d]) \subseteq DOMAIN reports
    BY <1>1, RecordedBuilt
  <2>2. prev \in Range(snapshots[d])
    BY <1>3, <2>1, LastOf
  <2> QED
    BY <1>1, <2>1, <2>2 DEF Unrecorded
<1>4. ASSUME snapshots[d] # <<>>
      PROVE  "drop" \in Found(s) <=> reports[id].done[d] < reports[prev].done[d]
  <2>1. Found(s) = Issues(reports[id].done[d], reports[prev].done[d])
    BY <1>4 DEF Found
  <2>2. \A a, b : "drop" \in Issues(a, b) <=> a < b
    BY DEF Issues, Issue
  <2> QED
    BY <2>1, <2>2
<1> QED
  BY <1>2, <1>3, <1>4

\* An alarm that is raised is about a report collected before, or beside.
LEMMA AlarmIsRight ==
    ASSUME SendInv, NEW s \in Senders, Check(s), "drop" \in Found(s)
    PROVE  LET id == job[s].id
               d == ReportDomains[job[s].k]
           IN  reports[id].done[d] = reports[id].real[d] => MoreBefore(id, d)
<1> DEFINE id == job[s].id
           d == ReportDomains[job[s].k]
           prev == Last(snapshots[d])
<1>1. TypeOK /\ id \in DOMAIN reports /\ d \in DomainSet /\ job[s] # Idle
  BY CheckReports, BusyTyped DEF SendInv
<1>2. /\ prev \in DOMAIN reports /\ prev # id /\ prev \in Range(snapshots[d])
      /\ reports[id].done[d] < reports[prev].done[d]
  BY <1>1, FoundDrop DEF SendInv
<1> HIDE DEF id, d, prev
<1>3. reports[prev].done[d] <= reports[prev].real[d]
  BY <1>1, <1>2 DEF SendInv, Lower
<1>4. /\ reports[id].done[d] \in Int /\ reports[prev].done[d] \in Int
      /\ reports[prev].real[d] \in Int
  <2>1. \A r \in DOMAIN reports :
           \A e \in DomainSet : reports[r].done[e] \in 0 .. Total /\ reports[r].real[e] \in 0 .. Total
    BY <1>1, ReportTyped
  <2>2. \A n \in 0 .. Total : n \in Int
    BY ReportAssumption
  <2> QED
    BY <1>1, <1>2, <2>1, <2>2
<1>5. reports[id].done[d] < reports[prev].real[d]
  BY <1>2, <1>3, <1>4
<1>6. prev < id \/ {prev, id} \in beside
  <2>1. prev \in Nat /\ id \in Nat
    BY <1>1, <1>2 DEF TypeOK
  <2>2. prev < id \/ prev > id
    BY <1>2, <2>1
  <2>3. prev > id => {prev, id} \in beside
    BY <1>1, <1>2 DEF SendInv, Paired, id
  <2> QED
    BY <2>2, <2>3
<1>7. reports[id].done[d] = reports[id].real[d] => MoreBefore(id, d)
  BY <1>2, <1>5, <1>6 DEF MoreBefore
<1> QED
  BY <1>7 DEF id, d

\* After the check of its domain a report is warned of a drop there.
LEMMA CheckWarns ==
    ASSUME TypeOK, Unrecorded, NEW s \in Senders, Check(s),
           NEW r \in DOMAIN reports, NEW e \in DomainSet,
           WarnedOfDrop(r, e) \/ (r = job[s].id /\ e = ReportDomains[job[s].k])
    PROVE  WarnedOfDrop(r, e)'
<1>1. /\ UNCHANGED <<snapshots, beside>>
      /\ \A q \in DOMAIN reports : reports'[q].done = reports[q].done
  BY CheckReports DEF Check
<1>2. CASE r = job[s].id /\ e = ReportDomains[job[s].k]
  <2>1. reports'[r].warned[e] = Found(s)
    BY <1>2, CheckReports
  <2>2. ASSUME snapshots[e] # <<>>,
               reports'[r].done[e] < reports'[Last(snapshots[e])].done[e]
        PROVE  "drop" \in Found(s)
    BY <1>1, <1>2, <2>2, FoundDrop
  <2> QED
    BY <1>1, <2>1, <2>2 DEF WarnedOfDrop
<1>3. CASE ~ (r = job[s].id /\ e = ReportDomains[job[s].k])
  <2>1. reports'[r].warned[e] = reports[r].warned[e]
    BY <1>3, CheckReports
  <2> QED
    BY <1>1, <1>3, <2>1, WarnedStays
<1> QED
  BY <1>2, <1>3

LEMMA CheckHolds ==
    ASSUME SendInv, NEW s \in Senders, Check(s)
    PROVE  SendInv'
<1>0. TypeOK /\ TypeOK' /\ Unrecorded
  BY SendNextTyped DEF SendInv, SendNext, Step
<1> PICK id \in DOMAIN reports : id = job[s].id
  BY <1>0, CheckReports
<1> PICK k : k = job[s].k
  OBVIOUS
<1>1. /\ job[s].at = "check" /\ job[s] # Idle /\ id \in DOMAIN reports
      /\ DOMAIN reports' = DOMAIN reports
      /\ \A r \in DOMAIN reports :
            reports'[r].done = reports[r].done /\ reports'[r].real = reports[r].real
      /\ \A r \in DOMAIN reports \ {id}, e \in DomainSet :
            reports'[r].warned[e] = reports[r].warned[e]
  BY <1>0, CheckReports, BusyTyped
<1>2. /\ \A t \in Senders \ {s} : job'[t] = job[t]
      /\ job'[s].id = id /\ job'[s] # Idle
      /\ k \in 1 .. Len(ReportDomains) /\ Len(ReportDomains) \in Nat
      /\ \/ job'[s].at = "check" /\ job'[s].k = k + 1
         \/ job'[s].at = "post" /\ k = Len(ReportDomains)
  BY <1>0, CheckMoves
<1>3. UNCHANGED <<snapshots, beside>>
  BY DEF Check
<1>4. Lower'
  BY <1>1 DEF SendInv, Lower
<1>5. Paired'
  <2>1. \A t \in Senders : job'[t] # Idle => job[t] # Idle /\ job'[t].id = job[t].id
    BY <1>1, <1>2
  <2> QED
    BY <1>1, <1>3, <2>1 DEF SendInv, Paired
<1>6. OwnReports'
  BY <1>1, <1>2 DEF SendInv, OwnReports
<1>7. Unrecorded'
  BY <1>1, <1>2, <1>3 DEF SendInv, Unrecorded
<1>8. ASSUME NEW t \in Senders PROVE ComparedOf(t)'
  <2>1. CASE t = s
    <3>1. \A i \in 1 .. k :
             ReportDomains[i] \in DomainSet /\ WarnedOfDrop(id, ReportDomains[i])'
      <4>1. SUFFICES ASSUME NEW i \in 1 .. k
                     PROVE  /\ ReportDomains[i] \in DomainSet
                            /\ WarnedOfDrop(id, ReportDomains[i])'
        OBVIOUS
      <4>2. i = k \/ i \in 1 .. k - 1
        BY <1>2
      <4>3. WarnedOfDrop(id, ReportDomains[i]) \/ ReportDomains[i] = ReportDomains[k]
        BY <1>1, <4>2 DEF SendInv, Compared, ComparedOf
      <4>4. ReportDomains[i] \in DomainSet
        BY <1>2, ReportAssumption
      <4> QED
        BY <1>0, <1>1, <4>3, <4>4, CheckWarns
    <3>2. ASSUME job'[s].at = "post", NEW d \in DomainSet PROVE WarnedOfDrop(id, d)'
      <4>1. PICK i \in 1 .. k : ReportDomains[i] = d
        BY <1>2, <3>2 DEF DomainSet, Range
      <4> QED
        BY <3>1, <4>1
    <3>3. ASSUME job'[s].at = "check", NEW i \in 1 .. job'[s].k - 1
          PROVE  WarnedOfDrop(id, ReportDomains[i])'
      <4>1. i \in 1 .. k
        BY <1>2, <3>3
      <4> QED
        BY <3>1, <4>1
    <3>4. job'[s].at \in {"check", "post"} /\ job'[s].id = id
      BY <1>2
    <3> QED
      BY <2>1, <3>2, <3>3, <3>4 DEF ComparedOf
  <2>2. CASE t # s
    <3>1. job'[t] = job[t] /\ ComparedOf(t)
      BY <1>2, <2>2 DEF SendInv, Compared
    <3>2. CASE job[t].at = "idle"
      BY <3>1, <3>2 DEF ComparedOf
    <3>3. CASE job[t].at # "idle"
      <4>1. /\ job[t].id \in DOMAIN reports
            /\ job[t].k \in 1 .. Len(ReportDomains) /\ Len(ReportDomains) \in Nat
        BY <1>0, <3>3, JobTyped
      <4>0. PICK r \in DOMAIN reports : r = job[t].id
        BY <4>1
      <4>2. \A d \in DomainSet : WarnedOfDrop(r, d) => WarnedOfDrop(r, d)'
        BY <1>0, CheckWarns
      <4>3. \A i \in 1 .. job[t].k - 1 : ReportDomains[i] \in DomainSet
        BY <4>1, ReportAssumption
      <4> QED
        BY <3>1, <4>0, <4>2, <4>3 DEF ComparedOf
    <3> QED
      BY <3>2, <3>3
  <2> QED
    BY <2>1, <2>2
<1>9. DropsAreWarned'
  <2>1. \A d \in DomainSet : \A q \in Range(snapshots[d]) : q \in DOMAIN reports /\ q # id
    BY <1>0, <1>1, RecordedBuilt DEF Unrecorded
  <2> QED
    BY <1>0, <1>1, <1>3, <2>1, RecordedStay DEF SendInv
<1>10. NoFalseAlarm'
  <2>1. SUFFICES ASSUME NEW r \in DOMAIN reports, NEW d \in DomainSet,
                        reports[r].done[d] = reports[r].real[d],
                        "drop" \in reports'[r].warned[d]
                 PROVE  MoreBefore(r, d)
    <3>1. \A r \in DOMAIN reports, d \in DomainSet : MoreBefore(r, d) => MoreBefore(r, d)'
      BY <1>0, <1>1, <1>3, AlarmsStay
    <3> QED
      BY <1>1, <3>1 DEF NoFalseAlarm
  <2>2. CASE r = id /\ d = ReportDomains[job[s].k]
    <3>1. "drop" \in Found(s)
      BY <1>0, <2>1, <2>2, CheckReports
    <3> QED
      BY <2>1, <2>2, <3>1, AlarmIsRight
  <2>3. CASE ~ (r = id /\ d = ReportDomains[job[s].k])
    <3>1. reports'[r].warned[d] = reports[r].warned[d]
      BY <1>0, <2>3, CheckReports
    <3> QED
      BY <2>1, <3>1 DEF SendInv, NoFalseAlarm
  <2> QED
    BY <2>2, <2>3
<1> QED
  BY <1>0, <1>4, <1>5, <1>6, <1>7, <1>8, <1>9, <1>10 DEF SendInv, Compared

\* The report becomes the last snapshot of its domain.
LEMMA RecordHolds ==
    ASSUME SendInv, NEW s \in Senders, Record(s)
    PROVE  SendInv'
<1>0. TypeOK /\ TypeOK'
  BY SendNextTyped DEF SendInv, SendNext, Step
<1> PICK id \in DOMAIN reports : id = job[s].id
  <2>1. job[s].at # "idle"
    BY DEF Record, At
  <2> QED
    BY <1>0, <2>1, JobTyped
<1> PICK d0 : d0 = ReportDomains[job[s].k]
  OBVIOUS
<1>1. /\ job[s].at = "record" /\ job[s] # Idle /\ d0 \in DomainSet
      /\ id \in DOMAIN reports /\ id \in 1 .. MaxReports
      /\ UNCHANGED <<reports, beside>>
      /\ \A t \in Senders \ {s} : job'[t] = job[t]
      /\ job'[s] = Idle \/ job'[s].id = id
      /\ job'[s].at \in {"record", "idle"}
  <2>1. job[s].at = "record" /\ UNCHANGED <<reports, beside>>
    BY DEF Record, At
  <2>2. job[s].at # "idle"
    BY <2>1
  <2>3. d0 \in DomainSet /\ id \in DOMAIN reports /\ job[s] # Idle
    BY <1>0, <2>2, JobTyped
  <2> QED
    BY <1>0, <2>1, <2>3, ReportTyped, RestOfSend, SendMoves
<1>2. \A d \in DomainSet :
         snapshots'[d] = IF d = d0 THEN Append(snapshots[d], id) ELSE snapshots[d]
  BY <1>0, <1>1 DEF Record, TypeOK
<1>3. \A d \in DomainSet :
         /\ snapshots[d] \in Seq(1 .. MaxReports)
         /\ Range(snapshots[d]) \subseteq DOMAIN reports
         /\ Range(Append(snapshots[d], id)) = Range(snapshots[d]) \cup {id}
  BY <1>0, <1>1, RecordedBuilt, RangeAppend
<1>4. \A t \in Senders : (t # s /\ job[t] # Idle) =>
         job[t].id # id /\ {id, job[t].id} \in beside
  <2>1. SUFFICES ASSUME NEW t \in Senders, t # s, job[t] # Idle
                 PROVE  job[t].id # id /\ {id, job[t].id} \in beside
    OBVIOUS
  <2>2. job[t].id # id
    BY <1>1, <2>1 DEF SendInv, OwnReports
  <2>3. job[t].id \in DOMAIN reports /\ \A r \in DOMAIN reports : r \in Nat
    BY <1>0, <2>1 DEF TypeOK
  <2>4. job[t].id > id \/ id > job[t].id
    BY <1>1, <2>2, <2>3
  <2>5. id > job[t].id => {id, job[t].id} \in beside
    BY <1>1, <2>1 DEF SendInv, Paired
  <2>6. job[t].id > id => {job[t].id, id} \in beside
    BY <1>1, <2>3 DEF SendInv, Paired
  <2>7. {job[t].id, id} = {id, job[t].id}
    OBVIOUS
  <2> QED
    BY <2>2, <2>4, <2>5, <2>6, <2>7
<1>5. Lower'
  BY <1>1 DEF SendInv, Lower
<1>6. Paired' /\ OwnReports'
  BY <1>1 DEF SendInv, Paired, OwnReports
<1>7. Unrecorded'
  <2>1. SUFFICES ASSUME NEW t \in Senders, job'[t].at \in {"check", "post", "remember"},
                        NEW d \in DomainSet
                 PROVE  job'[t].id \notin Range(snapshots'[d])
    BY DEF Unrecorded
  <2>2. t # s
    BY <1>1, <2>1
  <2>3. job'[t] = job[t] /\ job[t] # Idle
    BY <1>0, <1>1, <2>1, <2>2, BusyTyped
  <2>4. job[t].id \notin Range(snapshots[d]) /\ job[t].id # id
    BY <1>4, <2>1, <2>2, <2>3 DEF SendInv, Unrecorded
  <2> QED
    BY <1>2, <1>3, <2>3, <2>4
<1>8. \A d \in DomainSet, r \in DOMAIN reports :
         (WarnedOfDrop(r, d) /\ (r = id \/ {id, r} \in beside)) => WarnedOfDrop(r, d)'
  <2>1. SUFFICES ASSUME NEW d \in DomainSet, NEW r \in DOMAIN reports,
                        WarnedOfDrop(r, d), r = id \/ {id, r} \in beside
                 PROVE  WarnedOfDrop(r, d)'
    OBVIOUS
  <2>2. CASE d # d0
    BY <1>1, <1>2, <2>1, <2>2 DEF WarnedOfDrop
  <2>3. CASE d = d0
    <3>1. Last(snapshots'[d]) = id
      <4>1. snapshots'[d] = Append(snapshots[d], id) /\ snapshots[d] \in Seq(1 .. MaxReports)
        BY <1>2, <1>3, <2>3
      <4>2. /\ Len(Append(snapshots[d], id)) = Len(snapshots[d]) + 1
            /\ Append(snapshots[d], id)[Len(snapshots[d]) + 1] = id
        BY <1>1, <4>1
      <4> QED
        BY <4>1, <4>2 DEF Last
    <3>2. reports[r].done[d] \in Int
      <4>1. reports[r].done[d] \in 0 .. Total /\ Total \in Nat
        BY <1>0, <2>1, ReportTyped, ReportAssumption
      <4> QED
        BY <4>1
    <3>3. CASE r = id
      <4>1. ~ (reports[r].done[d] < reports[r].done[d])
        BY <3>2
      <4> QED
        BY <1>1, <3>1, <3>3, <4>1 DEF WarnedOfDrop
    <3>4. CASE {id, r} \in beside
      BY <1>1, <3>1, <3>4 DEF WarnedOfDrop
    <3> QED
      BY <2>1, <3>3, <3>4
  <2> QED
    BY <2>2, <2>3
<1>9. ASSUME NEW t \in Senders PROVE ComparedOf(t)'
  <2>0. ComparedOf(t)
    BY DEF SendInv, Compared
  <2>1. CASE t = s
    <3>1. job'[s].at = "record" => job'[s].id = id
      <4>1. Idle.at = "idle"
        BY DEF Idle
      <4> QED
        BY <1>1, <4>1
    <3>2. \A d \in DomainSet : WarnedOfDrop(id, d)
      BY <1>1, <2>0, <2>1 DEF ComparedOf
    <3>3. \A d \in DomainSet : WarnedOfDrop(id, d)'
      BY <1>1, <1>8, <3>2
    <3> QED
      BY <1>1, <2>1, <3>1, <3>3 DEF ComparedOf
  <2>2. CASE t # s
    <3>1. job'[t] = job[t]
      BY <1>1, <2>2
    <3>2. CASE job[t].at = "idle"
      BY <3>1, <3>2 DEF ComparedOf
    <3>3. CASE job[t].at # "idle"
      <4>1. /\ job[t].id \in DOMAIN reports /\ job[t] # Idle
            /\ job[t].k \in 1 .. Len(ReportDomains) /\ Len(ReportDomains) \in Nat
        BY <1>0, <3>3, JobTyped
      <4>0. PICK r \in DOMAIN reports : r = job[t].id
        BY <4>1
      <4>2. \A d \in DomainSet : WarnedOfDrop(r, d) => WarnedOfDrop(r, d)'
        BY <1>4, <1>8, <2>2, <4>0, <4>1
      <4>3. \A i \in 1 .. job[t].k - 1 : ReportDomains[i] \in DomainSet
        BY <4>1, ReportAssumption
      <4> QED
        BY <2>0, <3>1, <4>0, <4>2, <4>3 DEF ComparedOf
    <3> QED
      BY <3>2, <3>3
  <2> QED
    BY <2>1, <2>2
<1>10. DropsAreWarned'
  <2>1. SUFFICES ASSUME NEW d \in DomainSet, NEW i \in 2 .. Len(snapshots'[d]),
                        reports[snapshots'[d][i]].done[d] < reports[snapshots'[d][i - 1]].done[d]
                 PROVE  \/ "drop" \in reports[snapshots'[d][i]].warned[d]
                        \/ {snapshots'[d][i - 1], snapshots'[d][i]} \in beside
    BY <1>1 DEF DropsAreWarned
  <2> DEFINE q == snapshots[d]
             n == Len(q)
  <2>2. q \in Seq(1 .. MaxReports) /\ n \in Nat
    BY <1>3
  <2>3. CASE snapshots'[d] = q
    BY <2>1, <2>3 DEF SendInv, DropsAreWarned
  <2>4. CASE snapshots'[d] = Append(q, id)
    <3>1. /\ Len(snapshots'[d]) = n + 1
          /\ \A x \in 1 .. n + 1 : snapshots'[d][x] = IF x = n + 1 THEN id ELSE q[x]
      BY <1>1, <2>2, <2>4
    <3> HIDE DEF q, n
    <3>2. i \in 2 .. n + 1
      BY <2>1, <3>1
    <3>3. CASE i = n + 1
      <4>1. /\ n \in DOMAIN q /\ q # <<>> /\ snapshots'[d][i - 1] = q[n]
            /\ snapshots'[d][i] = id
        BY <2>2, <3>1, <3>2, <3>3 DEF q, n
      <4>2. Last(q) = q[n]
        BY DEF Last, n
      <4>3. WarnedOfDrop(id, d)
        BY <1>1 DEF SendInv, Compared, ComparedOf
      <4> QED
        BY <2>1, <4>1, <4>2, <4>3 DEF WarnedOfDrop, q
    <3>4. CASE i # n + 1
      <4>1. i \in 2 .. n /\ snapshots'[d][i] = q[i] /\ snapshots'[d][i - 1] = q[i - 1]
        BY <2>2, <3>1, <3>2, <3>4
      <4> QED
        BY <2>1, <4>1 DEF SendInv, DropsAreWarned, q, n
    <3> QED
      BY <3>3, <3>4
  <2> QED
    BY <1>2, <2>3, <2>4
<1>11. NoFalseAlarm'
  <2>1. \A r \in DOMAIN reports, d \in DomainSet : MoreBefore(r, d) => MoreBefore(r, d)'
    <3>1. \A d \in DomainSet : Range(snapshots[d]) \subseteq Range(snapshots'[d])
      BY <1>2, <1>3
    <3> QED
      BY <1>0, <1>1, <3>1, AlarmsStay
  <2> QED
    BY <1>1, <2>1 DEF SendInv, NoFalseAlarm
<1> QED
  BY <1>0, <1>5, <1>6, <1>7, <1>9, <1>10, <1>11 DEF SendInv, Compared

LEMMA SendStepHolds == SendInv /\ [SendNext]_sendVars => SendInv'
<1> SUFFICES ASSUME SendInv, [SendNext]_sendVars PROVE SendInv'
  OBVIOUS
<1>0. TypeOK /\ TypeOK'
  BY SendNextTyped DEF SendInv
<1>1. ASSUME NEW s \in Senders, PostReport(s) \/ Remember(s) \/ Raises(s)
      PROVE  SendInv'
  <2>1. /\ UNCHANGED <<reports, snapshots, beside>>
        /\ \A t \in Senders \ {s} : job'[t] = job[t]
        /\ job'[s] = Idle \/ job'[s].id = job[s].id
        /\ job[s] # Idle
    <3>1. job[s].at # "idle"
      BY <1>0, <1>1, RestOfSend
    <3>2. job[s] # Idle
      BY <1>0, <3>1, JobTyped
    <3> QED
      BY <1>0, <1>1, <3>2, RestOfSend DEF PostReport, Remember, Raises
  <2>2. /\ PostReport(s) => job[s].at = "post" /\ job'[s].at = "remember"
        /\ Remember(s) => job[s].at = "remember" /\ job'[s].at = "record"
        /\ Raises(s) => job'[s] = Idle
        /\ Idle.at = "idle"
    BY <1>0, SendMoves DEF Remember, At, Raises, TypeOK, Idle
  <2> QED
    BY <1>0, <1>1, <2>1, <2>2, SenderMoves
<1>2. CASE (\E d \in Moving : Progress(d) \/ Setback(d)) \/ Crash \/ UNCHANGED sendVars
  BY <1>0, <1>2, QuietMoves, SenderMoves
<1> QED
  BY <1>1, <1>2, CollectHolds, CheckHolds, RecordHolds DEF SendNext, Step

\* Whoever sends, and however their steps interleave, everything above holds
\* together.
THEOREM SendInvariant == SendSpec => []SendInv
BY SendBegins, SendStepHolds, PTL DEF SendSpec

\* A domain whose sources answered is not said to have lost completed targets
\* unless, when a report recorded before it was collected, or one collected
\* while it was on its way, there really were more of them.
THEOREM NoAlarmIsFalse == SendSpec => []NoFalseAlarm
<1>1. SendInv => NoFalseAlarm
  BY DEF SendInv
<1> QED
  BY <1>1, SendInvariant, PTL

\* A report recorded with fewer completed targets than the snapshot before it
\* is warned of that, or was on its way together with that one.
THEOREM EveryDropIsWarned == SendSpec => []DropsAreWarned
<1>1. SendInv => DropsAreWarned
  BY DEF SendInv
<1> QED
  BY <1>1, SendInvariant, PTL
=============================================================================
