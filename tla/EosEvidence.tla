----------------------------- MODULE EosEvidence -----------------------------
(***************************************************************************)
(* The Polestar evidence of app/services/eos_data.py: what Polestar shows  *)
(* now ('_OLD' server names), the observations kept in the table           *)
(* eos_polestar_seen, and the merged result the EoS screens and the weekly *)
(* report use.                                                             *)
(*                                                                         *)
(* A converted server is disposed of later and its '_OLD' name disappears. *)
(* The table latches each observation so that the number of completed      *)
(* servers does not go back.  Only an admin removes an observation.        *)
(*                                                                         *)
(* A refresh asks only for the targets there were when it was asked for.   *)
(* One refresh runs at a time (SwrCache!SingleFlight); its steps are       *)
(* interleaved with an admin's clear and exclusions, with another Excel    *)
(* sheet, with crashes and with the servers' changes.                      *)
(***************************************************************************)
EXTENDS Naturals

CONSTANTS
    Items,       \* EoS servers: the targets, and what has been one
    NoRow,       \* no observation of the item in the table
    NoView,      \* the cache is empty
    Unknown,     \* Polestar did not answer (current is None)
    MaxDay,      \* bound: last day of the model
    MaxEvents    \* bound: clears, changes of the targets, crashes and
                 \* conversions of what has left

Day == 0 .. MaxDay
Row == [first : Day, last : Day]
Entry == [present : BOOLEAN]  \* the days go along unchanged
View == [Items -> Entry \cup {NoRow}]

ASSUME LatchAssumption ==
    /\ NoRow \notin Row
    /\ NoRow \notin Entry
    /\ NoView \notin View
    /\ \A S \in SUBSET Items : Unknown # S
    /\ MaxDay \in Nat
    /\ MaxEvents \in Nat

VARIABLES
    renamed,  \* items whose server is named '_OLD' in Polestar now
    day,      \* date('now')
    targets,  \* the items with is_target now
    events,   \* clears, changes of the targets, crashes and second
              \* conversions so far
    observed, \* the table eos_polestar_seen
    view,     \* the cached result of merge_polestar_latch
    step,     \* where the refresh is in _collect_external
    asked,    \* the targets this refresh asks Polestar about
    current,  \* what this refresh got from Polestar
    merged,   \* what this refresh merged
    clearing, \* an admin's change is done, its invalidate_cache is to come
    shown,    \* history: items a screen has shown as converted with their
              \* observation on record, less those an admin has cleared since
    left,     \* history: items that were '_OLD' once and then were not
    missed,   \* history: items that were '_OLD' when Polestar answered this
              \* refresh, and that its answer does not name
    hidden    \* history: the same of the refresh that made the view

worldVars == <<renamed, day, targets, left>>
refreshVars == <<step, asked, current, merged, missed>>
latchVars == <<worldVars, events, observed, view, hidden, refreshVars, clearing, shown>>

Evidence(v) == {i \in Items : v[i] # NoRow}
Recorded == {i \in Items : observed[i] # NoRow}

LatchTypeOK ==
    /\ renamed \in SUBSET Items
    /\ day \in Day
    /\ targets \in SUBSET Items
    /\ events \in 0 .. MaxEvents
    /\ observed \in [Items -> Row \cup {NoRow}]
    /\ view \in View \cup {NoView}
    /\ step \in {"idle", "query", "record", "merge", "store"}
    /\ asked \in SUBSET Items
    /\ current = Unknown \/ current \in SUBSET Items
    /\ merged \in View \cup {NoView}
    /\ clearing \in BOOLEAN
    /\ shown \in SUBSET Items
    /\ left \in SUBSET Items
    /\ missed \in SUBSET Items
    /\ hidden \in SUBSET Items

LatchInit ==
    /\ renamed = {}
    /\ day = 0
    /\ targets = Items
    /\ events = 0
    /\ observed = [i \in Items |-> NoRow]
    /\ view = NoView
    /\ step = "idle"
    /\ asked = {}
    /\ current = Unknown
    /\ merged = NoView
    /\ clearing = FALSE
    /\ shown = {}
    /\ left = {}
    /\ missed = {}
    /\ hidden = {}

Event ==
    /\ events < MaxEvents
    /\ events' = events + 1

-----------------------------------------------------------------------------
(***************************************************************************)
(* The servers in Polestar.                                                *)
(***************************************************************************)

\* The AS-IS server is renamed to '_OLD': the conversion is done.  (An item
\* that was '_OLD' in the Excel sheet already is never judged converted.)
Convert(i) ==
    /\ i \notin renamed
    /\ renamed' = renamed \cup {i}
    /\ IF i \in left THEN Event ELSE UNCHANGED events
    /\ UNCHANGED <<day, targets, left, observed, view, hidden, refreshVars, clearing, shown>>

\* The server is disposed of, or the name turns out to be a mistake.
LeaveOld(i) ==
    /\ i \in renamed
    /\ renamed' = renamed \ {i}
    /\ left' = left \cup {i}
    /\ UNCHANGED <<day, targets, events, observed, view, hidden, refreshVars, clearing, shown>>

NextDay ==
    /\ day < MaxDay
    /\ day' = day + 1
    /\ UNCHANGED <<renamed, targets, left, events, observed, view, hidden, refreshVars, clearing,
                   shown>>

-----------------------------------------------------------------------------
(***************************************************************************)
(* The targets.                                                            *)
(***************************************************************************)

Toggle(i) ==
    /\ Event
    /\ targets' = IF i \in targets THEN targets \ {i} ELSE targets \cup {i}

\* An admin excludes an item in the web or takes it back (api_eos_exclude).
Exclude(i) ==
    /\ ~clearing
    /\ Toggle(i)
    /\ clearing' = TRUE
    /\ UNCHANGED <<renamed, day, left, observed, view, hidden, refreshVars, shown>>

\* Another Excel sheet has (or no longer has) the item as a target; the cache
\* is not told.
Retarget(i) ==
    /\ Toggle(i)
    /\ UNCHANGED <<renamed, day, left, observed, view, hidden, refreshVars, clearing, shown>>

-----------------------------------------------------------------------------
(***************************************************************************)
(* One refresh.                                                            *)
(***************************************************************************)

To(from, to) == step = from /\ step' = to

\* The local variables of a refresh that is over.
Dropped ==
    /\ asked' = {}
    /\ current' = Unknown
    /\ merged' = NoView
    /\ missed' = {}

\* The items are loaded before the lock is taken and before the cache is looked
\* at (get_eos_data).
StartRefresh ==
    /\ To("idle", "query")
    /\ asked' = targets
    /\ UNCHANGED <<worldVars, events, observed, view, hidden, current, merged, missed, clearing,
                   shown>>

\* judge_converted, for each of the items asked about
Converted == renamed \cap asked

Answer(to, names) ==
    /\ To("query", to)
    /\ current' = names
    /\ UNCHANGED <<worldVars, events, observed, view, hidden, asked, merged, clearing, shown>>

\* confirmed_reasons
QueryOk ==
    /\ Answer("record", Converted)
    /\ missed' = renamed \ Converted

\* Polestar answers 200 with a body that has no list: list_resources returns
\* no resource, and no item is confirmed.
QueryEmpty ==
    /\ Answer("record", {})
    /\ missed' = renamed

QueryFails ==
    /\ Answer("merge", Unknown)
    /\ missed' = {}

\* The row after INSERT ... ON CONFLICT DO UPDATE.
Observed(row) ==
    [first |-> IF row = NoRow THEN day ELSE row.first, last |-> day]

\* record_eos_polestar_seen, one transaction
Record ==
    /\ To("record", "merge")
    /\ observed' = [i \in Items |->
                       IF i \in current THEN Observed(observed[i]) ELSE observed[i]]
    /\ UNCHANGED <<worldVars, events, view, hidden, asked, current, merged, missed, clearing,
                   shown>>

RecordFails ==
    /\ To("record", "merge")
    /\ UNCHANGED <<worldVars, events, observed, view, hidden, asked, current, merged, missed,
                   clearing, shown>>

\* Fault in Latched: a failed query is taken for an empty answer.
LatchedWhenSeen(i) == [present |-> current # Unknown /\ i \in current]

\* The entry of a recorded item: a failed query says nothing about presence.
Latched(i) == [present |-> current = Unknown \/ i \in current]

\* Fault in Merge: the answer of Polestar wins over the observations on record.
MergeCurrentOnly ==
    /\ To("merge", "store")
    /\ merged' = [i \in Items |->
                     IF observed[i] = NoRow \/ (current # Unknown /\ i \notin current)
                     THEN NoRow ELSE Latched(i)]
    /\ UNCHANGED <<worldVars, events, observed, view, hidden, asked, current, missed, clearing,
                   shown>>

\* merge_polestar_latch
Merge ==
    /\ To("merge", "store")
    /\ merged' = [i \in Items |->
                     IF observed[i] = NoRow THEN NoRow ELSE Latched(i)]
    /\ UNCHANGED <<worldVars, events, observed, view, hidden, asked, current, missed, clearing,
                   shown>>

\* The table cannot be read: the exception leaves _refresh, the cache stays.
MergeRaises ==
    /\ To("merge", "idle")
    /\ Dropped
    /\ UNCHANGED <<worldVars, events, observed, view, hidden, clearing, shown>>

StoreAs(new) ==
    /\ To("store", "idle")
    /\ view' = new
    /\ hidden' = missed
    /\ shown' = shown \cup (Evidence(merged) \cap Recorded)
    /\ Dropped
    /\ UNCHANGED <<worldVars, events, observed, clearing>>

\* Fault in Store: the result is added to what the cache showed before.
StoreAdds ==
    StoreAs(IF view = NoView THEN merged
            ELSE [i \in Items |-> IF merged[i] = NoRow THEN view[i] ELSE merged[i]])

\* _refresh puts the result in the cache, where the screens read it.
Store == StoreAs(merged)

-----------------------------------------------------------------------------
(***************************************************************************)
(* The admin's clear (api_eos_clear_polestar) and crashes.                 *)
(***************************************************************************)

Delete(i) ==
    /\ ~clearing
    /\ Event
    /\ observed' = [observed EXCEPT ![i] = NoRow]
    /\ clearing' = TRUE
    /\ shown' = shown \ {i}
    /\ UNCHANGED <<worldVars, view, hidden, refreshVars>>

Invalidate ==
    /\ clearing
    /\ clearing' = FALSE
    /\ view' = NoView
    /\ hidden' = {}
    /\ UNCHANGED <<worldVars, events, observed, refreshVars, shown>>

\* The process dies; only the table survives.
Crash ==
    /\ Event
    /\ step' = "idle"
    /\ view' = NoView
    /\ hidden' = {}
    /\ Dropped
    /\ clearing' = FALSE
    /\ UNCHANGED <<worldVars, observed, shown>>

Refresh ==
    \/ QueryOk
    \/ QueryEmpty
    \/ QueryFails
    \/ Record
    \/ RecordFails
    \/ Merge
    \/ MergeRaises
    \/ Store

LatchNext ==
    \/ \E i \in Items :
          Convert(i) \/ LeaveOld(i) \/ Exclude(i) \/ Retarget(i) \/ Delete(i)
    \/ NextDay
    \/ StartRefresh
    \/ Refresh
    \/ Invalidate
    \/ Crash

LatchSpec == LatchInit /\ [][LatchNext]_latchVars

\* A refresh goes on, and a new one starts again and again (an expired entry
\* and the next visit, or the prewarm); not every reading of the local table
\* and not every write to it fails.
Fairness ==
    /\ WF_latchVars(StartRefresh)
    /\ WF_latchVars(Refresh)
    /\ SF_latchVars(Merge)
    /\ WF_latchVars(Invalidate)

FairSpec == LatchSpec /\ Fairness

-----------------------------------------------------------------------------
(***************************************************************************)
(* Properties.                                                             *)
(***************************************************************************)

\* Whatever a screen has shown as converted stays on record, and every result
\* in the cache shows it: not a disposal, a failed query, a failed write, a
\* crash or a refresh that was under way takes it back, only an admin's clear.
ShownStaysShown ==
    /\ shown \subseteq Recorded
    /\ view # NoView => shown \subseteq Evidence(view)

\* When a server was first seen converted never changes, and the last sighting
\* never moves back, as long as the observation is on record.
FirstSeenFixed ==
    [][\A i \in Recorded :
          observed'[i] # NoRow =>
              /\ observed'[i].first = observed[i].first
              /\ observed'[i].last >= observed[i].last]_latchVars

\* A query that fails, a write that fails, a crash or a clear never makes a
\* converted server look disposed of: a screen says so only of a server that has
\* lost its '_OLD' name, or that the answer this very screen was made from did
\* not name (eos_data.py:118).
FailureIsNotDisposal ==
    view # NoView =>
        \A i \in Evidence(view) : ~view[i].present => i \in left \cup hidden

\* An observation an admin has cleared may be shown again by a refresh that had
\* read it before, but the screens lose it in the end unless it is recorded
\* again.
ClearedFades ==
    \A i \in Items :
        (i \notin Recorded) ~>
            (view = NoView \/ i \notin Evidence(view) \/ i \in Recorded)

(***************************************************************************)
(* What the comments promise and the code does not do.                     *)
(***************************************************************************)

\* eos.py:207: once the observation is deleted the item is no longer judged
\* converted because of it.  (Items that still are '_OLD' are left out: the next
\* query finds those again.)
ClearSticks ==
    (~clearing /\ view # NoView) => Evidence(view) \subseteq Recorded \cup renamed

\* eos_data.py:118: an outage of Polestar does not make servers look disposed of.
\* One that shows as a 200 answer without a list does, and so does an exclusion
\* that an admin takes back during a refresh.
OutageIsNotDisposal ==
    view # NoView =>
        \A i \in Evidence(view) \cap targets : ~view[i].present => i \in left

\* eos_data.py:95: when only the write of the observations fails the result of
\* this query is still shown.
QueryResultShown ==
    [][(step = "store" /\ step' = "idle" /\ view' = merged /\ current # Unknown)
          => current \subseteq Evidence(view')]_latchVars
=============================================================================
