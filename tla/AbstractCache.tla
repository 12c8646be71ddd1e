---------------------------- MODULE AbstractCache ----------------------------
(***************************************************************************)
(* What every cache of external data in this program promises, however it  *)
(* is filled: a reader is given a state the external system really had, or *)
(* nothing; and neither the cache nor what one reader is given ever goes   *)
(* back to an earlier state.  A cache may forget, and it may be as old as  *)
(* it likes.                                                               *)
(***************************************************************************)
EXTENDS Naturals

CONSTANT Readers

VARIABLES
    source,  \* the version of the external data
    held,    \* what the cache holds: {} or the version it holds, as {v}
    answer   \* what each reader was given last, likewise

vars == <<source, held, answer>>

\* Nothing, or one of the versions there have been.
Copies == {{}} \cup {{v} : v \in 0 .. source}

Older(c, d) == \E v \in c, w \in d : v < w

Init ==
    /\ source = 0
    /\ held = {}
    /\ answer = [r \in Readers |-> {}]

Change ==
    /\ source' = source + 1
    /\ UNCHANGED <<held, answer>>

\* Refreshing, forgetting, and answering any number of readers.
Serve ==
    /\ source' = source
    /\ held' \in Copies
    /\ ~Older(held', held)
    /\ answer' \in [Readers -> Copies]
    /\ \A r \in Readers : ~Older(answer'[r], answer[r])

Spec == Init /\ [][Change \/ Serve]_vars
=============================================================================
