---- MODULE MCCompletion ----
(***************************************************************************)
(* Instances of Completion: a year of two halves of two days, and a half  *)
(* more; a kernel target for one OS series of two.                         *)
(***************************************************************************)
EXTENDS Completion

MCTargets == [s \in {"8"} |-> 1]
MCTexts == {[kind |-> "blank", at |-> 0], [kind |-> "x", at |-> 0],
            [kind |-> "day", at |-> 1], [kind |-> "day", at |-> 3],
            [kind |-> "date", at |-> 2], [kind |-> "month", at |-> 3],
            [kind |-> "done", at |-> 3]}
====
