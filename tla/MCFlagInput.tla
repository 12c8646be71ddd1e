---- MODULE MCFlagInput ----
(***************************************************************************)
(* Instances of FlagInput: an admin, the same admin's name with a team     *)
(* (which is not in the admin set), and two ordinary people.               *)
(***************************************************************************)
EXTENDS FlagInput, TLC

CONSTANTS boss, bossTeam, kim, lee

MCNames == {boss, bossTeam, kim, lee}
MCAdmins == {boss}
MCNorm == [n \in MCNames |-> IF n = bossTeam THEN boss ELSE n]
MCSheets == {[flag |-> f, sched |-> ""] : f \in Flags}
                \cup {[flag |-> "", sched |-> "date"]}
People == Permutations({kim, lee})
====
