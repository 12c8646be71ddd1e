-------------------------- MODULE MCScheduleInput --------------------------
(***************************************************************************)
(* Model checking of ScheduleInput with an admin, the admin's name with a  *)
(* team in parentheses (which is not in admin_set), and two other people.  *)
(***************************************************************************)
EXTENDS ScheduleInput

CONSTANTS adm, admTeam, kim, lee

MCNorm == [n \in AllNames |-> IF n = admTeam THEN adm ELSE n]
=============================================================================
