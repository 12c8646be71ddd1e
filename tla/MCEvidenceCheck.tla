--------------------------- MODULE MCEvidenceCheck ---------------------------
(***************************************************************************)
(* Model checking of EvidenceCheck.  The threads are interchangeable.      *)
(***************************************************************************)
EXTENDS EvidenceCheck, TLC

\* Two people open the same page: its three keys are two chunks of two, and
\* what one of them has got is not asked for again.
PagesOf == {{1, 2, 3}}

ThreadSymmetry == Permutations(Threads)
=============================================================================
