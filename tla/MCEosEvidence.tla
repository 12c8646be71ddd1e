--------------------------- MODULE MCEosEvidence ---------------------------
(***************************************************************************)
(* Model checking of EosEvidence.  Two items: one whose evidence is        *)
(* cleared while the other's must stay.  No symmetry, since the instance   *)
(* also checks liveness.                                                   *)
(***************************************************************************)
EXTENDS EosEvidence
=============================================================================
