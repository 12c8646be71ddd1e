----------------------------- MODULE MCSwrCache -----------------------------
(***************************************************************************)
(* Model checking of SwrCache.  The threads are interchangeable, so runs   *)
(* that check safety only use their permutations as a symmetry set.        *)
(***************************************************************************)
EXTENDS SwrCache, TLC

ThreadSymmetry == Permutations(Threads)
=============================================================================
