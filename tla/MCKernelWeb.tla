----------------------------- MODULE MCKernelWeb -----------------------------
(***************************************************************************)
(* Model checking of KernelWeb: a screen, a forced refresh and the worker  *)
(* at once, and a restart that may come with the other key.  No symmetry,  *)
(* since the instance also checks liveness.                                *)
(***************************************************************************)
EXTENDS KernelWeb
=============================================================================
