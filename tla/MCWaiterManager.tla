--------------------------- MODULE MCWaiterManager ---------------------------
(***************************************************************************)
(* Model checking of WaiterManager with a few interchangeable callers.     *)
(***************************************************************************)
EXTENDS WaiterManager, TLC

Symmetry == Permutations(Callers)
=============================================================================
