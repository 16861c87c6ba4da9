---------------------------- MODULE MCLifeCycle ----------------------------
(***************************************************************************)
(* Model checking of LifeCycle: one small, one medium and two large sizes, *)
(* and a cleanup that is cut off after its first deletion.  All properties *)
(* are invariants, so that the addresses may be symmetric.                 *)
(***************************************************************************)
EXTENDS LifeCycle, TLC

MCSizes    == 1 .. 4
MCSymmetry == Permutations(Slices) \cup Permutations(Bufs)
=============================================================================
