---------------------------- MODULE MCSharedRing ----------------------------
(***************************************************************************)
(* Model checking of SharedRing: small rings, and a cursor width so small  *)
(* that the cursors wrap around within a run.                              *)
(***************************************************************************)
EXTENDS SharedRing

MCThreads == Writers \cup Readers
MCBuffers == {Ring}
=============================================================================
