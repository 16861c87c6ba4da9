---------------------------- MODULE MCBufferQueue ----------------------------
(***************************************************************************)
(* Model checking of BufferQueue with two callers and two policies.        *)
(***************************************************************************)
EXTENDS BufferQueue

(* Without is the SelectSeq of the standard modules. *)
ASSUME WithoutIsSelectSeq ==
  \A n \in 0 .. 4 : \A s \in [1 .. n -> 1 .. 3], S \in SUBSET (1 .. 3) :
    Without(s, S) = SelectSeq(s, LAMBDA x : x \notin S)
=============================================================================
