---------------------------- MODULE MCDoubleBuffer ----------------------------
(***************************************************************************)
(* Model checking of DoubleBuffer.  The configurations MCDoubleBuffer*.cfg *)
(* give the goroutines of one kind as model values, which are              *)
(* interchangeable in the runs that check safety only; buffers are the     *)
(* numbers in which they are allocated.                                    *)
(***************************************************************************)
EXTENDS DoubleBufferProperties, TLC

MCThreads == Writers \cup Readers \cup Closers \cup {Monitor, Recycler}
MCBuffers == 1 .. MaxBuffers

Symmetry == Permutations(Writers) \cup Permutations(Readers)
=============================================================================
