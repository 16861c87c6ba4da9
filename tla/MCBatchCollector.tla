-------------------------- MODULE MCBatchCollector --------------------------
(***************************************************************************)
(* Model checking of BatchCollector with one caller and one worker.        *)
(***************************************************************************)
EXTENDS BatchCollector
=============================================================================
