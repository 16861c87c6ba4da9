----------------------------- MODULE BoundedFifo -----------------------------
(***************************************************************************)
(* What a SmartBuffer promises to one writer and one reader: the items     *)
(* come out in the order in which they went in, all of them, each once,    *)
(* and at most Capacity of them are inside.                                *)
(***************************************************************************)
EXTENDS Naturals, Sequences

CONSTANTS Capacity, Data

VARIABLES
  queue,       \* the items inside
  output       \* the items taken out so far

FifoInit == queue = <<>> /\ output = <<>>

Enqueue(d) ==
  /\ Len(queue) < Capacity
  /\ queue' = Append(queue, d)
  /\ UNCHANGED output

Dequeue ==
  /\ queue # <<>>
  /\ queue' = Tail(queue)
  /\ output' = Append(output, Head(queue))

FifoNext == Dequeue \/ \E d \in Data : Enqueue(d)

FifoSpec == FifoInit /\ [][FifoNext]_<<queue, output>>
=============================================================================
