-------------------------- MODULE AtMostOnceChannel --------------------------
(***************************************************************************)
(* What a DoubleBuffer promises to whoever reads it: a message that is     *)
(* delivered has been offered by a writer, and is delivered once.  Nothing *)
(* is promised of the order, nor that a message is delivered at all.       *)
(***************************************************************************)
EXTENDS Integers, Sequences

CONSTANT Writers

VARIABLES
  offered,     \* offered[w]: how many messages w has offered
  delivered    \* the messages delivered so far

ChannelInit ==
  /\ offered = [w \in Writers |-> 0]
  /\ delivered = <<>>

Offer(w) ==
  /\ offered' = [offered EXCEPT ![w] = @ + 1]
  /\ UNCHANGED delivered

Deliver(w, n) ==
  /\ n <= offered[w]
  /\ \A i \in DOMAIN delivered : delivered[i] # <<w, n>>
  /\ delivered' = Append(delivered, <<w, n>>)
  /\ UNCHANGED offered

ChannelNext ==
  \E w \in Writers : Offer(w) \/ \E n \in 1 .. offered[w] : Deliver(w, n)

ChannelSpec == ChannelInit /\ [][ChannelNext]_<<offered, delivered>>
=============================================================================
