----------------------------- MODULE MCWrapHeap -----------------------------
(* A small instance: six items, two of them with the same number. *)
EXTENDS WrapHeap

CONSTANTS a, b, c, d, e, f

MCSequence ==
  [x \in Items |-> CASE x = a -> 1 [] x = b -> 2 [] x = c -> 3
                     [] x = d -> 3 [] x = e -> 4 [] x = f -> 5]
=============================================================================
