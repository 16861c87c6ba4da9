----------------------------- MODULE LossyQueue -----------------------------
(***************************************************************************)
(* What a BufferQueue promises its callers: items leave in the order in    *)
(* which they came in, each at most once.  Any of them may be lost on the  *)
(* way, to the eviction policy or to a Reset.                              *)
(***************************************************************************)
EXTENDS Naturals, Sequences

CONSTANT Items

VARIABLES
  put,     \* the items that have come in
  queue,   \* those that wait
  taken    \* those that have left, in order

(* Some of the positions 1 .. n, in order, and what is there of s. *)
Selections(n) ==
  {f \in UNION {[1 .. m -> 1 .. n] : m \in 0 .. n} :
     \A i, j \in DOMAIN f : i < j => f[i] < f[j]}

Subsequences(s) == {[i \in DOMAIN f |-> s[f[i]]] : f \in Selections(Len(s))}

QueueInit == put = {} /\ queue = <<>> /\ taken = <<>>

(* Some of those that wait may have to make room for x. *)
Put(x) ==
  /\ x \notin put
  /\ put' = put \cup {x}
  /\ \E left \in Subsequences(queue) : queue' = Append(left, x)
  /\ UNCHANGED taken

Take ==
  /\ queue # <<>>
  /\ taken' = Append(taken, Head(queue))
  /\ queue' = Tail(queue)
  /\ UNCHANGED put

Lose == queue' \in Subsequences(queue) /\ UNCHANGED <<put, taken>>

QueueNext == (\E x \in Items : Put(x)) \/ Take \/ Lose

QueueSpec ==
  QueueInit /\ [][QueueNext]_<<put, queue, taken>>
=============================================================================
