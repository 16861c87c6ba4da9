---------------------------- MODULE PriorityQueue ----------------------------
(***************************************************************************)
(* What the pending heap promises its callers: a set of items of which one *)
(* with the least sequence number is handed out.  Items with equal numbers *)
(* may leave in any order.                                                 *)
(***************************************************************************)
EXTENDS Integers

CONSTANTS
  Items,      \* the items
  sequence,   \* sequence[x]: the number of item x
  Nil         \* no item

VARIABLES
  queue,      \* the items in the queue
  returned    \* what the last query or removal answered

queueVars == <<queue, returned>>

Least == {x \in queue : \A y \in queue : sequence[x] <= sequence[y]}

QueueInit == queue = {} /\ returned = Nil

Insert == /\ \E x \in Items \ queue : queue' = queue \cup {x}
          /\ UNCHANGED returned

Remove == \E x \in Least : queue' = queue \ {x} /\ returned' = x

Ask == UNCHANGED queue /\ (returned' \in Least \/ (queue = {} /\ returned' = Nil))

QueueSpec == QueueInit /\ [][Insert \/ Remove \/ Ask]_queueVars
=============================================================================
