------------------------------ MODULE WrapHeap ------------------------------
(***************************************************************************)
(* WrapHeap and MinHeap (min_heap.go): a binary heap in an array, driven   *)
(* by Go's container/heap, with the whole of an operation under a mutex.   *)
(* An operation is split at every swap; the mutex keeps the others out     *)
(* until it is done, so that what matters of the holder is how far it has  *)
(* got.  An item is a pointer that its caller holds until it pushes it, so *)
(* that it is in the heap at most once.                                    *)
(***************************************************************************)
EXTENDS Integers

CONSTANTS
  Items,      \* the MinHeapItems
  sequence,   \* sequence[x]: the sequence number of x
  Size,       \* bound: the length of the backing array
  Nil         \* nil

ASSUME HeapAssumption ==
  /\ sequence \in [Items -> Nat]
  /\ Size \in Nat
  /\ Nil \notin Items

VARIABLES
  slots,      \* the backing array; what lies beyond len is forgotten
  len,        \* the length of the slice
  index,      \* index[x]: the field index of x
  mu,         \* "free", or what the holder of the mutex does: "push", "pick"
  pos,        \* the slot the holder is sifting
  returned    \* what the last Pick or PeekFirst returned

vars == <<slots, len, index, mu, pos, returned>>

Places == 0 .. Size - 1
Held   == 0 .. len - 1
parent(i) == (i - 1) \div 2

TypeOK ==
  /\ slots \in [Places -> Items \cup {Nil}] /\ len \in 0 .. Size
  /\ index \in [Items -> Int]
  /\ mu \in {"free", "push", "pick"} /\ pos \in Nat
  /\ returned \in Items \cup {Nil}

Contents == {slots[i] : i \in Held}

Init ==
  /\ slots = [i \in Places |-> Nil] /\ len = 0
  /\ index = [x \in Items |-> 0]
  /\ mu = "free" /\ pos = 0 /\ returned = Nil

Less(i, j) == sequence[slots[i]] < sequence[slots[j]]

(* Mutant: only one of the two items learns where it is. *)
SwapHalf(i, j) ==
  /\ slots' = [slots EXCEPT ![i] = slots[j], ![j] = slots[i]]
  /\ index' = [index EXCEPT ![slots[j]] = i]

Swap(i, j) ==
  /\ slots' = [slots EXCEPT ![i] = slots[j], ![j] = slots[i]]
  /\ index' = [index EXCEPT ![slots[j]] = i, ![slots[i]] = j]

-----------------------------------------------------------------------------
(* Push: the item is appended, then up moves it towards the root. *)
Push(x) ==
  /\ mu = "free" /\ len < Size /\ x \notin Contents
  /\ slots' = [slots EXCEPT ![len] = x]
  /\ index' = [index EXCEPT ![x] = len]
  /\ len' = len + 1
  /\ mu' = "push" /\ pos' = len
  /\ UNCHANGED returned

(* Mutant: the item moves up one level at most. *)
UpToGo1 == pos > 0 /\ pos = len - 1 /\ Less(pos, parent(pos))

UpToGo == pos > 0 /\ Less(pos, parent(pos))

up ==
  /\ mu = "push" /\ UpToGo
  /\ Swap(parent(pos), pos)
  /\ pos' = parent(pos)
  /\ UNCHANGED <<len, mu, returned>>

PushDone ==
  /\ mu = "push" /\ ~UpToGo
  /\ mu' = "free" /\ pos' = 0
  /\ UNCHANGED <<slots, len, index, returned>>

-----------------------------------------------------------------------------
(***************************************************************************)
(* Pick: the root changes places with the last item, down moves the item   *)
(* that is now at the root towards the leaves, and the last slot is cut.   *)
(***************************************************************************)
PickEmpty ==
  /\ mu = "free" /\ len = 0
  /\ returned' = Nil
  /\ UNCHANGED <<slots, len, index, mu, pos>>

PickBegin ==
  /\ mu = "free" /\ len > 0
  /\ Swap(0, len - 1)
  /\ mu' = "pick" /\ pos' = 0
  /\ UNCHANGED <<len, returned>>

(* Mutant: the right child is not looked at. *)
LesserChildLeft(c) == c = 2 * pos + 1 /\ c < len - 1

(* c is the child of pos that down compares it with: the left one, unless
   there is a right one that is less. *)
LesserChild(c) ==
  LET left == 2 * pos + 1  right == left + 1 IN
  /\ left < len - 1
  /\ \/ c = right /\ right < len - 1 /\ Less(right, left)
     \/ c = left  /\ ~(right < len - 1 /\ Less(right, left))

down ==
  /\ mu = "pick"
  /\ \E c \in {2 * pos + 1, 2 * pos + 2} :
       /\ LesserChild(c) /\ Less(c, pos)
       /\ Swap(pos, c)
       /\ pos' = c
  /\ UNCHANGED <<len, mu, returned>>

PickDone ==
  /\ mu = "pick"
  /\ \A c \in {2 * pos + 1, 2 * pos + 2} : LesserChild(c) => ~Less(c, pos)
  /\ returned' = slots[len - 1]
  /\ index' = [index EXCEPT ![slots[len - 1]] = -1]
  /\ len' = len - 1
  /\ mu' = "free" /\ pos' = 0
  /\ UNCHANGED slots

(* PeekFirst of an empty heap is out of range. *)
PeekFirst ==
  /\ mu = "free" /\ len > 0
  /\ returned' = slots[0]
  /\ UNCHANGED <<slots, len, index, mu, pos>>

Next ==
  \/ \E x \in Items : Push(x)
  \/ up \/ PushDone
  \/ PickEmpty \/ PickBegin \/ down \/ PickDone
  \/ PeekFirst

Spec == Init /\ [][Next]_vars

-----------------------------------------------------------------------------
(***************************************************************************)
(* The field index of every item in the heap is the slot it lies in, and   *)
(* no item lies in two.  (min_heap.go: Swap, Push, Pop)                    *)
(***************************************************************************)
IndexKept == \A i \in Held : slots[i] \in Items /\ index[slots[i]] = i

(***************************************************************************)
(* No item is before its parent, except the one that is being sifted: up   *)
(* may find it before its parent, down after its children; and what lies   *)
(* above it is not after what lies below.  During Pick the last slot is    *)
(* outside the tree, and holds what was the root.                          *)
(* (min_heap.go with container/heap: up and down)                          *)
(***************************************************************************)
Tree == IF mu = "pick" THEN 0 .. len - 2 ELSE Held
Above(i, j) == sequence[slots[i]] <= sequence[slots[j]]

HeapOrder ==
  /\ \A i \in Tree : i > 0 =>
       \/ Above(parent(i), i)
       \/ mu = "push" /\ i = pos
       \/ mu = "pick" /\ parent(i) = pos
  /\ mu # "free" /\ pos > 0 =>
       \A i \in Tree : i > 0 /\ parent(i) = pos => Above(parent(pos), i)
  /\ mu = "pick" => \A i \in Tree : Above(len - 1, i)

(***************************************************************************)
(* Pick removes an item with the least number, and PeekFirst shows one:    *)
(* the heap implements the priority queue.                                 *)
(***************************************************************************)
Queue == INSTANCE PriorityQueue WITH queue <- Contents

ImplementsQueue == Queue!QueueSpec
=============================================================================
