----------------------------- MODULE SmartBuffer -----------------------------
(***************************************************************************)
(* The lock-free ring component.SmartBuffer (component/smart_buffer.go):   *)
(* an array of slots, a head cursor claimed by Push, a tail cursor claimed *)
(* by Pop, a count that both update after the slot, and a write state.     *)
(*                                                                         *)
(* This module models a family of rings, one per element of Buffers, and   *)
(* the three procedures Push, Pop and Reset, each split at every access to *)
(* shared memory, so that any goroutine may run between two accesses.  A   *)
(* caller enters a procedure by setting a goroutine's pc to its first      *)
(* label ("p_state", "q_count", "z_state") with target[t] the ring, and    *)
(* goes on from its last ("p_ok" / "p_err", "q_done", "z_done").  The      *)
(* modules that EXTEND this one supply the callers.                        *)
(***************************************************************************)
EXTENDS Integers

CONSTANTS
  Threads,     \* the goroutines
  Writers,     \* those that push
  Buffers,     \* the SmartBuffer objects
  Capacity,    \* the capacity given to NewSmartBuffer
  MaxInt32,    \* the largest cursor value: 2^31 - 1 in the program
  Nil          \* a slot whose Ptr is nil; also "no buffer", "no goroutine"

ASSUME RingAssumption ==
  /\ Writers \subseteq Threads
  /\ Capacity \in Nat \ {0}
  /\ MaxInt32 \in Nat \ {0}
  /\ Nil \notin Writers \X Nat
  /\ Nil \notin Buffers

VARIABLES
  buf,         \* buf[b][i]: the item in slot i of ring b, Nil if empty
  head, tail,  \* head[b], tail[b]: the cursors
  count,       \* count[b]: the number of items the ring believes it holds
  bstate,      \* bstate[b]: "WriteOnly" or "ReadOnly"
  pc,          \* pc[t]: where goroutine t is
  target,      \* target[t]: the ring t's procedure works on
  index,       \* index[t]: the cursor value t loaded last
  item,        \* item[t]: what t's last Pop read
  sent         \* sent[w]: the number of messages writer w has offered

ringVars   == <<buf, head, tail, count, bstate>>
threadVars == <<pc, target, index, item, sent>>

(***************************************************************************)
(* A message is named by its writer and its number.  Every message has a   *)
(* size greater than 0 and a non-nil pointer.                              *)
(***************************************************************************)
Messages   == Writers \X Nat
Message(w) == <<w, sent[w]>>

Slots == 0 .. Capacity - 1
Int32 == -MaxInt32 - 1 .. MaxInt32

PushLabels  == {"p_state", "p_count", "p_full", "p_head", "p_cas", "p_store",
                "p_inc", "p_ok", "p_err"}
PopLabels   == {"q_count", "q_tail", "q_cas", "q_read", "q_clear", "q_dec",
                "q_done"}
ResetLabels == {"z_state", "z_count", "z_index", "z_done"}

Goto(t, from, to) == pc[t] = from /\ pc' = [pc EXCEPT ![t] = to]

(* Mutant: the cursor does not wrap around. *)
IncrUnbounded(i) == i + 1

(* A 32-bit cursor plus one, which wraps around. *)
Incr(i) == IF i = MaxInt32 THEN -MaxInt32 - 1 ELSE i + 1

(* The slot of a cursor value; % is the non-negative remainder, which is what
   the code's correction of Go's truncated remainder computes. *)
calcPos(i) == i % Capacity

EmptySlots == [i \in Slots |-> Nil]

NewSmartBuffer ==
  /\ buf    = [b \in Buffers |-> EmptySlots]
  /\ head   = [b \in Buffers |-> -1]
  /\ tail   = [b \in Buffers |-> -1]
  /\ count  = [b \in Buffers |-> 0]
  /\ bstate = [b \in Buffers |-> "WriteOnly"]

RingsOK ==
  /\ buf    \in [Buffers -> [Slots -> Messages \cup {Nil}]]
  /\ head   \in [Buffers -> Int]
  /\ tail   \in [Buffers -> Int]
  /\ count  \in [Buffers -> Int]
  /\ bstate \in [Buffers -> {"WriteOnly", "ReadOnly"}]

LocalsOK ==
  /\ target \in [Threads -> Buffers \cup {Nil}]
  /\ index  \in [Threads -> Int]
  /\ item   \in [Threads -> Messages \cup {Nil}]
  /\ sent   \in [Writers -> Nat]

RingTypeOK == RingsOK /\ LocalsOK

-----------------------------------------------------------------------------
(***************************************************************************)
(* Push.  The state and the count are checked, the head is claimed by a    *)
(* compare-and-swap that starts the loop again when it fails, and only     *)
(* then is the slot filled and the count raised.  The loop over a slot     *)
(* that is still occupied has no effect: after three looks it overwrites.  *)
(* Write's own test for a closed SmartBuffer never fires: nothing sets     *)
(* that state on a SmartBuffer.                                            *)
(***************************************************************************)
PushCheckState(w) ==
  LET b == target[w] IN
  /\ Goto(w, "p_state", IF bstate[b] = "ReadOnly" THEN "p_err" ELSE "p_count")
  /\ UNCHANGED <<ringVars, target, index, item, sent>>

(* Mutant: the ring is full only when it holds more than its capacity. *)
PushCheckCountLate(w) ==
  /\ Goto(w, "p_count", IF count[target[w]] > Capacity THEN "p_full" ELSE "p_head")
  /\ UNCHANGED <<ringVars, target, index, item, sent>>

PushCheckCount(w) ==
  LET b == target[w] IN
  /\ Goto(w, "p_count", IF count[b] >= Capacity THEN "p_full" ELSE "p_head")
  /\ UNCHANGED <<ringVars, target, index, item, sent>>

(* The compare-and-swap to ReadOnly leaves a ring that is ReadOnly alone. *)
PushMarkFull(w) ==
  /\ Goto(w, "p_full", "p_err")
  /\ bstate' = [bstate EXCEPT ![target[w]] = "ReadOnly"]
  /\ UNCHANGED <<buf, head, tail, count, target, index, item, sent>>

PushLoadHead(w) ==
  /\ Goto(w, "p_head", "p_cas")
  /\ index' = [index EXCEPT ![w] = head[target[w]]]
  /\ UNCHANGED <<ringVars, target, item, sent>>

PushClaim(w) ==
  LET b == target[w] IN
  /\ \/ /\ Goto(w, "p_cas", "p_store")
        /\ head[b] = index[w]
        /\ head' = [head EXCEPT ![b] = Incr(@)]
     \/ /\ Goto(w, "p_cas", "p_state")
        /\ head[b] # index[w]
        /\ UNCHANGED head
  /\ UNCHANGED <<buf, tail, count, bstate, target, index, item, sent>>

PushStore(w) ==
  /\ Goto(w, "p_store", "p_inc")
  /\ buf' = [buf EXCEPT ![target[w]][calcPos(index[w])] = Message(w)]
  /\ UNCHANGED <<head, tail, count, bstate, target, index, item, sent>>

PushCount(w) ==
  /\ Goto(w, "p_inc", "p_ok")
  /\ count' = [count EXCEPT ![target[w]] = @ + 1]
  /\ UNCHANGED <<buf, head, tail, bstate, target, index, item, sent>>

Push(w) ==
  \/ PushCheckState(w) \/ PushCheckCount(w) \/ PushMarkFull(w)
  \/ PushLoadHead(w) \/ PushClaim(w) \/ PushStore(w) \/ PushCount(w)

-----------------------------------------------------------------------------
(***************************************************************************)
(* Pop.  It answers nil at once when the count is zero; otherwise it       *)
(* claims the tail, reads the slot, empties it and lowers the count.  The  *)
(* slot is read up to three times until an item appears; reads change      *)
(* nothing and the last one decides, so one read stands for the loop.      *)
(***************************************************************************)
(* Mutant: a ring with one item is taken for an empty one. *)
PopCheckCountOne(r) ==
  /\ \/ /\ Goto(r, "q_count", "q_done")
        /\ count[target[r]] <= 1
        /\ item' = [item EXCEPT ![r] = Nil]
     \/ /\ Goto(r, "q_count", "q_tail")
        /\ count[target[r]] > 1
        /\ UNCHANGED item
  /\ UNCHANGED <<ringVars, target, index, sent>>

(* Mutant: the count is not looked at. *)
PopCheckCountNever(r) ==
  /\ Goto(r, "q_count", "q_tail")
  /\ UNCHANGED <<ringVars, target, index, item, sent>>

PopCheckCount(r) ==
  LET b == target[r] IN
  /\ \/ /\ Goto(r, "q_count", "q_done")
        /\ count[b] = 0
        /\ item' = [item EXCEPT ![r] = Nil]
     \/ /\ Goto(r, "q_count", "q_tail")
        /\ count[b] # 0
        /\ UNCHANGED item
  /\ UNCHANGED <<ringVars, target, index, sent>>

PopLoadTail(r) ==
  /\ Goto(r, "q_tail", "q_cas")
  /\ index' = [index EXCEPT ![r] = tail[target[r]]]
  /\ UNCHANGED <<ringVars, target, item, sent>>

PopClaim(r) ==
  LET b == target[r] IN
  /\ \/ /\ Goto(r, "q_cas", "q_read")
        /\ tail[b] = index[r]
        /\ tail' = [tail EXCEPT ![b] = Incr(@)]
     \/ /\ Goto(r, "q_cas", "q_count")
        /\ tail[b] # index[r]
        /\ UNCHANGED tail
  /\ UNCHANGED <<buf, head, count, bstate, target, index, item, sent>>

PopRead(r) ==
  /\ Goto(r, "q_read", "q_clear")
  /\ item' = [item EXCEPT ![r] = buf[target[r]][calcPos(index[r])]]
  /\ UNCHANGED <<ringVars, target, index, sent>>

PopClear(r) ==
  /\ Goto(r, "q_clear", "q_dec")
  /\ buf' = [buf EXCEPT ![target[r]][calcPos(index[r])] = Nil]
  /\ UNCHANGED <<head, tail, count, bstate, target, index, item, sent>>

PopCount(r) ==
  /\ Goto(r, "q_dec", "q_done")
  /\ count' = [count EXCEPT ![target[r]] = @ - 1]
  /\ UNCHANGED <<buf, head, tail, bstate, target, index, item, sent>>

Pop(r) ==
  \/ PopCheckCount(r) \/ PopLoadTail(r) \/ PopClaim(r)
  \/ PopRead(r) \/ PopClear(r) \/ PopCount(r)

-----------------------------------------------------------------------------
(***************************************************************************)
(* Reset.  Plain writes, in program order, to fields that a late Push may  *)
(* be using; the slots keep what they hold.                                *)
(***************************************************************************)
ResetState(r) ==
  /\ Goto(r, "z_state", "z_count")
  /\ bstate' = [bstate EXCEPT ![target[r]] = "WriteOnly"]
  /\ UNCHANGED <<buf, head, tail, count, target, index, item, sent>>

ResetCount(r) ==
  /\ Goto(r, "z_count", "z_index")
  /\ count' = [count EXCEPT ![target[r]] = 0]
  /\ UNCHANGED <<buf, head, tail, bstate, target, index, item, sent>>

ResetCursors(r) ==
  /\ Goto(r, "z_index", "z_done")
  /\ head' = [head EXCEPT ![target[r]] = -1]
  /\ tail' = [tail EXCEPT ![target[r]] = -1]
  /\ UNCHANGED <<buf, count, bstate, target, index, item, sent>>

Reset(r) == ResetState(r) \/ ResetCount(r) \/ ResetCursors(r)
=============================================================================
