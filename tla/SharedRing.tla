----------------------------- MODULE SharedRing -----------------------------
(***************************************************************************)
(* One SmartBuffer on its own: goroutines that call Push and goroutines    *)
(* that call Pop, any number of times, with no switch and no Reset.        *)
(* (component/smart_buffer.go)                                             *)
(***************************************************************************)
EXTENDS SmartBuffer, Sequences, FiniteSets

CONSTANTS
  Ring,        \* the only element of Buffers
  Readers,     \* the goroutines that pop
  MaxPushes    \* bound: calls of Push per writer

ASSUME SharedRingAssumption ==
  /\ Buffers = {Ring}
  /\ Threads = Writers \cup Readers /\ Writers \cap Readers = {}
  /\ MaxPushes \in Nat

VARIABLE popped  \* history: the items that Pop has returned, in order

vars == <<ringVars, threadVars, popped>>

TypeOK ==
  /\ RingTypeOK
  /\ \A w \in Writers : pc[w] \in {"idle"} \cup PushLabels
  /\ \A r \in Readers : pc[r] \in {"idle"} \cup PopLabels
  /\ head[Ring] \in Int32 /\ tail[Ring] \in Int32
  /\ popped \in Seq(Messages)

Init ==
  /\ NewSmartBuffer
  /\ pc = [t \in Threads |-> "idle"] /\ target = [t \in Threads |-> Ring]
  /\ index = [t \in Threads |-> 0]   /\ item = [t \in Threads |-> Nil]
  /\ sent = [w \in Writers |-> 0]    /\ popped = <<>>

CallPush(w) ==
  /\ sent[w] < MaxPushes
  /\ sent' = [sent EXCEPT ![w] = @ + 1]
  /\ Goto(w, "idle", "p_state")
  /\ UNCHANGED <<ringVars, target, index, item, popped>>

ReturnPush(w) ==
  /\ pc[w] \in {"p_ok", "p_err"}
  /\ pc' = [pc EXCEPT ![w] = "idle"]
  /\ UNCHANGED <<ringVars, target, index, item, sent, popped>>

PushStep(w) == Push(w) /\ UNCHANGED popped

CallPop(r) ==
  /\ Goto(r, "idle", "q_count")
  /\ UNCHANGED <<ringVars, target, index, item, sent, popped>>

(* The history grows at the step that takes the item out of its slot. *)
PopStep(r) ==
  /\ Pop(r)
  /\ popped' = IF pc[r] = "q_clear" /\ item[r] # Nil THEN Append(popped, item[r])
                                                     ELSE popped

ReturnPop(r) ==
  /\ Goto(r, "q_done", "idle")
  /\ UNCHANGED <<ringVars, target, index, item, sent, popped>>

Next ==
  \/ \E w \in Writers : CallPush(w) \/ PushStep(w) \/ ReturnPush(w)
  \/ \E r \in Readers : CallPop(r) \/ PopStep(r) \/ ReturnPop(r)

Spec == Init /\ [][Next]_vars

(* The callers of Pop keep calling, a Push that has begun goes on. *)
FairSpec ==
  /\ Spec
  /\ \A w \in Writers : WF_vars(PushStep(w) \/ ReturnPush(w))
  /\ \A r \in Readers : WF_vars(CallPop(r) \/ PopStep(r) \/ ReturnPop(r))

-----------------------------------------------------------------------------
(***************************************************************************)
(* For one writer and one reader: the items that Push has counted and Pop  *)
(* has not cleared, from the reader's cursor on, are the queue of a        *)
(* bounded FIFO whose output is what Pop has returned, also when the       *)
(* cursors wrap around, if the capacity divides the number of cursor       *)
(* values.  (smart_buffer.go: Push, Pop, calcPos)                          *)
(***************************************************************************)
Front(r) == IF pc[r] \in {"q_read", "q_clear"} THEN index[r] ELSE tail[Ring]
Inside(r) == count[Ring] - (IF pc[r] = "q_dec" THEN 1 ELSE 0)
TheReader == CHOOSE r \in Readers : TRUE
RingQueue ==
  [i \in 1 .. Inside(TheReader) |-> buf[Ring][calcPos(Front(TheReader) + i - 1)]]

Fifo == INSTANCE BoundedFifo
          WITH queue <- RingQueue, output <- popped, Data <- Writers \X (1 .. MaxPushes)

ImplementsFifo == Fifo!FifoSpec

(***************************************************************************)
(* Every item whose Push has succeeded is returned by a Pop in the end.    *)
(* One writer, one reader that keeps calling.  (smart_buffer.go: Push      *)
(* fills the slot after claiming it, Pop gives up on an empty slot)        *)
(***************************************************************************)
PushedIsPopped ==
  \A w \in Writers : \A n \in 1 .. MaxPushes :
    pc[w] = "p_ok" /\ sent[w] = n ~> \E i \in DOMAIN popped : popped[i] = <<w, n>>
=============================================================================
