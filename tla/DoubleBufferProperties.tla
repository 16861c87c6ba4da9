----------------------- MODULE DoubleBufferProperties -----------------------
(***************************************************************************)
(* What is claimed of DoubleBuffer.  The comment of each property says     *)
(* whether it needs there to be one reader (SoleReader): BlockingRead      *)
(* keeps currentBuffer in a plain field, and the properties that need it   *)
(* are false for two concurrent callers.                                   *)
(***************************************************************************)
EXTENDS DoubleBuffer

SoleReader == \A r1, r2 \in Readers : r1 = r2

(***************************************************************************)
(* Only one goroutine is between the successful compare-and-swap of        *)
(* switchChannel and the store that ends it; the state stays "Switching"   *)
(* meanwhile, and switchLock belongs to that goroutine, or to one that is  *)
(* about to release it.  (double_buffer.go, switchChannel)                 *)
(***************************************************************************)
Switching(p) == pc[p] \in {"s_lock", "s_freeze", "s_swap", "s_zero",
                           "s_spawn", "s_restore"}
HasSwitchLock(p) == pc[p] \in {"s_freeze", "s_swap", "s_zero", "s_spawn",
                               "s_restore", "s_unlock"}

SwitchExclusive ==
  /\ \A p \in Switchers : Switching(p) => state = "Switching"
  /\ \A p, q \in Switchers : Switching(p) /\ Switching(q) => p = q
  /\ \A p \in Switchers : HasSwitchLock(p) <=> switchLock = p

(***************************************************************************)
(* Once Close has won its compare-and-swap nothing reopens or switches the *)
(* buffer, whatever switch was being decided at that moment.               *)
(* (double_buffer.go, Close against switchChannel)                         *)
(***************************************************************************)
ClosedIsFinal ==
  [][state = "Closed" => UNCHANGED <<state, active, passive, spawned>>]_vars

(***************************************************************************)
(* Claims: for each place that refers to a buffer, the place and the       *)
(* buffer.  A switching goroutine and a reader hold one in their hands     *)
(* between two places; the two fields active and passive stop counting     *)
(* when Close has pooled their buffers.                                    *)
(***************************************************************************)
Closing(c)  == pc[c] \in {"c_stop", "c_pool", "c_wait", "c_len", "c_pick",
                          "c_done", "panic"}
Dissolved   == \E c \in Closers : Closing(c) /\ pc[c] \notin {"c_stop", "c_pool"}
InPicking(r) == pc[r] \in {"k_cmp", "k_set", "k_back"}

FrontClaims ==
  IF Dissolved THEN {} ELSE {<<"active", 0, active>>, <<"passive", 0, passive>>}
PoolClaims  == {<<"pool", 0, b>>  : b \in {b \in Buffers : pool[b] > 0}}
FreshClaims == {<<"fresh", 0, b>> : b \in {b \in Buffers : b > allocated}}
SwitchClaims ==
  {<<"switch", p, target[p]>> :
     p \in {p \in Switchers : pc[p] \in {"s_zero", "s_spawn"}}}
TaskClaims ==
  {<<"task", k, tbuf[k]>> : k \in {k \in Tasks : tpc[k] \in {"seq", "push"}}}
HeapClaims == {<<"heap", i.seq, i.buf>> : i \in heap}
HandClaims ==
  {<<"hand", r, picked[r].buf>> : r \in {r \in Readers : InPicking(r)}}
CurrentClaims == {<<"current", 0, b>> : b \in {b \in Buffers : current = b}}
DropClaims ==
  {<<"drop", r, target[r]>> : r \in {r \in Readers : pc[r] = "t_put"}}

Claims ==
  FrontClaims \cup PoolClaims \cup FreshClaims \cup SwitchClaims
    \cup TaskClaims \cup HeapClaims \cup HandClaims \cup CurrentClaims
    \cup DropClaims

(***************************************************************************)
(* Every buffer has one owner: no two of the active side, the passive      *)
(* side, the pool, a switch, a spawned goroutine, the heap and the reader  *)
(* ever refer to the same buffer, and no buffer lies in the pool twice.    *)
(* One reader.  (double_buffer.go: swapChannels, switchChannel, tryRead,   *)
(* Close and drainProcessor pass the buffers around without a common lock) *)
(***************************************************************************)
SingleOwner ==
  /\ \A x, y \in Claims : x[3] = y[3] => x = y
  /\ \A b \in Buffers : pool[b] <= 1

(***************************************************************************)
(* A buffer that has been handed over stays ReadOnly until its reader      *)
(* Resets it, so that a Push that begins after the hand-over fails and no  *)
(* writer can follow the reader round the ring.  One reader.               *)
(* (double_buffer.go: switchChannel, tryRead; smart_buffer.go: Push)       *)
(***************************************************************************)
BeingReset(b) == \E r \in Readers :
                   target[r] = b /\ pc[r] \in {"z_count", "z_index", "z_done"}

PendingReadOnly ==
  \A x \in SwitchClaims \cup TaskClaims \cup HeapClaims \cup HandClaims
             \cup CurrentClaims :
    bstate[x[3]] = "ReadOnly" \/ BeingReset(x[3])

(***************************************************************************)
(* The count of a ring is checked before it is raised, so that writers can *)
(* push it over the capacity, but by no more than one item for each writer *)
(* but one; and it never becomes negative, which would make the ring look  *)
(* non-empty for ever.  One reader.  (smart_buffer.go: Push, Pop, Reset)   *)
(***************************************************************************)
Admitted(b) == {w \in Writers : target[w] = b
                              /\ pc[w] \in {"p_head", "p_cas", "p_store", "p_inc"}}

CountBound ==
  \A b \in Buffers :
    /\ 0 <= count[b]
    /\ count[b] + Cardinality(Admitted(b)) <= Capacity - 1 + Cardinality(Writers)

(***************************************************************************)
(* The sequence numbers: until Close drains the heap, every number given   *)
(* out and not yet taken is held by exactly one of a spawned goroutine,    *)
(* the heap and a reader's hand, and the reader that has compared its item *)
(* with currentSequence still has the number that is due when it installs  *)
(* the buffer and raises currentSequence.  Any number of readers.          *)
(* (double_buffer.go: pickBufferFromHeap takes the item off the heap,      *)
(* compares, and puts it back in separate steps)                           *)
(***************************************************************************)
TaskNumbers == {<<"task", k, tseq[k]>> : k \in {k \in Tasks : tpc[k] = "push"}}
HeapNumbers == {<<"heap", i.buf, i.seq>> : i \in heap}
HandNumbers == {<<"hand", r, picked[r].seq>> :
                  r \in {r \in Readers : picked[r] # Nil}}
Numbers     == TaskNumbers \cup HeapNumbers \cup HandNumbers
Draining    == \E c \in Closers : pc[c] \in {"c_pick", "c_len", "c_done", "panic"}

SequenceKept ==
  /\ \A x, y \in Numbers : x[3] = y[3] => x = y
  /\ \A x \in Numbers : x[3] \in currentSequence .. sequence
  /\ Draining \/ \A n \in currentSequence .. sequence : \E x \in Numbers : x[3] = n
  /\ \A r \in Readers :
       pc[r] \in {"k_set", "k_inc"} => picked[r].seq = currentSequence

(***************************************************************************)
(* The reader dereferences nil only if no read mode has been registered:   *)
(* no path through tryRead leaves currentBuffer nil where it is used.      *)
(* One reader.  (double_buffer.go: tryRead, pickBufferFromHeap)            *)
(***************************************************************************)
NoNilBuffer ==
  [][\A r \in Readers :
       pc[r] # "panic" /\ pc'[r] = "panic" => pc[r] = "t_mode" /\ ~readMode]_vars

(***************************************************************************)
(* A message is delivered at most once, and only if it was offered: the    *)
(* detailed program implements the abstract channel.  One reader.          *)
(***************************************************************************)
Channel == INSTANCE AtMostOnceChannel WITH offered <- sent

ImplementsChannel == Channel!ChannelSpec

-----------------------------------------------------------------------------
(***************************************************************************)
(* Fairness.  Go schedules every runnable goroutine, so that each one that *)
(* is in the middle of a procedure goes on (weak fairness).  The caller of *)
(* BlockingRead calls it again and its context ends at some time.  The     *)
(* select of the two background goroutines picks one of its ready cases at *)
(* random, so that stop is picked in the end (strong fairness).            *)
(***************************************************************************)
Fairness ==
  /\ \A w \in Writers : WF_vars(Write(w) /\ pc[w] # "idle")
  /\ \A p \in Switchers : WF_vars(switchChannel(p))
  /\ \A k \in Tasks : WF_vars(Task(k))
  /\ \A r \in Readers : WF_vars(BlockingRead(r))
  /\ \A c \in Closers : WF_vars(Close(c) /\ pc[c] # "idle")
  /\ SF_vars(MonitorStop) /\ SF_vars(RecyclerStop)

FairSpec == Spec /\ Fairness

(***************************************************************************)
(* Every call of Write returns.  (double_buffer.go: the slow path waits    *)
(* for writeLock and may switch; Push goes round a compare-and-swap)       *)
(***************************************************************************)
WriteReturns == \A w \in Writers : pc[w] # "idle" ~> pc[w] = "idle"

(***************************************************************************)
(* Every buffer that is switched out is picked by the reader in the end,   *)
(* however the numbers arrive on the heap and however often the reader     *)
(* gives up, unless Close drains it or the reader has died of a missing    *)
(* read mode.  (double_buffer.go: switchChannel, pickBufferFromHeap)       *)
(***************************************************************************)
HandedOverIsPicked ==
  \A k \in Tasks :
    tpc[k] # "none" ~> \/ 0 < tseq[k] /\ tseq[k] < currentSequence
                       \/ state = "Closed"
                       \/ \E r \in Readers : pc[r] = "panic"

(***************************************************************************)
(* A Close that has won terminates: both background goroutines see stop,   *)
(* even one that is about to switch, and the drain comes to an end.        *)
(* (double_buffer.go: Close, swapMonitor, asyncRecycleWorker)              *)
(***************************************************************************)
CloseReturns ==
  \A c \in Closers : pc[c] = "c_stop" ~> pc[c] \in {"c_done", "panic"}
=============================================================================
