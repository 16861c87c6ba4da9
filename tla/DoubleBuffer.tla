---------------------------- MODULE DoubleBuffer ----------------------------
(***************************************************************************)
(* DoubleBuffer (double_buffer.go): writers push messages into the active  *)
(* SmartBuffer; when it is full, or every so often, it is switched for the *)
(* passive one and handed, through a goroutine that gives it a sequence    *)
(* number, to a minimum heap; BlockingRead takes the buffers off the heap  *)
(* in sequence order, drains them and gives them back to a sync.Pool.      *)
(*                                                                         *)
(* Goroutines: the callers of Write (Writers), of BlockingRead (Readers)   *)
(* and of Close (Closers); the two the constructor starts, swapMonitor     *)
(* (Monitor) and asyncRecycleWorker (Recycler); and one per switch, task k *)
(* being the one the k-th switch spawns.  Every access to shared memory is *)
(* a step of its own; what happens under a lock nobody else can see        *)
(* through is one step.                                                    *)
(*                                                                         *)
(* The memory pools of LifeCycleManager, the priority queue's array and    *)
(* the waiter channels' own pool are other components' business: the heap  *)
(* is the set of its items, a waiter's channel holds a token or not.       *)
(***************************************************************************)
EXTENDS SmartBuffer, Sequences, FiniteSets

CONSTANTS
  Readers, Closers, Monitor, Recycler,
  MaxBuffers,          \* bound: SmartBuffers that are ever allocated
  MaxSwitches,         \* bound: switches, and goroutines they spawn
  MaxWrites,           \* bound: calls of Write per writer
  MaxTimeouts,         \* bound: switches the monitor decides for their time
  MaxWaitersPerBatch   \* the most waiters one notify wakes up (64)

Tasks == 1 .. MaxSwitches

ASSUME DoubleBufferAssumption ==
  /\ Threads = Writers \cup Readers \cup Closers \cup {Monitor, Recycler}
  /\ Writers \cap Readers = {} /\ Writers \cap Closers = {}
  /\ Readers \cap Closers = {} /\ Monitor # Recycler
  /\ {Monitor, Recycler} \cap (Writers \cup Readers \cup Closers) = {}
  /\ Nil \notin Threads
  /\ Buffers = 1 .. MaxBuffers /\ MaxBuffers \in Nat /\ MaxBuffers >= 2
  /\ {MaxSwitches, MaxWrites, MaxTimeouts} \subseteq Nat
  /\ MaxWaitersPerBatch \in Nat \ {0}
  /\ Nil \notin [seq : Nat, buf : Buffers]

VARIABLES
  state,               \* "Writing", "Switching" or "Closed"
  active, passive,     \* the two SmartBuffers of the front end
  dcount,              \* DoubleBuffer.count: writes since the last switch
  writeLock,           \* the goroutine that holds writeLock, or Nil
  switchLock,          \* the goroutine that holds switchLock, or Nil
  pool,                \* pool[b]: how often b lies in the sync.Pool
  allocated,           \* buffers 1 .. allocated exist
  sequence,            \* the last sequence number given out
  currentSequence,     \* the sequence number the readers take next
  heap,                \* pendingHeap: the items waiting for a reader
  current,             \* currentBuffer: the buffer being read, or Nil
  tpc, tbuf, tseq, tlen, \* task k: where it is, its buffer, number and length
  spawned,             \* how many tasks have been spawned
  timeouts,            \* how often the monitor has switched for the time
  picked,              \* picked[r]: the heap item r has in hand, or Nil
  retries,             \* retries[r]: how often r has put an item back
  woken,               \* the readers in the second tryRead of BlockingRead
  waiters,             \* the readers registered with the WaiterManager
  token,               \* the readers whose channel holds a notification
  stopped,             \* the channel stop is closed
  readMode,            \* a read mode is registered
  accepted,            \* history: the messages whose Write returned nil
  delivered            \* history: the messages read, in order

localVars == <<target, index, item, sent>>
frontVars == <<state, active, passive, dcount, writeLock, switchLock, accepted>>
poolVars  == <<pool, allocated>>
seqVars   == <<sequence, currentSequence, heap, current>>
taskVars  == <<tpc, tbuf, tseq, tlen, spawned>>
readVars  == <<picked, retries, woken, delivered>>
waitVars  == <<waiters, token>>
ctlVars   == <<timeouts, stopped, readMode>>
backVars  == <<poolVars, seqVars, taskVars, readVars, waitVars, ctlVars>>
dbVars    == <<frontVars, backVars>>
vars      == <<ringVars, threadVars, dbVars>>

Switchers == Writers \cup {Monitor}
Items     == [seq : Nat, buf : Buffers]

WriterLabels == {"idle", "w_fast", "w_load", "w_lock", "w_inspect"}
SwitchLabels == {"s_cas", "s_lock", "s_freeze", "s_swap", "s_zero",
                 "s_spawn", "s_restore", "s_unlock"}
ReaderLabels == {"idle", "t_nil", "t_len", "t_drop", "t_take", "t_put",
                 "k_pick", "k_cmp", "k_set", "k_inc", "k_back", "k_ret", "t_mode",
                 "t_pop", "b_register", "b_wait", "b_leave",
                 "panic"}
CloserLabels == {"idle", "c_stop", "c_pool", "c_wait", "c_len", "c_pick",
                 "c_done", "c_noop", "panic"}
TaskLabels   == {"none", "seq", "push", "len", "notify", "done"}

LabelsOf(t) ==
  CASE t \in Writers -> WriterLabels \cup PushLabels \cup SwitchLabels
    [] t \in Readers -> ReaderLabels \cup PopLabels \cup ResetLabels
    [] t \in Closers -> CloserLabels
    [] t = Monitor   -> SwitchLabels \cup {"m_tick", "m_done"}
    [] t = Recycler  -> {"y_tick", "y_done"}

LabelsOK ==
  /\ pc \in [Threads -> UNION {LabelsOf(t) : t \in Threads}]
  /\ \A t \in Threads : pc[t] \in LabelsOf(t)

FrontTypeOK ==
  /\ state \in {"Writing", "Switching", "Closed"}
  /\ active \in Buffers /\ passive \in Buffers /\ dcount \in Nat
  /\ writeLock \in Writers \cup {Nil} /\ switchLock \in Switchers \cup {Nil}
  /\ accepted \subseteq Messages

BackTypeOK ==
  /\ pool \in [Buffers -> Nat] /\ allocated \in Nat
  /\ sequence \in Nat /\ currentSequence \in Nat
  /\ heap \subseteq Items /\ current \in Buffers \cup {Nil}
  /\ tpc \in [Tasks -> TaskLabels] /\ tbuf \in [Tasks -> Buffers \cup {Nil}]
  /\ tseq \in [Tasks -> Nat] /\ tlen \in [Tasks -> Int]
  /\ spawned \in Nat /\ timeouts \in Nat
  /\ picked \in [Readers -> Items \cup {Nil}] /\ retries \in [Readers -> Nat]
  /\ woken \subseteq Readers /\ waiters \subseteq Readers /\ token \subseteq Readers
  /\ stopped \in BOOLEAN /\ readMode \in BOOLEAN /\ delivered \in Seq(Messages)

TypeOK == RingTypeOK /\ LabelsOK /\ FrontTypeOK /\ BackTypeOK

-----------------------------------------------------------------------------
(* NewDoubleBuffer: two buffers from the empty pool, two goroutines. *)
Init ==
  /\ NewSmartBuffer
  /\ pc = [t \in Threads |-> CASE t = Monitor  -> "m_tick"
                               [] t = Recycler -> "y_tick"
                               [] OTHER        -> "idle"]
  /\ target = [t \in Threads |-> Nil] /\ index = [t \in Threads |-> 0]
  /\ item = [t \in Threads |-> Nil]   /\ sent = [w \in Writers |-> 0]
  /\ state = "Writing" /\ active = 1 /\ passive = 2 /\ dcount = 0
  /\ writeLock = Nil /\ switchLock = Nil
  /\ pool = [b \in Buffers |-> 0] /\ allocated = 2
  /\ sequence = 0 /\ currentSequence = 1 /\ heap = {} /\ current = Nil
  /\ tpc = [k \in Tasks |-> "none"] /\ tbuf = [k \in Tasks |-> Nil]
  /\ tseq = [k \in Tasks |-> 0] /\ tlen = [k \in Tasks |-> 0]
  /\ spawned = 0 /\ timeouts = 0
  /\ picked = [r \in Readers |-> Nil] /\ retries = [r \in Readers |-> 0]
  /\ woken = {} /\ waiters = {} /\ token = {}
  /\ stopped = FALSE /\ readMode = FALSE
  /\ accepted = {} /\ delivered = <<>>

(* The local variables of a procedure die with it. *)
Forget(t) ==
  /\ target' = [target EXCEPT ![t] = Nil]
  /\ index'  = [index EXCEPT ![t] = 0]
  /\ item'   = [item EXCEPT ![t] = Nil]
  /\ UNCHANGED sent

-----------------------------------------------------------------------------
(***************************************************************************)
(* Write.  The copy into the LifeCycleManager's pools at its start touches *)
(* none of this state.                                                     *)
(***************************************************************************)
WriteBegin(w) ==
  /\ sent[w] < MaxWrites
  /\ sent' = [sent EXCEPT ![w] = @ + 1]
  /\ Goto(w, "idle", IF state = "Closed" THEN "idle" ELSE "w_fast")
  /\ UNCHANGED <<ringVars, target, index, item, dbVars>>

WriteFast(w) ==
  /\ Goto(w, "w_fast", IF state = "Writing" THEN "w_load" ELSE "w_lock")
  /\ UNCHANGED <<ringVars, localVars, dbVars>>

(* d.active is read without a lock, on the fast path and on the slow one. *)
WriteLoadActive(w) ==
  /\ Goto(w, "w_load", "p_state")
  /\ target' = [target EXCEPT ![w] = active]
  /\ UNCHANGED <<ringVars, index, item, sent, dbVars>>

WritePush(w) == Push(w) /\ UNCHANGED dbVars

(* Returning drops the writeLock if this call has taken the slow path. *)
UnlockWrite(w) == writeLock' = IF writeLock = w THEN Nil ELSE writeLock

WriteAccepted(w) ==
  /\ Goto(w, "p_ok", "idle")
  /\ dcount' = dcount + 1
  /\ accepted' = accepted \cup {Message(w)}
  /\ UnlockWrite(w)
  /\ Forget(w)
  /\ UNCHANGED <<ringVars, state, active, passive, switchLock,
                 backVars>>

WriteFastFailed(w) ==
  /\ writeLock # w
  /\ Goto(w, "p_err", "w_lock")
  /\ Forget(w)
  /\ UNCHANGED <<ringVars, dbVars>>

WriteRejected(w) ==
  /\ writeLock = w
  /\ Goto(w, "p_err", "idle")
  /\ UnlockWrite(w)
  /\ Forget(w)
  /\ UNCHANGED <<ringVars, state, active, passive, dcount,
                 switchLock, backVars, accepted>>

WriteLock(w) ==
  /\ writeLock = Nil
  /\ writeLock' = w
  /\ Goto(w, "w_lock", "w_inspect")
  /\ UNCHANGED <<ringVars, localVars, state, active, passive, dcount,
                 switchLock, backVars, accepted>>

WriteInspect(w) ==
  /\ Goto(w, "w_inspect", IF bstate[active] = "ReadOnly"
                          THEN "s_cas" ELSE "w_load")
  /\ UNCHANGED <<ringVars, localVars, dbVars>>

Write(w) ==
  \/ WriteBegin(w) \/ WriteFast(w) \/ WriteLoadActive(w) \/ WritePush(w)
  \/ WriteAccepted(w) \/ WriteFastFailed(w) \/ WriteRejected(w)
  \/ WriteLock(w) \/ WriteInspect(w)

-----------------------------------------------------------------------------
(***************************************************************************)
(* switchChannel, called by the slow path of Write and by the monitor.     *)
(***************************************************************************)
AfterSwitch(p) == IF p = Monitor THEN "m_tick" ELSE "w_load"

(* Mutant: the state is stored without being compared. *)
SwitchBeginBlindly(p) ==
  /\ Goto(p, "s_cas", "s_lock")
  /\ state' = "Switching"
  /\ UNCHANGED <<ringVars, localVars, active, passive, dcount, writeLock,
                 switchLock, backVars, accepted>>

(* Mutant: the state is only compared with "Switching". *)
SwitchBeginWhenClosed(p) == state # "Switching" /\ SwitchBeginBlindly(p)

SwitchBegin(p) ==
  /\ \/ /\ state = "Writing"
        /\ state' = "Switching"
        /\ Goto(p, "s_cas", "s_lock")
     \/ /\ state # "Writing"
        /\ Goto(p, "s_cas", AfterSwitch(p))
        /\ UNCHANGED state
  /\ UNCHANGED <<ringVars, localVars, active, passive, dcount, writeLock,
                 switchLock, backVars, accepted>>

SwitchLock(p) ==
  /\ switchLock = Nil
  /\ switchLock' = p
  /\ Goto(p, "s_lock", "s_freeze")
  /\ UNCHANGED <<ringVars, localVars, state, active, passive, dcount,
                 writeLock, backVars, accepted>>

(* Mutant: the buffer is handed over without being made ReadOnly. *)
SwitchFreezeNothing(p) ==
  /\ Goto(p, "s_freeze", "s_swap")
  /\ UNCHANGED <<ringVars, localVars, dbVars>>

SwitchFreeze(p) ==
  /\ Goto(p, "s_freeze", "s_swap")
  /\ bstate' = [bstate EXCEPT ![active] = "ReadOnly"]
  /\ UNCHANGED <<buf, head, tail, count, localVars, dbVars>>

(* pool.Get: a pooled buffer or a new one; which is up to the runtime. *)
PoolGet(b) ==
  \/ /\ pool[b] > 0
     /\ pool' = [pool EXCEPT ![b] = @ - 1]
     /\ UNCHANGED allocated
  \/ /\ b = allocated + 1
     /\ allocated' = b
     /\ UNCHANGED pool

(* swapChannels: the old active buffer stays in the switching goroutine's
   hands, as its target. *)
SwitchSwap(p) ==
  /\ Goto(p, "s_swap", "s_zero")
  /\ \E b \in Buffers : PoolGet(b) /\ passive' = b
  /\ active' = passive
  /\ target' = [target EXCEPT ![p] = active]
  /\ UNCHANGED <<ringVars, index, item, sent, state, dcount, writeLock,
                 switchLock, seqVars, taskVars, readVars, waitVars, ctlVars,
                 accepted>>

SwitchZero(p) ==
  /\ Goto(p, "s_zero", "s_spawn")
  /\ dcount' = 0
  /\ UNCHANGED <<ringVars, localVars, state, active, passive, writeLock,
                 switchLock, backVars, accepted>>

SwitchSpawn(p) ==
  /\ Goto(p, "s_spawn", "s_restore")
  /\ spawned < MaxSwitches
  /\ spawned' = spawned + 1
  /\ tpc' = [tpc EXCEPT ![spawned + 1] = "seq"]
  /\ tbuf' = [tbuf EXCEPT ![spawned + 1] = target[p]]
  /\ Forget(p)
  /\ UNCHANGED <<ringVars, frontVars, poolVars, seqVars, tseq,
                 tlen, readVars, waitVars, ctlVars>>

(* Mutant: the state of a SmartBuffer is stored in that of the DoubleBuffer. *)
SwitchRestoreWriteOnly(p) ==
  /\ Goto(p, "s_restore", "s_unlock")
  /\ state' = "WriteOnly"
  /\ UNCHANGED <<ringVars, localVars, active, passive, dcount, writeLock,
                 switchLock, backVars, accepted>>

SwitchRestore(p) ==
  /\ Goto(p, "s_restore", "s_unlock")
  /\ state' = "Writing"
  /\ UNCHANGED <<ringVars, localVars, active, passive, dcount, writeLock,
                 switchLock, backVars, accepted>>

(* Mutant: the deferred unlock is missing. *)
SwitchUnlockNever(p) ==
  /\ Goto(p, "s_unlock", AfterSwitch(p))
  /\ UNCHANGED <<ringVars, localVars, frontVars, backVars>>

SwitchUnlock(p) ==
  /\ Goto(p, "s_unlock", AfterSwitch(p))
  /\ switchLock' = Nil
  /\ UNCHANGED <<ringVars, localVars, state, active, passive, dcount,
                 writeLock, backVars, accepted>>

switchChannel(p) ==
  \/ SwitchBegin(p) \/ SwitchLock(p) \/ SwitchFreeze(p) \/ SwitchSwap(p)
  \/ SwitchZero(p) \/ SwitchSpawn(p) \/ SwitchRestore(p) \/ SwitchUnlock(p)

(***************************************************************************)
(* swapMonitor.  needSwitch: the count has reached the size, or enough     *)
(* time has passed; a negative answer changes nothing.  The answer may be  *)
(* out of date when switchChannel runs.                                    *)
(***************************************************************************)
needSwitch ==
  \/ dcount >= Capacity /\ UNCHANGED timeouts
  \/ timeouts < MaxTimeouts /\ timeouts' = timeouts + 1

MonitorTick ==
  /\ Goto(Monitor, "m_tick", "s_cas")
  /\ needSwitch
  /\ UNCHANGED <<ringVars, localVars, frontVars, poolVars, seqVars, taskVars,
                 readVars, waitVars, stopped, readMode>>

MonitorStop ==
  /\ stopped
  /\ Goto(Monitor, "m_tick", "m_done")
  /\ UNCHANGED <<ringVars, localVars, dbVars>>

RecyclerStop ==
  /\ stopped
  /\ Goto(Recycler, "y_tick", "y_done")
  /\ UNCHANGED <<ringVars, localVars, dbVars>>

(***************************************************************************)
(* The goroutine a switch spawns: it takes the next sequence number,       *)
(* pushes the buffer on the heap, and wakes up as many waiters as the      *)
(* buffer then holds items, at most MaxWaitersPerBatch.                    *)
(***************************************************************************)
TaskGoto(k, from, to) == tpc[k] = from /\ tpc' = [tpc EXCEPT ![k] = to]

TaskNumber(k) ==
  /\ TaskGoto(k, "seq", "push")
  /\ sequence' = sequence + 1
  /\ tseq' = [tseq EXCEPT ![k] = sequence + 1]
  /\ UNCHANGED <<ringVars, threadVars, frontVars, poolVars, currentSequence,
                 heap, current, tbuf, tlen, spawned, readVars, waitVars,
                 ctlVars>>

TaskPush(k) ==
  /\ TaskGoto(k, "push", "len")
  /\ heap' = heap \cup {[seq |-> tseq[k], buf |-> tbuf[k]]}
  /\ UNCHANGED <<ringVars, threadVars, frontVars, poolVars, sequence,
                 currentSequence, current, tbuf, tseq, tlen, spawned,
                 readVars, waitVars, ctlVars>>

TaskLen(k) ==
  /\ TaskGoto(k, "len", "notify")
  /\ tlen' = [tlen EXCEPT ![k] = count[tbuf[k]]]
  /\ UNCHANGED <<ringVars, threadVars, frontVars, poolVars, seqVars, tbuf,
                 tseq, spawned, readVars, waitVars, ctlVars>>

Least(i, j) == IF i <= j THEN i ELSE j

TaskNotify(k) ==
  LET n == Least(Least(MaxWaitersPerBatch, tlen[k]), Cardinality(waiters)) IN
  /\ TaskGoto(k, "notify", "done")
  /\ \/ /\ n <= 0
        /\ UNCHANGED waitVars
     \/ /\ n > 0
        /\ \E S \in SUBSET waiters :
             /\ Cardinality(S) = n
             /\ waiters' = waiters \ S
             /\ token' = token \cup S
  /\ tlen' = [tlen EXCEPT ![k] = 0]
  /\ UNCHANGED <<ringVars, threadVars, frontVars, poolVars, seqVars, tbuf,
                 tseq, spawned, readVars, ctlVars>>

Task(k) == TaskNumber(k) \/ TaskPush(k) \/ TaskLen(k) \/ TaskNotify(k)

-----------------------------------------------------------------------------
(***************************************************************************)
(* tryRead.  A buffer that has run empty is Reset and given back before    *)
(* the next one is picked; "panic" is a nil pointer dereference.           *)
(***************************************************************************)
RegisterReadMode ==
  /\ readMode' = TRUE
  /\ UNCHANGED <<ringVars, threadVars, frontVars, poolVars, seqVars, taskVars,
                 readVars, waitVars, timeouts, stopped>>

(* Where a tryRead that returns an error leaves BlockingRead. *)
NoData(r) == IF r \in woken THEN "b_leave" ELSE "b_register"

ReadBegin(r) ==
  /\ Goto(r, "idle", "t_nil")
  /\ UNCHANGED <<ringVars, localVars, dbVars>>

(* Starting the loop of pickBufferFromHeap resets its counter. *)
ReadCheckNil(r) ==
  /\ Goto(r, "t_nil", IF current = Nil THEN "k_pick" ELSE "t_len")
  /\ retries' = [retries EXCEPT ![r] = 0]
  /\ UNCHANGED <<ringVars, localVars, frontVars, poolVars, seqVars, taskVars,
                 picked, woken, delivered, waitVars, ctlVars>>

ReadCheckLen(r) ==
  /\ \/ Goto(r, "t_len", "panic")  /\ current = Nil
     \/ Goto(r, "t_len", "t_drop") /\ current # Nil /\ count[current] = 0
     \/ Goto(r, "t_len", "t_mode") /\ current # Nil /\ count[current] # 0
  /\ UNCHANGED <<ringVars, localVars, dbVars>>

ReadDrop(r) ==
  /\ Goto(r, "t_drop", IF current # Nil THEN "t_take" ELSE "k_pick")
  /\ UNCHANGED <<ringVars, localVars, dbVars>>

ReadTake(r) ==
  /\ \/ current # Nil /\ Goto(r, "t_take", "z_state")
     \/ current = Nil /\ Goto(r, "t_take", "panic")
  /\ target' = [target EXCEPT ![r] = current]
  /\ UNCHANGED <<ringVars, index, item, sent, dbVars>>

ReadReset(r) == Reset(r) /\ UNCHANGED dbVars

(* Mutant: currentBuffer keeps pointing to the buffer that is given back. *)
ReadForgetNothing(r) ==
  /\ Goto(r, "z_done", "t_put")
  /\ UNCHANGED <<ringVars, localVars, dbVars>>

ReadForget(r) ==
  /\ Goto(r, "z_done", "t_put")
  /\ current' = Nil
  /\ UNCHANGED <<ringVars, localVars, frontVars, poolVars, sequence,
                 currentSequence, heap, taskVars, readVars, waitVars, ctlVars>>

ReadPut(r) ==
  /\ Goto(r, "t_put", "k_pick")
  /\ pool' = [pool EXCEPT ![target[r]] = @ + 1]
  /\ Forget(r)
  /\ UNCHANGED <<ringVars, frontVars, allocated, seqVars, taskVars,
                 readVars, waitVars, ctlVars>>

(***************************************************************************)
(* pickBufferFromHeap.  Of the items on the heap the one with the least    *)
(* number is taken; if it is not the one that is due it is put back, and   *)
(* after three attempts the loop gives up.                                 *)
(***************************************************************************)
MaxRetries == 3

LeastItems == {i \in heap : \A j \in heap : i.seq <= j.seq}

PickItem(r) ==
  /\ \/ /\ heap = {}
        /\ Goto(r, "k_pick", NoData(r))
        /\ UNCHANGED <<heap, picked>>
     \/ \E i \in LeastItems :
          /\ Goto(r, "k_pick", "k_cmp")
          /\ heap' = heap \ {i}
          /\ picked' = [picked EXCEPT ![r] = i]
  /\ UNCHANGED <<ringVars, localVars, frontVars, poolVars, sequence,
                 currentSequence, current, taskVars, retries, woken,
                 delivered, waitVars, ctlVars>>

(* Mutant: any number that is not past is accepted. *)
PickCompareAtLeast(r) ==
  /\ Goto(r, "k_cmp", IF picked[r].seq >= currentSequence THEN "k_set"
                                                          ELSE "k_back")
  /\ UNCHANGED <<ringVars, localVars, dbVars>>

PickCompare(r) ==
  /\ Goto(r, "k_cmp", IF picked[r].seq = currentSequence
                      THEN "k_set" ELSE "k_back")
  /\ UNCHANGED <<ringVars, localVars, dbVars>>

PickSet(r) ==
  /\ Goto(r, "k_set", "k_inc")
  /\ current' = picked[r].buf
  /\ UNCHANGED <<ringVars, localVars, frontVars, poolVars, sequence,
                 currentSequence, heap, taskVars, readVars, waitVars, ctlVars>>

(* Mutant: currentSequence is not raised. *)
PickAdvanceNothing(r) ==
  /\ Goto(r, "k_inc", "k_ret")
  /\ picked' = [picked EXCEPT ![r] = Nil]
  /\ UNCHANGED <<ringVars, localVars, frontVars, poolVars, seqVars, taskVars,
                 retries, woken, delivered, waitVars, ctlVars>>

PickAdvance(r) ==
  /\ Goto(r, "k_inc", "k_ret")
  /\ currentSequence' = currentSequence + 1
  /\ picked' = [picked EXCEPT ![r] = Nil]
  /\ UNCHANGED <<ringVars, localVars, frontVars, poolVars, sequence, heap,
                 current, taskVars, retries, woken, delivered, waitVars,
                 ctlVars>>

(* Mutant: the item that is not due is forgotten. *)
PickPutBackLost(r) ==
  /\ Goto(r, "k_back", IF retries[r] + 1 < MaxRetries THEN "k_pick" ELSE "k_ret")
  /\ retries' = [retries EXCEPT ![r] = @ + 1]
  /\ picked' = [picked EXCEPT ![r] = Nil]
  /\ UNCHANGED <<ringVars, localVars, frontVars, poolVars, seqVars, taskVars,
                 woken, delivered, waitVars, ctlVars>>

PickPutBack(r) ==
  /\ Goto(r, "k_back", IF retries[r] + 1 < MaxRetries
                       THEN "k_pick" ELSE "k_ret")
  /\ retries' = [retries EXCEPT ![r] = @ + 1]
  /\ heap' = heap \cup {picked[r]}
  /\ picked' = [picked EXCEPT ![r] = Nil]
  /\ UNCHANGED <<ringVars, localVars, frontVars, poolVars, sequence,
                 currentSequence, current, taskVars, woken, delivered,
                 waitVars, ctlVars>>

(* Mutant: giving up is taken for success. *)
PickReturnTrue(r) ==
  /\ Goto(r, "k_ret", "t_mode")
  /\ UNCHANGED <<ringVars, localVars, dbVars>>

PickReturn(r) ==
  /\ Goto(r, "k_ret", IF current # Nil THEN "t_mode" ELSE NoData(r))
  /\ UNCHANGED <<ringVars, localVars, dbVars>>

pickBufferFromHeap(r) ==
  \/ PickItem(r) \/ PickCompare(r) \/ PickSet(r) \/ PickAdvance(r)
  \/ PickPutBack(r) \/ PickReturn(r)

(* An unregistered read mode is a nil pointer. *)
ReadMode(r) ==
  /\ Goto(r, "t_mode", IF readMode THEN "t_pop" ELSE "panic")
  /\ UNCHANGED <<ringVars, localVars, dbVars>>

ReadEnterPop(r) ==
  /\ \/ current # Nil /\ Goto(r, "t_pop", "q_count")
     \/ current = Nil /\ Goto(r, "t_pop", "panic")
  /\ target' = [target EXCEPT ![r] = current]
  /\ UNCHANGED <<ringVars, index, item, sent, dbVars>>

ReadPop(r) == Pop(r) /\ UNCHANGED dbVars

(* Mutant: the second result of the read mode is not looked at. *)
ReadReturnAlways(r) ==
  /\ Goto(r, "q_done", IF r \in woken THEN "b_leave" ELSE "idle")
  /\ delivered' = Append(delivered, item[r])
  /\ Forget(r)
  /\ UNCHANGED <<ringVars, frontVars, poolVars, seqVars, taskVars,
                 picked, retries, woken, waitVars, ctlVars>>

(* A message ends the call; without one tryRead returns ErrRead. *)
ReadReturn(r) ==
  /\ \/ /\ item[r] # Nil
        /\ Goto(r, "q_done", IF r \in woken THEN "b_leave" ELSE "idle")
        /\ delivered' = Append(delivered, item[r])
     \/ /\ item[r] = Nil
        /\ Goto(r, "q_done", NoData(r))
        /\ UNCHANGED delivered
  /\ Forget(r)
  /\ UNCHANGED <<ringVars, frontVars, poolVars, seqVars, taskVars,
                 picked, retries, woken, waitVars, ctlVars>>

tryRead(r) ==
  \/ ReadCheckNil(r) \/ ReadCheckLen(r) \/ ReadDrop(r) \/ ReadTake(r)
  \/ ReadReset(r) \/ ReadForget(r) \/ ReadPut(r) \/ pickBufferFromHeap(r)
  \/ ReadMode(r) \/ ReadEnterPop(r) \/ ReadPop(r) \/ ReadReturn(r)

(***************************************************************************)
(* BlockingRead.  After a first tryRead without success the reader         *)
(* registers and waits; a notification lets it try once more, and whatever *)
(* that answers is returned.  Leaving unregisters.                         *)
(***************************************************************************)
ReadRegister(r) ==
  /\ Goto(r, "b_register", "b_wait")
  /\ waiters' = waiters \cup {r}
  /\ token' = token \ {r}
  /\ UNCHANGED <<ringVars, localVars, frontVars, poolVars, seqVars, taskVars,
                 readVars, ctlVars>>

ReadWoken(r) ==
  /\ Goto(r, "b_wait", "t_nil")
  /\ r \in token
  /\ token' = token \ {r}
  /\ woken' = woken \cup {r}
  /\ UNCHANGED <<ringVars, localVars, frontVars, poolVars, seqVars, taskVars,
                 picked, retries, delivered, waiters, ctlVars>>

(* The caller's context ends, or Close has closed stop. *)
ReadTimeout(r) ==
  /\ Goto(r, "b_wait", "b_leave")
  /\ UNCHANGED <<ringVars, localVars, dbVars>>

ReadLeave(r) ==
  /\ Goto(r, "b_leave", "idle")
  /\ waiters' = waiters \ {r}
  /\ token' = token \ {r}
  /\ woken' = woken \ {r}
  /\ UNCHANGED <<ringVars, localVars, frontVars, poolVars, seqVars, taskVars,
                 picked, retries, delivered, ctlVars>>

BlockingRead(r) ==
  \/ ReadBegin(r) \/ tryRead(r) \/ ReadRegister(r)
  \/ ReadWoken(r) \/ ReadTimeout(r) \/ ReadLeave(r)

-----------------------------------------------------------------------------
(***************************************************************************)
(* Close, with drainProcessor.  It gives up without effect unless the      *)
(* state is "Writing", also while a switch is under way.  The two fields   *)
(* active and passive keep pointing to the buffers it has pooled.          *)
(***************************************************************************)
CloseBegin(c) ==
  /\ \/ /\ state = "Writing"
        /\ state' = "Closed"
        /\ Goto(c, "idle", "c_stop")
     \/ /\ state # "Writing"
        /\ Goto(c, "idle", "c_noop")
        /\ UNCHANGED state
  /\ UNCHANGED <<ringVars, localVars, active, passive, dcount, writeLock,
                 switchLock, backVars, accepted>>

(* Mutant: stop is not closed. *)
CloseStopNothing(c) ==
  /\ Goto(c, "c_stop", "c_pool")
  /\ UNCHANGED <<ringVars, localVars, dbVars>>

CloseStop(c) ==
  /\ Goto(c, "c_stop", "c_pool")
  /\ stopped' = TRUE
  /\ UNCHANGED <<ringVars, localVars, frontVars, poolVars, seqVars, taskVars,
                 readVars, waitVars, timeouts, readMode>>

ClosePool(c) ==
  /\ Goto(c, "c_pool", "c_wait")
  /\ pool' = [pool EXCEPT ![active] = @ + 1, ![passive] = @ + 1]
  /\ UNCHANGED <<ringVars, localVars, frontVars, allocated, seqVars, taskVars,
                 readVars, waitVars, ctlVars>>

CloseWait(c) ==
  /\ pc[Monitor] = "m_done" /\ pc[Recycler] = "y_done"
  /\ Goto(c, "c_wait", "c_len")
  /\ UNCHANGED <<ringVars, localVars, dbVars>>

DrainCheck(c) ==
  /\ Goto(c, "c_len", IF heap = {} THEN "c_done" ELSE "c_pick")
  /\ UNCHANGED <<ringVars, localVars, dbVars>>

(* The heap may have become empty since DrainCheck: a nil item. *)
DrainItem(c) ==
  /\ \/ \E i \in LeastItems :
          /\ Goto(c, "c_pick", "c_len")
          /\ heap' = heap \ {i}
          /\ pool' = [pool EXCEPT ![i.buf] = @ + 1]
     \/ /\ heap = {}
        /\ Goto(c, "c_pick", "panic")
        /\ UNCHANGED <<heap, pool>>
  /\ UNCHANGED <<ringVars, localVars, frontVars, allocated, sequence,
                 currentSequence, current, taskVars, readVars, waitVars,
                 ctlVars>>

Close(c) ==
  \/ CloseBegin(c) \/ CloseStop(c) \/ ClosePool(c) \/ CloseWait(c)
  \/ DrainCheck(c) \/ DrainItem(c)

-----------------------------------------------------------------------------
Next ==
  \/ \E w \in Writers : Write(w)
  \/ \E p \in Switchers : switchChannel(p)
  \/ MonitorTick \/ MonitorStop \/ RecyclerStop
  \/ \E k \in Tasks : Task(k)
  \/ RegisterReadMode
  \/ \E r \in Readers : BlockingRead(r)
  \/ \E c \in Closers : Close(c)

Spec == Init /\ [][Next]_vars
=============================================================================
