------------------------- MODULE DoubleBuffer_proofs -------------------------
(***************************************************************************)
(* Type correctness of DoubleBuffer, for any number of writers, readers,   *)
(* closers and buffers; and the exclusion of switchChannel and Close:      *)
(* SwitchExclusive is inductive beside the types, and ClosedIsFinal        *)
(* follows from it.  Then the sequence numbers, and for one reader the     *)
(* owners of the buffers, their counts and the messages.  The last part is *)
(* about the strategies of the monitor.                                    *)
(***************************************************************************)
EXTENDS DoubleBufferProperties, SwitchStrategy, FiniteSetTheorems, TLAPS

(***************************************************************************)
(* TypeOK alone is not inductive: a step that follows a reference relies   *)
(* on its not being Nil.  HandsFull says where references are needed.      *)
(***************************************************************************)
Holding == PushLabels \cup PopLabels \cup ResetLabels
             \cup {"s_zero", "s_spawn", "t_put"}

TargetsFull == \A t \in Threads : pc[t] \in Holding => target[t] \in Buffers

TasksFull ==
  \A k \in Tasks : tpc[k] \in {"seq", "push", "len"} => tbuf[k] \in Buffers

PickedFull ==
  \A r \in Readers :
    pc[r] \in {"k_cmp", "k_set", "k_inc", "k_back"} => picked[r] \in Items

HandsFull == TargetsFull /\ TasksFull /\ PickedFull

TypeInv == TypeOK /\ HandsFull

-----------------------------------------------------------------------------
(* Which labels a goroutine may be at. *)
LEMMA WriterIs ==
  ASSUME NEW w \in Writers
  PROVE  /\ w \in Threads /\ w \in Switchers /\ w \notin Readers
         /\ w \notin Closers /\ w # Monitor /\ w # Recycler
         /\ LabelsOf(w) = WriterLabels \cup PushLabels \cup SwitchLabels
BY DoubleBufferAssumption DEF LabelsOf, Switchers

(* A reader is no other kind of goroutine: which labels are its own. *)
LEMMA ReaderIs ==
  ASSUME NEW r \in Readers
  PROVE  /\ r \in Threads /\ r \notin Switchers /\ r \notin Writers
         /\ r \notin Closers /\ r # Monitor /\ r # Recycler
         /\ LabelsOf(r) = ReaderLabels \cup PopLabels \cup ResetLabels
BY DoubleBufferAssumption DEF LabelsOf, Switchers

(* The labels of a closer. *)
LEMMA CloserIs ==
  ASSUME NEW c \in Closers
  PROVE  /\ c \in Threads /\ c \notin Switchers /\ c \notin Writers
         /\ c \notin Readers /\ c # Monitor /\ c # Recycler
         /\ LabelsOf(c) = CloserLabels
BY DoubleBufferAssumption DEF LabelsOf, Switchers

(* The labels of the monitor. *)
LEMMA MonitorIs ==
  /\ Monitor \in Threads /\ Monitor \in Switchers /\ Monitor \notin Writers
  /\ Monitor \notin Readers /\ Monitor \notin Closers /\ Monitor # Recycler
  /\ LabelsOf(Monitor) = SwitchLabels \cup {"m_tick", "m_done"}
BY DoubleBufferAssumption DEF LabelsOf, Switchers

(* The labels of the recycler. *)
LEMMA RecyclerIs ==
  /\ Recycler \in Threads /\ Recycler \notin Switchers
  /\ Recycler \notin Writers /\ Recycler \notin Readers
  /\ Recycler \notin Closers /\ LabelsOf(Recycler) = {"y_tick", "y_done"}
BY DoubleBufferAssumption DEF LabelsOf, Switchers

(* A switcher is a writer or the monitor, and goes on to one of its labels. *)
LEMMA SwitcherIs ==
  ASSUME NEW p \in Switchers
  PROVE  /\ p \in Threads /\ p \notin Readers /\ p \notin Closers
         /\ SwitchLabels \subseteq LabelsOf(p)
         /\ AfterSwitch(p) \in LabelsOf(p)
         /\ AfterSwitch(p) \in {"m_tick", "w_load"}
<1>1. CASE p = Monitor
  BY <1>1, MonitorIs DEF AfterSwitch
<1>2. CASE p \in Writers
  BY <1>2, WriterIs DEF AfterSwitch, WriterLabels
<1>. QED
  BY <1>1, <1>2 DEF Switchers

(* A step of goroutine t to one of its labels keeps the labels right. *)
LEMMA LabelsStep ==
  ASSUME LabelsOK, NEW t \in Threads, NEW from, NEW to, Goto(t, from, to),
         to \in LabelsOf(t)
  PROVE  LabelsOK'
BY DEF LabelsOK, Goto

(* ... and keeps references full if t's own reference is. *)
LEMMA TargetsStep ==
  ASSUME LabelsOK, TargetsFull, NEW t \in Threads, NEW from, NEW to,
         Goto(t, from, to), \A u \in Threads \ {t} : target'[u] = target[u],
         to \in Holding => target'[t] \in Buffers
  PROVE  TargetsFull'
BY DEF LabelsOK, Goto, TargetsFull

(* PickedFull survives a step from one label to another that leaves the hands
   alone, if a reader comes to a label of a full hand with its hand full. *)
LEMMA PickedStep ==
  ASSUME LabelsOK, PickedFull, NEW t \in Threads, NEW from, NEW to,
         Goto(t, from, to), UNCHANGED picked,
         t \in Readers /\ to \in {"k_cmp", "k_set", "k_inc", "k_back"}
           => picked[t] \in Items
  PROVE  PickedFull'
BY DoubleBufferAssumption DEF LabelsOK, Goto, PickedFull

-----------------------------------------------------------------------------
(* The three procedures of the ring. *)
LEMMA TypePush ==
  ASSUME TypeInv, NEW w \in Writers, Push(w), UNCHANGED dbVars
  PROVE  TypeInv'
<1>. USE WriterIs DEF TypeInv, TypeOK, HandsFull
<1>0. target' = target /\ target[w] \in Buffers
  BY DEF TargetsFull, Holding, PushLabels, Goto, Push, PushCheckState,
         PushCheckCount, PushMarkFull, PushLoadHead, PushClaim, PushStore,
         PushCount
<1>1. LabelsOK'
  BY LabelsStep DEF PushLabels, Push, PushCheckState, PushCheckCount,
         PushMarkFull, PushLoadHead, PushClaim, PushStore, PushCount
<1>2. TargetsFull'
  BY <1>0, TargetsStep DEF Push, PushCheckState, PushCheckCount,
         PushMarkFull, PushLoadHead, PushClaim, PushStore, PushCount
<1>3. RingTypeOK'
  <2>. USE <1>0, RingAssumption DEF RingTypeOK, RingsOK, LocalsOK
  <2>1. CASE PushCheckState(w) BY <2>1 DEF PushCheckState, ringVars
  <2>2. CASE PushCheckCount(w) BY <2>2 DEF PushCheckCount, ringVars
  <2>3. CASE PushMarkFull(w)   BY <2>3 DEF PushMarkFull
  <2>4. CASE PushLoadHead(w)   BY <2>4 DEF PushLoadHead, ringVars
  <2>5. CASE PushClaim(w)      BY <2>5 DEF PushClaim, Incr
  <2>6. CASE PushStore(w)
    BY <2>6 DEF PushStore, Message, calcPos, Messages, Slots
  <2>7. CASE PushCount(w)      BY <2>7 DEF PushCount
  <2>. QED BY <2>1, <2>2, <2>3, <2>4, <2>5, <2>6, <2>7 DEF Push
<1>4. PickedFull'
  BY PickedStep DEF dbVars, backVars, readVars, Push, PushCheckState, PushCheckCount,
         PushMarkFull, PushLoadHead, PushClaim, PushStore, PushCount
<1>5. FrontTypeOK' /\ BackTypeOK' /\ TasksFull'
  BY DEF FrontTypeOK, BackTypeOK, TasksFull, dbVars, frontVars, backVars, poolVars, seqVars,
         taskVars, readVars, waitVars, ctlVars
<1>. QED BY <1>1, <1>2, <1>3, <1>4, <1>5

(* The steps of SmartBuffer.Pop preserve the types. *)
LEMMA TypePop ==
  ASSUME TypeInv, NEW r \in Readers, Pop(r), UNCHANGED dbVars
  PROVE  TypeInv'
<1>. USE ReaderIs DEF TypeInv, TypeOK, HandsFull
<1>0. target' = target /\ target[r] \in Buffers
  BY DEF TargetsFull, Holding, PopLabels, Goto, Pop, PopCheckCount,
         PopLoadTail, PopClaim, PopRead, PopClear, PopCount
<1>1. LabelsOK'
  BY LabelsStep DEF PopLabels, Pop, PopCheckCount, PopLoadTail, PopClaim,
         PopRead, PopClear, PopCount
<1>2. TargetsFull'
  BY <1>0, TargetsStep DEF Pop, PopCheckCount, PopLoadTail, PopClaim,
         PopRead, PopClear, PopCount
<1>3. RingTypeOK'
  <2>. USE <1>0, RingAssumption DEF RingTypeOK, RingsOK, LocalsOK
  <2>1. CASE PopCheckCount(r) BY <2>1 DEF PopCheckCount, ringVars
  <2>2. CASE PopLoadTail(r)   BY <2>2 DEF PopLoadTail, ringVars
  <2>3. CASE PopClaim(r)      BY <2>3 DEF PopClaim, Incr
  <2>4. CASE PopRead(r)       BY <2>4 DEF PopRead, ringVars, calcPos, Slots
  <2>5. CASE PopClear(r)      BY <2>5 DEF PopClear, calcPos, Slots
  <2>6. CASE PopCount(r)      BY <2>6 DEF PopCount
  <2>. QED BY <2>1, <2>2, <2>3, <2>4, <2>5, <2>6 DEF Pop
<1>4. PickedFull'
  BY PickedStep DEF dbVars, backVars, readVars, Pop, PopCheckCount,
         PopLoadTail, PopClaim, PopRead, PopClear, PopCount
<1>5. FrontTypeOK' /\ BackTypeOK' /\ TasksFull'
  BY DEF FrontTypeOK, BackTypeOK, TasksFull, dbVars, frontVars, backVars, poolVars, seqVars,
         taskVars, readVars, waitVars, ctlVars
<1>. QED BY <1>1, <1>2, <1>3, <1>4, <1>5

(* The steps of SmartBuffer.Reset preserve the types. *)
LEMMA TypeReset ==
  ASSUME TypeInv, NEW r \in Readers, Reset(r), UNCHANGED dbVars
  PROVE  TypeInv'
<1>. USE ReaderIs DEF TypeInv, TypeOK, HandsFull
<1>0. target' = target /\ target[r] \in Buffers
  BY DEF TargetsFull, Holding, ResetLabels, Goto, Reset, ResetState,
         ResetCount, ResetCursors
<1>1. LabelsOK'
  BY LabelsStep DEF ResetLabels, Reset, ResetState, ResetCount, ResetCursors
<1>2. TargetsFull'
  BY <1>0, TargetsStep DEF Reset, ResetState, ResetCount, ResetCursors
<1>3. RingTypeOK'
  BY <1>0 DEF RingTypeOK, RingsOK, LocalsOK, Reset, ResetState, ResetCount, ResetCursors
<1>4. PickedFull'
  BY PickedStep DEF dbVars, backVars, readVars, Reset, ResetState, ResetCount,
         ResetCursors
<1>5. FrontTypeOK' /\ BackTypeOK' /\ TasksFull'
  BY DEF FrontTypeOK, BackTypeOK, TasksFull, dbVars, frontVars, backVars, poolVars, seqVars,
         taskVars, readVars, waitVars, ctlVars
<1>. QED BY <1>1, <1>2, <1>3, <1>4, <1>5


-----------------------------------------------------------------------------
(* The other steps of Write. *)
WriteOnly(w) ==
  \/ WriteBegin(w) \/ WriteFast(w) \/ WriteLoadActive(w) \/ WriteAccepted(w)
  \/ WriteFastFailed(w) \/ WriteRejected(w) \/ WriteLock(w) \/ WriteInspect(w)

(* The steps of Write outside Push preserve the types. *)
LEMMA TypeWriteOnly ==
  ASSUME TypeInv, NEW w \in Writers, WriteOnly(w)
  PROVE  TypeInv'
<1>1. /\ \A t \in Threads \ {w} : pc'[t] = pc[t] /\ target'[t] = target[t]
      /\ pc'[w] \in Holding => target'[w] \in Buffers
  BY WriterIs DEF TypeInv, TypeOK, LabelsOK, RingTypeOK, LocalsOK, Goto, Forget, localVars,
         FrontTypeOK, Holding, PushLabels, PopLabels, ResetLabels, WriteOnly, WriteBegin,
         WriteFast, WriteLoadActive, WriteAccepted, WriteFastFailed,
         WriteRejected, WriteLock, WriteInspect
<1>2. UNCHANGED <<ringVars, backVars, picked, tpc, tbuf>>
  BY DEF WriteOnly, WriteBegin, WriteFast, WriteLoadActive, WriteAccepted,
         WriteFastFailed, WriteRejected, WriteLock, WriteInspect, dbVars,
         backVars, readVars, taskVars
<1>3. LabelsOK'
  <2>1. /\ w \in Threads /\ "idle" \in LabelsOf(w) /\ "w_fast" \in LabelsOf(w)
        /\ "w_lock" \in LabelsOf(w) /\ "p_state" \in LabelsOf(w)
        /\ "w_inspect" \in LabelsOf(w) /\ "s_cas" \in LabelsOf(w)
        /\ "w_load" \in LabelsOf(w)
    BY WriterIs DEF WriterLabels, PushLabels, SwitchLabels
  <2>. QED
    BY <2>1, LabelsStep DEF TypeInv, TypeOK, WriteOnly, WriteBegin,
         WriteFast, WriteLoadActive, WriteAccepted, WriteFastFailed,
         WriteRejected, WriteLock, WriteInspect
<1>4. TargetsFull' /\ PickedFull' /\ TasksFull'
  BY <1>1, <1>2, WriterIs, ReaderIs
     DEF TypeInv, HandsFull, TargetsFull, PickedFull, TasksFull
<1>5. RingTypeOK'
  <2>1. RingsOK'
    BY <1>2 DEF TypeInv, TypeOK, RingTypeOK, RingsOK, ringVars
  <2>2. LocalsOK'
    BY WriterIs DEF TypeInv, TypeOK, RingTypeOK, LocalsOK, FrontTypeOK, Forget,
         localVars, WriteOnly, WriteBegin, WriteFast, WriteLoadActive,
         WriteAccepted, WriteFastFailed, WriteRejected, WriteLock, WriteInspect
  <2>. QED BY <2>1, <2>2 DEF RingTypeOK
<1>6. FrontTypeOK'
  BY WriterIs DEF TypeInv, TypeOK, FrontTypeOK, RingTypeOK, LocalsOK, UnlockWrite, Message,
         Messages, dbVars, frontVars, WriteOnly, WriteBegin, WriteFast,
         WriteLoadActive, WriteAccepted, WriteFastFailed, WriteRejected,
         WriteLock, WriteInspect
<1>7. BackTypeOK'
  BY <1>2 DEF TypeInv, TypeOK, BackTypeOK, backVars, poolVars, seqVars,
         taskVars, readVars, waitVars, ctlVars
<1>. QED BY <1>3, <1>4, <1>5, <1>6, <1>7 DEF TypeInv, TypeOK, HandsFull

-----------------------------------------------------------------------------
(* switchChannel. *)
LEMMA TypeSwitch ==
  ASSUME TypeInv, NEW p \in Switchers, switchChannel(p)
  PROVE  TypeInv'
<1>1. /\ \A t \in Threads \ {p} : pc'[t] = pc[t] /\ target'[t] = target[t]
      /\ pc'[p] \in Holding => target'[p] \in Buffers
  BY SwitcherIs
     DEF TypeInv, TypeOK, LabelsOK, RingTypeOK, LocalsOK, Goto, Forget,
         localVars, FrontTypeOK, HandsFull, TargetsFull, Holding, PushLabels,
         PopLabels, ResetLabels, switchChannel, SwitchBegin, SwitchLock,
         SwitchFreeze, SwitchSwap, SwitchZero, SwitchSpawn, SwitchRestore,
         SwitchUnlock
<1>2. UNCHANGED <<readVars, picked>>
  BY DEF switchChannel, SwitchBegin, SwitchLock, SwitchFreeze, SwitchSwap,
         SwitchZero, SwitchSpawn, SwitchRestore, SwitchUnlock, dbVars,
         backVars, readVars
<1>3. LabelsOK'
  <2>1. "s_lock" \in SwitchLabels /\ "s_freeze" \in SwitchLabels
        /\ "s_swap" \in SwitchLabels /\ "s_zero" \in SwitchLabels
        /\ "s_spawn" \in SwitchLabels /\ "s_restore" \in SwitchLabels
        /\ "s_unlock" \in SwitchLabels
    BY DEF SwitchLabels
  <2>. QED
    BY <2>1, LabelsStep, SwitcherIs
       DEF TypeInv, TypeOK, switchChannel, SwitchBegin, SwitchLock,
           SwitchFreeze, SwitchSwap, SwitchZero, SwitchSpawn, SwitchRestore,
           SwitchUnlock
<1>4. TargetsFull' /\ PickedFull'
  BY <1>1, <1>2, SwitcherIs, ReaderIs
     DEF TypeInv, HandsFull, TargetsFull, PickedFull
<1>5. TasksFull'
  <2>1. CASE SwitchSpawn(p)
    <3>1. target[p] \in Buffers
      BY <2>1, SwitcherIs
         DEF SwitchSpawn, Goto, TypeInv, HandsFull, TargetsFull, Holding
    <3>2. /\ tbuf \in [Tasks -> Buffers \cup {Nil}] /\ tpc \in [Tasks -> TaskLabels]
          /\ tpc' = [tpc EXCEPT ![spawned + 1] = "seq"]
          /\ tbuf' = [tbuf EXCEPT ![spawned + 1] = target[p]]
      BY <2>1 DEF SwitchSpawn, TypeInv, TypeOK, BackTypeOK
    <3>. QED
      BY <3>1, <3>2 DEF TypeInv, HandsFull, TasksFull
  <2>2. CASE UNCHANGED <<tpc, tbuf>>
    BY <2>2 DEF TypeInv, HandsFull, TasksFull
  <2>. QED
    BY <2>1, <2>2
       DEF dbVars, backVars, taskVars, switchChannel, SwitchBegin, SwitchLock,
           SwitchFreeze, SwitchSwap, SwitchZero, SwitchRestore, SwitchUnlock
<1>6. RingTypeOK'
  <2>1. RingsOK'
    BY DEF TypeInv, TypeOK, RingTypeOK, RingsOK, FrontTypeOK, ringVars,
           switchChannel, SwitchBegin, SwitchLock, SwitchFreeze, SwitchSwap,
           SwitchZero, SwitchSpawn, SwitchRestore, SwitchUnlock
  <2>2. LocalsOK'
    BY SwitcherIs
       DEF TypeInv, TypeOK, RingTypeOK, LocalsOK, FrontTypeOK, Forget,
           localVars, switchChannel, SwitchBegin, SwitchLock, SwitchFreeze,
           SwitchSwap, SwitchZero, SwitchSpawn, SwitchRestore, SwitchUnlock
  <2>. QED BY <2>1, <2>2 DEF RingTypeOK
<1>7. FrontTypeOK'
  BY DEF TypeInv, TypeOK, FrontTypeOK, dbVars, frontVars, switchChannel,
         SwitchBegin, SwitchLock, SwitchFreeze, SwitchSwap, SwitchZero,
         SwitchSpawn, SwitchRestore, SwitchUnlock
<1>8. BackTypeOK'
  <2>1. CASE SwitchSwap(p)
    <3>1. UNCHANGED <<sequence, currentSequence, heap, current, tpc, tbuf,
                      tseq, tlen, spawned, timeouts, picked, retries, woken,
                      waiters, token, stopped, readMode, delivered>>
      BY <2>1 DEF SwitchSwap, seqVars, taskVars, readVars, waitVars, ctlVars
    <3>2. pool' \in [Buffers -> Nat] /\ allocated' \in Nat
      <4>1. PICK b \in Buffers : PoolGet(b)
        BY <2>1 DEF SwitchSwap
      <4>2. b \in Nat /\ pool \in [Buffers -> Nat] /\ allocated \in Nat
        BY DoubleBufferAssumption DEF TypeInv, TypeOK, BackTypeOK
      <4>. QED BY <4>1, <4>2 DEF PoolGet
    <3>. QED BY <3>1, <3>2 DEF TypeInv, TypeOK, BackTypeOK
  <2>2. CASE SwitchSpawn(p)
    <3>1. UNCHANGED <<pool, allocated, sequence, currentSequence, heap, current,
                      tseq, tlen, timeouts, picked, retries, woken,
                      waiters, token, stopped, readMode, delivered>>
      BY <2>2 DEF SwitchSpawn, poolVars, seqVars, readVars, waitVars, ctlVars
    <3>2. /\ tpc' \in [Tasks -> TaskLabels] /\ spawned' \in Nat
          /\ tbuf' \in [Tasks -> Buffers \cup {Nil}]
      <4>1. /\ tpc \in [Tasks -> TaskLabels] /\ spawned \in Nat
            /\ tbuf \in [Tasks -> Buffers \cup {Nil}]
            /\ target[p] \in Buffers \cup {Nil}
        BY SwitcherIs
           DEF TypeInv, TypeOK, BackTypeOK, RingTypeOK, LocalsOK
      <4>2. /\ tpc' = [tpc EXCEPT ![spawned + 1] = "seq"]
            /\ tbuf' = [tbuf EXCEPT ![spawned + 1] = target[p]]
            /\ spawned' = spawned + 1
        BY <2>2 DEF SwitchSpawn
      <4>3. "seq" \in TaskLabels
        BY DEF TaskLabels
      <4>4. tpc' \in [Tasks -> TaskLabels]
        BY <4>1, <4>2, <4>3
      <4>5. tbuf' \in [Tasks -> Buffers \cup {Nil}]
        BY <4>1, <4>2
      <4>. QED BY <4>1, <4>2, <4>4, <4>5
    <3>. QED BY <3>1, <3>2 DEF TypeInv, TypeOK, BackTypeOK
  <2>3. CASE UNCHANGED backVars
    BY <2>3
       DEF TypeInv, TypeOK, BackTypeOK, backVars, poolVars, seqVars, taskVars,
           readVars, waitVars, ctlVars
  <2>. QED
    BY <2>1, <2>2, <2>3
       DEF dbVars, switchChannel, SwitchBegin, SwitchLock, SwitchFreeze,
           SwitchSwap, SwitchZero, SwitchSpawn, SwitchRestore, SwitchUnlock
<1>. QED BY <1>3, <1>4, <1>5, <1>6, <1>7, <1>8 DEF TypeInv, TypeOK, HandsFull

-----------------------------------------------------------------------------
(* The background goroutines and the registration of a read mode. *)
Background == MonitorTick \/ MonitorStop \/ RecyclerStop \/ RegisterReadMode

(* The steps of the monitor, the recycler and the spawned goroutines
   preserve the types. *)
LEMMA TypeBackground ==
  ASSUME TypeInv, Background
  PROVE  TypeInv'
<1>1. /\ \A t \in Threads \ {Monitor, Recycler} : pc'[t] = pc[t]
      /\ \A t \in {Monitor, Recycler} : pc'[t] \in Holding => pc[t] \in Holding
  BY MonitorIs, RecyclerIs
     DEF TypeInv, TypeOK, LabelsOK, Goto, Holding, PushLabels, PopLabels,
         ResetLabels, threadVars, Background, MonitorTick, MonitorStop,
         RecyclerStop, RegisterReadMode
<1>2. UNCHANGED <<ringVars, target, index, item, sent, frontVars, poolVars,
                  seqVars, taskVars, readVars, waitVars, picked, tpc, tbuf>>
  BY DEF Background, MonitorTick, MonitorStop, RecyclerStop, RegisterReadMode,
         threadVars, localVars, dbVars, backVars, readVars, taskVars
<1>3. LabelsOK'
  <2>1. CASE UNCHANGED pc
    BY <2>1 DEF TypeInv, TypeOK, LabelsOK
  <2>2. CASE MonitorTick \/ MonitorStop \/ RecyclerStop
    BY <2>2, LabelsStep, MonitorIs, RecyclerIs
       DEF TypeInv, TypeOK, MonitorTick, MonitorStop, RecyclerStop, SwitchLabels
  <2>. QED BY <2>1, <2>2 DEF Background, RegisterReadMode, threadVars
<1>4. TargetsFull' /\ PickedFull' /\ TasksFull'
  BY <1>1, <1>2, ReaderIs, MonitorIs, RecyclerIs
     DEF TypeInv, HandsFull, TargetsFull, PickedFull, TasksFull
<1>5. RingTypeOK' /\ FrontTypeOK'
  BY <1>2
     DEF TypeInv, TypeOK, RingTypeOK, RingsOK, LocalsOK, FrontTypeOK,
         ringVars, frontVars
<1>6. BackTypeOK'
  <2>1. stopped' = stopped /\ readMode' \in {readMode, TRUE}
    BY Zenon
       DEF dbVars, backVars, ctlVars, Background, MonitorTick, MonitorStop,
           RecyclerStop, RegisterReadMode
  <2>2. timeouts' = timeouts \/ timeouts' = timeouts + 1
    BY DEF dbVars, backVars, ctlVars, Background, MonitorTick, needSwitch, MonitorStop,
           RecyclerStop, RegisterReadMode
  <2>3. timeouts' \in Nat
    BY <2>2 DEF TypeInv, TypeOK, BackTypeOK
  <2>4. stopped' \in BOOLEAN /\ readMode' \in BOOLEAN
    BY <2>1, Zenon DEF TypeInv, TypeOK, BackTypeOK
  <2>. QED
    BY <1>2, <2>3, <2>4
       DEF TypeInv, TypeOK, BackTypeOK, poolVars, seqVars, taskVars, readVars,
           waitVars
<1>. QED BY <1>3, <1>4, <1>5, <1>6 DEF TypeInv, TypeOK, HandsFull

-----------------------------------------------------------------------------
(* The goroutine that a switch spawns. *)
LEMMA TypeTask ==
  ASSUME TypeInv, NEW k \in Tasks, Task(k)
  PROVE  TypeInv'
<1>1. UNCHANGED <<ringVars, pc, target, index, item, sent, frontVars, picked, tbuf>>
  BY DEF Task, TaskNumber, TaskPush, TaskLen, TaskNotify, threadVars, readVars
<1>2. LabelsOK' /\ TargetsFull' /\ PickedFull' /\ RingTypeOK' /\ FrontTypeOK'
  BY <1>1
     DEF TypeInv, TypeOK, HandsFull, LabelsOK, TargetsFull, PickedFull,
         RingTypeOK, RingsOK, LocalsOK, FrontTypeOK, ringVars, frontVars
<1>3. TasksFull'
  BY <1>1
     DEF TypeInv, TypeOK, HandsFull, TasksFull, BackTypeOK, TaskGoto, Task,
         TaskNumber, TaskPush, TaskLen, TaskNotify
<1>4. BackTypeOK'
  <2>. USE DEF TypeInv, TypeOK, BackTypeOK, TaskGoto, TaskLabels
  <2>1. CASE TaskNumber(k)
    BY <2>1 DEF TaskNumber, poolVars, readVars, waitVars, ctlVars
  <2>2. CASE TaskPush(k)
    BY <2>2 DEF TaskPush, HandsFull, TasksFull, Items, poolVars, readVars,
                waitVars, ctlVars
  <2>3. CASE TaskLen(k)
    BY <2>3 DEF TaskLen, HandsFull, TasksFull, RingTypeOK, RingsOK, poolVars,
                seqVars, readVars, waitVars, ctlVars
  <2>4. CASE TaskNotify(k)
    BY <2>4 DEF TaskNotify, poolVars, seqVars, readVars, waitVars, ctlVars
  <2>. QED BY <2>1, <2>2, <2>3, <2>4 DEF Task
<1>. QED BY <1>2, <1>3, <1>4 DEF TypeInv, TypeOK, HandsFull

-----------------------------------------------------------------------------
(* The steps of BlockingRead outside the ring. *)
ReadEnter(r) ==
  \/ ReadBegin(r) \/ ReadCheckNil(r) \/ ReadCheckLen(r) \/ ReadDrop(r)
  \/ ReadTake(r) \/ ReadForget(r) \/ ReadPut(r)
ReadExit(r) ==
  \/ ReadMode(r) \/ ReadEnterPop(r) \/ ReadReturn(r) \/ ReadRegister(r)
  \/ ReadWoken(r) \/ ReadTimeout(r) \/ ReadLeave(r)

(* A step of reader r keeps the invariant if what it changes keeps its type
   and it has in hand what its next label calls for. *)
LEMMA ReadFrame ==
  ASSUME TypeInv, NEW r \in Readers, NEW from, NEW to, Goto(r, from, to),
         to \in LabelsOf(r),
         \A t \in Threads \ {r} : target'[t] = target[t],
         to \in Holding => target'[r] \in Buffers,
         \A q \in Readers \ {r} : picked'[q] = picked[q],
         to \in {"k_cmp", "k_set", "k_inc", "k_back"} => picked'[r] \in Items,
         LocalsOK', UNCHANGED <<ringVars, frontVars, tpc, tbuf>>, BackTypeOK'
  PROVE  TypeInv'
<1>1. LabelsOK' /\ TargetsFull'
  BY LabelsStep, TargetsStep, ReaderIs DEF TypeInv, TypeOK, HandsFull
<1>2. PickedFull'
  BY ReaderIs DEF TypeInv, TypeOK, HandsFull, LabelsOK, PickedFull, Goto
<1>3. TasksFull'
  BY DEF TypeInv, HandsFull, TasksFull
<1>4. RingTypeOK' /\ FrontTypeOK'
  BY DEF TypeInv, TypeOK, RingTypeOK, RingsOK, FrontTypeOK, ringVars, frontVars
<1>. QED BY <1>1, <1>2, <1>3, <1>4 DEF TypeInv, TypeOK, HandsFull

(* A step of a goroutine that moves its pc to a label without demands. *)
LEMMA TypeMove ==
  ASSUME TypeInv, NEW t \in Threads, NEW from, NEW to, Goto(t, from, to),
         to \in LabelsOf(t), to \notin Holding,
         t \in Readers /\ to \in {"k_cmp", "k_set", "k_inc", "k_back"}
           => picked[t] \in Items,
         UNCHANGED <<ringVars, localVars, dbVars>>
  PROVE  TypeInv'
<1>1. UNCHANGED <<ringVars, target, index, item, sent, frontVars, poolVars,
                  seqVars, taskVars, readVars, waitVars, ctlVars, picked, tpc,
                  tbuf>>
  BY DEF localVars, dbVars, backVars, readVars, taskVars
<1>2. LabelsOK' /\ TargetsFull' /\ PickedFull'
  BY <1>1, LabelsStep, TargetsStep, PickedStep DEF TypeInv, TypeOK, HandsFull
<1>3. TasksFull' /\ RingTypeOK' /\ FrontTypeOK'
  BY <1>1 DEF TypeInv, TypeOK, HandsFull, TasksFull, RingTypeOK, RingsOK,
              LocalsOK, FrontTypeOK, ringVars, frontVars
<1>4. BackTypeOK'
  BY <1>1 DEF TypeInv, TypeOK, BackTypeOK, poolVars, seqVars, taskVars,
              readVars, waitVars, ctlVars
<1>. QED BY <1>2, <1>3, <1>4 DEF TypeInv, TypeOK, HandsFull

(* The steps of tryRead up to the give-back of the empty buffer preserve
   the types. *)
LEMMA TypeReadEnter ==
  ASSUME TypeInv, NEW r \in Readers, ReadEnter(r)
  PROVE  TypeInv'
<1>. DEFINE L == LabelsOf(r)
<1>1. /\ "t_nil" \in L /\ "k_pick" \in L /\ "t_len" \in L /\ "panic" \in L
      /\ "t_drop" \in L /\ "t_mode" \in L /\ "t_take" \in L /\ "z_state" \in L
      /\ "t_put" \in L
  BY ReaderIs DEF ReaderLabels, ResetLabels
<1>2. /\ "t_nil" \notin Holding /\ "k_pick" \notin Holding
      /\ "t_len" \notin Holding /\ "panic" \notin Holding
      /\ "t_drop" \notin Holding /\ "t_mode" \notin Holding
      /\ "t_take" \notin Holding
      /\ "z_done" \in Holding /\ "t_put" \in Holding
  BY DEF Holding, PushLabels, PopLabels, ResetLabels
<1>. HIDE DEF L
<1>3. CASE ReadBegin(r) \/ ReadCheckLen(r) \/ ReadDrop(r)
  BY <1>1, <1>2, <1>3, TypeMove, ReaderIs DEF L, ReadBegin, ReadCheckLen, ReadDrop
<1>4. CASE ReadCheckNil(r)
  <2>1. BackTypeOK'
    BY <1>4 DEF TypeInv, TypeOK, BackTypeOK, ReadCheckNil, poolVars, seqVars,
                taskVars, waitVars, ctlVars
  <2>2. LocalsOK'
    BY <1>4 DEF TypeInv, TypeOK, RingTypeOK, LocalsOK, ReadCheckNil, localVars
  <2>. QED
    BY <1>1, <1>2, <1>4, <2>1, <2>2, ReadFrame
       DEF L, ReadCheckNil, localVars, taskVars
<1>5. CASE ReadTake(r)
  <2>1. BackTypeOK'
    BY <1>5 DEF TypeInv, TypeOK, BackTypeOK, ReadTake, dbVars, backVars,
                poolVars, seqVars, taskVars, readVars, waitVars, ctlVars
  <2>2. LocalsOK' /\ \A t \in Threads \ {r} : target'[t] = target[t]
    BY <1>5, ReaderIs
       DEF TypeInv, TypeOK, RingTypeOK, LocalsOK, BackTypeOK, ReadTake
  <2>3. current # Nil => target'[r] \in Buffers
    BY <1>5, ReaderIs
       DEF TypeInv, TypeOK, RingTypeOK, LocalsOK, BackTypeOK, ReadTake
  <2>4. UNCHANGED <<ringVars, frontVars, tpc, tbuf, picked>>
    BY <1>5 DEF ReadTake, dbVars, backVars, taskVars, readVars
  <2>. QED
    BY <1>1, <1>2, <1>5, <2>1, <2>2, <2>3, <2>4, ReadFrame DEF L, ReadTake
<1>6. CASE ReadForget(r)
  <2>1. BackTypeOK'
    BY <1>6 DEF TypeInv, TypeOK, BackTypeOK, ReadForget, poolVars, 
                taskVars, readVars, waitVars, ctlVars
  <2>2. LocalsOK' /\ target' = target
    BY <1>6 DEF TypeInv, TypeOK, RingTypeOK, LocalsOK, ReadForget, localVars
  <2>3. target[r] \in Buffers
    BY <1>2, <1>6, ReaderIs DEF TypeInv, HandsFull, TargetsFull, ReadForget, Goto
  <2>. QED
    BY <1>1, <1>6, <2>1, <2>2, <2>3, ReadFrame
       DEF L, ReadForget, taskVars, readVars
<1>7. CASE ReadPut(r)
  <2>1. target[r] \in Buffers
    BY <1>2, <1>7, ReaderIs DEF TypeInv, HandsFull, TargetsFull, ReadPut, Goto
  <2>2. BackTypeOK'
    BY <1>7, <2>1
       DEF TypeInv, TypeOK, BackTypeOK, ReadPut, seqVars,
           taskVars, readVars, waitVars, ctlVars
  <2>3. LocalsOK' /\ \A t \in Threads \ {r} : target'[t] = target[t]
    BY <1>7, ReaderIs DEF TypeInv, TypeOK, RingTypeOK, LocalsOK, ReadPut, Forget
  <2>. QED
    BY <1>1, <1>2, <1>7, <2>2, <2>3, ReadFrame DEF L, ReadPut, taskVars, readVars
<1>. QED BY <1>3, <1>4, <1>5, <1>6, <1>7 DEF ReadEnter

(* The steps of pickBufferFromHeap preserve the types. *)
LEMMA TypePick ==
  ASSUME TypeInv, NEW r \in Readers, pickBufferFromHeap(r)
  PROVE  TypeInv'
<1>. DEFINE L == LabelsOf(r)
<1>1. /\ "k_cmp" \in L /\ "k_set" \in L /\ "k_back" \in L /\ "k_inc" \in L
      /\ "k_ret" \in L /\ "k_pick" \in L /\ "t_mode" \in L /\ NoData(r) \in L
  BY ReaderIs DEF ReaderLabels, NoData
<1>2. /\ "k_cmp" \notin Holding /\ "k_set" \notin Holding
      /\ "k_back" \notin Holding /\ "k_inc" \notin Holding
      /\ "k_ret" \notin Holding /\ "k_pick" \notin Holding
      /\ "t_mode" \notin Holding /\ NoData(r) \notin Holding
      /\ NoData(r) \notin {"k_cmp", "k_set", "k_inc", "k_back"}
  BY DEF Holding, PushLabels, PopLabels, ResetLabels, NoData
<1>. HIDE DEF L
<1>3. pc[r] \in {"k_cmp", "k_set", "k_inc", "k_back"}
        => picked[r] \in Items /\ picked[r].buf \in Buffers
  BY DEF TypeInv, HandsFull, PickedFull, Items
<1>4. picked \in [Readers -> Items \cup {Nil}] /\ heap \subseteq Items
  BY DEF TypeInv, TypeOK, BackTypeOK
<1>5. CASE PickCompare(r)
  BY <1>1, <1>2, <1>3, <1>5, TypeMove, ReaderIs DEF L, PickCompare, Goto
<1>6. CASE PickReturn(r)
  BY <1>1, <1>2, <1>6, TypeMove, ReaderIs DEF L, PickReturn
<1>7. CASE PickItem(r) \/ PickSet(r) \/ PickAdvance(r) \/ PickPutBack(r)
  <2>1. /\ UNCHANGED <<localVars, target, ringVars, frontVars, tpc, tbuf>>
        /\ UNCHANGED <<pool, allocated, sequence, tseq, tlen, spawned, woken,
                       delivered, waiters, token, timeouts, stopped, readMode>>
    BY <1>7 DEF PickItem, PickSet, PickAdvance, PickPutBack, localVars,
                poolVars, taskVars, readVars, waitVars, ctlVars
  <2>2. LocalsOK'
    BY <2>1 DEF TypeInv, TypeOK, RingTypeOK, LocalsOK, localVars
  <2>3. /\ heap' \subseteq Items
        /\ picked' \in [Readers -> Items \cup {Nil}]
        /\ \A q \in Readers \ {r} : picked'[q] = picked[q]
    <3>1. CASE PickItem(r)
      BY <1>4, <3>1 DEF PickItem, LeastItems
    <3>2. CASE PickSet(r)
      BY <1>4, <3>2 DEF PickSet, readVars
    <3>3. CASE PickAdvance(r)
      BY <1>4, <3>3 DEF PickAdvance
    <3>4. CASE PickPutBack(r)
      <4>1. picked[r] \in Items
        BY <1>3, <3>4 DEF PickPutBack, Goto
      <4>2. heap' = heap \cup {picked[r]} /\ picked' = [picked EXCEPT ![r] = Nil]
        BY <3>4 DEF PickPutBack
      <4>. QED BY <1>4, <4>1, <4>2
    <3>. QED BY <1>7, <3>1, <3>2, <3>3, <3>4
  <2>4. current' \in Buffers \cup {Nil} /\ currentSequence' \in Nat
        /\ retries' \in [Readers -> Nat]
    <3>1. /\ current \in Buffers \cup {Nil} /\ currentSequence \in Nat
          /\ retries \in [Readers -> Nat]
      BY DEF TypeInv, TypeOK, BackTypeOK
    <3>2. CASE PickItem(r)
      BY <3>1, <3>2 DEF PickItem
    <3>3. CASE PickSet(r)
      BY <1>3, <3>1, <3>3 DEF PickSet, readVars, Goto
    <3>4. CASE PickAdvance(r)
      BY <3>1, <3>4 DEF PickAdvance
    <3>5. CASE PickPutBack(r)
      BY <3>1, <3>5 DEF PickPutBack
    <3>. QED BY <1>7, <3>2, <3>3, <3>4, <3>5
  <2>5. BackTypeOK'
    BY <2>1, <2>3, <2>4 DEF TypeInv, TypeOK, BackTypeOK
  <2>6. CASE PickItem(r)
    <3>1. CASE heap = {} /\ Goto(r, "k_pick", NoData(r))
      BY <1>1, <1>2, <2>1, <2>2, <2>3, <2>5, <3>1, ReadFrame DEF L
    <3>2. CASE \E i \in LeastItems : /\ Goto(r, "k_pick", "k_cmp")
                                     /\ picked' = [picked EXCEPT ![r] = i]
      <4>1. picked'[r] \in Items
        BY <1>4, <3>2 DEF LeastItems
      <4>. QED
        BY <1>1, <1>2, <2>1, <2>2, <2>3, <2>5, <3>2, <4>1, ReadFrame DEF L
    <3>. QED BY <2>6, <3>1, <3>2 DEF PickItem
  <2>7. CASE PickSet(r)
    BY <1>1, <1>2, <1>3, <2>1, <2>2, <2>3, <2>5, <2>7, ReadFrame
       DEF L, PickSet, readVars, Goto
  <2>8. CASE PickAdvance(r)
    BY <1>1, <1>2, <2>1, <2>2, <2>3, <2>5, <2>8, ReadFrame DEF L, PickAdvance
  <2>9. CASE PickPutBack(r)
    BY <1>1, <1>2, <2>1, <2>2, <2>3, <2>5, <2>9, ReadFrame DEF L, PickPutBack
  <2>. QED BY <1>7, <2>6, <2>7, <2>8, <2>9
<1>. QED BY <1>5, <1>6, <1>7 DEF pickBufferFromHeap

(* The steps of tryRead after the pick, and those of BlockingRead, preserve
   the types. *)
LEMMA TypeReadExit ==
  ASSUME TypeInv, NEW r \in Readers, ReadExit(r)
  PROVE  TypeInv'
<1>. DEFINE L == LabelsOf(r)
<1>1. /\ "t_pop" \in L /\ "panic" \in L /\ "q_count" \in L /\ "idle" \in L
      /\ "b_wait" \in L /\ "t_nil" \in L /\ "b_leave" \in L /\ NoData(r) \in L
  BY ReaderIs DEF ReaderLabels, PopLabels, NoData
<1>2. /\ "t_pop" \notin Holding /\ "panic" \notin Holding
      /\ "idle" \notin Holding /\ "b_wait" \notin Holding
      /\ "t_nil" \notin Holding /\ "b_leave" \notin Holding
      /\ NoData(r) \notin Holding
      /\ NoData(r) \notin {"k_cmp", "k_set", "k_inc", "k_back"}
  BY DEF Holding, PushLabels, PopLabels, ResetLabels, NoData
<1>. HIDE DEF L
<1>3. CASE ReadMode(r) \/ ReadTimeout(r)
  BY <1>1, <1>2, <1>3, TypeMove, ReaderIs DEF L, ReadMode, ReadTimeout
<1>4. CASE ReadEnterPop(r)
  <2>1. BackTypeOK'
    BY <1>4 DEF TypeInv, TypeOK, BackTypeOK, ReadEnterPop, dbVars, backVars,
                poolVars, seqVars, taskVars, readVars, waitVars, ctlVars
  <2>2. LocalsOK' /\ \A t \in Threads \ {r} : target'[t] = target[t]
    BY <1>4, ReaderIs
       DEF TypeInv, TypeOK, RingTypeOK, LocalsOK, BackTypeOK, ReadEnterPop
  <2>3. current # Nil => target'[r] \in Buffers
    BY <1>4, ReaderIs
       DEF TypeInv, TypeOK, RingTypeOK, LocalsOK, BackTypeOK, ReadEnterPop
  <2>4. UNCHANGED <<ringVars, frontVars, tpc, tbuf, picked>>
    BY <1>4 DEF ReadEnterPop, dbVars, backVars, taskVars, readVars
  <2>. QED
    BY <1>1, <1>2, <1>4, <2>1, <2>2, <2>3, <2>4, ReadFrame DEF L, ReadEnterPop
<1>5. CASE ReadReturn(r)
  <2>1. UNCHANGED <<ringVars, frontVars, pool, allocated, sequence,
                    currentSequence, heap, current, tpc, tbuf, tseq, tlen,
                    spawned, picked, retries, woken, waiters, token, timeouts,
                    stopped, readMode>>
    BY <1>5 DEF ReadReturn, poolVars, seqVars, taskVars, waitVars, ctlVars
  <2>2. delivered' \in Seq(Messages)
    <3>1. delivered \in Seq(Messages) /\ (item[r] # Nil => item[r] \in Messages)
      BY ReaderIs
         DEF TypeInv, TypeOK, BackTypeOK, RingTypeOK, LocalsOK
    <3>. QED BY <1>5, <3>1 DEF ReadReturn
  <2>3. BackTypeOK'
    BY <2>1, <2>2 DEF TypeInv, TypeOK, BackTypeOK
  <2>4. LocalsOK' /\ \A t \in Threads \ {r} : target'[t] = target[t]
    BY <1>5, ReaderIs
       DEF TypeInv, TypeOK, RingTypeOK, LocalsOK, ReadReturn, Forget
  <2>. QED
    BY <1>1, <1>2, <1>5, <2>1, <2>3, <2>4, ReadFrame DEF L, ReadReturn
<1>6. CASE ReadRegister(r) \/ ReadWoken(r) \/ ReadLeave(r)
  <2>1. UNCHANGED <<ringVars, target, index, item, sent, frontVars, pool,
                    allocated, sequence, currentSequence, heap, current, tpc,
                    tbuf, tseq, tlen, spawned, picked, retries, delivered,
                    timeouts, stopped, readMode>>
    BY <1>6 DEF ReadRegister, ReadWoken, ReadLeave, localVars, poolVars,
                seqVars, taskVars, readVars, ctlVars
  <2>2. woken' \subseteq Readers /\ waiters' \subseteq Readers
        /\ token' \subseteq Readers
    BY <1>6 DEF TypeInv, TypeOK, BackTypeOK, ReadRegister, ReadWoken, ReadLeave,
                readVars
  <2>3. BackTypeOK'
    BY <2>1, <2>2 DEF TypeInv, TypeOK, BackTypeOK
  <2>4. LocalsOK'
    BY <2>1 DEF TypeInv, TypeOK, RingTypeOK, LocalsOK
  <2>. QED
    BY <1>1, <1>2, <1>6, <2>1, <2>3, <2>4, ReadFrame
       DEF L, ReadRegister, ReadWoken, ReadLeave
<1>. QED BY <1>3, <1>4, <1>5, <1>6 DEF ReadExit

(* A step of BlockingRead is one of the parts, of Pop or of Reset. *)
LEMMA TypeRead ==
  ASSUME TypeInv, NEW r \in Readers, BlockingRead(r)
  PROVE  TypeInv'
BY TypePop, TypeReset, TypePick, TypeReadEnter, TypeReadExit
   DEF BlockingRead, tryRead, ReadReset, ReadPop, ReadEnter, ReadExit

-----------------------------------------------------------------------------
(* Close. *)
LEMMA TypeClose ==
  ASSUME TypeInv, NEW c \in Closers, Close(c)
  PROVE  TypeInv'
<1>. DEFINE L == LabelsOf(c)
<1>1. /\ "c_stop" \in L /\ "c_noop" \in L /\ "c_pool" \in L /\ "c_wait" \in L
      /\ "c_len" \in L /\ "c_done" \in L /\ "c_pick" \in L /\ "panic" \in L
  BY CloserIs DEF CloserLabels
<1>2. /\ "c_stop" \notin Holding /\ "c_noop" \notin Holding
      /\ "c_pool" \notin Holding /\ "c_wait" \notin Holding
      /\ "c_len" \notin Holding /\ "c_done" \notin Holding
      /\ "c_pick" \notin Holding /\ "panic" \notin Holding
  BY DEF Holding, PushLabels, PopLabels, ResetLabels
<1>. HIDE DEF L
<1>3. LabelsOK' /\ TargetsFull' /\ PickedFull' /\ TasksFull'
  <2>1. UNCHANGED <<target, picked, tpc, tbuf>>
    BY DEF Close, CloseBegin, CloseStop, ClosePool, CloseWait, DrainCheck,
           DrainItem, localVars, dbVars, backVars, readVars, taskVars
  <2>2. \E from, to : Goto(c, from, to) /\ to \in L /\ to \notin Holding
    BY <1>1, <1>2 DEF Close, CloseBegin, CloseStop, ClosePool, CloseWait,
                      DrainCheck, DrainItem
  <2>. QED
    BY <2>1, <2>2, LabelsStep, TargetsStep, PickedStep, CloserIs
       DEF L, TypeInv, TypeOK, HandsFull, TasksFull
<1>4. RingTypeOK' /\ FrontTypeOK'
  <2>1. UNCHANGED <<ringVars, localVars, active, passive, dcount, writeLock,
                    switchLock, accepted>> /\ state' \in {state, "Closed"}
    BY DEF Close, CloseBegin, CloseStop, ClosePool, CloseWait, DrainCheck,
           DrainItem, dbVars, frontVars
  <2>. QED
    BY <2>1 DEF TypeInv, TypeOK, RingTypeOK, RingsOK, LocalsOK, FrontTypeOK,
                ringVars, localVars
<1>5. BackTypeOK'
  <2>1. UNCHANGED <<allocated, sequence, currentSequence, current, tpc, tbuf,
                    tseq, tlen, spawned, picked, retries, woken, delivered,
                    waiters, token, timeouts, readMode>>
    BY DEF Close, CloseBegin, CloseStop, ClosePool, CloseWait, DrainCheck,
           DrainItem, dbVars, backVars, poolVars, seqVars, taskVars, readVars,
           waitVars, ctlVars
  <2>2. stopped' \in {stopped, TRUE}
    BY Zenon DEF Close, CloseBegin, CloseStop, ClosePool, CloseWait, DrainCheck,
           DrainItem, dbVars, backVars, ctlVars
  <2>3. stopped' \in BOOLEAN
    BY <2>2, Zenon DEF TypeInv, TypeOK, BackTypeOK
  <2>4. heap' \subseteq Items /\ pool' \in [Buffers -> Nat]
    <3>1. /\ heap \subseteq Items /\ pool \in [Buffers -> Nat]
          /\ active \in Buffers /\ passive \in Buffers
      BY DEF TypeInv, TypeOK, BackTypeOK, FrontTypeOK
    <3>. QED
      BY <3>1 DEF Close, CloseBegin, CloseStop, ClosePool, CloseWait,
           DrainCheck, DrainItem, LeastItems, Items, dbVars, backVars,
           poolVars, seqVars
  <2>. QED BY <2>1, <2>3, <2>4 DEF TypeInv, TypeOK, BackTypeOK
<1>. QED BY <1>3, <1>4, <1>5 DEF TypeInv, TypeOK, HandsFull

-----------------------------------------------------------------------------
(* The constructor establishes the types. *)
LEMMA TypeInit == Init => TypeInv
<1>. SUFFICES ASSUME Init PROVE TypeInv
  OBVIOUS
<1>1. LabelsOK
  <2>1. /\ pc[Monitor] = "m_tick" /\ pc[Recycler] = "y_tick"
        /\ \A t \in Threads \ {Monitor, Recycler} : pc[t] = "idle"
    BY MonitorIs, RecyclerIs DEF Init
  <2>2. \A t \in Threads : pc[t] \in LabelsOf(t)
    BY <2>1, MonitorIs, RecyclerIs, WriterIs, ReaderIs, CloserIs,
       DoubleBufferAssumption
       DEF WriterLabels, ReaderLabels, CloserLabels
  <2>3. pc = [t \in Threads |-> pc[t]]
    BY DEF Init
  <2>4. \A t \in Threads : pc[t] \in UNION {LabelsOf(u) : u \in Threads}
    BY <2>2
  <2>. QED BY <2>2, <2>3, <2>4 DEF LabelsOK
<1>2. RingTypeOK
  BY RingAssumption
     DEF Init, NewSmartBuffer, RingTypeOK, RingsOK, LocalsOK, EmptySlots
<1>3. FrontTypeOK
  BY DoubleBufferAssumption DEF Init, FrontTypeOK
<1>4. BackTypeOK
  <2>1. stopped \in BOOLEAN /\ readMode \in BOOLEAN
    BY DEF Init
  <2>2. "none" \in TaskLabels
    BY DEF TaskLabels
  <2>. QED
    BY <2>1, <2>2 DEF Init, BackTypeOK
<1>5. HandsFull
  BY DoubleBufferAssumption
     DEF Init, HandsFull, TargetsFull, TasksFull, PickedFull, Holding,
         PushLabels, PopLabels, ResetLabels
<1>. QED BY <1>1, <1>2, <1>3, <1>4, <1>5 DEF TypeInv, TypeOK

(* Every step preserves them. *)
LEMMA TypeNext == TypeInv /\ [Next]_vars => TypeInv'
<1>. SUFFICES ASSUME TypeInv, [Next]_vars PROVE TypeInv'
  OBVIOUS
<1>1. CASE Next
  <2>1. ASSUME NEW w \in Writers, Write(w) PROVE TypeInv'
    BY <2>1, TypePush, TypeWriteOnly DEF Write, WritePush, WriteOnly
  <2>. QED
    BY <1>1, <2>1, TypeSwitch, TypeBackground, TypeTask, TypeRead, TypeClose
       DEF Next, Background
<1>2. CASE UNCHANGED vars
  BY <1>2
     DEF vars, ringVars, threadVars, dbVars, frontVars, backVars, poolVars,
         seqVars, taskVars, readVars, waitVars, ctlVars, TypeInv, TypeOK,
         HandsFull, TargetsFull, TasksFull, PickedFull, LabelsOK, RingTypeOK,
         RingsOK, LocalsOK, FrontTypeOK, BackTypeOK
<1>. QED BY <1>1, <1>2

(***************************************************************************)
(* The variables keep their types, and every goroutine that works on a     *)
(* ring has one in hand: no step of Push, Pop or Reset, of a switch or of  *)
(* a spawned goroutine meets a nil buffer.                                 *)
(***************************************************************************)
THEOREM TypeCorrect == Spec => []TypeInv
BY TypeInit, TypeNext, PTL DEF Spec

(* The type invariant that the runs check. *)
THEOREM TypeOKAlways == Spec => []TypeOK
<1>1. TypeInv => TypeOK
  BY DEF TypeInv
<1>. QED BY <1>1, TypeCorrect, PTL

-----------------------------------------------------------------------------
(***************************************************************************)
(* What the other goroutines do, seen from switchChannel: they leave the   *)
(* pc of every switcher alone, or move one between labels outside          *)
(* switchChannel, and leave the state and the lock alone.                  *)
(***************************************************************************)
Outside == {"idle", "w_fast", "w_load", "w_lock", "w_inspect", "m_tick",
            "m_done", "s_cas"} \cup PushLabels

SwitchAside ==
  /\ UNCHANGED <<state, switchLock, active, passive, spawned>>
  /\ \A p \in Switchers :
       pc'[p] = pc[p] \/ (pc[p] \in Outside /\ pc'[p] \in Outside)

(* The outside labels are those where a goroutine is not switching. *)
LEMMA OutsideIs ==
  ASSUME NEW p \in Switchers, pc[p] \in Outside
  PROVE  ~Switching(p) /\ ~HasSwitchLock(p)
BY DEF Outside, PushLabels, Switching, HasSwitchLock

(* The steps of Write. *)
LEMMA WriteAside ==
  ASSUME TypeInv, NEW w \in Writers, Write(w)
  PROVE  SwitchAside
<1>1. UNCHANGED <<state, switchLock, active, passive, spawned>>
  BY DEF Write, WriteBegin, WriteFast, WriteLoadActive, WritePush,
         WriteAccepted, WriteFastFailed, WriteRejected, WriteLock,
         WriteInspect, dbVars, frontVars, backVars, taskVars
<1>2. \E from \in Outside, to \in Outside : Goto(w, from, to)
  <2>1. CASE WritePush(w)
    BY <2>1 DEF Outside, PushLabels, WritePush, Push, PushCheckState,
                PushCheckCount, PushMarkFull, PushLoadHead, PushClaim,
                PushStore, PushCount
  <2>2. CASE WriteOnly(w)
    BY <2>2 DEF Outside, PushLabels, WriteOnly, WriteBegin, WriteFast,
                WriteLoadActive, WriteAccepted, WriteFastFailed,
                WriteRejected, WriteLock, WriteInspect
  <2>. QED BY <2>1, <2>2 DEF Write, WriteOnly
<1>. QED
  BY <1>1, <1>2, WriterIs, SwitcherIs
     DEF SwitchAside, Goto, TypeInv, TypeOK, LabelsOK

(* A step of a goroutine that never switches. *)
LEMMA ReaderAside ==
  ASSUME TypeInv, NEW t \in Readers \cup Closers \cup {Recycler},
         NEW from, NEW to, Goto(t, from, to),
         UNCHANGED <<state, switchLock, active, passive, spawned>>
  PROVE  SwitchAside
BY ReaderIs, CloserIs, RecyclerIs, SwitcherIs
   DEF SwitchAside, Goto, TypeInv, TypeOK, LabelsOK

(* The steps of BlockingRead leave alone what SwitchExclusive speaks of. *)
LEMMA ReadAside ==
  ASSUME TypeInv, NEW r \in Readers, BlockingRead(r)
  PROVE  SwitchAside
<1>1. UNCHANGED <<state, switchLock, active, passive, spawned>>
  <2>1. CASE ReadEnter(r)
    BY <2>1 DEF ReadEnter, ReadBegin, ReadCheckNil, ReadCheckLen, ReadDrop,
                ReadTake, ReadForget, ReadPut, dbVars, frontVars, backVars,
                taskVars
  <2>2. CASE pickBufferFromHeap(r)
    BY <2>2 DEF pickBufferFromHeap, PickItem, PickCompare, PickSet,
                PickAdvance, PickPutBack, PickReturn, dbVars, frontVars,
                backVars, taskVars
  <2>3. CASE ReadExit(r)
    BY <2>3 DEF ReadExit, ReadMode, ReadEnterPop, ReadReturn, ReadRegister,
                ReadWoken, ReadTimeout, ReadLeave, dbVars, frontVars,
                backVars, taskVars
  <2>4. CASE ReadPop(r) \/ ReadReset(r)
    BY <2>4 DEF ReadPop, ReadReset, dbVars, frontVars, backVars, taskVars
  <2>. QED
    BY <2>1, <2>2, <2>3, <2>4 DEF BlockingRead, tryRead, ReadEnter, ReadExit
<1>2. \E from, to : Goto(r, from, to)
  <2>1. CASE ReadEnter(r)
    BY <2>1 DEF ReadEnter, ReadBegin, ReadCheckNil, ReadCheckLen, ReadDrop,
                ReadTake, ReadForget, ReadPut
  <2>2. CASE pickBufferFromHeap(r)
    BY <2>2 DEF pickBufferFromHeap, PickItem, PickCompare, PickSet,
                PickAdvance, PickPutBack, PickReturn
  <2>3. CASE ReadExit(r)
    BY <2>3 DEF ReadExit, ReadMode, ReadEnterPop, ReadReturn, ReadRegister,
                ReadWoken, ReadTimeout, ReadLeave
  <2>4. CASE ReadPop(r) \/ ReadReset(r)
    BY <2>4 DEF ReadPop, ReadReset, Pop, PopCheckCount, PopLoadTail, PopClaim,
                PopRead, PopClear, PopCount, Reset, ResetState, ResetCount,
                ResetCursors
  <2>. QED
    BY <2>1, <2>2, <2>3, <2>4 DEF BlockingRead, tryRead, ReadEnter, ReadExit
<1>. QED BY <1>1, <1>2, ReaderAside

(* The background, a spawned goroutine, and Close after its first step. *)
CloseRest(c) ==
  CloseStop(c) \/ ClosePool(c) \/ CloseWait(c) \/ DrainCheck(c) \/ DrainItem(c)

(* So do the two background loops, RegisterReadMode, the spawned goroutines
   and Close after its compare-and-swap. *)
LEMMA OthersAside ==
  ASSUME TypeInv,
         \/ Background \/ \E k \in Tasks : Task(k)
         \/ \E c \in Closers : CloseRest(c)
  PROVE  SwitchAside
<1>1. CASE Background
  BY <1>1, MonitorIs, SwitcherIs, RecyclerIs
     DEF SwitchAside, Outside, Background, MonitorTick, MonitorStop, RecyclerStop,
         RegisterReadMode, Goto, TypeInv, TypeOK, LabelsOK, dbVars, frontVars,
         backVars, taskVars, threadVars
<1>2. ASSUME NEW k \in Tasks, Task(k) PROVE SwitchAside
  BY <1>2 DEF SwitchAside, Task, TaskNumber, TaskPush, TaskLen, TaskNotify,
              threadVars, frontVars
<1>3. ASSUME NEW c \in Closers, CloseRest(c) PROVE SwitchAside
  <2>1. UNCHANGED <<state, switchLock, active, passive, spawned>>
    BY <1>3 DEF CloseRest, CloseStop, ClosePool, CloseWait, DrainCheck,
                DrainItem, dbVars, frontVars, backVars, taskVars
  <2>2. \E from, to : Goto(c, from, to)
    BY <1>3 DEF CloseRest, CloseStop, ClosePool, CloseWait, DrainCheck,
                DrainItem
  <2>. QED BY <2>1, <2>2, ReaderAside
<1>. QED BY <1>1, <1>2, <1>3

-----------------------------------------------------------------------------
(* A step that leaves alone what SwitchExclusive speaks of preserves it. *)
LEMMA ExclusiveAside ==
  ASSUME SwitchExclusive, SwitchAside
  PROVE  SwitchExclusive'
<1>1. \A p \in Switchers : /\ Switching(p)' <=> Switching(p)
                           /\ HasSwitchLock(p)' <=> HasSwitchLock(p)
  BY DEF SwitchAside, Switching, HasSwitchLock, Outside, PushLabels
<1>. QED BY <1>1 DEF SwitchExclusive, SwitchAside

(* A step of switchChannel preserves SwitchExclusive. *)
LEMMA ExclusiveSwitch ==
  ASSUME TypeInv, SwitchExclusive, NEW p \in Switchers, switchChannel(p)
  PROVE  SwitchExclusive'
<1>1. \A q \in Switchers \ {p} : /\ Switching(q)' <=> Switching(q)
                                 /\ HasSwitchLock(q)' <=> HasSwitchLock(q)
  BY SwitcherIs
     DEF switchChannel, SwitchBegin, SwitchLock, SwitchFreeze, SwitchSwap,
         SwitchZero, SwitchSpawn, SwitchRestore, SwitchUnlock, Goto, Switching,
         HasSwitchLock, TypeInv, TypeOK, LabelsOK
<1>2. p # Nil /\ pc \in [Threads -> UNION {LabelsOf(t) : t \in Threads}]
      /\ p \in Threads
  BY SwitcherIs, DoubleBufferAssumption DEF TypeInv, TypeOK, LabelsOK
<1>3. CASE SwitchBegin(p)
  <2>1. ~Switching(p) /\ ~HasSwitchLock(p) /\ ~HasSwitchLock(p)'
    BY <1>2, <1>3, SwitcherIs
       DEF SwitchBegin, Goto, Switching, HasSwitchLock
  <2>2. switchLock' = switchLock
    BY <1>3 DEF SwitchBegin
  <2>3. CASE state = "Writing" /\ state' = "Switching"
    BY <1>1, <2>1, <2>2, <2>3 DEF SwitchExclusive
  <2>4. CASE state' = state /\ Goto(p, "s_cas", AfterSwitch(p))
    <3>1. ~Switching(p)'
      BY <1>2, <2>4, SwitcherIs DEF Goto, Switching
    <3>. QED BY <1>1, <2>1, <2>2, <2>4, <3>1 DEF SwitchExclusive
  <2>. QED BY <1>3, <2>3, <2>4 DEF SwitchBegin
<1>4. CASE SwitchLock(p)
  <2>1. Switching(p) /\ ~HasSwitchLock(p) /\ Switching(p)' /\ HasSwitchLock(p)'
    BY <1>2, <1>4 DEF SwitchLock, Goto, Switching, HasSwitchLock
  <2>2. \A q \in Switchers : q # Nil
    BY SwitcherIs, DoubleBufferAssumption
  <2>. QED BY <1>1, <1>4, <2>1, <2>2 DEF SwitchExclusive, SwitchLock
<1>5. CASE SwitchFreeze(p) \/ SwitchSwap(p) \/ SwitchZero(p) \/ SwitchSpawn(p)
  <2>1. Switching(p) /\ HasSwitchLock(p) /\ Switching(p)' /\ HasSwitchLock(p)'
    BY <1>2, <1>5 DEF SwitchFreeze, SwitchSwap, SwitchZero, SwitchSpawn, Goto,
                      Switching, HasSwitchLock
  <2>2. UNCHANGED <<state, switchLock>>
    BY <1>5 DEF SwitchFreeze, SwitchSwap, SwitchZero, SwitchSpawn, dbVars,
                frontVars
  <2>. QED BY <1>1, <2>1, <2>2 DEF SwitchExclusive
<1>6. CASE SwitchRestore(p)
  <2>1. Switching(p) /\ HasSwitchLock(p) /\ ~Switching(p)' /\ HasSwitchLock(p)'
    BY <1>2, <1>6 DEF SwitchRestore, Goto, Switching, HasSwitchLock
  <2>2. \A q \in Switchers : ~Switching(q)'
    BY <1>1, <2>1 DEF SwitchExclusive
  <2>3. switchLock' = switchLock
    BY <1>6 DEF SwitchRestore
  <2>. QED BY <1>1, <2>1, <2>2, <2>3 DEF SwitchExclusive
<1>7. CASE SwitchUnlock(p)
  <2>1. ~Switching(p) /\ HasSwitchLock(p) /\ ~Switching(p)' /\ ~HasSwitchLock(p)'
    BY <1>2, <1>7, SwitcherIs DEF SwitchUnlock, Goto, Switching, HasSwitchLock
  <2>2. \A q \in Switchers : q # Nil
    BY SwitcherIs, DoubleBufferAssumption
  <2>. QED BY <1>1, <1>7, <2>1, <2>2 DEF SwitchExclusive, SwitchUnlock
<1>. QED BY <1>3, <1>4, <1>5, <1>6, <1>7 DEF switchChannel

(* Close wins its compare-and-swap only while nobody is switching. *)
LEMMA ExclusiveClose ==
  ASSUME TypeInv, SwitchExclusive, NEW c \in Closers, CloseBegin(c)
  PROVE  SwitchExclusive'
<1>1. \A p \in Switchers : /\ Switching(p)' <=> Switching(p)
                           /\ HasSwitchLock(p)' <=> HasSwitchLock(p)
  BY CloserIs, SwitcherIs
     DEF CloseBegin, Goto, Switching, HasSwitchLock, TypeInv, TypeOK, LabelsOK
<1>. QED BY <1>1 DEF SwitchExclusive, CloseBegin

(* It holds at first: nobody is switching. *)
LEMMA ExclusiveInit == Init => SwitchExclusive
<1>. SUFFICES ASSUME Init PROVE SwitchExclusive
  OBVIOUS
<1>1. \A p \in Switchers : pc[p] \in {"idle", "m_tick"} /\ p # Nil
  BY SwitcherIs, DoubleBufferAssumption DEF Init, Switchers
<1>. QED BY <1>1 DEF Init, SwitchExclusive, Switching, HasSwitchLock

(* Every step preserves it. *)
LEMMA ExclusiveNext ==
  TypeInv /\ SwitchExclusive /\ [Next]_vars => SwitchExclusive'
<1>. SUFFICES ASSUME TypeInv, SwitchExclusive, [Next]_vars
              PROVE  SwitchExclusive'
  OBVIOUS
<1>1. CASE UNCHANGED vars
  BY <1>1, ExclusiveAside
     DEF vars, threadVars, dbVars, frontVars, backVars, taskVars, SwitchAside
<1>2. CASE Next
  BY <1>2, ExclusiveAside, ExclusiveSwitch, ExclusiveClose, WriteAside,
     ReadAside, OthersAside
     DEF Next, Background, Close, CloseRest
<1>. QED BY <1>1, <1>2

(***************************************************************************)
(* At most one goroutine is switching, the state says so for as long, and  *)
(* switchLock is held by exactly the goroutine that is behind it: the      *)
(* compare-and-swap on the state, not the lock, is what keeps two switches *)
(* apart, since it is taken first.                                         *)
(***************************************************************************)
THEOREM SwitchExclusiveAlways == Spec => []SwitchExclusive
BY ExclusiveInit, ExclusiveNext, TypeCorrect, PTL DEF Spec

(***************************************************************************)
(* After Close has won, no step changes the state, swaps the buffers or    *)
(* spawns a goroutine.                                                     *)
(***************************************************************************)
THEOREM ClosedStaysClosed == Spec => ClosedIsFinal
<1>1. TypeInv /\ SwitchExclusive /\ [Next]_vars
        => [state = "Closed" => UNCHANGED <<state, active, passive, spawned>>]_vars
  <2>. SUFFICES ASSUME TypeInv, SwitchExclusive, Next, state = "Closed"
                PROVE  UNCHANGED <<state, active, passive, spawned>>
    OBVIOUS
  <2>1. ASSUME NEW p \in Switchers, switchChannel(p)
        PROVE  UNCHANGED <<state, active, passive, spawned>>
    <3>1. ~Switching(p)
      BY DEF SwitchExclusive
    <3>. QED
      BY <2>1, <3>1
         DEF switchChannel, SwitchBegin, SwitchLock, SwitchFreeze, SwitchSwap,
             SwitchZero, SwitchSpawn, SwitchRestore, SwitchUnlock, Goto,
             Switching, backVars, taskVars
  <2>2. ASSUME NEW c \in Closers, CloseBegin(c)
        PROVE  UNCHANGED <<state, active, passive, spawned>>
    BY <2>2 DEF CloseBegin, backVars, taskVars
  <2>3. CASE SwitchAside
    BY <2>3 DEF SwitchAside
  <2>. QED
    BY <2>1, <2>2, <2>3, WriteAside, ReadAside, OthersAside
       DEF Next, Background, Close, CloseRest
<1>. QED
  BY <1>1, TypeCorrect, SwitchExclusiveAlways, PTL DEF Spec, ClosedIsFinal

-----------------------------------------------------------------------------
(***************************************************************************)
(* What a step of each kind of goroutine leaves alone, whatever it does.   *)
(***************************************************************************)
Others(t) ==
  \A u \in Threads \ {t} : /\ pc'[u] = pc[u] /\ target'[u] = target[u]
                           /\ index'[u] = index[u] /\ item'[u] = item[u]

PcsOK == pc \in [Threads -> UNION {LabelsOf(t) : t \in Threads}]

(* The types of the variables that almost every step below relies on. *)
LEMMA PcsAre ==
  ASSUME TypeInv
  PROVE  /\ PcsOK
         /\ target \in [Threads -> Buffers \cup {Nil}]
         /\ index \in [Threads -> Int]
         /\ item \in [Threads -> Messages \cup {Nil}]
         /\ sent \in [Writers -> Nat]
BY DEF TypeInv, TypeOK, LabelsOK, PcsOK, RingTypeOK, LocalsOK

(* Write moves its own program counter only, outside of every switch. *)
LEMMA WriteMoves ==
  ASSUME TypeInv, NEW w \in Writers, Write(w)
  PROVE  /\ Others(w)
         /\ pc[w] \in Outside /\ pc'[w] \in Outside
         /\ UNCHANGED <<tail, state, active, passive, switchLock, pool,
                        allocated, sequence, currentSequence, heap, current,
                        tpc, tbuf, tseq, tlen, spawned, picked, retries,
                        woken, delivered, stopped, readMode>>
<1>. USE PcsAre, WriterIs DEF Others, PcsOK, Outside, PushLabels, Goto
<1>1. CASE WritePush(w)
  <2>1. /\ \A u \in Threads \ {w} : pc'[u] = pc[u] /\ index'[u] = index[u]
        /\ pc[w] \in Outside /\ pc'[w] \in Outside
        /\ UNCHANGED <<target, item, tail>>
    BY <1>1 DEF WritePush, Push, PushCheckState, PushCheckCount, PushMarkFull,
                PushLoadHead, PushClaim, PushStore, PushCount, ringVars
  <2>. QED
    BY <1>1, <2>1 DEF WritePush, dbVars, frontVars, backVars, poolVars,
                      seqVars, taskVars, readVars, waitVars, ctlVars
<1>2. CASE WriteOnly(w)
  <2>1. Others(w) /\ pc[w] \in Outside /\ pc'[w] \in Outside
    BY <1>2 DEF Forget, localVars, WriteOnly, WriteBegin, WriteFast,
                WriteLoadActive, WriteAccepted, WriteFastFailed,
                WriteRejected, WriteLock, WriteInspect
  <2>2. UNCHANGED <<ringVars, state, active, passive, switchLock, backVars>>
    BY <1>2 DEF WriteOnly, WriteBegin, WriteFast, WriteLoadActive,
                WriteAccepted, WriteFastFailed, WriteRejected, WriteLock,
                WriteInspect, dbVars, frontVars
  <2>. QED
    BY <2>1, <2>2 DEF ringVars, backVars, poolVars, seqVars, taskVars,
                      readVars, waitVars, ctlVars
<1>. QED BY <1>1, <1>2 DEF Write, WriteOnly

(* switchChannel moves its own locals only, and no item of a ring. *)
LEMMA SwitchMoves ==
  ASSUME TypeInv, NEW p \in Switchers, switchChannel(p)
  PROVE  /\ Others(p)
         /\ pc[p] \in SwitchLabels
         /\ pc'[p] \in SwitchLabels \cup {"m_tick", "w_load"}
         /\ UNCHANGED <<buf, head, tail, count, sent, sequence,
                        currentSequence, heap, current, tseq, tlen, picked,
                        retries, woken, delivered, stopped, readMode,
                        accepted>>
<1>. USE PcsAre, SwitcherIs
     DEF Others, PcsOK, SwitchLabels, Goto, switchChannel, SwitchBegin,
         SwitchLock, SwitchFreeze, SwitchSwap, SwitchZero, SwitchSpawn,
         SwitchRestore, SwitchUnlock
<1>1. /\ \A u \in Threads \ {p} : pc'[u] = pc[u]
      /\ pc[p] \in SwitchLabels
      /\ pc'[p] \in SwitchLabels \cup {"m_tick", "w_load"}
  OBVIOUS
<1>2. /\ \A u \in Threads \ {p} : /\ target'[u] = target[u]
                                  /\ index'[u] = index[u] /\ item'[u] = item[u]
      /\ sent' = sent
  BY DEF Forget, localVars
<1>3. UNCHANGED <<seqVars, readVars, ctlVars, accepted>>
  BY DEF dbVars, frontVars, backVars
<1>4. UNCHANGED <<buf, head, tail, count, tseq, tlen>>
  BY DEF ringVars, dbVars, backVars, taskVars
<1>. QED BY <1>1, <1>2, <1>3, <1>4 DEF seqVars, readVars, ctlVars

(* The monitor and the recycler touch no ring and no task outside a switch. *)
LEMMA BackgroundMoves ==
  ASSUME TypeInv, Background
  PROVE  /\ \A t \in Threads \ {Monitor, Recycler} : pc'[t] = pc[t]
         /\ pc'[Monitor] = pc[Monitor]
              \/ (pc[Monitor] \in Outside /\ pc'[Monitor] \in Outside)
         /\ UNCHANGED <<ringVars, target, index, item, sent, frontVars,
                        poolVars, seqVars, taskVars, readVars, waitVars,
                        stopped>>
         /\ readMode => readMode'
<1>. USE PcsAre, MonitorIs, RecyclerIs
     DEF PcsOK, Background, MonitorTick, MonitorStop, RecyclerStop,
         RegisterReadMode
<1>1. /\ \A t \in Threads \ {Monitor, Recycler} : pc'[t] = pc[t]
      /\ pc'[Monitor] = pc[Monitor]
           \/ (pc[Monitor] \in Outside /\ pc'[Monitor] \in Outside)
  BY DEF Goto, Outside, threadVars
<1>2. UNCHANGED <<ringVars, target, index, item, sent, frontVars,
                  poolVars, seqVars, taskVars, readVars, waitVars, stopped>>
  BY DEF threadVars, localVars, dbVars, backVars, ctlVars
<1>3. readMode' = readMode \/ readMode' = TRUE
  BY Zenon DEF dbVars, backVars, ctlVars
<1>4. readMode => readMode'
  BY <1>3, Zenon
<1>. QED BY <1>1, <1>2, <1>4

(* A spawned task moves no thread. *)
LEMMA TaskMoves ==
  ASSUME NEW k \in Tasks, Task(k)
  PROVE  /\ UNCHANGED <<ringVars, threadVars, frontVars, pool, allocated,
                        currentSequence, current, tbuf, spawned, picked,
                        retries, woken, delivered, stopped, readMode>>
         /\ \E from \in {"seq", "push", "len", "notify"} : \E to :
              TaskGoto(k, from, to)
BY DEF Task, TaskNumber, TaskPush, TaskLen, TaskNotify, poolVars, readVars,
       ctlVars, seqVars

(* A reader leaves the writers' side and the tasks alone. *)
LEMMA ReadMoves ==
  ASSUME TypeInv, NEW r \in Readers, BlockingRead(r)
  PROVE  /\ Others(r)
         /\ UNCHANGED <<sent, frontVars, allocated, sequence, taskVars,
                        stopped, readMode>>
<1>. USE PcsAre, ReaderIs DEF Others, PcsOK
<1>1. CASE ReadEnter(r)
  <2>1. Others(r) /\ sent' = sent
    BY <1>1 DEF ReadEnter, ReadBegin, ReadCheckNil, ReadCheckLen, ReadDrop,
                ReadTake, ReadForget, ReadPut, Goto, Forget, localVars
  <2>. QED
    BY <1>1, <2>1
       DEF ReadEnter, ReadBegin, ReadCheckNil, ReadCheckLen, ReadDrop,
           ReadTake, ReadForget, ReadPut, dbVars, backVars, poolVars, seqVars,
           ctlVars
<1>2. CASE pickBufferFromHeap(r)
  <2>1. Others(r) /\ sent' = sent
    BY <1>2 DEF pickBufferFromHeap, PickItem, PickCompare, PickSet,
                PickAdvance, PickPutBack, PickReturn, Goto, localVars
  <2>. QED
    BY <1>2, <2>1
       DEF pickBufferFromHeap, PickItem, PickCompare, PickSet, PickAdvance,
           PickPutBack, PickReturn, dbVars, backVars, poolVars, seqVars, ctlVars
<1>3. CASE ReadExit(r)
  <2>1. Others(r) /\ sent' = sent
    BY <1>3 DEF ReadExit, ReadMode, ReadEnterPop, ReadReturn, ReadRegister,
                ReadWoken, ReadTimeout, ReadLeave, Goto, Forget, localVars
  <2>. QED
    BY <1>3, <2>1
       DEF ReadExit, ReadMode, ReadEnterPop, ReadReturn, ReadRegister,
           ReadWoken, ReadTimeout, ReadLeave, dbVars, backVars, poolVars,
           seqVars, ctlVars
<1>4. CASE ReadPop(r) \/ ReadReset(r)
  <2>1. Others(r) /\ sent' = sent
    BY <1>4 DEF ReadPop, ReadReset, Pop, PopCheckCount, PopLoadTail, PopClaim,
                PopRead, PopClear, PopCount, Reset, ResetState, ResetCount,
                ResetCursors, Goto
  <2>. QED
    BY <1>4, <2>1
       DEF ReadPop, ReadReset, dbVars, backVars, poolVars, seqVars, ctlVars
<1>. QED
  BY <1>1, <1>2, <1>3, <1>4 DEF BlockingRead, tryRead, ReadEnter, ReadExit

(* Close leaves rings, readers and tasks alone. *)
LEMMA CloseMoves ==
  ASSUME TypeInv, NEW c \in Closers, Close(c)
  PROVE  /\ Others(c)
         /\ UNCHANGED <<ringVars, target, index, item, sent, active, passive,
                        switchLock, allocated, sequence, currentSequence,
                        current, taskVars, readVars, readMode>>
<1>. USE PcsAre, CloserIs
     DEF Others, PcsOK, Close, CloseBegin, CloseStop, ClosePool, CloseWait,
         DrainCheck, DrainItem
<1>1. UNCHANGED localVars /\ \A u \in Threads \ {c} : pc'[u] = pc[u]
  BY DEF Goto
<1>2. UNCHANGED <<ringVars, active, passive, switchLock, allocated, sequence,
                  currentSequence, current, taskVars, readVars, readMode>>
  BY DEF dbVars, frontVars, backVars, poolVars, seqVars, ctlVars
<1>. QED BY <1>1, <1>2 DEF localVars

-----------------------------------------------------------------------------
(***************************************************************************)
(* The sequence numbers.  The inductive invariant says of each place that  *)
(* holds numbers what SequenceKept says of all of them together, and knows *)
(* which readers have an item in hand and which goroutines are not yet     *)
(* spawned.                                                                *)
(***************************************************************************)
PickLabels == {"k_cmp", "k_set", "k_inc", "k_back"}
Pushing(k) == tpc[k] = "push"
InHand(r)  == pc[r] \in PickLabels

NumbersApart ==
  /\ \A k, l \in Tasks : Pushing(k) /\ Pushing(l) /\ tseq[k] = tseq[l] => k = l
  /\ \A i, j \in heap : i.seq = j.seq => i = j
  /\ \A q, r \in Readers :
       InHand(q) /\ InHand(r) /\ picked[q].seq = picked[r].seq => q = r
  /\ \A k \in Tasks, i \in heap : Pushing(k) => tseq[k] # i.seq
  /\ \A k \in Tasks, r \in Readers :
       Pushing(k) /\ InHand(r) => tseq[k] # picked[r].seq
  /\ \A r \in Readers, i \in heap : InHand(r) => picked[r].seq # i.seq

NumbersDue ==
  /\ currentSequence <= sequence + 1
  /\ \A k \in Tasks : Pushing(k) => tseq[k] \in currentSequence .. sequence
  /\ \A i \in heap : i.seq \in currentSequence .. sequence
  /\ \A r \in Readers : InHand(r) => picked[r].seq \in currentSequence .. sequence

Kept(n) ==
  \/ \E k \in Tasks : Pushing(k) /\ tseq[k] = n
  \/ \E i \in heap : i.seq = n
  \/ \E r \in Readers : InHand(r) /\ picked[r].seq = n

NumbersKept == Draining \/ \A n \in currentSequence .. sequence : Kept(n)

HandsKnown ==
  \A r \in Readers : /\ picked[r] # Nil <=> InHand(r)
                     /\ pc[r] \in {"k_set", "k_inc"}
                          => picked[r].seq = currentSequence

Unspawned == \A k \in Tasks : k > spawned => tpc[k] = "none"

NumberInv ==
  NumbersApart /\ NumbersDue /\ NumbersKept /\ HandsKnown /\ Unspawned

(* It is what SequenceKept says. *)
LEMMA NumberIs ==
  ASSUME NumberInv
  PROVE  SequenceKept
<1>1. \A x \in TaskNumbers : \E k \in Tasks :
        x = <<"task", k, tseq[k]>> /\ Pushing(k)
  BY DEF TaskNumbers, Pushing
<1>2. \A x \in HeapNumbers : \E i \in heap : x = <<"heap", i.buf, i.seq>>
  BY DEF HeapNumbers
<1>3. \A x \in HandNumbers : \E r \in Readers :
        x = <<"hand", r, picked[r].seq>> /\ InHand(r)
  BY DEF HandNumbers, NumberInv, HandsKnown
<1>4. \A x, y \in Numbers : x[3] = y[3] => x = y
  BY <1>1, <1>2, <1>3 DEF Numbers, NumberInv, NumbersApart
<1>5. \A x \in Numbers : x[3] \in currentSequence .. sequence
  BY <1>1, <1>2, <1>3 DEF Numbers, NumberInv, NumbersDue
<1>6. ASSUME NEW n, Kept(n) PROVE \E x \in Numbers : x[3] = n
  <2>1. CASE \E k \in Tasks : Pushing(k) /\ tseq[k] = n
    <3>1. PICK k \in Tasks : Pushing(k) /\ tseq[k] = n
      BY <2>1
    <3>2. <<"task", k, n>> \in Numbers
      BY <3>1 DEF Numbers, TaskNumbers, Pushing
    <3>. QED BY <3>2
  <2>2. CASE \E i \in heap : i.seq = n
    <3>1. PICK i \in heap : i.seq = n
      BY <2>2
    <3>2. <<"heap", i.buf, n>> \in Numbers
      BY <3>1 DEF Numbers, HeapNumbers
    <3>. QED BY <3>2
  <2>3. CASE \E r \in Readers : InHand(r) /\ picked[r].seq = n
    <3>1. PICK r \in Readers : InHand(r) /\ picked[r].seq = n
      BY <2>3
    <3>2. <<"hand", r, n>> \in Numbers
      BY <3>1 DEF Numbers, HandNumbers, NumberInv, HandsKnown
    <3>. QED BY <3>2
  <2>. QED BY <1>6, <2>1, <2>2, <2>3 DEF Kept
<1>. QED
  BY <1>4, <1>5, <1>6 DEF SequenceKept, NumberInv, NumbersKept, HandsKnown

(* What a step leaves alone that has nothing to do with the numbers. *)
NumberAside ==
  /\ UNCHANGED <<tseq, heap, picked, sequence, currentSequence>>
  /\ \A k \in Tasks : Pushing(k)' <=> Pushing(k)
  /\ Unspawned'
  /\ \A r \in Readers :
       pc'[r] = pc[r] \/ (~InHand(r) /\ ~InHand(r)')
  /\ Draining => Draining'

(* A step that leaves tasks, heap and readers' hands alone keeps the numbers. *)
LEMMA NumberFrame ==
  ASSUME NumberInv, NumberAside
  PROVE  NumberInv'
<1>1. \A r \in Readers : /\ InHand(r)' <=> InHand(r)
                         /\ pc'[r] \in {"k_set", "k_inc"} => pc'[r] = pc[r]
  BY DEF NumberAside, InHand, PickLabels
<1>2. NumbersApart' /\ NumbersDue'
  BY <1>1 DEF NumberAside, NumberInv, NumbersApart, NumbersDue
<1>3. \A n : Kept(n) <=> Kept(n)'
  BY <1>1 DEF NumberAside, Kept
<1>4. NumbersKept'
  BY <1>3 DEF NumberAside, NumberInv, NumbersKept
<1>5. HandsKnown'
  BY <1>1 DEF NumberAside, NumberInv, HandsKnown
<1>. QED BY <1>2, <1>4, <1>5 DEF NumberAside, NumberInv

(* Draining stays once it has begun. *)
LEMMA DrainingStays ==
  ASSUME TypeInv,
         \/ \A c \in Closers : pc'[c] = pc[c]
         \/ \E c \in Closers : Close(c)
  PROVE  Draining => Draining'
<1>1. CASE \A c \in Closers : pc'[c] = pc[c]
  BY <1>1 DEF Draining
<1>2. ASSUME NEW c \in Closers, Close(c)
      PROVE  Draining => Draining'
  <2>1. \A d \in Closers \ {c} : pc'[d] = pc[d]
    BY <1>2, CloseMoves, CloserIs DEF Others
  <2>2. pc[c] \in {"c_pick", "c_len", "c_done", "panic"}
          => pc'[c] \in {"c_pick", "c_len", "c_done", "panic"}
    BY <1>2, PcsAre, CloserIs
       DEF PcsOK, Close, CloseBegin, CloseStop, ClosePool, CloseWait,
           DrainCheck, DrainItem, Goto
  <2>. QED BY <2>1, <2>2 DEF Draining
<1>. QED BY <1>1, <1>2

(* The steps of Write, of switchChannel and of the background. *)
LEMMA NumberFront ==
  ASSUME TypeInv, NumberInv,
         \/ \E w \in Writers : Write(w)
         \/ \E p \in Switchers : switchChannel(p)
         \/ Background
  PROVE  NumberInv'
<1>1. CASE (\E w \in Writers : Write(w)) \/ Background
  <2>1. UNCHANGED <<tseq, heap, picked, sequence, currentSequence, tpc, spawned>>
    BY <1>1, WriteMoves, BackgroundMoves DEF seqVars, taskVars, readVars
  <2>2. \A t \in Readers \cup Closers : pc'[t] = pc[t]
    BY <1>1, WriteMoves, BackgroundMoves, ReaderIs, CloserIs DEF Others
  <2>3. Draining => Draining'
    BY <2>2, DrainingStays
  <2>. QED
    BY <2>1, <2>2, <2>3, NumberFrame
       DEF NumberAside, NumberInv, Unspawned, Pushing
<1>2. ASSUME NEW p \in Switchers, switchChannel(p)
      PROVE  NumberInv'
  <2>1. UNCHANGED <<tseq, heap, picked, sequence, currentSequence>>
    BY <1>2, SwitchMoves
  <2>2. \A t \in Readers \cup Closers : pc'[t] = pc[t]
    BY <1>2, SwitchMoves, ReaderIs, CloserIs DEF Others
  <2>3. Draining => Draining'
    BY <2>2, DrainingStays
  <2>4. Unspawned' /\ \A k \in Tasks : Pushing(k)' <=> Pushing(k)
    <3>1. CASE SwitchSpawn(p)
      <4>1. /\ tpc \in [Tasks -> TaskLabels] /\ spawned \in Nat
            /\ tpc' = [tpc EXCEPT ![spawned + 1] = "seq"]
            /\ spawned' = spawned + 1
        BY <3>1 DEF SwitchSpawn, TypeInv, TypeOK, BackTypeOK
      <4>2. \A k \in Tasks : k \in Nat
        BY DEF Tasks
      <4>3. \A k \in Tasks : k > spawned => tpc[k] = "none"
        BY DEF NumberInv, Unspawned
      <4>. QED BY <4>1, <4>2, <4>3 DEF Unspawned, Pushing
    <3>2. CASE UNCHANGED <<tpc, spawned>>
      BY <3>2 DEF NumberInv, Unspawned, Pushing
    <3>. QED
      BY <1>2, <3>1, <3>2
         DEF dbVars, backVars, taskVars, switchChannel, SwitchBegin, SwitchLock,
             SwitchFreeze, SwitchSwap, SwitchZero, SwitchRestore, SwitchUnlock
  <2>. QED BY <2>1, <2>2, <2>3, <2>4, NumberFrame DEF NumberAside
<1>. QED BY <1>1, <1>2

(* The spawned goroutine takes the next number and takes it to the heap. *)
LEMMA NumberTask ==
  ASSUME TypeInv, NumberInv, NEW k \in Tasks, Task(k)
  PROVE  NumberInv'
<1>0. /\ tpc \in [Tasks -> TaskLabels] /\ tseq \in [Tasks -> Nat]
      /\ sequence \in Nat /\ currentSequence \in Nat
      /\ picked \in [Readers -> Items \cup {Nil}]
  BY DEF TypeInv, TypeOK, BackTypeOK
<1>1. UNCHANGED <<pc, currentSequence, picked, spawned>>
  BY TaskMoves DEF threadVars
<1>2. /\ Draining <=> Draining'
      /\ \A r \in Readers : InHand(r)' <=> InHand(r)
  BY <1>1 DEF Draining, InHand
<1>3. HandsKnown'
  BY <1>1, <1>2 DEF NumberInv, HandsKnown
<1>4. Unspawned'
  BY <1>0, <1>1 DEF NumberInv, Unspawned, Task, TaskNumber, TaskPush, TaskLen,
                    TaskNotify, TaskGoto
<1>5. CASE TaskNumber(k)
  <2>1. /\ ~Pushing(k) /\ Pushing(k)' /\ tseq'[k] = sequence + 1
        /\ \A l \in Tasks \ {k} : (Pushing(l)' <=> Pushing(l)) /\ tseq'[l] = tseq[l]
        /\ sequence' = sequence + 1 /\ heap' = heap
    BY <1>0, <1>5 DEF TaskNumber, TaskGoto, Pushing
  <2>2. /\ \A l \in Tasks : Pushing(l) => tseq[l] # sequence + 1
        /\ \A i \in heap : i.seq # sequence + 1
        /\ \A r \in Readers : InHand(r) => picked[r].seq # sequence + 1
    BY <1>0 DEF NumberInv, NumbersDue
  <2>3. NumbersApart'
    BY <1>1, <1>2, <2>1, <2>2 DEF NumberInv, NumbersApart
  <2>4. NumbersDue'
    BY <1>0, <1>1, <1>2, <2>1 DEF NumberInv, NumbersDue
  <2>5. \A n : Kept(n) => Kept(n)'
    BY <1>1, <1>2, <2>1 DEF Kept
  <2>6. \A n : n = sequence + 1 => Kept(n)'
    BY <2>1 DEF Kept
  <2>7. NumbersKept'
    BY <1>0, <1>1, <1>2, <2>1, <2>5, <2>6 DEF NumberInv, NumbersKept
  <2>. QED BY <1>3, <1>4, <2>3, <2>4, <2>7 DEF NumberInv
<1>6. CASE TaskPush(k)
  <2>1. /\ Pushing(k) /\ ~Pushing(k)'
        /\ \A l \in Tasks \ {k} : Pushing(l)' <=> Pushing(l)
        /\ tseq' = tseq /\ sequence' = sequence
        /\ heap' = heap \cup {[seq |-> tseq[k], buf |-> tbuf[k]]}
    BY <1>0, <1>6 DEF TaskPush, TaskGoto, Pushing
  <2>. DEFINE new == [seq |-> tseq[k], buf |-> tbuf[k]]
  <2>2. new.seq = tseq[k] /\ heap' = heap \cup {new}
    BY <2>1
  <2>. HIDE DEF new
  <2>3. NumbersApart'
    BY <1>1, <1>2, <2>1, <2>2 DEF NumberInv, NumbersApart
  <2>4. NumbersDue'
    BY <1>1, <1>2, <2>1, <2>2 DEF NumberInv, NumbersDue
  <2>5. \A n : Kept(n) => Kept(n)'
    BY <1>1, <1>2, <2>1, <2>2 DEF Kept
  <2>6. NumbersKept'
    BY <1>1, <1>2, <2>1, <2>5 DEF NumberInv, NumbersKept
  <2>. QED BY <1>3, <1>4, <2>3, <2>4, <2>6 DEF NumberInv
<1>7. CASE TaskLen(k) \/ TaskNotify(k)
  <2>1. UNCHANGED <<tseq, heap, sequence>>
    BY <1>7 DEF TaskLen, TaskNotify, seqVars
  <2>2. \A l \in Tasks : Pushing(l)' <=> Pushing(l)
    BY <1>0, <1>7 DEF TaskLen, TaskNotify, TaskGoto, Pushing
  <2>. QED
    BY <1>1, <1>2, <1>4, <2>1, <2>2, NumberFrame DEF NumberAside
<1>. QED BY <1>5, <1>6, <1>7 DEF Task

(* The reader takes an item off the heap, looks at it, and installs its
   buffer or puts it back. *)
LEMMA NumberPick ==
  ASSUME TypeInv, NumberInv, NEW r \in Readers, pickBufferFromHeap(r)
  PROVE  NumberInv'
<1>. USE ReaderIs
<1>0. /\ sequence \in Nat /\ currentSequence \in Nat /\ heap \subseteq Items
      /\ picked \in [Readers -> Items \cup {Nil}] /\ PcsOK
      /\ \A i \in Items : i \in [seq : Nat, buf : Buffers] /\ i # Nil
  BY PcsAre, DoubleBufferAssumption DEF TypeInv, TypeOK, BackTypeOK, Items
<1>1. /\ UNCHANGED <<tpc, tseq, spawned, sequence>>
      /\ \A q \in Readers \ {r} : InHand(q)' <=> InHand(q)
      /\ \A q \in Readers \ {r} : pc'[q] = pc[q]
      /\ Draining <=> Draining'
  <2>1. BlockingRead(r)
    BY DEF BlockingRead, tryRead
  <2>2. Others(r) /\ UNCHANGED <<sequence, taskVars>>
    BY <2>1, ReadMoves
  <2>3. \A c \in Closers : pc'[c] = pc[c]
    BY <2>2, CloserIs DEF Others
  <2>. QED BY <2>2, <2>3, CloserIs DEF Others, taskVars, InHand, Draining
<1>2. Unspawned' /\ \A k \in Tasks : Pushing(k)' <=> Pushing(k)
  BY <1>1 DEF NumberInv, Unspawned, Pushing
<1>3. ASSUME NEW i \in LeastItems, Goto(r, "k_pick", "k_cmp"),
             heap' = heap \ {i}, picked' = [picked EXCEPT ![r] = i],
             currentSequence' = currentSequence
      PROVE  NumberInv'
  <2>1. /\ i \in heap /\ ~InHand(r) /\ InHand(r)' /\ pc'[r] = "k_cmp"
        /\ picked'[r] = i /\ \A q \in Readers \ {r} : picked'[q] = picked[q]
    BY <1>0, <1>3 DEF LeastItems, Goto, PcsOK, InHand, PickLabels
  <2>2. NumbersApart'
    BY <1>1, <1>2, <1>3, <2>1 DEF NumberInv, NumbersApart
  <2>3. NumbersDue'
    BY <1>1, <1>2, <1>3, <2>1 DEF NumberInv, NumbersDue
  <2>4. \A n : Kept(n) => Kept(n)'
    BY <1>1, <1>2, <1>3, <2>1 DEF Kept
  <2>5. NumbersKept'
    BY <1>1, <1>3, <2>4 DEF NumberInv, NumbersKept
  <2>6. HandsKnown'
    BY <1>0, <1>1, <1>3, <2>1 DEF NumberInv, HandsKnown
  <2>. QED BY <1>2, <2>2, <2>3, <2>5, <2>6 DEF NumberInv
<1>4. CASE PickCompare(r) \/ PickSet(r)
  <2>1. /\ UNCHANGED <<heap, picked, currentSequence>>
        /\ InHand(r) /\ InHand(r)'
        /\ pc'[r] \in {"k_set", "k_inc"} => picked[r].seq = currentSequence
    <3>1. CASE PickCompare(r)
      BY <1>0, <3>1 DEF PickCompare, dbVars, backVars, seqVars, readVars, Goto,
                        PcsOK, InHand, PickLabels
    <3>2. CASE PickSet(r)
      BY <1>0, <3>2 DEF PickSet, readVars, Goto, PcsOK, InHand, PickLabels,
                        NumberInv, HandsKnown
    <3>. QED BY <1>4, <3>1, <3>2
  <2>2. \A q \in Readers : InHand(q)' <=> InHand(q)
    BY <1>1, <2>1
  <2>3. NumbersApart' /\ NumbersDue'
    BY <1>1, <1>2, <2>1, <2>2 DEF NumberInv, NumbersApart, NumbersDue
  <2>4. \A n : Kept(n) <=> Kept(n)'
    BY <1>2, <1>1, <2>1, <2>2 DEF Kept
  <2>5. NumbersKept'
    BY <1>1, <2>1, <2>4 DEF NumberInv, NumbersKept
  <2>6. HandsKnown'
    BY <1>1, <2>1, <2>2 DEF NumberInv, HandsKnown
  <2>. QED BY <1>2, <2>3, <2>5, <2>6 DEF NumberInv
<1>5. CASE PickAdvance(r)
  <2>1. /\ InHand(r) /\ ~InHand(r)' /\ pc[r] = "k_inc" /\ heap' = heap
        /\ picked[r].seq = currentSequence
        /\ currentSequence' = currentSequence + 1
        /\ picked'[r] = Nil /\ \A q \in Readers \ {r} : picked'[q] = picked[q]
    BY <1>0, <1>5 DEF PickAdvance, Goto, PcsOK, InHand, PickLabels, NumberInv,
                      HandsKnown
  <2>2. NumbersApart'
    BY <1>1, <1>2, <2>1 DEF NumberInv, NumbersApart
  <2>3. /\ \A k \in Tasks : Pushing(k) => tseq[k] # currentSequence
        /\ \A i \in heap : i.seq # currentSequence
        /\ \A q \in Readers \ {r} : InHand(q) => picked[q].seq # currentSequence
    BY <2>1 DEF NumberInv, NumbersApart
  <2>4. NumbersDue'
    <3>1. currentSequence \in currentSequence .. sequence
      BY <2>1 DEF NumberInv, NumbersDue
    <3>. QED BY <1>0, <1>1, <1>2, <2>1, <2>3, <3>1 DEF NumberInv, NumbersDue
  <2>5. \A n : Kept(n) /\ n # currentSequence => Kept(n)'
    BY <1>1, <1>2, <2>1 DEF Kept
  <2>6. NumbersKept'
    BY <1>0, <1>1, <2>1, <2>5 DEF NumberInv, NumbersKept
  <2>7. HandsKnown'
    BY <1>1, <2>1, <2>3 DEF NumberInv, HandsKnown, InHand, PickLabels
  <2>. QED BY <1>2, <2>2, <2>4, <2>6, <2>7 DEF NumberInv
<1>6. CASE PickPutBack(r)
  <2>1. /\ InHand(r) /\ ~InHand(r)' /\ currentSequence' = currentSequence
        /\ heap' = heap \cup {picked[r]}
        /\ picked'[r] = Nil /\ \A q \in Readers \ {r} : picked'[q] = picked[q]
    BY <1>0, <1>6 DEF PickPutBack, Goto, PcsOK, InHand, PickLabels
  <2>2. NumbersApart'
    BY <1>1, <1>2, <2>1 DEF NumberInv, NumbersApart
  <2>3. NumbersDue'
    BY <1>1, <1>2, <2>1 DEF NumberInv, NumbersDue
  <2>4. \A n : Kept(n) => Kept(n)'
    BY <1>1, <1>2, <2>1 DEF Kept
  <2>5. NumbersKept'
    BY <1>1, <2>1, <2>4 DEF NumberInv, NumbersKept
  <2>6. HandsKnown'
    BY <1>1, <2>1 DEF NumberInv, HandsKnown, InHand, PickLabels
  <2>. QED BY <1>2, <2>2, <2>3, <2>5, <2>6 DEF NumberInv
<1>7. CASE PickReturn(r) \/ (heap = {} /\ PickItem(r))
  <2>1. UNCHANGED <<heap, picked, currentSequence>> /\ ~InHand(r) /\ ~InHand(r)'
    BY <1>0, <1>7 DEF PickReturn, PickItem, LeastItems, NoData, dbVars, backVars, seqVars,
                      readVars, Goto, PcsOK, InHand, PickLabels
  <2>. QED BY <1>1, <1>2, <2>1, NumberFrame DEF NumberAside
<1>. QED
  BY <1>3, <1>4, <1>5, <1>6, <1>7 DEF pickBufferFromHeap, PickItem

(* The rest of BlockingRead has nothing to do with the numbers. *)
LEMMA NumberRead ==
  ASSUME TypeInv, NumberInv, NEW r \in Readers, BlockingRead(r)
  PROVE  NumberInv'
<1>. USE ReaderIs
<1>1. CASE pickBufferFromHeap(r)
  BY <1>1, NumberPick
<1>2. CASE ~pickBufferFromHeap(r)
  <2>1. UNCHANGED <<heap, picked, currentSequence>>
    BY <1>2
       DEF BlockingRead, tryRead, ReadBegin, ReadCheckNil, ReadCheckLen,
           ReadDrop, ReadTake, ReadReset, ReadForget, ReadPut, ReadMode,
           ReadEnterPop, ReadPop, ReadReturn, ReadRegister, ReadWoken,
           ReadTimeout, ReadLeave, dbVars, backVars, seqVars, readVars
  <2>2. ~InHand(r) /\ ~InHand(r)'
    BY <1>2, PcsAre
       DEF PcsOK, Goto, InHand, PickLabels, NoData, BlockingRead, tryRead, ReadBegin,
           ReadCheckNil, ReadCheckLen, ReadDrop, ReadTake, ReadReset,
           ReadForget, ReadPut, ReadMode, ReadEnterPop, ReadPop, ReadReturn,
           ReadRegister, ReadWoken, ReadTimeout, ReadLeave, Pop, PopCheckCount,
           PopLoadTail, PopClaim, PopRead, PopClear, PopCount, Reset,
           ResetState, ResetCount, ResetCursors
  <2>3. /\ \A t \in Threads \ {r} : pc'[t] = pc[t]
        /\ UNCHANGED <<sequence, tpc, tseq, spawned>>
    BY ReadMoves DEF Others, taskVars
  <2>4. Draining => Draining'
    BY <2>3, CloserIs, DrainingStays
  <2>. QED
    BY <2>1, <2>2, <2>3, <2>4, NumberFrame
       DEF NumberAside, NumberInv, Unspawned, Pushing, InHand
<1>. QED BY <1>1, <1>2

(* Close takes items off the heap only once it is draining. *)
LEMMA NumberClose ==
  ASSUME TypeInv, NumberInv, NEW c \in Closers, Close(c)
  PROVE  NumberInv'
<1>1. /\ UNCHANGED <<sequence, currentSequence, tpc, tseq, spawned, picked>>
      /\ \A r \in Readers : pc'[r] = pc[r]
  BY CloseMoves, ReaderIs, CloserIs DEF Others, taskVars, readVars
<1>2. Draining => Draining'
  BY DrainingStays
<1>3. Unspawned' /\ \A k \in Tasks : Pushing(k)' <=> Pushing(k)
  BY <1>1 DEF NumberInv, Unspawned, Pushing
<1>4. CASE heap' = heap
  BY <1>1, <1>2, <1>3, <1>4, NumberFrame DEF NumberAside
<1>5. CASE heap' # heap
  <2>1. heap' \subseteq heap /\ pc[c] = "c_pick"
    BY <1>5 DEF Close, CloseBegin, CloseStop, ClosePool, CloseWait, DrainCheck,
                DrainItem, Goto, dbVars, backVars, seqVars
  <2>2. Draining'
    BY <1>2, <2>1 DEF Draining
  <2>3. \A r \in Readers : InHand(r)' <=> InHand(r)
    BY <1>1 DEF InHand
  <2>4. NumbersApart' /\ NumbersDue'
    BY <1>1, <1>3, <2>1, <2>3 DEF NumberInv, NumbersApart, NumbersDue
  <2>5. HandsKnown'
    BY <1>1, <2>3 DEF NumberInv, HandsKnown
  <2>. QED BY <1>3, <2>2, <2>4, <2>5 DEF NumberInv, NumbersKept
<1>. QED BY <1>4, <1>5

(* Initially no number has been given out. *)
LEMMA NumberInit == Init => NumberInv
<1>. SUFFICES ASSUME Init PROVE NumberInv
  OBVIOUS
<1>1. \A r \in Readers : ~InHand(r) /\ picked[r] = Nil
  BY ReaderIs, MonitorIs, RecyclerIs DEF Init, InHand, PickLabels
<1>2. \A k \in Tasks : ~Pushing(k) /\ tpc[k] = "none"
  BY DEF Init, Pushing
<1>3. heap = {} /\ sequence = 0 /\ currentSequence = 1
  BY DEF Init
<1>4. NumbersApart /\ NumbersDue /\ NumbersKept
  BY <1>1, <1>2, <1>3 DEF NumbersApart, NumbersDue, NumbersKept
<1>5. HandsKnown
  BY <1>1 DEF HandsKnown, InHand, PickLabels
<1>. QED BY <1>2, <1>4, <1>5 DEF NumberInv, Unspawned

(* Every step keeps the numbers apart. *)
LEMMA NumberNext == TypeInv /\ NumberInv /\ [Next]_vars => NumberInv'
<1>. SUFFICES ASSUME TypeInv, NumberInv, [Next]_vars PROVE NumberInv'
  OBVIOUS
<1>1. CASE Next
  BY <1>1, NumberFront, NumberTask, NumberRead, NumberClose DEF Next, Background
<1>2. CASE UNCHANGED vars
  <2>1. UNCHANGED <<pc, tpc, tseq, spawned, heap, picked, sequence, currentSequence>>
    BY <1>2 DEF vars, threadVars, dbVars, backVars, seqVars, taskVars, readVars
  <2>. QED
    BY <2>1, NumberFrame
       DEF NumberAside, NumberInv, Unspawned, Pushing, InHand, Draining
<1>. QED BY <1>1, <1>2

(***************************************************************************)
(* Until Close drains the heap no sequence number is lost or doubled,      *)
(* however many readers take items off the heap and put them back, and the *)
(* one who installs a buffer still has the number that is due: two readers *)
(* cannot both have it.                                                    *)
(***************************************************************************)
THEOREM SequenceKeptAlways == Spec => []SequenceKept
<1>1. NumberInv => SequenceKept
  BY NumberIs
<1>. QED BY <1>1, NumberInit, NumberNext, TypeCorrect, PTL DEF Spec

-----------------------------------------------------------------------------
(***************************************************************************)
(* The owners of the buffers.  A step moves a buffer from one claim to     *)
(* another, and the old claim is given up in the same step.                *)
(***************************************************************************)
Distinct(C) == \A x, y \in C : x[3] = y[3] => x = y

(* Distinct survives a step that passes a buffer from one claim to another. *)
LEMMA MoveOne ==
  ASSUME NEW C, NEW D, Distinct(C), NEW x \in C, NEW y, x[3] = y[3],
         D \subseteq (C \ {x}) \cup {y}
  PROVE  Distinct(D)
BY DEF Distinct

(* The same for three claims at once, as in Close. *)
LEMMA MoveThree ==
  ASSUME NEW C, NEW D, Distinct(C), NEW x1 \in C, NEW x2 \in C, NEW x3 \in C,
         x1 # x2, x1 # x3, x2 # x3, NEW y1, NEW y2, NEW y3,
         x1[3] = y1[3], x2[3] = y2[3], x3[3] = y3[3],
         D \subseteq (C \ {x1, x2, x3}) \cup {y1, y2, y3}
  PROVE  Distinct(D)
BY DEF Distinct

(* The same for two claims at once, as in the swap. *)
LEMMA MoveTwo ==
  ASSUME NEW C, NEW D, Distinct(C), NEW x1 \in C, NEW x2 \in C, x1 # x2,
         NEW y1, NEW y2, x1[3] = y1[3], x2[3] = y2[3],
         D \subseteq (C \ {x1, x2}) \cup {y1, y2}
  PROVE  Distinct(D)
BY DEF Distinct

(* The claims of different places differ. *)
LEMMA ClaimKinds ==
  /\ \A x \in FrontClaims   : x[1] \in {"active", "passive"}
  /\ \A x \in PoolClaims    : x[1] = "pool"
  /\ \A x \in FreshClaims   : x[1] = "fresh"
  /\ \A x \in SwitchClaims  : x[1] = "switch"
  /\ \A x \in TaskClaims    : x[1] = "task"
  /\ \A x \in HeapClaims    : x[1] = "heap"
  /\ \A x \in HandClaims    : x[1] = "hand"
  /\ \A x \in CurrentClaims : x[1] = "current"
  /\ \A x \in DropClaims    : x[1] = "drop"
BY DEF FrontClaims, PoolClaims, FreshClaims, SwitchClaims, TaskClaims,
       HeapClaims, HandClaims, CurrentClaims, DropClaims

(***************************************************************************)
(* What the reader knows of currentBuffer as long as it is the only one,   *)
(* and what Close knows of the state.                                      *)
(***************************************************************************)
CurrentKnown ==
  \A r \in Readers :
    /\ pc[r] \in {"t_len", "t_drop", "t_take", "t_mode", "t_pop"}
         => current # Nil
    /\ pc[r] \in PopLabels \cup ResetLabels
         => target[r] = current /\ current # Nil

ClosingKnown ==
  /\ \A c \in Closers : Closing(c) => state = "Closed"
  /\ \A c, d \in Closers : Closing(c) /\ Closing(d) => c = d

(* ClosingKnown is inductive. *)
LEMMA ClosingStep ==
  ASSUME TypeInv, SwitchExclusive, ClosingKnown, [Next]_vars
  PROVE  ClosingKnown'
<1>1. ASSUME UNCHANGED state, \A c \in Closers : pc'[c] = pc[c]
      PROVE  ClosingKnown'
  BY <1>1 DEF ClosingKnown, Closing
<1>2. CASE UNCHANGED vars
  BY <1>1, <1>2 DEF vars, threadVars, dbVars, frontVars
<1>3. CASE \/ \E w \in Writers : Write(w)
           \/ Background
           \/ \E k \in Tasks : Task(k)
           \/ \E r \in Readers : BlockingRead(r)
  BY <1>1, <1>3, WriteMoves, BackgroundMoves, TaskMoves, ReadMoves, CloserIs
     DEF Others, threadVars, frontVars
<1>4. ASSUME NEW p \in Switchers, switchChannel(p)
      PROVE  ClosingKnown'
  <2>1. \A c \in Closers : pc'[c] = pc[c]
    BY <1>4, SwitchMoves, CloserIs DEF Others
  <2>2. state = "Closed" => state' = state
    BY <1>4
       DEF SwitchExclusive, Switching, switchChannel, SwitchBegin, SwitchLock,
           SwitchFreeze, SwitchSwap, SwitchZero, SwitchSpawn, SwitchRestore,
           SwitchUnlock, Goto, dbVars, frontVars
  <2>. QED BY <2>1, <2>2 DEF ClosingKnown, Closing
<1>5. ASSUME NEW c \in Closers, Close(c)
      PROVE  ClosingKnown'
  <2>. USE PcsAre, CloserIs DEF PcsOK
  <2>1. \A d \in Closers \ {c} : Closing(d)' <=> Closing(d)
    BY <1>5, CloseMoves DEF Others, Closing
  <2>2. CASE CloseBegin(c)
    <3>1. CASE state = "Writing" /\ state' = "Closed"
      BY <2>1, <3>1 DEF ClosingKnown
    <3>2. CASE state' = state /\ Goto(c, "idle", "c_noop")
      <4>1. ~Closing(c)'
        BY <3>2 DEF Goto, Closing
      <4>. QED BY <2>1, <3>2, <4>1 DEF ClosingKnown
    <3>. QED BY <2>2, <3>1, <3>2 DEF CloseBegin
  <2>3. CASE CloseRest(c)
    <3>1. state' = state /\ Closing(c)
      BY <2>3 DEF CloseRest, CloseStop, ClosePool, CloseWait, DrainCheck,
                  DrainItem, Goto, Closing, dbVars, frontVars
    <3>. QED BY <2>1, <3>1 DEF ClosingKnown
  <2>. QED BY <1>5, <2>2, <2>3 DEF Close, CloseRest
<1>. QED BY <1>2, <1>3, <1>4, <1>5 DEF Next, Background

(* What each actor leaves alone of current. *)
LEMMA CurrentStays ==
  ASSUME TypeInv, CurrentKnown,
         \A r \in Readers : pc'[r] = pc[r] /\ target'[r] = target[r],
         UNCHANGED current
  PROVE  CurrentKnown'
BY DEF CurrentKnown

(* CurrentKnown is inductive for one reader. *)
LEMMA CurrentStep ==
  ASSUME SoleReader, TypeInv, CurrentKnown, [Next]_vars
  PROVE  CurrentKnown'
<1>1. CASE UNCHANGED vars
  BY <1>1, CurrentStays DEF vars, threadVars, dbVars, backVars, seqVars
<1>2. CASE \/ \E w \in Writers : Write(w)
           \/ \E p \in Switchers : switchChannel(p)
           \/ Background
           \/ \E k \in Tasks : Task(k)
           \/ \E c \in Closers : Close(c)
  BY <1>2, CurrentStays, WriteMoves, SwitchMoves, BackgroundMoves, TaskMoves,
     CloseMoves, ReaderIs
     DEF Others, seqVars, threadVars
<1>3. ASSUME NEW r \in Readers, BlockingRead(r)
      PROVE  CurrentKnown'
  <2>. USE PcsAre, ReaderIs DEF PcsOK, Goto
  <2>1. SUFFICES
          /\ pc'[r] \in {"t_len", "t_drop", "t_take", "t_mode", "t_pop"}
               => current' # Nil
          /\ pc'[r] \in PopLabels \cup ResetLabels
               => target'[r] = current' /\ current' # Nil
    BY DEF SoleReader, CurrentKnown
  <2>2. CASE ReadEnter(r)
    BY <2>2
       DEF CurrentKnown, PopLabels, ResetLabels, ReadEnter, ReadBegin,
           ReadCheckNil, ReadCheckLen, ReadDrop, ReadTake, ReadForget, ReadPut,
           dbVars, backVars, seqVars
  <2>3. CASE pickBufferFromHeap(r)
    BY <2>3
       DEF CurrentKnown, PopLabels, ResetLabels, pickBufferFromHeap, PickItem,
           PickCompare, PickSet, PickAdvance, PickPutBack, PickReturn, NoData,
           dbVars, backVars, seqVars
  <2>4. CASE ReadExit(r)
    BY <2>4
       DEF CurrentKnown, PopLabels, ResetLabels, ReadExit, ReadMode,
           ReadEnterPop, ReadReturn, ReadRegister, ReadWoken, ReadTimeout,
           ReadLeave, NoData, dbVars, backVars, seqVars
  <2>5. CASE ReadPop(r) \/ ReadReset(r)
    BY <2>5
       DEF CurrentKnown, PopLabels, ResetLabels, ReadPop, ReadReset, Pop,
           PopCheckCount, PopLoadTail, PopClaim, PopRead, PopClear, PopCount,
           Reset, ResetState, ResetCount, ResetCursors, dbVars, backVars,
           seqVars
  <2>. QED
    BY <1>3, <2>2, <2>3, <2>4, <2>5
       DEF BlockingRead, tryRead, ReadEnter, ReadExit
<1>. QED BY <1>1, <1>2, <1>3 DEF Next, Background

(***************************************************************************)
(* Which claims a step may leave alone, each from what it is made of.      *)
(***************************************************************************)
LEMMA FrontSame ==
  ASSUME UNCHANGED <<active, passive>>, Dissolved' <=> Dissolved
  PROVE  FrontClaims' = FrontClaims
BY DEF FrontClaims

(* Dissolved depends on the closers' program counters only. *)
LEMMA DissolvedSame ==
  ASSUME \A c \in Closers : pc'[c] = pc[c]
  PROVE  Dissolved' <=> Dissolved
BY DEF Dissolved, Closing

(* The claims of pooled and fresh rings depend on pool and allocated only. *)
LEMMA PoolSame ==
  ASSUME UNCHANGED <<pool, allocated>>
  PROVE  PoolClaims' = PoolClaims /\ FreshClaims' = FreshClaims
BY DEF PoolClaims, FreshClaims

(* The claims of a switch depend on the switchers' locals only. *)
LEMMA SwitchSame ==
  ASSUME \A p \in Switchers :
           \/ pc'[p] = pc[p] /\ target'[p] = target[p]
           \/ pc'[p] \notin {"s_zero", "s_spawn"}
           \/ pc[p] = "s_zero" /\ pc'[p] = "s_spawn" /\ target'[p] = target[p]
  PROVE  SwitchClaims' \subseteq SwitchClaims
BY DEF SwitchClaims

(* The claims of the tasks depend on the tasks only. *)
LEMMA TaskSame ==
  ASSUME UNCHANGED tbuf,
         \A k \in Tasks : tpc'[k] \in {"seq", "push"} => tpc[k] \in {"seq", "push"}
  PROVE  TaskClaims' \subseteq TaskClaims
BY DEF TaskClaims

(* The claims of the readers depend on their own state only. *)
LEMMA HandSame ==
  ASSUME \A r \in Readers :
           \/ pc'[r] = pc[r] /\ picked'[r] = picked[r]
           \/ ~InPicking(r)'
           \/ InPicking(r) /\ picked'[r] = picked[r]
  PROVE  HandClaims' \subseteq HandClaims
BY DEF HandClaims, InPicking

(* No reader comes to t_put: no ring is added that is about to be put back. *)
LEMMA DropSame ==
  ASSUME \A r \in Readers :
           \/ pc'[r] = pc[r] /\ target'[r] = target[r]
           \/ pc'[r] # "t_put"
  PROVE  DropClaims' \subseteq DropClaims
BY DEF DropClaims

(* The claims of the heap depend on the heap only. *)
LEMMA HeapSame == ASSUME UNCHANGED heap PROVE HeapClaims' = HeapClaims
BY DEF HeapClaims

(* The claim of currentBuffer depends on it only. *)
LEMMA CurrentSame ==
  ASSUME UNCHANGED current PROVE CurrentClaims' = CurrentClaims
BY DEF CurrentClaims

PoolOnce == \A b \in Buffers : pool[b] <= 1

(* The steps of Write and of the background hand over nothing. *)
LEMMA OwnerAside ==
  ASSUME TypeInv,
         \/ \E w \in Writers : Write(w)
         \/ Background
         \/ UNCHANGED vars
  PROVE  Claims' \subseteq Claims /\ pool' = pool
<1>1. CASE UNCHANGED vars
  <2>1. UNCHANGED <<pc, target, active, passive, pool, allocated, tpc, tbuf,
                    heap, picked, current>>
    BY <1>1 DEF vars, threadVars, dbVars, frontVars, backVars, poolVars,
                seqVars, taskVars, readVars
  <2>. QED
    BY <2>1, FrontSame, DissolvedSame, PoolSame, SwitchSame, TaskSame,
       HandSame, DropSame, HeapSame, CurrentSame DEF Claims
<1>2. CASE (\E w \in Writers : Write(w)) \/ Background
  <2>1. UNCHANGED <<active, passive, pool, allocated, tpc, tbuf, heap, picked,
                    current>>
    BY <1>2, WriteMoves, BackgroundMoves
       DEF frontVars, poolVars, seqVars, taskVars, readVars
  <2>2. \A t \in Readers \cup Closers : pc'[t] = pc[t] /\ target'[t] = target[t]
    BY <1>2, WriteMoves, BackgroundMoves, ReaderIs, CloserIs DEF Others
  <2>3. \A p \in Switchers :
           \/ pc'[p] = pc[p] /\ target'[p] = target[p]
           \/ pc'[p] \notin {"s_zero", "s_spawn"}
    BY <1>2, WriteMoves, BackgroundMoves, SwitcherIs, MonitorIs, RecyclerIs
       DEF Others, Outside, PushLabels
  <2>. QED
    BY <2>1, <2>2, <2>3, FrontSame, DissolvedSame, PoolSame, SwitchSame,
       TaskSame, HandSame, DropSame, HeapSame, CurrentSame DEF Claims
<1>. QED BY <1>1, <1>2

(* A spawned goroutine takes its buffer to the heap. *)
LEMMA OwnerTask ==
  ASSUME TypeInv, Distinct(Claims), NEW k \in Tasks, Task(k)
  PROVE  Distinct(Claims') /\ pool' = pool
<1>0. tpc \in [Tasks -> TaskLabels]
  BY DEF TypeInv, TypeOK, BackTypeOK
<1>1. UNCHANGED <<pc, target, active, passive, pool, allocated, tbuf, picked,
                  current>>
  BY TaskMoves DEF threadVars, frontVars
<1>2. /\ FrontClaims' = FrontClaims /\ PoolClaims' = PoolClaims
      /\ FreshClaims' = FreshClaims /\ SwitchClaims' \subseteq SwitchClaims
      /\ HandClaims' \subseteq HandClaims /\ CurrentClaims' = CurrentClaims
      /\ DropClaims' \subseteq DropClaims
  BY <1>1, FrontSame, DissolvedSame, PoolSame, SwitchSame, HandSame, DropSame,
     CurrentSame
<1>3. CASE TaskPush(k)
  <2>. DEFINE x == <<"task", k, tbuf[k]>>
              y == <<"heap", tseq[k], tbuf[k]>>
  <2>1. /\ tpc[k] = "push" /\ tpc' = [tpc EXCEPT ![k] = "len"]
        /\ heap' = heap \cup {[seq |-> tseq[k], buf |-> tbuf[k]]}
    BY <1>3 DEF TaskPush, TaskGoto
  <2>2. TaskClaims' \subseteq TaskClaims \ {x}
    BY <1>0, <1>1, <2>1 DEF TaskClaims
  <2>3. HeapClaims' \subseteq HeapClaims \cup {y}
    BY <2>1 DEF HeapClaims
  <2>4. x \in Claims /\ x[1] = "task" /\ x[3] = y[3]
    BY <2>1 DEF Claims, TaskClaims
  <2>. HIDE DEF x, y
  <2>5. Claims' \subseteq (Claims \ {x}) \cup {y}
    BY <1>2, <2>2, <2>3, <2>4, ClaimKinds DEF Claims
  <2>. QED BY <1>1, <2>4, <2>5, MoveOne
<1>4. CASE TaskNumber(k) \/ TaskLen(k) \/ TaskNotify(k)
  <2>1. heap' = heap
    BY <1>4 DEF TaskNumber, TaskLen, TaskNotify, seqVars
  <2>2. TaskClaims' \subseteq TaskClaims
    BY <1>0, <1>1, <1>4, TaskSame DEF TaskNumber, TaskLen, TaskNotify, TaskGoto
  <2>3. Claims' \subseteq Claims
    BY <1>2, <2>1, <2>2, HeapSame DEF Claims
  <2>. QED BY <1>1, <2>3 DEF Distinct
<1>. QED BY <1>3, <1>4 DEF Task

(* The switch: the active buffer goes to the switching goroutine, the passive
   one becomes active, a pooled or a fresh one passive. *)
LEMMA OwnerSwap ==
  ASSUME TypeInv, SwitchExclusive, ClosingKnown, Distinct(Claims), PoolOnce,
         NEW p \in Switchers, SwitchSwap(p)
  PROVE  Distinct(Claims') /\ PoolOnce'
<1>0. /\ pool \in [Buffers -> Nat] /\ allocated \in Nat /\ PcsOK
      /\ Buffers \subseteq Nat /\ target \in [Threads -> Buffers \cup {Nil}]
  BY PcsAre, DoubleBufferAssumption DEF TypeInv, TypeOK, BackTypeOK
<1>1. /\ ~Dissolved /\ ~Dissolved'
  <2>1. state = "Switching"
    BY DEF SwitchExclusive, Switching, SwitchSwap, Goto
  <2>2. \A c \in Closers : pc'[c] = pc[c]
    BY SwitchMoves, CloserIs DEF Others, switchChannel
  <2>. QED BY <2>1, <2>2 DEF ClosingKnown, Dissolved, Closing
<1>2. /\ UNCHANGED <<heap, current, picked, tpc, tbuf>>
      /\ \A r \in Readers : pc'[r] = pc[r] /\ target'[r] = target[r]
  BY SwitchMoves, ReaderIs DEF Others, switchChannel, SwitchSwap, taskVars
<1>3. /\ HeapClaims' = HeapClaims /\ CurrentClaims' = CurrentClaims
      /\ TaskClaims' \subseteq TaskClaims /\ HandClaims' \subseteq HandClaims
      /\ DropClaims' \subseteq DropClaims
  BY <1>2, HeapSame, CurrentSame, TaskSame, HandSame, DropSame
<1>4. SwitchClaims' \subseteq SwitchClaims \cup {<<"switch", p, active>>}
  <2>1. target'[p] = active
    BY <1>0, SwitcherIs DEF SwitchSwap
  <2>2. \A q \in Switchers \ {p} : pc'[q] = pc[q] /\ target'[q] = target[q]
    BY SwitchMoves, SwitcherIs DEF Others, switchChannel
  <2>. QED BY <2>1, <2>2 DEF SwitchClaims
<1>5. PICK b \in Buffers : PoolGet(b) /\ passive' = b
  BY DEF SwitchSwap
<1>6. /\ FrontClaims = {<<"active", 0, active>>, <<"passive", 0, passive>>}
      /\ FrontClaims' = {<<"active", 0, passive>>, <<"passive", 0, b>>}
  BY <1>1, <1>5 DEF FrontClaims, SwitchSwap
<1>7. ASSUME NEW z \in Claims, z[3] = b, z[1] \in {"pool", "fresh"}, PoolOnce',
             PoolClaims' \subseteq PoolClaims \ {z},
             FreshClaims' \subseteq FreshClaims \ {z}
      PROVE  Distinct(Claims') /\ PoolOnce'
  <2>. DEFINE x1 == <<"active", 0, active>>   y1 == <<"switch", p, active>>
              x2 == <<"passive", 0, passive>> y2 == <<"active", 0, passive>>
              y3 == <<"passive", 0, b>>
  <2>1. /\ x1[3] = y1[3] /\ x2[3] = y2[3] /\ z[3] = y3[3]
        /\ x1 # x2 /\ x1 # z /\ x2 # z
        /\ x1[1] = "active" /\ x2[1] = "passive"
    BY <1>7
  <2>2. x1 \in Claims /\ x2 \in Claims
    BY <1>6 DEF Claims
  <2>3. /\ SwitchClaims' \subseteq SwitchClaims \cup {y1}
        /\ FrontClaims' = {y2, y3}
    BY <1>4, <1>6
  <2>. HIDE DEF x1, x2, y1, y2, y3
  <2>4. Claims' \subseteq (Claims \ {x1, x2, z}) \cup {y1, y2, y3}
    BY <1>3, <1>7, <2>1, <2>3, ClaimKinds DEF Claims
  <2>. QED BY <1>7, <2>1, <2>2, <2>4, MoveThree
<1>8. CASE pool[b] > 0 /\ pool' = [pool EXCEPT ![b] = @ - 1] /\ UNCHANGED allocated
  <2>1. pool'[b] = 0
    BY <1>0, <1>8 DEF PoolOnce
  <2>2. PoolOnce' /\ \A a \in Buffers \ {b} : pool'[a] = pool[a]
    BY <1>0, <1>8, <2>1 DEF PoolOnce
  <2>3. PoolClaims' \subseteq PoolClaims \ {<<"pool", 0, b>>}
    BY <2>1, <2>2 DEF PoolClaims
  <2>4. <<"pool", 0, b>> \in PoolClaims
    BY <1>8 DEF PoolClaims
  <2>5. FreshClaims' = FreshClaims
    BY <1>8 DEF FreshClaims
  <2>. DEFINE z == <<"pool", 0, b>>
  <2>6. z[1] = "pool" /\ z[3] = b
    OBVIOUS
  <2>7. z \in Claims /\ PoolClaims' \subseteq PoolClaims \ {z}
    BY <2>3, <2>4 DEF Claims
  <2>. HIDE DEF z
  <2>8. FreshClaims' \subseteq FreshClaims \ {z}
    BY <2>5, <2>6, ClaimKinds
  <2>. QED BY <1>7, <2>2, <2>6, <2>7, <2>8
<1>9. CASE b = allocated + 1 /\ allocated' = b /\ UNCHANGED pool
  <2>1. FreshClaims' \subseteq FreshClaims \ {<<"fresh", 0, b>>}
    BY <1>0, <1>9 DEF FreshClaims
  <2>2. <<"fresh", 0, b>> \in FreshClaims
    BY <1>0, <1>9 DEF FreshClaims
  <2>3. PoolClaims' = PoolClaims /\ PoolOnce'
    BY <1>9 DEF PoolClaims, PoolOnce
  <2>. DEFINE z == <<"fresh", 0, b>>
  <2>4. z[1] = "fresh" /\ z[3] = b
    OBVIOUS
  <2>5. z \in Claims /\ FreshClaims' \subseteq FreshClaims \ {z}
    BY <2>1, <2>2 DEF Claims
  <2>. HIDE DEF z
  <2>6. PoolClaims' \subseteq PoolClaims \ {z}
    BY <2>3, <2>4, ClaimKinds
  <2>. QED BY <1>7, <2>3, <2>4, <2>5, <2>6
<1>. QED BY <1>5, <1>8, <1>9 DEF PoolGet

(* The other steps of switchChannel; SwitchSpawn gives the buffer to the
   goroutine it spawns. *)
LEMMA OwnerSwitch ==
  ASSUME TypeInv, SwitchExclusive, ClosingKnown, Distinct(Claims), PoolOnce,
         NEW p \in Switchers, switchChannel(p)
  PROVE  Distinct(Claims') /\ PoolOnce'
<1>1. CASE SwitchSwap(p)
  BY <1>1, OwnerSwap
<1>. SUFFICES ASSUME ~SwitchSwap(p)
              PROVE  Distinct(Claims') /\ PoolOnce'
  BY <1>1
<1>2. /\ UNCHANGED <<active, passive, pool, allocated, heap, current, picked>>
      /\ \A t \in Readers \cup Closers : pc'[t] = pc[t] /\ target'[t] = target[t]
  <2>1. UNCHANGED <<active, passive, pool, allocated>>
    BY DEF switchChannel, SwitchBegin, SwitchLock, SwitchFreeze, SwitchZero,
           SwitchSpawn, SwitchRestore, SwitchUnlock, dbVars, frontVars,
           backVars, poolVars
  <2>. QED BY <2>1, SwitchMoves, ReaderIs, CloserIs DEF Others
<1>3. /\ FrontClaims' = FrontClaims /\ PoolClaims' = PoolClaims
      /\ FreshClaims' = FreshClaims /\ HeapClaims' = HeapClaims
      /\ HandClaims' \subseteq HandClaims /\ CurrentClaims' = CurrentClaims
      /\ DropClaims' \subseteq DropClaims /\ PoolOnce'
  BY <1>2, FrontSame, DissolvedSame, PoolSame, HandSame, DropSame, HeapSame,
     CurrentSame DEF PoolOnce
<1>4. \A q \in Switchers \ {p} : pc'[q] = pc[q] /\ target'[q] = target[q]
  BY SwitchMoves, SwitcherIs DEF Others
<1>5. PcsOK /\ tpc \in [Tasks -> TaskLabels] /\ tbuf \in [Tasks -> Buffers \cup {Nil}]
  BY PcsAre DEF TypeInv, TypeOK, BackTypeOK
<1>6. CASE SwitchSpawn(p)
  <2>. DEFINE x == <<"switch", p, target[p]>>
              y == <<"task", spawned + 1, target[p]>>
  <2>1. /\ pc[p] = "s_spawn" /\ pc'[p] = "s_restore"
        /\ tpc' = [tpc EXCEPT ![spawned + 1] = "seq"]
        /\ tbuf' = [tbuf EXCEPT ![spawned + 1] = target[p]]
    BY <1>5, <1>6, SwitcherIs DEF SwitchSpawn, Goto, PcsOK
  <2>2. SwitchClaims' \subseteq SwitchClaims \ {x}
    BY <1>4, <2>1 DEF SwitchClaims
  <2>3. TaskClaims' \subseteq TaskClaims \cup {y}
    BY <1>5, <2>1 DEF TaskClaims
  <2>4. x \in Claims /\ x[1] = "switch" /\ x[3] = y[3]
    BY <2>1 DEF Claims, SwitchClaims
  <2>. HIDE DEF x, y
  <2>5. Claims' \subseteq (Claims \ {x}) \cup {y}
    BY <1>3, <2>2, <2>3, <2>4, ClaimKinds DEF Claims
  <2>. QED BY <1>3, <2>4, <2>5, MoveOne
<1>7. CASE ~SwitchSpawn(p)
  <2>1. UNCHANGED <<tpc, tbuf>>
    BY <1>7 DEF switchChannel, SwitchBegin, SwitchLock, SwitchFreeze,
                SwitchZero, SwitchRestore, SwitchUnlock, dbVars, backVars,
                taskVars
  <2>2. SwitchClaims' \subseteq SwitchClaims
    <3>1. \/ pc'[p] \notin {"s_zero", "s_spawn"}
          \/ pc[p] = "s_zero" /\ pc'[p] = "s_spawn" /\ target'[p] = target[p]
      BY <1>5, <1>7, SwitcherIs
         DEF switchChannel, SwitchBegin, SwitchLock, SwitchFreeze, SwitchZero,
             SwitchRestore, SwitchUnlock, Goto, PcsOK, localVars
    <3>. QED BY <1>4, <3>1, SwitchSame
  <2>3. Claims' \subseteq Claims
    BY <1>3, <2>1, <2>2, TaskSame DEF Claims
  <2>. QED BY <1>3, <2>3 DEF Distinct
<1>. QED BY <1>6, <1>7

(* What a step of the only reader leaves alone of the claims. *)
LEMMA ReadClaims ==
  ASSUME TypeInv, NEW r \in Readers, BlockingRead(r)
  PROVE  /\ FrontClaims' = FrontClaims /\ FreshClaims' = FreshClaims
         /\ SwitchClaims' \subseteq SwitchClaims
         /\ TaskClaims' \subseteq TaskClaims
         /\ pool' = pool => PoolClaims' = PoolClaims
<1>1. UNCHANGED <<active, passive, allocated, tpc, tbuf>>
  BY ReadMoves DEF frontVars, taskVars
<1>2. /\ \A t \in Switchers \cup Closers : pc'[t] = pc[t] /\ target'[t] = target[t]
  BY ReadMoves, ReaderIs, CloserIs, SwitcherIs DEF Others
<1>3. FreshClaims' = FreshClaims
  BY <1>1 DEF FreshClaims
<1>. QED BY <1>1, <1>2, <1>3, FrontSame, DissolvedSame, SwitchSame, TaskSame,
            PoolSame

(* The reader takes an item off the heap into its hand, and makes its buffer
   the current one or puts it back. *)
LEMMA OwnerPick ==
  ASSUME SoleReader, TypeInv, Distinct(Claims), NEW r \in Readers,
         pickBufferFromHeap(r)
  PROVE  Distinct(Claims') /\ pool' = pool
<1>. USE ReaderIs
<1>0. /\ PcsOK /\ heap \subseteq [seq : Nat, buf : Buffers]
      /\ picked \in [Readers -> Items \cup {Nil}] /\ \A q \in Readers : q = r
  BY PcsAre DEF TypeInv, TypeOK, BackTypeOK, Items, SoleReader
<1>1. BlockingRead(r)
  BY DEF BlockingRead, tryRead
<1>2. UNCHANGED pool
  BY DEF pickBufferFromHeap, PickItem, PickCompare, PickSet, PickAdvance,
         PickPutBack, PickReturn, dbVars, backVars, poolVars
<1>3. /\ FrontClaims' = FrontClaims /\ PoolClaims' = PoolClaims
      /\ FreshClaims' = FreshClaims /\ SwitchClaims' \subseteq SwitchClaims
      /\ TaskClaims' \subseteq TaskClaims
  BY <1>1, <1>2, ReadClaims
<1>4. DropClaims' \subseteq DropClaims
  <2>1. pc'[r] # "t_put"
    BY <1>0 DEF pickBufferFromHeap, PickItem, PickCompare, PickSet,
                PickAdvance, PickPutBack, PickReturn, Goto, PcsOK, NoData
  <2>. QED BY <1>0, <2>1, DropSame
<1>5. ASSUME NEW i \in LeastItems, Goto(r, "k_pick", "k_cmp"),
             heap' = heap \ {i}, picked' = [picked EXCEPT ![r] = i],
             current' = current
      PROVE  Distinct(Claims')
  <2>. DEFINE x == <<"heap", i.seq, i.buf>>
              y == <<"hand", r, i.buf>>
  <2>1. i \in heap /\ picked'[r] = i
    BY <1>0, <1>5 DEF LeastItems
  <2>2. x \in Claims /\ x[1] = "heap" /\ x[3] = y[3]
    BY <2>1 DEF Claims, HeapClaims
  <2>3. \A j \in heap : j.seq = i.seq /\ j.buf = i.buf => j = i
    BY <1>0, <2>1
  <2>4. HeapClaims' \subseteq HeapClaims \ {x}
    BY <1>5, <2>3 DEF HeapClaims
  <2>5. HandClaims' \subseteq HandClaims \cup {y}
    BY <1>0, <2>1 DEF HandClaims
  <2>6. CurrentClaims' = CurrentClaims
    BY <1>5, CurrentSame
  <2>. HIDE DEF x, y
  <2>7. Claims' \subseteq (Claims \ {x}) \cup {y}
    BY <1>3, <1>4, <2>2, <2>4, <2>5, <2>6, ClaimKinds DEF Claims
  <2>. QED BY <2>2, <2>7, MoveOne
<1>6. CASE PickSet(r)
  <2>. DEFINE x == <<"hand", r, picked[r].buf>>
              y == <<"current", 0, picked[r].buf>>
  <2>1. /\ pc[r] = "k_set" /\ pc'[r] = "k_inc" /\ heap' = heap
        /\ current' = picked[r].buf
    BY <1>0, <1>6 DEF PickSet, Goto, PcsOK
  <2>2. x \in Claims /\ x[1] = "hand" /\ x[3] = y[3]
    BY <2>1 DEF Claims, HandClaims, InPicking
  <2>3. HandClaims' = {}
    BY <1>0, <2>1 DEF HandClaims, InPicking
  <2>4. CurrentClaims' \subseteq {y}
    BY <2>1 DEF CurrentClaims
  <2>5. HeapClaims' = HeapClaims
    BY <2>1, HeapSame
  <2>. HIDE DEF x, y
  <2>6. Claims' \subseteq (Claims \ {x}) \cup {y}
    BY <1>3, <1>4, <2>2, <2>3, <2>4, <2>5, ClaimKinds DEF Claims
  <2>. QED BY <1>2, <2>2, <2>6, MoveOne
<1>7. CASE PickPutBack(r)
  <2>. DEFINE x == <<"hand", r, picked[r].buf>>
              y == <<"heap", picked[r].seq, picked[r].buf>>
  <2>1. /\ pc[r] = "k_back" /\ pc'[r] \in {"k_pick", "k_ret"}
        /\ heap' = heap \cup {picked[r]} /\ current' = current
    BY <1>0, <1>7 DEF PickPutBack, Goto, PcsOK
  <2>2. x \in Claims /\ x[1] = "hand" /\ x[3] = y[3]
    BY <2>1 DEF Claims, HandClaims, InPicking
  <2>3. HandClaims' = {}
    BY <1>0, <2>1 DEF HandClaims, InPicking
  <2>4. HeapClaims' \subseteq HeapClaims \cup {y}
    BY <2>1 DEF HeapClaims
  <2>5. CurrentClaims' = CurrentClaims
    BY <2>1, CurrentSame
  <2>. HIDE DEF x, y
  <2>6. Claims' \subseteq (Claims \ {x}) \cup {y}
    BY <1>3, <1>4, <2>2, <2>3, <2>4, <2>5, ClaimKinds DEF Claims
  <2>. QED BY <1>2, <2>2, <2>6, MoveOne
<1>8. CASE \/ PickCompare(r) \/ PickAdvance(r) \/ PickReturn(r)
           \/ heap = {} /\ PickItem(r)
  <2>1. /\ UNCHANGED <<heap, current>>
        /\ ~InPicking(r)' \/ (InPicking(r) /\ picked'[r] = picked[r])
    BY <1>0, <1>8 DEF PickCompare, PickAdvance, PickReturn, PickItem,
       LeastItems, NoData, dbVars, backVars, seqVars, readVars, Goto, PcsOK,
       InPicking
  <2>2. HandClaims' \subseteq HandClaims
    BY <1>0, <2>1, HandSame
  <2>3. Claims' \subseteq Claims
    BY <1>3, <1>4, <2>1, <2>2, HeapSame, CurrentSame DEF Claims
  <2>. QED BY <1>2, <2>3 DEF Distinct
<1>. QED
  BY <1>2, <1>5, <1>6, <1>7, <1>8 DEF pickBufferFromHeap, PickItem

(* The rest of tryRead: the buffer that has run empty leaves currentBuffer
   and goes to the pool. *)
LEMMA OwnerRead ==
  ASSUME SoleReader, TypeInv, CurrentKnown, Distinct(Claims), PoolOnce,
         NEW r \in Readers, BlockingRead(r)
  PROVE  Distinct(Claims') /\ PoolOnce'
<1>. USE ReaderIs
<1>0. /\ PcsOK /\ target \in [Threads -> Buffers \cup {Nil}]
      /\ pool \in [Buffers -> Nat] /\ Nil \notin Buffers
      /\ \A q \in Readers : q = r
  BY PcsAre, RingAssumption DEF TypeInv, TypeOK, BackTypeOK, SoleReader
<1>1. /\ FrontClaims' = FrontClaims /\ FreshClaims' = FreshClaims
      /\ SwitchClaims' \subseteq SwitchClaims /\ TaskClaims' \subseteq TaskClaims
      /\ pool' = pool => PoolClaims' = PoolClaims
  BY ReadClaims
<1>2. CASE pickBufferFromHeap(r)
  BY <1>2, OwnerPick DEF PoolOnce
<1>3. CASE ~pickBufferFromHeap(r)
  <2>1. UNCHANGED <<heap, picked>> /\ ~InPicking(r) /\ ~InPicking(r)'
    <3>1. UNCHANGED <<heap, picked>>
      BY <1>3
         DEF BlockingRead, tryRead, ReadBegin, ReadCheckNil, ReadCheckLen,
             ReadDrop, ReadTake, ReadReset, ReadForget, ReadPut, ReadMode,
             ReadEnterPop, ReadPop, ReadReturn, ReadRegister, ReadWoken,
             ReadTimeout, ReadLeave, dbVars, backVars, seqVars, readVars
    <3>2. ~InPicking(r) /\ ~InPicking(r)'
      BY <1>0, <1>3
         DEF PcsOK, Goto, InPicking, NoData, BlockingRead, tryRead, ReadBegin,
             ReadCheckNil, ReadCheckLen, ReadDrop, ReadTake, ReadReset,
             ReadForget, ReadPut, ReadMode, ReadEnterPop, ReadPop, ReadReturn,
             ReadRegister, ReadWoken, ReadTimeout, ReadLeave, Pop,
             PopCheckCount, PopLoadTail, PopClaim, PopRead, PopClear, PopCount,
             Reset, ResetState, ResetCount, ResetCursors
    <3>. QED BY <3>1, <3>2
  <2>2. HeapClaims' = HeapClaims /\ HandClaims' \subseteq HandClaims
    BY <1>0, <2>1, HeapSame, HandSame
  <2>3. CASE ReadForget(r)
    <3>. DEFINE x == <<"current", 0, current>>
                y == <<"drop", r, target[r]>>
    <3>1. /\ pc[r] = "z_done" /\ pc'[r] = "t_put" /\ target' = target
          /\ current' = Nil /\ pool' = pool
      BY <1>0, <2>3 DEF ReadForget, Goto, PcsOK, localVars, poolVars
    <3>2. current = target[r] /\ current \in Buffers
      BY <1>0, <3>1 DEF CurrentKnown, ResetLabels
    <3>3. x \in Claims /\ x[1] = "current" /\ x[3] = y[3]
      BY <3>2 DEF Claims, CurrentClaims
    <3>4. CurrentClaims' = {}
      BY <1>0, <3>1 DEF CurrentClaims
    <3>5. DropClaims' \subseteq {y}
      BY <1>0, <3>1 DEF DropClaims
    <3>. HIDE DEF x, y
    <3>6. Claims' \subseteq (Claims \ {x}) \cup {y}
      BY <1>1, <2>2, <3>1, <3>3, <3>4, <3>5, ClaimKinds DEF Claims
    <3>. QED BY <3>1, <3>3, <3>6, MoveOne DEF PoolOnce
  <2>4. CASE ReadPut(r)
    <3>. DEFINE b == target[r]
                x == <<"drop", r, b>>
                y == <<"pool", 0, b>>
    <3>1. /\ pc[r] = "t_put" /\ pc'[r] = "k_pick" /\ current' = current
          /\ pool' = [pool EXCEPT ![b] = @ + 1]
      BY <1>0, <2>4 DEF ReadPut, Goto, PcsOK, seqVars
    <3>2. b \in Buffers
      BY <3>1 DEF TypeInv, HandsFull, TargetsFull, Holding
    <3>3. x \in Claims /\ x[1] = "drop" /\ x[3] = y[3] /\ y[1] = "pool"
      BY <3>1 DEF Claims, DropClaims
    <3>4. pool[b] = 0
      <4>1. SUFFICES ASSUME pool[b] > 0 PROVE FALSE
        BY <1>0, <3>2
      <4>2. y \in Claims
        BY <3>2, <4>1 DEF Claims, PoolClaims
      <4>. HIDE DEF x, y
      <4>. QED BY <3>3, <4>2 DEF Distinct
    <3>5. DropClaims' = {}
      BY <1>0, <3>1 DEF DropClaims
    <3>6. PoolOnce' /\ \A a \in Buffers \ {b} : pool'[a] = pool[a]
      BY <1>0, <3>1, <3>2, <3>4 DEF PoolOnce
    <3>7. PoolClaims' \subseteq PoolClaims \cup {y}
      BY <3>6 DEF PoolClaims
    <3>8. CurrentClaims' = CurrentClaims
      BY <3>1, CurrentSame
    <3>. HIDE DEF x, y, b
    <3>9. Claims' \subseteq (Claims \ {x}) \cup {y}
      BY <1>1, <2>2, <3>3, <3>5, <3>7, <3>8, ClaimKinds DEF Claims
    <3>. QED BY <3>3, <3>6, <3>9, MoveOne
  <2>5. CASE ~ReadForget(r) /\ ~ReadPut(r)
    <3>1. UNCHANGED <<pool, current>>
      BY <1>3, <2>5
         DEF BlockingRead, tryRead, ReadBegin, ReadCheckNil, ReadCheckLen,
             ReadDrop, ReadTake, ReadReset, ReadMode, ReadEnterPop, ReadPop,
             ReadReturn, ReadRegister, ReadWoken, ReadTimeout, ReadLeave,
             dbVars, backVars, seqVars, poolVars
    <3>2. pc'[r] # "t_put"
      BY <1>0, <1>3, <2>5
         DEF PcsOK, Goto, NoData, BlockingRead, tryRead, ReadBegin,
             ReadCheckNil, ReadCheckLen, ReadDrop, ReadTake, ReadReset,
             ReadMode, ReadEnterPop, ReadPop, ReadReturn, ReadRegister,
             ReadWoken, ReadTimeout, ReadLeave, Pop, PopCheckCount,
             PopLoadTail, PopClaim, PopRead, PopClear, PopCount, Reset,
             ResetState, ResetCount, ResetCursors
    <3>3. DropClaims' \subseteq DropClaims
      BY <1>0, <3>2, DropSame
    <3>4. Claims' \subseteq Claims
      BY <1>1, <2>2, <3>1, <3>3, CurrentSame DEF Claims
    <3>. QED BY <3>1, <3>4 DEF Distinct, PoolOnce
  <2>. QED BY <2>3, <2>4, <2>5
<1>. QED BY <1>2, <1>3

(* Close gives both front buffers to the pool, and then what it drains. *)
LEMMA OwnerClose ==
  ASSUME TypeInv, ClosingKnown, Distinct(Claims), PoolOnce,
         NEW c \in Closers, Close(c)
  PROVE  Distinct(Claims') /\ PoolOnce'
<1>. USE CloserIs
<1>0. /\ PcsOK /\ pool \in [Buffers -> Nat]
      /\ heap \subseteq [seq : Nat, buf : Buffers]
      /\ active \in Buffers /\ passive \in Buffers
  BY PcsAre DEF TypeInv, TypeOK, FrontTypeOK, BackTypeOK, Items
<1>1. /\ UNCHANGED <<active, passive, allocated, current, picked, tpc, tbuf>>
      /\ \A t \in Readers \cup Switchers : pc'[t] = pc[t] /\ target'[t] = target[t]
      /\ \A d \in Closers \ {c} : pc'[d] = pc[d]
  BY CloseMoves, ReaderIs, SwitcherIs DEF Others, taskVars, readVars
<1>2. /\ FreshClaims' = FreshClaims /\ SwitchClaims' \subseteq SwitchClaims
      /\ TaskClaims' \subseteq TaskClaims /\ HandClaims' \subseteq HandClaims
      /\ CurrentClaims' = CurrentClaims /\ DropClaims' \subseteq DropClaims
  <2>1. FreshClaims' = FreshClaims
    BY <1>1 DEF FreshClaims
  <2>. QED BY <1>1, <2>1, SwitchSame, TaskSame, HandSame, CurrentSame, DropSame
<1>3. CASE ClosePool(c)
  <2>. DEFINE x1 == <<"active", 0, active>>   y1 == <<"pool", 0, active>>
              x2 == <<"passive", 0, passive>> y2 == <<"pool", 0, passive>>
  <2>1. /\ pc[c] = "c_pool" /\ pc'[c] = "c_wait" /\ heap' = heap
        /\ pool' = [pool EXCEPT ![active] = @ + 1, ![passive] = @ + 1]
    BY <1>0, <1>3 DEF ClosePool, Goto, PcsOK, seqVars
  <2>2. ~Dissolved /\ Dissolved'
    <3>1. \A d \in Closers : Closing(d) => d = c
      BY <2>1 DEF ClosingKnown, Closing
    <3>. QED BY <2>1, <3>1 DEF Dissolved, Closing
  <2>3. FrontClaims = {x1, x2} /\ FrontClaims' = {}
    BY <2>2 DEF FrontClaims
  <2>4. /\ x1 \in Claims /\ x2 \in Claims /\ x1 # x2
        /\ x1[1] = "active" /\ x2[1] = "passive"
        /\ x1[3] = y1[3] /\ x2[3] = y2[3] /\ y1[1] = "pool" /\ y2[1] = "pool"
        /\ x1[3] = active /\ x2[3] = passive
    BY <2>3 DEF Claims
  <2>5. active # passive /\ pool[active] = 0 /\ pool[passive] = 0
    <3>1. pool[active] > 0 => y1 \in Claims
      BY <1>0 DEF Claims, PoolClaims
    <3>2. pool[passive] > 0 => y2 \in Claims
      BY <1>0 DEF Claims, PoolClaims
    <3>. HIDE DEF x1, x2, y1, y2
    <3>3. active # passive
      BY <2>4 DEF Distinct
    <3>4. y1 \notin Claims /\ y2 \notin Claims
      BY <2>4 DEF Distinct
    <3>. QED BY <1>0, <3>1, <3>2, <3>3, <3>4
  <2>6. PoolOnce' /\ \A a \in Buffers \ {active, passive} : pool'[a] = pool[a]
    BY <1>0, <2>1, <2>5 DEF PoolOnce
  <2>7. PoolClaims' \subseteq PoolClaims \cup {y1, y2}
    BY <2>6 DEF PoolClaims
  <2>8. HeapClaims' = HeapClaims
    BY <2>1, HeapSame
  <2>. HIDE DEF x1, x2, y1, y2
  <2>9. Claims' \subseteq (Claims \ {x1, x2}) \cup {y1, y2}
    BY <1>2, <2>3, <2>4, <2>7, <2>8, ClaimKinds DEF Claims
  <2>. QED BY <2>4, <2>6, <2>9, MoveTwo
<1>4. CASE ~ClosePool(c)
  <2>1. FrontClaims' = FrontClaims
    <3>1. /\ Closing(c)' /\ pc'[c] \notin {"c_stop", "c_pool"}
            <=> Closing(c) /\ pc[c] \notin {"c_stop", "c_pool"}
      BY <1>0, <1>4 DEF Close, CloseBegin, CloseStop, CloseWait, DrainCheck,
                        DrainItem, Goto, PcsOK, Closing
    <3>2. Dissolved' <=> Dissolved
      BY <1>1, <3>1 DEF Dissolved, Closing
    <3>. QED BY <1>1, <3>2, FrontSame
  <2>2. ASSUME NEW i \in LeastItems, heap' = heap \ {i},
               pool' = [pool EXCEPT ![i.buf] = @ + 1]
        PROVE  Distinct(Claims') /\ PoolOnce'
    <3>. DEFINE b == i.buf
                x == <<"heap", i.seq, b>>
                y == <<"pool", 0, b>>
    <3>1. i \in heap /\ b \in Buffers
      BY <1>0 DEF LeastItems
    <3>2. x \in Claims /\ x[1] = "heap" /\ x[3] = y[3] /\ y[1] = "pool"
      BY <3>1 DEF Claims, HeapClaims
    <3>3. \A j \in heap : j.seq = i.seq /\ j.buf = i.buf => j = i
      BY <1>0, <3>1
    <3>4. HeapClaims' \subseteq HeapClaims \ {x}
      BY <2>2, <3>3 DEF HeapClaims
    <3>5. pool[b] = 0
      <4>1. SUFFICES ASSUME pool[b] > 0 PROVE FALSE
        BY <1>0, <3>1
      <4>2. y \in Claims
        BY <3>1, <4>1 DEF Claims, PoolClaims
      <4>. HIDE DEF x, y
      <4>. QED BY <3>2, <4>2 DEF Distinct
    <3>6. PoolOnce' /\ \A a \in Buffers \ {b} : pool'[a] = pool[a]
      BY <1>0, <2>2, <3>1, <3>5 DEF PoolOnce
    <3>7. PoolClaims' \subseteq PoolClaims \cup {y}
      BY <3>6 DEF PoolClaims
    <3>. HIDE DEF x, y, b
    <3>8. Claims' \subseteq (Claims \ {x}) \cup {y}
      BY <1>2, <2>1, <3>2, <3>4, <3>7, ClaimKinds DEF Claims
    <3>. QED BY <3>2, <3>6, <3>8, MoveOne
  <2>3. CASE UNCHANGED <<heap, pool>>
    <3>1. PoolClaims' = PoolClaims /\ PoolOnce'
      BY <2>3 DEF PoolClaims, PoolOnce
    <3>2. Claims' \subseteq Claims
      BY <1>2, <2>1, <2>3, <3>1, HeapSame DEF Claims
    <3>. QED BY <3>1, <3>2 DEF Distinct
  <2>. QED
    BY <1>4, <2>2, <2>3
       DEF Close, CloseBegin, CloseStop, CloseWait, DrainCheck, DrainItem,
           dbVars, backVars, poolVars, seqVars
<1>. QED BY <1>3, <1>4

(* The whole inductive invariant of the owners, for one reader. *)
OwnerInv == Distinct(Claims) /\ PoolOnce /\ CurrentKnown /\ ClosingKnown

(* Initially the two rings of the buffer are distinct and the pool is empty. *)
LEMMA OwnerInit == Init => OwnerInv
<1>. SUFFICES ASSUME Init PROVE OwnerInv
  OBVIOUS
<1>1. \A t \in Threads : pc[t] \in {"idle", "m_tick", "y_tick"}
  BY DEF Init
<1>2. CurrentKnown /\ ClosingKnown /\ ~Dissolved
  BY <1>1, ReaderIs, CloserIs
     DEF CurrentKnown, ClosingKnown, Dissolved, Closing, PopLabels, ResetLabels
<1>3. /\ SwitchClaims = {} /\ HandClaims = {} /\ DropClaims = {}
  BY <1>1, ReaderIs, SwitcherIs DEF SwitchClaims, HandClaims, InPicking,
                                    DropClaims
<1>4. TaskClaims = {} /\ HeapClaims = {} /\ PoolClaims = {}
  BY DEF Init, TaskClaims, HeapClaims, PoolClaims
<1>5. CurrentClaims = {}
  BY RingAssumption DEF Init, CurrentClaims
<1>6. /\ FrontClaims = {<<"active", 0, 1>>, <<"passive", 0, 2>>}
  BY <1>2 DEF Init, FrontClaims
<1>7. \A x \in FreshClaims : \E b \in Nat : b > 2 /\ x = <<"fresh", 0, b>>
  BY DoubleBufferAssumption DEF Init, FreshClaims
<1>8. Distinct(FrontClaims \cup FreshClaims)
  <2>1. ASSUME NEW x \in FrontClaims \cup FreshClaims,
               NEW y \in FrontClaims \cup FreshClaims, x[3] = y[3]
        PROVE  x = y
    <3>1. CASE x \in FrontClaims /\ y \in FrontClaims
      BY <1>6, <2>1, <3>1
    <3>2. CASE x \in FreshClaims /\ y \in FreshClaims
      BY <1>7, <2>1, <3>2
    <3>3. \A u \in FrontClaims, v \in FreshClaims : u[3] # v[3]
      BY <1>6, <1>7
    <3>. QED BY <2>1, <3>1, <3>2, <3>3
  <2>. QED BY <2>1 DEF Distinct
<1>9. Claims = FrontClaims \cup FreshClaims
  BY <1>3, <1>4, <1>5 DEF Claims
<1>10. PoolOnce
  BY DEF Init, PoolOnce
<1>. QED BY <1>2, <1>8, <1>9, <1>10 DEF OwnerInv

(* Every step keeps the owners apart, with one reader. *)
LEMMA OwnerNext ==
  ASSUME SoleReader, TypeInv, SwitchExclusive, OwnerInv, [Next]_vars
  PROVE  OwnerInv'
<1>1. CurrentKnown' /\ ClosingKnown'
  BY CurrentStep, ClosingStep DEF OwnerInv
<1>2. CASE (\E w \in Writers : Write(w)) \/ Background \/ UNCHANGED vars
  BY <1>1, <1>2, OwnerAside DEF OwnerInv, Distinct, PoolOnce
<1>3. CASE \E p \in Switchers : switchChannel(p)
  BY <1>1, <1>3, OwnerSwitch DEF OwnerInv
<1>4. CASE \E k \in Tasks : Task(k)
  BY <1>1, <1>4, OwnerTask DEF OwnerInv, PoolOnce
<1>5. CASE \E r \in Readers : BlockingRead(r)
  BY <1>1, <1>5, OwnerRead DEF OwnerInv
<1>6. CASE \E c \in Closers : Close(c)
  BY <1>1, <1>6, OwnerClose DEF OwnerInv
<1>. QED BY <1>2, <1>3, <1>4, <1>5, <1>6 DEF Next, Background

(* The owners are apart in every reachable state, with one reader. *)
LEMMA OwnerAlways ==
  ASSUME SoleReader
  PROVE  Spec => []OwnerInv
<1>1. TypeInv /\ SwitchExclusive /\ OwnerInv /\ [Next]_vars => OwnerInv'
  BY OwnerNext
<1>. QED
  BY <1>1, OwnerInit, TypeCorrect, SwitchExclusiveAlways, PTL DEF Spec

(***************************************************************************)
(* A buffer has one owner, whatever the order in which writers, monitor,   *)
(* spawned goroutines, the reader and Close pass buffers on: no buffer is  *)
(* ever in two places, and none lies in the pool twice.  One reader.       *)
(***************************************************************************)
THEOREM SingleOwnerAlways ==
  ASSUME SoleReader
  PROVE  Spec => []SingleOwner
<1>1. OwnerInv => SingleOwner
  BY DEF OwnerInv, Distinct, PoolOnce, SingleOwner
<1>. QED BY <1>1, OwnerAlways, PTL

(***************************************************************************)
(* No path through tryRead leaves currentBuffer nil where the reader       *)
(* follows it: only a read mode that was never registered makes it panic.  *)
(* One reader.                                                             *)
(***************************************************************************)
THEOREM NoNilBufferAlways ==
  ASSUME SoleReader
  PROVE  Spec => NoNilBuffer
<1>. DEFINE Guarded == \A r \in Readers :
                         pc[r] # "panic" /\ pc'[r] = "panic"
                           => pc[r] = "t_mode" /\ ~readMode
<1>1. ASSUME TypeInv, OwnerInv, [Next]_vars
      PROVE  [Guarded]_vars
  <2>1. CASE UNCHANGED vars
    BY <2>1
  <2>2. CASE \/ \E w \in Writers : Write(w)
             \/ \E p \in Switchers : switchChannel(p)
             \/ Background
             \/ \E k \in Tasks : Task(k)
             \/ \E c \in Closers : Close(c)
    <3>1. \A r \in Readers : pc'[r] = pc[r]
      BY <1>1, <2>2, WriteMoves, SwitchMoves, BackgroundMoves, TaskMoves,
         CloseMoves, ReaderIs DEF Others, threadVars
    <3>. QED BY <3>1
  <2>3. ASSUME NEW r \in Readers, BlockingRead(r)
        PROVE  Guarded
    <3>. USE <1>1, <2>3, PcsAre, ReaderIs DEF PcsOK, Goto
    <3>1. \A q \in Readers \ {r} : pc'[q] = pc[q]
      BY ReadMoves DEF Others
    <3>2. CASE ReadEnter(r)
      <4>1. pc'[r] # "panic"
        BY <3>2 DEF OwnerInv, CurrentKnown, ReadEnter, ReadBegin, ReadCheckNil,
                    ReadCheckLen, ReadDrop, ReadTake, ReadForget, ReadPut
      <4>. QED BY <3>1, <4>1
    <3>3. CASE pickBufferFromHeap(r)
      <4>1. pc'[r] # "panic"
        BY <3>3 DEF pickBufferFromHeap, PickItem, PickCompare, PickSet,
                    PickAdvance, PickPutBack, PickReturn, NoData
      <4>. QED BY <3>1, <4>1
    <3>4. CASE ReadMode(r)
      BY <3>1, <3>4, Zenon DEF ReadMode
    <3>5. CASE ReadExit(r) /\ ~ReadMode(r)
      <4>1. pc'[r] # "panic"
        BY <3>5 DEF OwnerInv, CurrentKnown, ReadExit, ReadEnterPop, ReadReturn,
                    ReadRegister, ReadWoken, ReadTimeout, ReadLeave, NoData
      <4>. QED BY <3>1, <4>1
    <3>6. CASE ReadPop(r) \/ ReadReset(r)
      <4>1. pc'[r] # "panic"
        BY <3>6 DEF ReadPop, ReadReset, Pop, PopCheckCount, PopLoadTail,
                    PopClaim, PopRead, PopClear, PopCount, Reset, ResetState,
                    ResetCount, ResetCursors
      <4>. QED BY <3>1, <4>1
    <3>. QED
      BY <3>2, <3>3, <3>4, <3>5, <3>6
         DEF BlockingRead, tryRead, ReadEnter, ReadExit
  <2>. QED BY <1>1, <2>1, <2>2, <2>3 DEF Next, Background
<1>. QED
  BY <1>1, OwnerAlways, TypeCorrect, PTL DEF Spec, NoNilBuffer

-----------------------------------------------------------------------------
(***************************************************************************)
(* The state of the buffers that are handed over.  Pending(b): b is on its *)
(* way from the switch to the reader.  Frozen: the buffer that is about to *)
(* be handed over is ReadOnly; it cannot be the one that is being Reset,   *)
(* since that one has another owner.                                       *)
(***************************************************************************)
Pending(b) ==
  \/ \E p \in Switchers : pc[p] \in {"s_zero", "s_spawn"} /\ target[p] = b
  \/ \E k \in Tasks : tpc[k] \in {"seq", "push"} /\ tbuf[k] = b
  \/ \E i \in heap : i.buf = b
  \/ \E r \in Readers : InPicking(r) /\ picked[r].buf = b
  \/ current = b

Frozen == \A p \in Switchers : pc[p] = "s_swap" => bstate[active] = "ReadOnly"

PendingKept ==
  \A b \in Buffers : Pending(b) => bstate[b] = "ReadOnly" \/ BeingReset(b)

FrozenInv == Frozen /\ PendingKept

(* It is what PendingReadOnly says. *)
LEMMA PendingIs ==
  ASSUME TypeInv, PendingKept
  PROVE  PendingReadOnly
<1>1. ASSUME NEW x \in SwitchClaims
      PROVE  x[3] \in Buffers /\ Pending(x[3])
  BY SwitcherIs DEF SwitchClaims, Pending, TypeInv, HandsFull, TargetsFull, Holding
<1>2. ASSUME NEW x \in TaskClaims
      PROVE  x[3] \in Buffers /\ Pending(x[3])
  BY DEF TaskClaims, Pending, TypeInv, HandsFull, TasksFull
<1>3. ASSUME NEW x \in HeapClaims
      PROVE  x[3] \in Buffers /\ Pending(x[3])
  BY DEF HeapClaims, Pending, TypeInv, TypeOK, BackTypeOK, Items
<1>4. ASSUME NEW x \in HandClaims
      PROVE  x[3] \in Buffers /\ Pending(x[3])
  BY DEF HandClaims, InPicking, Pending, TypeInv, HandsFull, PickedFull, Items
<1>5. ASSUME NEW x \in CurrentClaims
      PROVE  x[3] \in Buffers /\ Pending(x[3])
  BY DEF CurrentClaims, Pending
<1>. QED
  BY <1>1, <1>2, <1>3, <1>4, <1>5 DEF PendingKept, PendingReadOnly

(* A step that neither hands over a new buffer, nor changes the state of one
   to WriteOnly, nor ends a Reset. *)
LEMMA PendingFrame ==
  ASSUME PendingKept,
         \A b \in Buffers : Pending(b)' => Pending(b),
         \A b \in Buffers : bstate'[b] = bstate[b] \/ bstate'[b] = "ReadOnly",
         \A b \in Buffers : BeingReset(b) => BeingReset(b)'
  PROVE  PendingKept'
BY DEF PendingKept

(* The steps of Write and of the background. *)
LEMMA FrozenAside ==
  ASSUME TypeInv, FrozenInv,
         \/ \E w \in Writers : Write(w)
         \/ Background
         \/ UNCHANGED vars
  PROVE  FrozenInv'
<1>0. bstate \in [Buffers -> {"WriteOnly", "ReadOnly"}] /\ active \in Buffers
  BY DEF TypeInv, TypeOK, RingTypeOK, RingsOK, FrontTypeOK
<1>1. UNCHANGED <<active, heap, current, picked, tpc, tbuf>>
  BY WriteMoves, BackgroundMoves
     DEF vars, dbVars, backVars, frontVars, seqVars, taskVars, readVars
<1>2. /\ \A r \in Readers : pc'[r] = pc[r] /\ target'[r] = target[r]
      /\ \A p \in Switchers :
           \/ pc'[p] = pc[p] /\ target'[p] = target[p]
           \/ pc'[p] \notin {"s_swap", "s_zero", "s_spawn"}
  <2>1. CASE UNCHANGED vars
    BY <2>1 DEF vars, threadVars
  <2>2. CASE (\E w \in Writers : Write(w)) \/ Background
    BY <2>2, WriteMoves, BackgroundMoves, ReaderIs, SwitcherIs, MonitorIs,
       RecyclerIs DEF Others, Outside, PushLabels
  <2>. QED BY <2>1, <2>2
<1>3. \A b \in Buffers : bstate'[b] = bstate[b] \/ bstate'[b] = "ReadOnly"
  <2>1. ASSUME NEW w \in Writers, WritePush(w)
        PROVE  \A b \in Buffers : bstate'[b] = bstate[b] \/ bstate'[b] = "ReadOnly"
    BY <1>0, <2>1 DEF WritePush, Push, PushCheckState, PushCheckCount,
       PushMarkFull, PushLoadHead, PushClaim, PushStore, PushCount, ringVars
  <2>2. ASSUME NEW w \in Writers, WriteOnly(w)
        PROVE  bstate' = bstate
    BY <2>2 DEF WriteOnly, WriteBegin, WriteFast, WriteLoadActive,
       WriteAccepted, WriteFastFailed, WriteRejected, WriteLock, WriteInspect,
       ringVars
  <2>3. CASE Background \/ UNCHANGED vars
    BY <2>3, BackgroundMoves DEF vars, ringVars
  <2>. QED BY <2>1, <2>2, <2>3 DEF Write, WriteOnly
<1>4. Frozen'
  BY <1>0, <1>1, <1>2, <1>3 DEF FrozenInv, Frozen
<1>5. \A b \in Buffers : Pending(b)' => Pending(b)
  BY <1>1, <1>2 DEF Pending, InPicking
<1>6. \A b \in Buffers : BeingReset(b) => BeingReset(b)'
  BY <1>2 DEF BeingReset
<1>. QED BY <1>3, <1>4, <1>5, <1>6, PendingFrame DEF FrozenInv

(* The switch freezes the active buffer before it hands it over. *)
LEMMA FrozenSwitch ==
  ASSUME TypeInv, SwitchExclusive, FrozenInv,
         NEW p \in Switchers, switchChannel(p)
  PROVE  FrozenInv'
<1>0. /\ PcsOK /\ target \in [Threads -> Buffers \cup {Nil}]
      /\ bstate \in [Buffers -> {"WriteOnly", "ReadOnly"}] /\ active \in Buffers
      /\ tpc \in [Tasks -> TaskLabels] /\ tbuf \in [Tasks -> Buffers \cup {Nil}]
  BY PcsAre DEF TypeInv, TypeOK, RingTypeOK, RingsOK, FrontTypeOK, BackTypeOK
<1>1. /\ UNCHANGED <<heap, current, picked>>
      /\ \A r \in Readers : pc'[r] = pc[r] /\ target'[r] = target[r]
      /\ \A q \in Switchers \ {p} : pc'[q] = pc[q] /\ target'[q] = target[q]
  BY SwitchMoves, ReaderIs, SwitcherIs DEF Others
<1>2. \A b \in Buffers : bstate'[b] = bstate[b] \/ bstate'[b] = "ReadOnly"
  BY <1>0 DEF switchChannel, SwitchBegin, SwitchLock, SwitchFreeze, SwitchSwap,
     SwitchZero, SwitchSpawn, SwitchRestore, SwitchUnlock, ringVars
<1>3. \A b \in Buffers : BeingReset(b) => BeingReset(b)'
  BY <1>1 DEF BeingReset
<1>4. CASE SwitchSwap(p)
  <2>1. /\ pc[p] = "s_swap" /\ pc'[p] = "s_zero" /\ target'[p] = active
        /\ bstate' = bstate /\ UNCHANGED <<tpc, tbuf>>
    BY <1>0, <1>4, SwitcherIs DEF SwitchSwap, Goto, PcsOK, ringVars, taskVars
  <2>2. Frozen'
    BY <1>1, <2>1 DEF Frozen, SwitchExclusive, Switching
  <2>3. \A b \in Buffers : Pending(b)' => Pending(b) \/ b = active
    BY <1>1, <2>1 DEF Pending, InPicking
  <2>4. bstate[active] = "ReadOnly"
    BY <2>1 DEF FrozenInv, Frozen
  <2>5. PendingKept'
    BY <1>3, <2>1, <2>3, <2>4 DEF PendingKept, FrozenInv
  <2>. QED BY <2>2, <2>5 DEF FrozenInv
<1>5. CASE ~SwitchSwap(p)
  <2>1. active' = active
    BY <1>5 DEF switchChannel, SwitchBegin, SwitchLock, SwitchFreeze,
       SwitchZero, SwitchSpawn, SwitchRestore, SwitchUnlock, dbVars, frontVars
  <2>2. Frozen'
    <3>1. pc'[p] = "s_swap" => bstate'[active] = "ReadOnly"
      BY <1>0, <1>5, SwitcherIs
         DEF switchChannel, SwitchBegin, SwitchLock, SwitchFreeze, SwitchZero,
             SwitchSpawn, SwitchRestore, SwitchUnlock, Goto, PcsOK, AfterSwitch
    <3>. QED BY <1>0, <1>1, <1>2, <2>1, <3>1 DEF FrozenInv, Frozen
  <2>3. \A b \in Buffers : Pending(b)' => Pending(b)
    <3>1. CASE SwitchSpawn(p)
      <4>1. /\ pc[p] = "s_spawn" /\ pc'[p] = "s_restore"
            /\ tpc' = [tpc EXCEPT ![spawned + 1] = "seq"]
            /\ tbuf' = [tbuf EXCEPT ![spawned + 1] = target[p]]
        BY <1>0, <3>1, SwitcherIs DEF SwitchSpawn, Goto, PcsOK
      <4>2. \A k \in Tasks : \/ tpc'[k] = tpc[k] /\ tbuf'[k] = tbuf[k]
                             \/ tbuf'[k] = target[p]
        BY <1>0, <4>1
      <4>. QED BY <1>1, <4>1, <4>2 DEF Pending, InPicking
    <3>2. CASE ~SwitchSpawn(p)
      <4>1. UNCHANGED <<tpc, tbuf>>
        BY <1>5, <3>2 DEF switchChannel, SwitchBegin, SwitchLock, SwitchFreeze,
           SwitchZero, SwitchRestore, SwitchUnlock, dbVars, backVars, taskVars
      <4>2. \/ pc'[p] \notin {"s_zero", "s_spawn"}
            \/ pc[p] = "s_zero" /\ target'[p] = target[p]
        BY <1>0, <1>5, <3>2, SwitcherIs
           DEF switchChannel, SwitchBegin, SwitchLock, SwitchFreeze, SwitchZero,
               SwitchRestore, SwitchUnlock, Goto, PcsOK, AfterSwitch, localVars
      <4>. QED BY <1>1, <4>1, <4>2 DEF Pending, InPicking
    <3>. QED BY <3>1, <3>2
  <2>. QED BY <1>2, <1>3, <2>2, <2>3, PendingFrame DEF FrozenInv
<1>. QED BY <1>4, <1>5

(* The spawned goroutine and Close only pass buffers on. *)
LEMMA FrozenBack ==
  ASSUME TypeInv, FrozenInv,
         (\E k \in Tasks : Task(k)) \/ \E c \in Closers : Close(c)
  PROVE  FrozenInv'
<1>0. tpc \in [Tasks -> TaskLabels]
  BY DEF TypeInv, TypeOK, BackTypeOK
<1>1. /\ UNCHANGED <<bstate, active, current, picked, tbuf>>
      /\ \A t \in Readers \cup Switchers : pc'[t] = pc[t] /\ target'[t] = target[t]
  BY TaskMoves, CloseMoves, ReaderIs, SwitcherIs
     DEF Others, ringVars, threadVars, frontVars, taskVars, readVars
<1>2. ASSUME NEW b \in Buffers, Pending(b)' PROVE Pending(b)
  <2>1. ASSUME NEW k \in Tasks, Task(k) PROVE Pending(b)
    <3>1. /\ \A l \in Tasks : tpc'[l] \in {"seq", "push"} => tpc[l] \in {"seq", "push"}
          /\ \/ heap' = heap
             \/ /\ heap' = heap \cup {[seq |-> tseq[k], buf |-> tbuf[k]]}
                /\ tpc[k] = "push"
      BY <1>0, <2>1 DEF Task, TaskNumber, TaskPush, TaskLen, TaskNotify,
                        TaskGoto, seqVars
    <3>. QED BY <1>1, <1>2, <3>1 DEF Pending, InPicking
  <2>2. ASSUME NEW c \in Closers, Close(c) PROVE Pending(b)
    <3>1. heap' \subseteq heap /\ UNCHANGED tpc
      BY <2>2, CloseMoves
         DEF Close, CloseBegin, CloseStop, ClosePool, CloseWait, DrainCheck,
             DrainItem, dbVars, backVars, seqVars, taskVars
    <3>. QED BY <1>1, <1>2, <3>1 DEF Pending, InPicking
  <2>. QED BY <2>1, <2>2
<1>3. Frozen'
  BY <1>1 DEF FrozenInv, Frozen
<1>4. \A b \in Buffers : BeingReset(b) => BeingReset(b)'
  BY <1>1 DEF BeingReset
<1>. QED BY <1>1, <1>2, <1>3, <1>4, PendingFrame DEF FrozenInv

(* The reader passes buffers on, Resets the one that it alone still has, and
   gives it up once it is Reset. *)
LEMMA FrozenRead ==
  ASSUME SoleReader, TypeInv, SwitchExclusive, OwnerInv, OwnerInv', FrozenInv,
         NEW r \in Readers, BlockingRead(r)
  PROVE  FrozenInv'
<1>. USE ReaderIs
<1>0. /\ PcsOK /\ \A q \in Readers : q = r
      /\ bstate \in [Buffers -> {"WriteOnly", "ReadOnly"}]
      /\ picked \in [Readers -> Items \cup {Nil}] /\ Nil \notin Buffers
  BY PcsAre, RingAssumption
     DEF TypeInv, TypeOK, RingTypeOK, RingsOK, BackTypeOK, SoleReader
<1>1. /\ UNCHANGED <<active, state, tpc, tbuf>>
      /\ \A t \in Switchers \cup Closers : pc'[t] = pc[t] /\ target'[t] = target[t]
  BY ReadMoves, SwitcherIs, CloserIs DEF Others, frontVars, taskVars
<1>2. CASE ReadForget(r)
  <2>1. /\ pc[r] = "z_done" /\ pc'[r] = "t_put" /\ target' = target
        /\ current' = Nil /\ UNCHANGED <<heap, picked, bstate>>
    BY <1>0, <1>2 DEF ReadForget, Goto, PcsOK, localVars, ringVars, readVars
  <2>2. \A b \in Buffers : Pending(b)' => Pending(b)
    BY <1>0, <1>1, <2>1 DEF Pending, InPicking
  <2>3. ASSUME NEW b \in Buffers, Pending(b)', BeingReset(b)
        PROVE  FALSE
    <3>. DEFINE y == <<"drop", r, b>>
    <3>1. target'[r] = b
      BY <1>0, <2>1, <2>3 DEF BeingReset
    <3>2. y \in Claims' /\ y[3] = b /\ y[1] = "drop"
      BY <2>1, <3>1 DEF Claims, DropClaims
    <3>3. \E x \in Claims' : x[3] = b /\ x[1] # "drop"
      <4>1. ASSUME NEW p \in Switchers, pc'[p] \in {"s_zero", "s_spawn"},
                   target'[p] = b
            PROVE  \E x \in Claims' : x[3] = b /\ x[1] # "drop"
        <5>1. <<"switch", p, b>> \in Claims'
          BY <4>1 DEF Claims, SwitchClaims
        <5>. QED BY <5>1
      <4>2. ASSUME NEW k \in Tasks, tpc'[k] \in {"seq", "push"}, tbuf'[k] = b
            PROVE  \E x \in Claims' : x[3] = b /\ x[1] # "drop"
        <5>1. <<"task", k, b>> \in Claims'
          BY <4>2 DEF Claims, TaskClaims
        <5>. QED BY <5>1
      <4>3. ASSUME NEW i \in heap', i.buf = b
            PROVE  \E x \in Claims' : x[3] = b /\ x[1] # "drop"
        <5>1. <<"heap", i.seq, b>> \in Claims'
          BY <4>3 DEF Claims, HeapClaims
        <5>. QED BY <5>1
      <4>4. CASE \E q \in Readers : InPicking(q)' /\ picked'[q].buf = b
        BY <1>0, <2>1, <4>4 DEF InPicking
      <4>5. CASE current' = b
        BY <1>0, <2>1, <4>5
      <4>. QED BY <2>3, <4>1, <4>2, <4>3, <4>4, <4>5 DEF Pending
    <3>. HIDE DEF y
    <3>. QED BY <3>2, <3>3 DEF OwnerInv, Distinct
  <2>4. PendingKept'
    BY <2>1, <2>2, <2>3 DEF FrozenInv, PendingKept
  <2>. QED BY <1>1, <2>1, <2>4 DEF FrozenInv, Frozen
<1>3. CASE ~ReadForget(r)
  <2>1. \A b \in Buffers : Pending(b)' => Pending(b)
    <3>1. CASE pickBufferFromHeap(r)
      <4>1. /\ heap' \subseteq heap \/ (InPicking(r) /\ heap' = heap \cup {picked[r]})
            /\ current' = current \/ (InPicking(r) /\ current' = picked[r].buf)
            /\ \/ ~InPicking(r)'
               \/ InPicking(r) /\ picked' = picked
               \/ picked'[r] \in heap
        BY <1>0, <3>1
           DEF pickBufferFromHeap, PickItem, PickCompare, PickSet, PickAdvance,
               PickPutBack, PickReturn, LeastItems, NoData, Goto, PcsOK,
               InPicking, dbVars, backVars, seqVars, readVars
      <4>. QED BY <1>0, <1>1, <4>1 DEF Pending
    <3>2. CASE ~pickBufferFromHeap(r)
      <4>1. UNCHANGED <<heap, picked, current>>
        BY <1>3, <3>2
           DEF BlockingRead, tryRead, ReadBegin, ReadCheckNil, ReadCheckLen,
               ReadDrop, ReadTake, ReadReset, ReadPut, ReadMode, ReadEnterPop,
               ReadPop, ReadReturn, ReadRegister, ReadWoken, ReadTimeout,
               ReadLeave, dbVars, backVars, seqVars, readVars
      <4>2. ~InPicking(r)'
        BY <1>0, <1>3, <3>2
           DEF PcsOK, Goto, InPicking, NoData, BlockingRead, tryRead, ReadBegin,
               ReadCheckNil, ReadCheckLen, ReadDrop, ReadTake, ReadReset,
               ReadPut, ReadMode, ReadEnterPop, ReadPop, ReadReturn,
               ReadRegister, ReadWoken, ReadTimeout, ReadLeave, Pop,
               PopCheckCount, PopLoadTail, PopClaim, PopRead, PopClear,
               PopCount, Reset, ResetState, ResetCount, ResetCursors
      <4>. QED BY <1>0, <1>1, <4>1, <4>2 DEF Pending
    <3>. QED BY <3>1, <3>2
  <2>2. CASE ResetState(r)
    <3>1. /\ pc[r] = "z_state" /\ pc'[r] = "z_count" /\ target' = target
          /\ bstate' = [bstate EXCEPT ![target[r]] = "WriteOnly"]
          /\ target[r] = current /\ current # Nil
      BY <1>0, <2>2 DEF ResetState, Goto, PcsOK, OwnerInv, CurrentKnown, ResetLabels
    <3>2. \A b \in Buffers : bstate'[b] = bstate[b] \/ BeingReset(b)'
      BY <1>0, <3>1 DEF BeingReset
    <3>3. \A b \in Buffers : BeingReset(b) => BeingReset(b)'
      BY <1>0, <3>1 DEF BeingReset
    <3>4. PendingKept'
      BY <2>1, <3>2, <3>3 DEF FrozenInv, PendingKept
    <3>5. ASSUME NEW p \in Switchers, pc'[p] = "s_swap"
          PROVE  bstate'[active] = "ReadOnly"
      <4>. DEFINE x == <<"active", 0, active>>
                  y == <<"current", 0, current>>
      <4>1. pc[p] = "s_swap" /\ state = "Switching"
        BY <1>1, <3>5 DEF SwitchExclusive, Switching
      <4>2. ~Dissolved
        BY <4>1 DEF OwnerInv, ClosingKnown, Dissolved
      <4>3. active \in Buffers /\ current \in Buffers
        BY <3>1 DEF TypeInv, TypeOK, FrontTypeOK, BackTypeOK
      <4>4. /\ x \in Claims /\ y \in Claims /\ x[1] # y[1]
            /\ x[3] = active /\ y[3] = current
        BY <4>2, <4>3 DEF Claims, FrontClaims, CurrentClaims
      <4>. HIDE DEF x, y
      <4>5. active # current
        BY <4>4 DEF OwnerInv, Distinct
      <4>. QED BY <1>0, <3>1, <4>1, <4>3, <4>5 DEF FrozenInv, Frozen
    <3>. QED BY <1>1, <3>4, <3>5 DEF FrozenInv, Frozen
  <2>3. CASE ~ResetState(r)
    <3>1. bstate' = bstate
      BY <1>3, <2>3
         DEF BlockingRead, tryRead, pickBufferFromHeap, PickItem, PickCompare,
             PickSet, PickAdvance, PickPutBack, PickReturn, ReadBegin,
             ReadCheckNil, ReadCheckLen, ReadDrop, ReadTake, ReadReset,
             ReadPut, ReadMode, ReadEnterPop, ReadPop, ReadReturn,
             ReadRegister, ReadWoken, ReadTimeout, ReadLeave, Pop,
             PopCheckCount, PopLoadTail, PopClaim, PopRead, PopClear,
             PopCount, Reset, ResetCount, ResetCursors, ringVars
    <3>2. \A b \in Buffers : BeingReset(b) => BeingReset(b)'
      <4>1. CASE ReadReset(r)
        BY <1>0, <2>3, <4>1
           DEF ReadReset, Reset, ResetCount, ResetCursors, Goto, PcsOK, BeingReset
      <4>2. CASE ~ReadReset(r)
        <5>1. pc[r] \notin {"z_count", "z_index", "z_done"}
          BY <1>0, <1>3, <4>2
             DEF Goto, BlockingRead, tryRead, pickBufferFromHeap, PickItem,
                 PickCompare, PickSet, PickAdvance, PickPutBack, PickReturn,
                 ReadBegin, ReadCheckNil, ReadCheckLen, ReadDrop, ReadTake,
                 ReadPut, ReadMode, ReadEnterPop, ReadPop, ReadReturn,
                 ReadRegister, ReadWoken, ReadTimeout, ReadLeave, Pop,
                 PopCheckCount, PopLoadTail, PopClaim, PopRead, PopClear,
                 PopCount
        <5>. QED BY <1>0, <5>1 DEF BeingReset
      <4>. QED BY <4>1, <4>2
    <3>3. Frozen'
      BY <1>1, <3>1 DEF FrozenInv, Frozen
    <3>. QED BY <2>1, <3>1, <3>2, <3>3, PendingFrame DEF FrozenInv
  <2>. QED BY <2>2, <2>3
<1>. QED BY <1>2, <1>3

(* Initially no ring is pending. *)
LEMMA FrozenInit == Init => FrozenInv
<1>. SUFFICES ASSUME Init PROVE FrozenInv
  OBVIOUS
<1>1. \A t \in Threads : pc[t] \in {"idle", "m_tick", "y_tick"}
  BY DEF Init
<1>2. \A b \in Buffers : ~Pending(b)
  BY <1>1, SwitcherIs, ReaderIs, RingAssumption DEF Init, Pending, InPicking
<1>. QED BY <1>1, <1>2, SwitcherIs DEF FrozenInv, Frozen, PendingKept

(* Every step leaves the pending rings read-only. *)
LEMMA FrozenNext ==
  ASSUME SoleReader, TypeInv, SwitchExclusive, OwnerInv, FrozenInv, [Next]_vars
  PROVE  FrozenInv'
<1>1. OwnerInv'
  BY OwnerNext
<1>2. CASE (\E w \in Writers : Write(w)) \/ Background \/ UNCHANGED vars
  BY <1>2, FrozenAside
<1>3. CASE \E p \in Switchers : switchChannel(p)
  BY <1>3, FrozenSwitch
<1>4. CASE (\E k \in Tasks : Task(k)) \/ \E c \in Closers : Close(c)
  BY <1>4, FrozenBack
<1>5. CASE \E r \in Readers : BlockingRead(r)
  BY <1>1, <1>5, FrozenRead
<1>. QED BY <1>2, <1>3, <1>4, <1>5 DEF Next, Background

(***************************************************************************)
(* FrozenInv is an invariant.  One reader.                                 *)
(***************************************************************************)
LEMMA FrozenAlways ==
  ASSUME SoleReader
  PROVE  Spec => []FrozenInv
<1>1. TypeInv /\ SwitchExclusive /\ OwnerInv /\ FrozenInv /\ [Next]_vars
        => FrozenInv'
  BY FrozenNext
<1>. QED
  BY <1>1, FrozenInit, OwnerAlways, TypeCorrect, SwitchExclusiveAlways, PTL DEF Spec

(***************************************************************************)
(* A buffer on its way from the switch to the reader stays ReadOnly until  *)
(* the reader Resets it.  A Push that has passed the check of the state    *)
(* before may still store into it.  One reader.                            *)
(* (double_buffer.go: switchChannel, tryRead)                              *)
(***************************************************************************)
THEOREM PendingReadOnlyAlways ==
  ASSUME SoleReader
  PROVE  Spec => []PendingReadOnly
<1>1. TypeInv /\ FrozenInv => PendingReadOnly
  BY PendingIs DEF FrozenInv
<1>. QED BY <1>1, FrozenAlways, TypeCorrect, PTL

(***************************************************************************)
(* Such a buffer admits no Push: one that begins after the hand-over, or   *)
(* begins its loop anew, fails at the check of the state.  One reader.     *)
(* (smart_buffer.go: Push)                                                 *)
(***************************************************************************)
PendingAdmitsNone ==
  [][\A w \in Writers :
       PushCheckState(w) /\ Pending(target[w]) /\ ~BeingReset(target[w])
         => pc'[w] = "p_err"]_vars

THEOREM PendingAdmitsNoneAlways ==
  ASSUME SoleReader
  PROVE  Spec => PendingAdmitsNone
<1>1. TypeInv /\ FrozenInv =>
        [\A w \in Writers :
           PushCheckState(w) /\ Pending(target[w]) /\ ~BeingReset(target[w])
             => pc'[w] = "p_err"]_vars
  <2>. SUFFICES ASSUME TypeInv, FrozenInv, NEW w \in Writers, PushCheckState(w),
                       Pending(target[w]), ~BeingReset(target[w])
                PROVE  pc'[w] = "p_err"
    OBVIOUS
  <2>1. /\ w \in Threads /\ pc[w] = "p_state"
        /\ pc \in [Threads -> UNION {LabelsOf(t) : t \in Threads}]
    BY WriterIs DEF TypeInv, TypeOK, LabelsOK, PushCheckState, Goto
  <2>2. target[w] \in Buffers
    BY <2>1, WriterIs DEF TypeInv, HandsFull, TargetsFull, Holding, PushLabels
  <2>3. bstate[target[w]] = "ReadOnly"
    BY <2>2 DEF FrozenInv, PendingKept
  <2>. QED BY <2>1, <2>3 DEF PushCheckState, Goto
<1>. QED BY <1>1, FrozenAlways, TypeCorrect, PTL DEF PendingAdmitsNone

-----------------------------------------------------------------------------
(***************************************************************************)
(* The counts.  The reader that is to lower a count has seen it above 0,   *)
(* and nobody but the reader lowers one.                                   *)
(***************************************************************************)
Lowering == {"q_tail", "q_cas", "q_read", "q_clear", "q_dec"}

CountKnown == \A r \in Readers : pc[r] \in Lowering => count[target[r]] >= 1

CountInv == CountBound /\ CountKnown

(* A step that admits no writer and raises no count keeps the bound. *)
LEMMA CountFrame ==
  ASSUME IsFiniteSet(Writers), TypeInv, CountBound,
         \A b \in Buffers : Admitted(b)' \subseteq Admitted(b),
         \A b \in Buffers : 0 <= count'[b] /\ count'[b] <= count[b] /\ count'[b] \in Int
  PROVE  CountBound'
<1>1. ASSUME NEW b \in Buffers
      PROVE  count'[b] + Cardinality(Admitted(b)') <= Capacity - 1 + Cardinality(Writers)
  <2>1. IsFiniteSet(Admitted(b)) /\ Cardinality(Admitted(b)) \in Nat
    BY FS_Subset, FS_CardinalityType DEF Admitted
  <2>2. /\ Cardinality(Admitted(b)') <= Cardinality(Admitted(b))
        /\ Cardinality(Admitted(b)') \in Nat
    BY <2>1, FS_Subset, FS_CardinalityType
  <2>3. Cardinality(Writers) \in Nat /\ Capacity \in Nat /\ count[b] \in Int
    BY FS_CardinalityType, RingAssumption DEF TypeInv, TypeOK, RingTypeOK, RingsOK
  <2>. QED BY <2>1, <2>2, <2>3 DEF CountBound
<1>. QED BY <1>1 DEF CountBound

(* Push: a writer is admitted below the capacity, and a count is raised by a
   writer that was admitted. *)
LEMMA CountPush ==
  ASSUME IsFiniteSet(Writers), TypeInv, CountInv, NEW w \in Writers, WritePush(w)
  PROVE  CountInv'
<1>. USE WriterIs
<1>0. /\ PcsOK /\ count \in [Buffers -> Int] /\ target' = target
      /\ target[w] \in Buffers /\ Capacity \in Nat
      /\ Cardinality(Writers) \in Nat
  <2>1. target' = target /\ pc[w] \in PushLabels
    BY DEF WritePush, Push, PushCheckState, PushCheckCount, PushMarkFull,
           PushLoadHead, PushClaim, PushStore, PushCount, Goto, PushLabels
  <2>. QED
    BY <2>1, PcsAre, RingAssumption, FS_CardinalityType
       DEF TypeInv, TypeOK, RingTypeOK, RingsOK, HandsFull, TargetsFull, Holding
<1>1. Write(w)
  BY DEF Write
<1>2. \A u \in Threads \ {w} : pc'[u] = pc[u]
  BY <1>1, WriteMoves DEF Others
<1>3. \A b \in Buffers \ {target[w]} : Admitted(b)' \subseteq Admitted(b)
  BY <1>0, <1>2 DEF Admitted
<1>4. CASE PushCheckCount(w)
  <2>1. count' = count
    BY <1>4 DEF PushCheckCount, ringVars
  <2>2. CASE count[target[w]] >= Capacity
    <3>1. pc'[w] = "p_full"
      BY <1>0, <1>4, <2>2 DEF PushCheckCount, Goto, PcsOK
    <3>2. \A b \in Buffers : Admitted(b)' \subseteq Admitted(b)
      BY <1>0, <1>2, <3>1 DEF Admitted
    <3>. QED
      BY <1>0, <1>2, <2>1, <3>2, CountFrame, ReaderIs
         DEF CountInv, CountKnown, CountBound
  <2>3. CASE ~(count[target[w]] >= Capacity)
    <3>1. ASSUME NEW b \in Buffers
          PROVE  count'[b] + Cardinality(Admitted(b)') <= Capacity - 1 + Cardinality(Writers)
      <4>1. CASE b = target[w]
        <5>1. /\ Cardinality(Admitted(b)') <= Cardinality(Writers)
              /\ Cardinality(Admitted(b)') \in Nat
          BY FS_Subset, FS_CardinalityType DEF Admitted
        <5>. QED BY <1>0, <2>1, <2>3, <4>1, <5>1
      <4>2. CASE b # target[w]
        <5>1. /\ Cardinality(Admitted(b)') <= Cardinality(Admitted(b))
              /\ Cardinality(Admitted(b)') \in Nat /\ Cardinality(Admitted(b)) \in Nat
          <6>1. IsFiniteSet(Admitted(b))
            BY FS_Subset DEF Admitted
          <6>2. Admitted(b)' \subseteq Admitted(b)
            BY <1>3, <4>2
          <6>3. IsFiniteSet(Admitted(b)')
            BY <6>1, <6>2, FS_Subset
          <6>. QED BY <6>1, <6>2, <6>3, FS_Subset, FS_CardinalityType
        <5>. QED BY <1>0, <2>1, <5>1 DEF CountInv, CountBound
      <4>. QED BY <4>1, <4>2
    <3>. QED
      BY <1>0, <1>2, <2>1, <3>1, ReaderIs DEF CountInv, CountKnown, CountBound
  <2>. QED BY <2>2, <2>3
<1>5. CASE PushCount(w)
  <2>. DEFINE b == target[w]
  <2>1. /\ count' = [count EXCEPT ![b] = @ + 1]
        /\ pc[w] = "p_inc" /\ pc'[w] = "p_ok"
    BY <1>0, <1>5 DEF PushCount, Goto, PcsOK
  <2>2. Admitted(b)' = Admitted(b) \ {w} /\ w \in Admitted(b)
    BY <1>0, <1>2, <2>1 DEF Admitted
  <2>3. IsFiniteSet(Admitted(b)) /\ Cardinality(Admitted(b)) \in Nat
    BY FS_Subset, FS_CardinalityType DEF Admitted
  <2>4. Cardinality(Admitted(b)') = Cardinality(Admitted(b)) - 1
    BY <2>2, <2>3, FS_RemoveElement
  <2>5. ASSUME NEW a \in Buffers
        PROVE  /\ 0 <= count'[a]
               /\ count'[a] + Cardinality(Admitted(a)') <= Capacity - 1 + Cardinality(Writers)
    <3>1. CASE a = b
      BY <1>0, <2>1, <2>3, <2>4, <3>1 DEF CountInv, CountBound
    <3>2. CASE a # b
      <4>1. IsFiniteSet(Admitted(a)) /\ Admitted(a)' \subseteq Admitted(a)
        BY <1>3, <3>2, FS_Subset DEF Admitted
      <4>2. IsFiniteSet(Admitted(a)')
        BY <4>1, FS_Subset
      <4>3. /\ Cardinality(Admitted(a)') <= Cardinality(Admitted(a))
            /\ Cardinality(Admitted(a)') \in Nat /\ Cardinality(Admitted(a)) \in Nat
        BY <4>1, <4>2, FS_Subset, FS_CardinalityType
      <4>. QED BY <1>0, <2>1, <3>2, <4>3 DEF CountInv, CountBound
    <3>. QED BY <3>1, <3>2
  <2>6. \A r \in Readers : count'[target[r]] = count[target[r]]
                            \/ (target[r] = b /\ count'[target[r]] = count[b] + 1)
    BY <1>0, <2>1
  <2>. QED BY <1>0, <1>2, <2>5, <2>6, ReaderIs DEF CountInv, CountKnown, CountBound
<1>6. CASE ~PushCheckCount(w) /\ ~PushCount(w)
  <2>1. count' = count /\ \A b \in Buffers : Admitted(b)' \subseteq Admitted(b)
    <3>1. count' = count
      BY <1>6 DEF WritePush, Push, PushCheckState, PushMarkFull, PushLoadHead,
                  PushClaim, PushStore, ringVars
    <3>2. pc'[w] \in {"p_cas", "p_store", "p_inc"}
            => pc[w] \in {"p_head", "p_cas", "p_store"}
      BY <1>0, <1>6 DEF WritePush, Push, PushCheckState, PushMarkFull,
                        PushLoadHead, PushClaim, PushStore, Goto, PcsOK
    <3>3. pc'[w] # "p_head"
      BY <1>0, <1>6 DEF WritePush, Push, PushCheckState, PushMarkFull,
                        PushLoadHead, PushClaim, PushStore, Goto, PcsOK
    <3>. QED BY <1>0, <1>2, <3>1, <3>2, <3>3 DEF Admitted
  <2>2. CountBound'
    BY <1>0, <2>1, CountFrame DEF CountInv, CountBound
  <2>. QED BY <1>0, <1>2, <2>1, <2>2, ReaderIs DEF CountInv, CountKnown
<1>. QED BY <1>4, <1>5, <1>6

(* What concerns the counts stays as it is. *)
CountQuiet ==
  /\ count' = count
  /\ \A r \in Readers : pc'[r] = pc[r] /\ target'[r] = target[r]
  /\ \A w \in Writers : \/ pc'[w] = pc[w] /\ target'[w] = target[w]
                        \/ pc'[w] \notin {"p_head", "p_cas", "p_store", "p_inc"}

(* Whoever neither pushes nor reads changes no count and admits nobody. *)
LEMMA CountAside ==
  ASSUME IsFiniteSet(Writers), TypeInv, CountInv,
         \/ \E w \in Writers : WriteOnly(w)
         \/ \E p \in Switchers : switchChannel(p)
         \/ Background
         \/ \E k \in Tasks : Task(k)
         \/ \E c \in Closers : Close(c)
         \/ UNCHANGED vars
  PROVE  CountInv'
<1>0. count \in [Buffers -> Int]
  BY DEF TypeInv, TypeOK, RingTypeOK, RingsOK
<1>1. CountQuiet
  <2>1. ASSUME NEW w \in Writers, WriteOnly(w)
        PROVE  CountQuiet
    <3>1. count' = count /\ pc'[w] \notin {"p_head", "p_cas", "p_store", "p_inc"}
      BY <2>1, PcsAre, WriterIs
         DEF WriteOnly, WriteBegin, WriteFast, WriteLoadActive, WriteAccepted,
             WriteFastFailed, WriteRejected, WriteLock, WriteInspect, ringVars,
             Goto, PcsOK
    <3>2. Write(w)
      BY <2>1 DEF Write, WriteOnly
    <3>. QED BY <3>1, <3>2, WriteMoves, WriterIs, ReaderIs DEF Others, CountQuiet
  <2>2. ASSUME NEW p \in Switchers, switchChannel(p)
        PROVE  CountQuiet
    <3>1. count' = count
      BY <2>2, SwitchMoves
    <3>2. pc'[p] \notin {"p_head", "p_cas", "p_store", "p_inc"}
      BY <2>2, SwitchMoves DEF SwitchLabels
    <3>. QED BY <2>2, <3>1, <3>2, SwitchMoves, SwitcherIs, WriterIs, ReaderIs
          DEF Others, CountQuiet
  <2>3. CASE Background
    BY <2>3, BackgroundMoves, ReaderIs, WriterIs DEF ringVars, CountQuiet
  <2>4. CASE \/ \E k \in Tasks : Task(k)
             \/ \E c \in Closers : Close(c)
             \/ UNCHANGED vars
    BY <2>4, TaskMoves, CloseMoves, ReaderIs, WriterIs
       DEF Others, ringVars, threadVars, vars, CountQuiet
  <2>. QED BY <2>1, <2>2, <2>3, <2>4
<1>2. \A b \in Buffers : Admitted(b)' \subseteq Admitted(b)
  BY <1>1 DEF Admitted, CountQuiet
<1>3. CountBound'
  BY <1>0, <1>1, <1>2, CountFrame DEF CountInv, CountBound, CountQuiet
<1>. QED BY <1>1, <1>3 DEF CountInv, CountKnown, CountQuiet

(* The only reader lowers the count it has seen, or Resets it. *)
LEMMA CountRead ==
  ASSUME SoleReader, IsFiniteSet(Writers), TypeInv, CountInv,
         NEW r \in Readers, BlockingRead(r)
  PROVE  CountInv'
<1>. USE ReaderIs
<1>0. /\ PcsOK /\ count \in [Buffers -> Int] /\ \A q \in Readers : q = r
      /\ pc[r] \in Holding => target[r] \in Buffers
  BY PcsAre DEF TypeInv, TypeOK, RingTypeOK, RingsOK, SoleReader, HandsFull,
                TargetsFull
<1>1. \A b \in Buffers : Admitted(b)' \subseteq Admitted(b)
  BY ReadMoves, WriterIs DEF Others, Admitted
<1>2. CASE ReadPop(r)
  <2>. USE <1>2 DEF ReadPop, Pop, PopCheckCount, PopLoadTail, PopClaim, PopRead,
                    PopClear, PopCount, Goto, PcsOK
  <2>1. target' = target /\ target[r] \in Buffers
    <3>1. target' = target /\ pc[r] \in PopLabels
      BY DEF PopLabels
    <3>. QED BY <1>0, <3>1 DEF Holding
  <2>2. CASE PopCount(r)
    <3>1. /\ count' = [count EXCEPT ![target[r]] = @ - 1]
          /\ count[target[r]] >= 1 /\ pc'[r] = "q_done"
      BY <1>0, <2>2 DEF CountInv, CountKnown, Lowering
    <3>2. CountBound'
      BY <1>0, <1>1, <2>1, <3>1, CountFrame DEF CountInv, CountBound
    <3>. QED BY <1>0, <3>1, <3>2 DEF CountInv, CountKnown, Lowering
  <2>3. CASE ~PopCount(r)
    <3>1. count' = count
      BY <2>3 DEF ringVars
    <3>2. CountBound'
      BY <1>0, <1>1, <3>1, CountFrame DEF CountInv, CountBound
    <3>3. pc'[r] \in Lowering => count[target[r]] # 0 \/ pc[r] \in Lowering
      BY <1>0, <2>3 DEF Lowering
    <3>. QED
      BY <1>0, <2>1, <3>1, <3>2, <3>3 DEF CountInv, CountKnown, CountBound
  <2>. QED BY <2>2, <2>3
<1>3. CASE ~ReadPop(r)
  <2>1. pc'[r] \notin Lowering
    BY <1>0, <1>3
       DEF Lowering, NoData, Goto, PcsOK, BlockingRead, tryRead,
           pickBufferFromHeap, PickItem, PickCompare, PickSet, PickAdvance,
           PickPutBack, PickReturn, ReadBegin, ReadCheckNil, ReadCheckLen,
           ReadDrop, ReadTake, ReadReset, ReadForget, ReadPut, ReadMode,
           ReadEnterPop, ReadReturn, ReadRegister, ReadWoken, ReadTimeout,
           ReadLeave, Reset, ResetState, ResetCount, ResetCursors
  <2>2. CASE ResetCount(r)
    <3>1. target[r] \in Buffers /\ count' = [count EXCEPT ![target[r]] = 0]
      BY <1>0, <2>2 DEF ResetCount, Goto, Holding, ResetLabels
    <3>2. CountBound'
      BY <1>0, <1>1, <3>1, CountFrame DEF CountInv, CountBound
    <3>. QED BY <1>0, <2>1, <3>2 DEF CountInv, CountKnown
  <2>3. CASE ~ResetCount(r)
    <3>1. count' = count
      BY <1>3, <2>3
         DEF BlockingRead, tryRead, pickBufferFromHeap, PickItem, PickCompare,
             PickSet, PickAdvance, PickPutBack, PickReturn, ReadBegin,
             ReadCheckNil, ReadCheckLen, ReadDrop, ReadTake, ReadReset,
             ReadForget, ReadPut, ReadMode, ReadEnterPop, ReadReturn,
             ReadRegister, ReadWoken, ReadTimeout, ReadLeave, Reset,
             ResetState, ResetCursors, ringVars
    <3>2. CountBound'
      BY <1>0, <1>1, <3>1, CountFrame DEF CountInv, CountBound
    <3>. QED BY <1>0, <2>1, <3>2 DEF CountInv, CountKnown
  <2>. QED BY <2>2, <2>3
<1>. QED BY <1>2, <1>3

(* Initially every ring is empty and no writer is admitted. *)
LEMMA CountInit ==
  ASSUME IsFiniteSet(Writers), Init
  PROVE  CountInv
<1>1. \A t \in Threads : pc[t] \in {"idle", "m_tick", "y_tick"}
  BY DEF Init
<1>2. \A b \in Buffers : count[b] = 0 /\ Admitted(b) = {}
  BY <1>1, WriterIs DEF Init, NewSmartBuffer, Admitted
<1>3. Cardinality({}) = 0
  BY FS_EmptySet
<1>4. Cardinality(Writers) \in Nat /\ Capacity \in Nat \ {0}
  BY FS_CardinalityType, RingAssumption
<1>5. ASSUME NEW b \in Buffers
      PROVE  /\ 0 <= count[b]
             /\ count[b] + Cardinality(Admitted(b)) <= Capacity - 1 + Cardinality(Writers)
  <2>1. count[b] = 0 /\ Cardinality(Admitted(b)) = 0
    BY <1>2, <1>3
  <2>. QED BY <1>4, <2>1
<1>6. CountKnown
  BY <1>1, ReaderIs DEF CountKnown, Lowering
<1>. QED BY <1>5, <1>6 DEF CountInv, CountBound

(***************************************************************************)
(* A ring holds more than its capacity by at most one item for each writer *)
(* but one, and a count never becomes negative.  Finitely many writers,    *)
(* one reader.                                                             *)
(***************************************************************************)
THEOREM CountBoundAlways ==
  ASSUME SoleReader, IsFiniteSet(Writers)
  PROVE  Spec => []CountBound
<1>1. TypeInv /\ CountInv /\ [Next]_vars => CountInv'
  BY CountPush, CountAside, CountRead
     DEF Next, Background, Write, WriteOnly
<1>2. Init => CountInv
  BY CountInit
<1>3. CountInv => CountBound
  BY DEF CountInv
<1>. QED BY <1>1, <1>2, <1>3, TypeCorrect, PTL DEF Spec

-----------------------------------------------------------------------------
(***************************************************************************)
(* The messages.  A message lies in at most one slot, from the PushStore   *)
(* of its one Write until it is overwritten or cleared; a reader that has  *)
(* read it clears that very slot before it delivers it.  MayBeStored(m):   *)
(* its writer has come past the step that stores it.                       *)
(***************************************************************************)
MayBeStored(m) ==
  /\ m \in Messages /\ m[2] >= 1
  /\ \/ m[2] < sent[m[1]]
     \/ m[2] = sent[m[1]] /\ pc[m[1]] \in {"idle", "p_inc", "p_ok"}

InSlot(m, b, i) == m # Nil /\ buf[b][i] = m

SlotsKnown ==
  /\ \A b \in Buffers, i \in Slots : buf[b][i] # Nil => MayBeStored(buf[b][i])
  /\ \A a, b \in Buffers, i, j \in Slots :
       buf[a][i] # Nil /\ buf[a][i] = buf[b][j] => a = b /\ i = j

ItemKnown ==
  \A r \in Readers : item[r] # Nil =>
    /\ MayBeStored(item[r])
    /\ pc[r] \in {"q_clear", "q_dec", "q_done"}
    /\ \A b \in Buffers, i \in Slots :
         buf[b][i] = item[r]
           => pc[r] = "q_clear" /\ b = target[r] /\ i = calcPos(index[r])
    /\ \A j \in DOMAIN delivered : delivered[j] # item[r]

DeliveredKnown ==
  \A j \in DOMAIN delivered :
    /\ MayBeStored(delivered[j])
    /\ \A b \in Buffers, i \in Slots : buf[b][i] # delivered[j]

OfferedKnown == \A w \in Writers : pc[w] # "idle" => sent[w] >= 1

MessageInv == SlotsKnown /\ ItemKnown /\ DeliveredKnown /\ OfferedKnown

(* A step that leaves slots and items alone. *)
LEMMA MessageFrame ==
  ASSUME MessageInv,
         UNCHANGED <<buf, delivered>>, OfferedKnown',
         \A m : MayBeStored(m) => MayBeStored(m)',
         \A r \in Readers :
           \/ item'[r] = Nil
           \/ /\ UNCHANGED <<item[r], index[r], target[r]>>
              /\ \/ pc'[r] = pc[r]
                 \/ pc[r] \notin {"q_clear", "q_dec", "q_done"}
                 \/ pc[r] = "q_dec" /\ pc'[r] = "q_done"
  PROVE  MessageInv'
<1>1. SlotsKnown'
  BY DEF MessageInv, SlotsKnown
<1>2. DeliveredKnown'
  BY DEF MessageInv, DeliveredKnown
<1>3. ItemKnown'
  BY DEF MessageInv, ItemKnown, calcPos
<1>. QED BY <1>1, <1>2, <1>3 DEF MessageInv

(* A message that has been stored stays so. *)
StoredStays == \A m : MayBeStored(m) => MayBeStored(m)'

(* Every step: what has been stored stays stored, and a writer in the middle
   of a Write has offered a message. *)
LEMMA MessageStays ==
  ASSUME TypeInv, MessageInv, [Next]_vars
  PROVE  StoredStays /\ OfferedKnown'
<1>0. sent \in [Writers -> Nat] /\ PcsOK /\ Messages = Writers \X Nat
  BY PcsAre DEF Messages
<1>1. ASSUME sent' = sent,
             \A w \in Writers :
               \/ pc'[w] = pc[w]
               \/ pc[w] \notin {"idle", "p_inc", "p_ok"}
               \/ pc[w] = "p_inc" /\ pc'[w] = "p_ok"
               \/ pc[w] = "p_ok" /\ pc'[w] = "idle"
      PROVE  StoredStays /\ OfferedKnown'
  <2>1. ASSUME NEW m, MayBeStored(m) PROVE MayBeStored(m)'
    <3>1. m \in Messages /\ m[1] \in Writers /\ m[2] \in Nat
      BY <1>0, <2>1 DEF MayBeStored
    <3>. QED BY <1>0, <1>1, <2>1, <3>1 DEF MayBeStored
  <2>2. OfferedKnown'
    BY <1>1 DEF MessageInv, OfferedKnown
  <2>. QED BY <2>1, <2>2 DEF StoredStays
<1>2. ASSUME NEW w \in Writers, Write(w)
      PROVE  StoredStays /\ OfferedKnown'
  <2>. USE WriterIs
  <2>1. \A v \in Writers \ {w} : pc'[v] = pc[v]
    BY <1>2, WriteMoves DEF Others
  <2>2. CASE WriteBegin(w)
    <3>1. sent' = [sent EXCEPT ![w] = @ + 1] /\ pc[w] = "idle"
      BY <2>2 DEF WriteBegin, Goto
    <3>2. sent'[w] = sent[w] + 1 /\ \A v \in Writers \ {w} : sent'[v] = sent[v]
      BY <1>0, <3>1
    <3>3. ASSUME NEW m, MayBeStored(m) PROVE MayBeStored(m)'
      <4>1. m \in Messages /\ m[1] \in Writers /\ m[2] \in Nat
        BY <1>0, <3>3 DEF MayBeStored
      <4>2. m[1] = w => m[2] < sent'[w]
        BY <1>0, <3>2, <3>3, <4>1 DEF MayBeStored
      <4>. QED BY <1>0, <2>1, <3>2, <3>3, <4>1, <4>2 DEF MayBeStored
    <3>4. OfferedKnown'
      BY <1>0, <2>1, <3>2 DEF MessageInv, OfferedKnown
    <3>. QED BY <3>3, <3>4 DEF StoredStays
  <2>3. CASE ~WriteBegin(w)
    <3>1. sent' = sent
      BY <1>2, <2>3
         DEF Write, WriteFast, WriteLoadActive, WritePush, WriteAccepted,
             WriteFastFailed, WriteRejected, WriteLock, WriteInspect, Forget,
             localVars, Push, PushCheckState, PushCheckCount, PushMarkFull,
             PushLoadHead, PushClaim, PushStore, PushCount
    <3>2. \/ pc[w] \notin {"idle", "p_inc", "p_ok"}
          \/ pc[w] = "p_inc" /\ pc'[w] = "p_ok"
          \/ pc[w] = "p_ok" /\ pc'[w] = "idle"
      BY <1>0, <1>2, <2>3
         DEF Write, WriteFast, WriteLoadActive, WritePush, WriteAccepted,
             WriteFastFailed, WriteRejected, WriteLock, WriteInspect, Goto,
             PcsOK, Push, PushCheckState, PushCheckCount, PushMarkFull,
             PushLoadHead, PushClaim, PushStore, PushCount
    <3>. QED BY <1>1, <2>1, <3>1, <3>2
  <2>. QED BY <2>2, <2>3
<1>3. ASSUME NEW p \in Switchers, switchChannel(p)
      PROVE  StoredStays /\ OfferedKnown'
  BY <1>1, <1>3, SwitchMoves, SwitcherIs, WriterIs DEF Others, SwitchLabels
<1>4. CASE \/ Background
           \/ \E k \in Tasks : Task(k)
           \/ \E r \in Readers : BlockingRead(r)
           \/ \E c \in Closers : Close(c)
           \/ UNCHANGED vars
  <2>1. sent' = sent /\ \A w \in Writers : pc'[w] = pc[w]
    BY <1>4, BackgroundMoves, TaskMoves, ReadMoves, CloseMoves, WriterIs
       DEF Others, threadVars, vars
  <2>. QED BY <1>1, <2>1
<1>. QED BY <1>2, <1>3, <1>4 DEF Next, Background

(* The steps that touch neither a slot, nor a reader's item, nor what has
   been delivered. *)
LEMMA MessageAside ==
  ASSUME TypeInv, MessageInv, StoredStays, OfferedKnown',
         \/ \E w \in Writers : Write(w) /\ ~PushStore(w)
         \/ \E p \in Switchers : switchChannel(p)
         \/ Background
         \/ \E k \in Tasks : Task(k)
         \/ \E c \in Closers : Close(c)
         \/ UNCHANGED vars
  PROVE  MessageInv' /\ delivered' = delivered
<1>1. \A r \in Readers : UNCHANGED <<item[r], index[r], target[r], pc[r]>>
  BY WriteMoves, SwitchMoves, BackgroundMoves, TaskMoves, CloseMoves, ReaderIs
     DEF Others, threadVars, vars
<1>2. UNCHANGED <<buf, delivered>>
  <2>1. ASSUME NEW w \in Writers, Write(w), ~PushStore(w)
        PROVE  UNCHANGED <<buf, delivered>>
    <3>1. buf' = buf
      BY <2>1
         DEF Write, WriteBegin, WriteFast, WriteLoadActive, WritePush,
             WriteAccepted, WriteFastFailed, WriteRejected, WriteLock,
             WriteInspect, Push, PushCheckState, PushCheckCount, PushMarkFull,
             PushLoadHead, PushClaim, PushCount, ringVars
    <3>. QED BY <2>1, <3>1, WriteMoves
  <2>2. CASE \E p \in Switchers : switchChannel(p)
    BY <2>2, SwitchMoves
  <2>3. CASE \/ Background
             \/ \E k \in Tasks : Task(k)
             \/ \E c \in Closers : Close(c)
             \/ UNCHANGED vars
    BY <2>3, BackgroundMoves, TaskMoves, CloseMoves
       DEF ringVars, readVars, vars, dbVars, backVars
  <2>. QED BY <2>1, <2>2, <2>3
<1>. QED BY <1>1, <1>2, MessageFrame DEF StoredStays

(* A slot has a number, and the cursors name slots. *)
LEMMA CalcPos ==
  ASSUME NEW i \in Int
  PROVE  calcPos(i) \in Slots
BY RingAssumption DEF calcPos, Slots

(* A writer stores a message that is not yet anywhere. *)
LEMMA MessageStore ==
  ASSUME TypeInv, MessageInv, StoredStays, OfferedKnown',
         NEW w \in Writers, PushStore(w), UNCHANGED dbVars
  PROVE  MessageInv' /\ delivered' = delivered
<1>. USE WriterIs
<1>. DEFINE m == Message(w)   b == target[w]   i == calcPos(index[w])
<1>0. /\ sent \in [Writers -> Nat] /\ PcsOK /\ Messages = Writers \X Nat
      /\ buf \in [Buffers -> [Slots -> Messages \cup {Nil}]]
      /\ index \in [Threads -> Int] /\ Nil \notin Messages
  BY PcsAre, RingAssumption DEF Messages, TypeInv, TypeOK, RingTypeOK, RingsOK
<1>1. /\ pc[w] = "p_store" /\ pc'[w] = "p_inc"
      /\ \A t \in Threads \ {w} : pc'[t] = pc[t]
      /\ buf' = [buf EXCEPT ![b][i] = m]
      /\ UNCHANGED <<target, index, item, sent, delivered>>
  BY <1>0 DEF PushStore, Goto, PcsOK, dbVars, backVars, readVars
<1>2. b \in Buffers /\ i \in Slots
  BY <1>0, <1>1, CalcPos DEF TypeInv, HandsFull, TargetsFull, Holding, PushLabels
<1>3. m \in Messages /\ m[1] = w /\ m[2] = sent[w] /\ m # Nil
  BY <1>0 DEF Message
<1>4. ~MayBeStored(m) /\ MayBeStored(m)'
  <2>1. ~MayBeStored(m)
    BY <1>0, <1>1, <1>3 DEF MayBeStored
  <2>2. sent[w] >= 1
    BY <1>1 DEF MessageInv, OfferedKnown
  <2>3. m' = m
    BY <1>1 DEF Message
  <2>4. MayBeStored(m)'
    BY <1>0, <1>1, <1>3, <2>2, <2>3 DEF MayBeStored
  <2>. QED BY <2>1, <2>4
<1>5. m' = m /\ b' = b /\ i' = i
  BY <1>1 DEF Message, calcPos
<1>6. /\ buf'[b][i] = m
      /\ \A a \in Buffers, j \in Slots :
           a # b \/ j # i => buf'[a][j] = buf[a][j] /\ buf[a][j] # m
  <2>1. \A a \in Buffers, j \in Slots :
          buf'[a][j] = IF a = b /\ j = i THEN m ELSE buf[a][j]
    BY <1>0, <1>1, <1>2
  <2>2. \A a \in Buffers, j \in Slots : buf[a][j] # m
    BY <1>3, <1>4 DEF MessageInv, SlotsKnown
  <2>. QED BY <1>2, <2>1, <2>2
<1>. HIDE DEF m, b, i
<1>7. SlotsKnown'
  <2>1. ASSUME NEW a \in Buffers, NEW j \in Slots, buf'[a][j] # Nil
        PROVE  MayBeStored(buf[a][j])'
    <3>1. CASE a = b /\ j = i
      <4>1. buf'[a][j] = m'
        BY <1>5, <1>6, <3>1
      <4>. QED BY <1>4, <4>1
    <3>2. CASE a # b \/ j # i
      <4>1. buf'[a][j] = buf[a][j]
        BY <1>6, <3>2
      <4>2. MayBeStored(buf[a][j])
        BY <2>1, <4>1 DEF MessageInv, SlotsKnown
      <4>. QED BY <4>1, <4>2 DEF StoredStays
    <3>. QED BY <3>1, <3>2
  <2>2. ASSUME NEW a \in Buffers, NEW c \in Buffers, NEW j \in Slots,
               NEW k \in Slots, buf'[a][j] # Nil, buf'[a][j] = buf'[c][k]
        PROVE  a = c /\ j = k
    BY <1>6, <2>2 DEF MessageInv, SlotsKnown
  <2>. QED BY <2>1, <2>2 DEF SlotsKnown
<1>8. DeliveredKnown'
  <2>1. \A d \in DOMAIN delivered : delivered[d] # m
    BY <1>4 DEF MessageInv, DeliveredKnown
  <2>. QED BY <1>1, <1>6, <2>1 DEF MessageInv, DeliveredKnown, StoredStays
<1>9. ItemKnown'
  <2>1. \A r \in Readers : item[r] # m
    BY <1>3, <1>4 DEF MessageInv, ItemKnown
  <2>2. \A r \in Readers : pc'[r] = pc[r]
    BY <1>1, ReaderIs
  <2>. QED BY <1>1, <1>6, <2>1, <2>2 DEF MessageInv, ItemKnown, StoredStays, calcPos
<1>. QED BY <1>1, <1>7, <1>8, <1>9 DEF MessageInv

(* Reader r reads a slot, and clears it. *)
LEMMA MessagePop ==
  ASSUME SoleReader, TypeInv, MessageInv, StoredStays, OfferedKnown',
         NEW r \in Readers, ReadPop(r)
  PROVE  MessageInv' /\ delivered' = delivered
<1>. USE ReaderIs
<1>. DEFINE b == target[r]   i == calcPos(index[r])
<1>0. /\ item \in [Threads -> Messages \cup {Nil}] /\ PcsOK
      /\ buf \in [Buffers -> [Slots -> Messages \cup {Nil}]]
      /\ index \in [Threads -> Int] /\ \A q \in Readers : q = r
  BY PcsAre DEF TypeInv, TypeOK, RingTypeOK, RingsOK, SoleReader
<1>1. /\ \A t \in Threads \ {r} : pc'[t] = pc[t]
      /\ UNCHANGED <<target, sent, delivered>>
  BY <1>0 DEF ReadPop, Pop, PopCheckCount, PopLoadTail, PopClaim, PopRead,
              PopClear, PopCount, Goto, PcsOK, dbVars, backVars, readVars
<1>2. pc[r] \in PopLabels => b \in Buffers /\ i \in Slots
  BY <1>0, CalcPos DEF TypeInv, HandsFull, TargetsFull, Holding
<1>3. CASE PopRead(r)
  <2>1. /\ pc[r] = "q_read" /\ pc'[r] = "q_clear" /\ item'[r] = buf[b][i]
        /\ UNCHANGED <<buf, index>>
    BY <1>0, <1>3 DEF PopRead, Goto, PcsOK, ringVars
  <2>2. b \in Buffers /\ i \in Slots
    BY <1>2, <2>1 DEF PopLabels
  <2>3. i' = i /\ b' = b
    BY <1>1, <2>1 DEF calcPos
  <2>. HIDE DEF b, i
  <2>4. SlotsKnown'
    BY <2>1 DEF MessageInv, SlotsKnown, StoredStays
  <2>5. DeliveredKnown'
    BY <1>1, <2>1 DEF MessageInv, DeliveredKnown, StoredStays
  <2>6. ASSUME item'[r] # Nil
        PROVE  /\ MayBeStored(item[r])'
               /\ \A a \in Buffers, j \in Slots :
                    buf'[a][j] = item'[r] => a = b /\ j = i
               /\ \A d \in DOMAIN delivered : delivered[d] # item'[r]
    <3>1. MayBeStored(buf[b][i])
      BY <2>1, <2>2, <2>6 DEF MessageInv, SlotsKnown
    <3>2. MayBeStored(item[r])'
      <4>1. \A x : x = buf[b][i] => MayBeStored(x)'
        BY <3>1 DEF StoredStays
      <4>. QED BY <2>1, <4>1 DEF MayBeStored
    <3>. QED
      BY <2>1, <2>2, <2>6, <3>2 DEF MessageInv, SlotsKnown, DeliveredKnown
  <2>7. ItemKnown'
    BY <1>0, <1>1, <2>1, <2>3, <2>6 DEF ItemKnown, b, i
  <2>. QED BY <1>1, <2>4, <2>5, <2>7 DEF MessageInv
<1>4. CASE PopClear(r)
  <2>1. /\ pc[r] = "q_clear" /\ pc'[r] = "q_dec"
        /\ buf' = [buf EXCEPT ![b][i] = Nil] /\ UNCHANGED <<item, index>>
    BY <1>0, <1>4 DEF PopClear, Goto, PcsOK
  <2>2. b \in Buffers /\ i \in Slots
    BY <1>2, <2>1 DEF PopLabels
  <2>3. \A a \in Buffers, j \in Slots :
          buf'[a][j] = IF a = b /\ j = i THEN Nil ELSE buf[a][j]
    BY <1>0, <2>1, <2>2
  <2>4. SlotsKnown'
    <3>1. ASSUME NEW a \in Buffers, NEW j \in Slots, buf'[a][j] # Nil
          PROVE  MayBeStored(buf[a][j])'
      <4>1. buf'[a][j] = buf[a][j]
        BY <2>3, <3>1
      <4>2. MayBeStored(buf[a][j])
        BY <3>1, <4>1 DEF MessageInv, SlotsKnown
      <4>3. \A x : x = buf[a][j] => MayBeStored(x)'
        BY <4>2 DEF StoredStays
      <4>. QED BY <4>1, <4>3 DEF MayBeStored
    <3>. QED BY <2>3, <3>1 DEF MessageInv, SlotsKnown
  <2>5. DeliveredKnown'
    <3>1. \A d \in DOMAIN delivered : delivered[d] # Nil
      BY RingAssumption DEF MessageInv, DeliveredKnown, MayBeStored, Messages
    <3>. QED BY <1>1, <2>3, <3>1 DEF MessageInv, DeliveredKnown, StoredStays
  <2>6. ItemKnown'
    BY <1>0, <1>1, <2>1, <2>3 DEF MessageInv, ItemKnown, StoredStays
  <2>. QED BY <1>1, <2>4, <2>5, <2>6 DEF MessageInv
<1>5. CASE ~PopRead(r) /\ ~PopClear(r)
  <2>1. buf' = buf
    BY <1>5 DEF ReadPop, Pop, PopCheckCount, PopLoadTail, PopClaim, PopCount,
                ringVars
  <2>2. \/ item'[r] = Nil
        \/ /\ UNCHANGED <<item[r], index[r], target[r]>>
           /\ \/ pc[r] \notin {"q_clear", "q_dec", "q_done"}
              \/ pc[r] = "q_dec" /\ pc'[r] = "q_done"
        \/ pc[r] = "q_tail" /\ item'[r] = item[r]
    BY <1>0, <1>1, <1>5
       DEF ReadPop, Pop, PopCheckCount, PopLoadTail, PopClaim, PopCount, Goto,
           PcsOK
  <2>3. pc[r] = "q_tail" => item[r] = Nil
    BY DEF MessageInv, ItemKnown
  <2>. QED BY <1>0, <1>1, <2>1, <2>2, <2>3, MessageFrame DEF StoredStays
<1>. QED BY <1>3, <1>4, <1>5 DEF ReadPop, Pop

(* Reader r delivers what it has read, or does something else. *)
LEMMA MessageRead ==
  ASSUME SoleReader, TypeInv, MessageInv, StoredStays, OfferedKnown',
         NEW r \in Readers, BlockingRead(r), ~ReadPop(r)
  PROVE  /\ MessageInv'
         /\ \/ delivered' = delivered
            \/ \E w \in Writers : \E n \in 1 .. sent[w] : Channel!Deliver(w, n)
<1>. USE ReaderIs
<1>0. /\ item \in [Threads -> Messages \cup {Nil}] /\ PcsOK
      /\ target \in [Threads -> Buffers \cup {Nil}]
      /\ index \in [Threads -> Int] /\ \A q \in Readers : q = r
      /\ delivered \in Seq(Messages) /\ Messages = Writers \X Nat
      /\ sent \in [Writers -> Nat]
  BY PcsAre DEF TypeInv, TypeOK, BackTypeOK, SoleReader, Messages
<1>1. sent' = sent
  BY ReadMoves
<1>2. buf' = buf
  BY DEF BlockingRead, tryRead, pickBufferFromHeap, PickItem, PickCompare,
         PickSet, PickAdvance, PickPutBack, PickReturn, ReadBegin,
         ReadCheckNil, ReadCheckLen, ReadDrop, ReadTake, ReadReset,
         ReadForget, ReadPut, ReadMode, ReadEnterPop, ReadReturn, ReadRegister,
         ReadWoken, ReadTimeout, ReadLeave, Reset, ResetState, ResetCount,
         ResetCursors, ringVars
<1>3. CASE ReadReturn(r)
  <2>1. /\ pc[r] = "q_done" /\ item'[r] = Nil
        /\ \/ item[r] # Nil /\ delivered' = Append(delivered, item[r])
           \/ delivered' = delivered
    BY <1>0, <1>3 DEF ReadReturn, Goto, Forget
  <2>2. CASE delivered' = delivered
    BY <1>0, <1>2, <2>1, <2>2, MessageFrame DEF StoredStays
  <2>3. CASE item[r] # Nil /\ delivered' = Append(delivered, item[r])
    <3>1. /\ MayBeStored(item[r])
          /\ \A b \in Buffers, i \in Slots : buf[b][i] # item[r]
          /\ \A j \in DOMAIN delivered : delivered[j] # item[r]
      BY <2>1, <2>3 DEF MessageInv, ItemKnown
    <3>. DEFINE m == item[r]
    <3>2. m \in Messages /\ MayBeStored(m)
      BY <3>1 DEF MayBeStored
    <3>3. \A x : x = m => MayBeStored(x)'
      BY <3>2 DEF StoredStays
    <3>4. /\ \A b \in Buffers, i \in Slots : buf[b][i] # m
          /\ \A j \in DOMAIN delivered : delivered[j] # m
          /\ delivered' = Append(delivered, m)
      BY <2>3, <3>1
    <3>. HIDE DEF m
    <3>5. SlotsKnown'
      BY <1>2 DEF MessageInv, SlotsKnown, StoredStays
    <3>6. ItemKnown'
      BY <1>0, <2>1 DEF ItemKnown
    <3>7. \A j \in DOMAIN delivered' :
            \/ j \in DOMAIN delivered /\ delivered'[j] = delivered[j]
            \/ delivered'[j] = m
      BY <1>0, <3>2, <3>4
    <3>8. DeliveredKnown'
      <4>1. ASSUME NEW j \in DOMAIN delivered'
            PROVE  /\ MayBeStored(delivered[j])'
                   /\ \A b \in Buffers, i \in Slots : buf'[b][i] # delivered'[j]
        <5>1. CASE j \in DOMAIN delivered /\ delivered'[j] = delivered[j]
          <6>1. MayBeStored(delivered[j])
            BY <5>1 DEF MessageInv, DeliveredKnown
          <6>2. \A x : x = delivered[j] => MayBeStored(x)'
            BY <6>1 DEF StoredStays
          <6>3. MayBeStored(delivered[j])'
            BY <5>1, <6>2 DEF MayBeStored
          <6>. QED BY <1>2, <5>1, <6>3 DEF MessageInv, DeliveredKnown
        <5>2. CASE delivered'[j] = m
          <6>1. MayBeStored(delivered[j])'
            BY <3>3, <5>2 DEF MayBeStored
          <6>. QED BY <1>2, <3>4, <5>2, <6>1
        <5>. QED BY <3>7, <4>1, <5>1, <5>2
      <4>. QED BY <4>1 DEF DeliveredKnown
    <3>9. \E w \in Writers : \E n \in 1 .. sent[w] : Channel!Deliver(w, n)
      <4>1. PICK w \in Writers, n \in Nat : m = <<w, n>>
        BY <1>0, <3>2
      <4>2. n \in 1 .. sent[w]
        BY <1>0, <3>2, <4>1 DEF MayBeStored
      <4>3. Channel!Deliver(w, n)
        BY <1>1, <3>4, <4>1, <4>2 DEF Channel!Deliver
      <4>. QED BY <4>2, <4>3
    <3>. QED BY <3>5, <3>6, <3>8, <3>9 DEF MessageInv
  <2>. QED BY <2>1, <2>2, <2>3
<1>4. CASE ~ReadReturn(r)
  <2>1. delivered' = delivered
    BY <1>4
       DEF BlockingRead, tryRead, pickBufferFromHeap, PickItem, PickCompare,
           PickSet, PickAdvance, PickPutBack, PickReturn, ReadBegin,
           ReadCheckNil, ReadCheckLen, ReadDrop, ReadTake, ReadReset,
           ReadForget, ReadPut, ReadMode, ReadEnterPop, ReadRegister,
           ReadWoken, ReadTimeout, ReadLeave, Reset, ResetState, ResetCount,
           ResetCursors, dbVars, backVars, readVars
  <2>2. pc[r] \notin {"q_clear", "q_dec", "q_done"}
    BY <1>4
       DEF Goto, BlockingRead, tryRead, pickBufferFromHeap, PickItem,
           PickCompare, PickSet, PickAdvance, PickPutBack, PickReturn,
           ReadBegin, ReadCheckNil, ReadCheckLen, ReadDrop, ReadTake,
           ReadReset, ReadForget, ReadPut, ReadMode, ReadEnterPop,
           ReadRegister, ReadWoken, ReadTimeout, ReadLeave, Reset, ResetState,
           ResetCount, ResetCursors
  <2>3. item[r] = Nil
    BY <2>2 DEF MessageInv, ItemKnown
  <2>4. item'[r] = Nil
    BY <1>0, <1>4, <2>3
       DEF BlockingRead, tryRead, pickBufferFromHeap, PickItem, PickCompare,
           PickSet, PickAdvance, PickPutBack, PickReturn, ReadBegin,
           ReadCheckNil, ReadCheckLen, ReadDrop, ReadTake, ReadReset,
           ReadForget, ReadPut, ReadMode, ReadEnterPop, ReadRegister,
           ReadWoken, ReadTimeout, ReadLeave, Reset, ResetState, ResetCount,
           ResetCursors, Forget, localVars
  <2>. QED BY <1>0, <1>2, <2>1, <2>4, MessageFrame DEF StoredStays
<1>. QED BY <1>3, <1>4

(* Initially there is no message, here or in the channel. *)
LEMMA MessageInit == Init => MessageInv /\ Channel!ChannelInit
<1>. SUFFICES ASSUME Init PROVE MessageInv /\ Channel!ChannelInit
  OBVIOUS
<1>1. \A t \in Threads : pc[t] \in {"idle", "m_tick", "y_tick"} /\ item[t] = Nil
  BY DEF Init
<1>2. \A w \in Writers : pc[w] = "idle"
  BY WriterIs DEF Init
<1>3. SlotsKnown
  BY DEF Init, NewSmartBuffer, EmptySlots, SlotsKnown
<1>4. ItemKnown
  BY <1>1, ReaderIs DEF ItemKnown
<1>5. DeliveredKnown
  BY DEF Init, DeliveredKnown
<1>6. OfferedKnown
  BY <1>2 DEF OfferedKnown
<1>7. Channel!ChannelInit
  BY DEF Init, Channel!ChannelInit
<1>. QED BY <1>3, <1>4, <1>5, <1>6, <1>7 DEF MessageInv

(* Every step keeps the messages known and is a step of the channel or none. *)
LEMMA MessageNext ==
  ASSUME SoleReader, TypeInv, MessageInv, [Next]_vars
  PROVE  MessageInv' /\ [Channel!ChannelNext]_<<sent, delivered>>
<1>0. StoredStays /\ OfferedKnown'
  BY MessageStays
<1>1. ASSUME NEW w \in Writers, Write(w)
      PROVE  MessageInv' /\ [Channel!ChannelNext]_<<sent, delivered>>
  <2>1. MessageInv' /\ delivered' = delivered
    <3>1. CASE PushStore(w)
      <4>1. UNCHANGED dbVars
        BY <1>1, <3>1
           DEF PushStore, Write, WriteBegin, WriteFast, WriteLoadActive,
               WritePush, WriteAccepted, WriteFastFailed, WriteRejected,
               WriteLock, WriteInspect, Goto
      <4>. QED BY <1>0, <3>1, <4>1, MessageStore
    <3>2. CASE ~PushStore(w)
      BY <1>0, <1>1, <3>2, MessageAside
    <3>. QED BY <3>1, <3>2
  <2>2. CASE WriteBegin(w)
    <3>1. sent' = [sent EXCEPT ![w] = @ + 1]
      BY <2>2 DEF WriteBegin
    <3>2. Channel!Offer(w)
      BY <2>1, <3>1 DEF Channel!Offer
    <3>. QED BY <2>1, <3>2 DEF Channel!ChannelNext
  <2>3. CASE ~WriteBegin(w)
    <3>1. sent' = sent
      BY <1>1, <2>3
         DEF Write, WriteFast, WriteLoadActive, WritePush, WriteAccepted,
             WriteFastFailed, WriteRejected, WriteLock, WriteInspect, Forget,
             localVars, Push, PushCheckState, PushCheckCount, PushMarkFull,
             PushLoadHead, PushClaim, PushStore, PushCount
    <3>. QED BY <2>1, <3>1
  <2>. QED BY <2>2, <2>3
<1>2. CASE \/ \E p \in Switchers : switchChannel(p)
           \/ Background
           \/ \E k \in Tasks : Task(k)
           \/ \E c \in Closers : Close(c)
           \/ UNCHANGED vars
  <2>1. MessageInv' /\ delivered' = delivered
    BY <1>0, <1>2, MessageAside
  <2>2. sent' = sent
    BY <1>2, SwitchMoves, BackgroundMoves, TaskMoves, CloseMoves
       DEF threadVars, vars
  <2>. QED BY <2>1, <2>2
<1>3. ASSUME NEW r \in Readers, BlockingRead(r)
      PROVE  MessageInv' /\ [Channel!ChannelNext]_<<sent, delivered>>
  <2>1. sent' = sent
    BY <1>3, ReadMoves
  <2>2. /\ MessageInv'
        /\ \/ delivered' = delivered
           \/ \E w \in Writers : \E n \in 1 .. sent[w] : Channel!Deliver(w, n)
    <3>1. CASE ReadPop(r)
      BY <1>0, <3>1, MessagePop
    <3>2. CASE ~ReadPop(r)
      BY <1>0, <1>3, <3>2, MessageRead
    <3>. QED BY <3>1, <3>2
  <2>3. ASSUME NEW w \in Writers, NEW n \in 1 .. sent[w], Channel!Deliver(w, n)
        PROVE  Channel!ChannelNext
    BY <2>3 DEF Channel!ChannelNext
  <2>. QED BY <2>1, <2>2, <2>3
<1>. QED BY <1>1, <1>2, <1>3 DEF Next, Background

(***************************************************************************)
(* The program implements the abstract channel: whatever the interleaving  *)
(* of writers, switches, the reader and Close, and however the rings wrap  *)
(* around or are overrun by late writers, a message that is delivered has  *)
(* been offered and is delivered once.  One reader.                        *)
(***************************************************************************)
THEOREM ImplementsChannelAlways ==
  ASSUME SoleReader
  PROVE  Spec => ImplementsChannel
<1>1. TypeInv /\ MessageInv /\ [Next]_vars
        => MessageInv' /\ [Channel!ChannelNext]_<<sent, delivered>>
  BY MessageNext
<1>. QED
  BY <1>1, MessageInit, TypeCorrect, PTL
     DEF Spec, ImplementsChannel, Channel!ChannelSpec

-----------------------------------------------------------------------------
(* Products of natural numbers grow with each factor. *)
LEMMA MultiplyLess ==
  ASSUME NEW a \in Nat, NEW b \in Nat, NEW c \in Nat, a <= b
  PROVE  /\ a * c \in Nat /\ b * c \in Nat /\ a * c <= b * c
         /\ c * a \in Nat /\ c * b \in Nat /\ c * a <= c * b
  OBVIOUS

(***************************************************************************)
(* A decision to switch is never taken back while the buffer fills and the *)
(* time goes on: a writer that the monitor has overlooked at one tick is   *)
(* not forgotten at the next.  (switch_strategy.go:35)                     *)
(***************************************************************************)
THEOREM DefaultMonotone ==
  ASSUME NEW filled \in Nat, NEW later \in Nat, filled <= later,
         NEW elapsed \in Nat, NEW longer \in Nat, elapsed <= longer,
         NEW bufferSize \in Int, NEW interval \in Nat,
         TimeWeight \in Nat, SizeWeight \in Nat, FullCapacity \in Nat,
         DefaultNeedSwitch(filled, bufferSize, elapsed, interval)
  PROVE  DefaultNeedSwitch(later, bufferSize, longer, interval)
<1> DEFINE size == Size(bufferSize)
<1>1. size \in Nat BY DEF Size, MinBufferSize
<1>2. CASE filled >= size \/ elapsed >= interval
  BY <1>1, <1>2 DEF DefaultNeedSwitch
<1>3. CASE Combined(filled, size, elapsed, interval)
  <2>1. elapsed * size <= longer * size /\ filled * interval <= later * interval
    BY <1>1, MultiplyLess
  <2>2. /\ {elapsed * size, longer * size, filled * interval, later * interval} \subseteq Nat
        /\ FullCapacity * (interval * size) \in Nat
    BY <1>1, MultiplyLess
  <2>3. /\ TimeWeight * (elapsed * size) <= TimeWeight * (longer * size)
        /\ SizeWeight * (filled * interval) <= SizeWeight * (later * interval)
    BY <2>1, <2>2, MultiplyLess
  <2>4. /\ {TimeWeight * (elapsed * size), TimeWeight * (longer * size),
            SizeWeight * (filled * interval), SizeWeight * (later * interval)} \subseteq Nat
    BY <2>2, MultiplyLess
  <2>5. Combined(later, size, longer, interval)
    <3> DEFINE a == TimeWeight * (elapsed * size)  b == TimeWeight * (longer * size)
               c == SizeWeight * (filled * interval)  d == SizeWeight * (later * interval)
               e == FullCapacity * (interval * size)
    <3>1. a + c >= e BY <1>3 DEF Combined
    <3>2. b + d >= e
      <4> HIDE DEF a, b, c, d, e
      <4>1. a \in Nat /\ b \in Nat /\ c \in Nat /\ d \in Nat /\ e \in Nat /\ a <= b /\ c <= d
        BY <2>2, <2>3, <2>4 DEF a, b, c, d, e
      <4> QED BY <3>1, <4>1
    <3> QED BY <3>2 DEF Combined
  <2> QED BY <2>5 DEF DefaultNeedSwitch
<1> QED BY <1>2, <1>3 DEF DefaultNeedSwitch

(***************************************************************************)
(* The default switches before the buffer is full and before it is due     *)
(* only if both have come a good part of the way: neither a burst of       *)
(* writes nor a wait is enough alone.  With 0.4, 0.6 and 0.85, the buffer  *)
(* is filled by more than 3/4 and more than 5/8 of the time is over.       *)
(* (switch_strategy.go:52)                                                 *)
(***************************************************************************)
THEOREM DefaultEarly ==
  ASSUME NEW filled \in Nat, NEW bufferSize \in Nat \ {0},
         NEW elapsed \in Nat, NEW interval \in Nat,
         TimeWeight \in Nat \ {0}, SizeWeight \in Nat \ {0}, FullCapacity \in Nat,
         DefaultNeedSwitch(filled, bufferSize, elapsed, interval),
         filled < bufferSize, elapsed < interval
  PROVE  /\ SizeWeight * filled > (FullCapacity - TimeWeight) * bufferSize
         /\ TimeWeight * elapsed > (FullCapacity - SizeWeight) * interval
<1>1. Combined(filled, bufferSize, elapsed, interval)
  BY DEF DefaultNeedSwitch, Size, MinBufferSize
<1> DEFINE x == SizeWeight * filled - (FullCapacity - TimeWeight) * bufferSize
           y == TimeWeight * elapsed - (FullCapacity - SizeWeight) * interval
<1>2. x \in Int /\ y \in Int /\ interval > 0
  OBVIOUS
<1>3. interval * x >= TimeWeight * (bufferSize * (interval - elapsed))
  BY <1>1, SMTT(30) DEF Combined
<1>4. bufferSize * y >= SizeWeight * (interval * (bufferSize - filled))
  BY <1>1, SMTT(30) DEF Combined
<1>5. bufferSize * (interval - elapsed) > 0 /\ interval * (bufferSize - filled) > 0
  BY <1>2
<1>6. TimeWeight * (bufferSize * (interval - elapsed)) > 0
  BY <1>5
<1>7. SizeWeight * (interval * (bufferSize - filled)) > 0
  BY <1>5
<1>8. x > 0
  <2> HIDE DEF x
  <2> QED BY <1>2, <1>3, <1>6
<1>9. y > 0
  <2> HIDE DEF y
  <2> QED BY <1>2, <1>4, <1>7
<1> QED BY <1>8, <1>9

(***************************************************************************)
(* The default never waits longer than either of the other two, so that a  *)
(* buffer that is full or due is switched whichever strategy is chosen     *)
(* from them.  Size 0 makes the difference: SizeOnlyStrategy then switches *)
(* all the time, the default waits for one message or the time.            *)
(* (switch_strategy.go:35, :66, :76)                                       *)
(***************************************************************************)
THEOREM DefaultSwitchesFirst ==
  ASSUME NEW filled \in Nat, NEW bufferSize \in Nat, NEW elapsed \in Nat, NEW interval \in Nat,
         \/ SizeOnlyNeedSwitch(filled, bufferSize, elapsed, interval) /\ bufferSize # 0
         \/ TimeWindowOnlyNeedSwitch(filled, bufferSize, elapsed, interval)
  PROVE  DefaultNeedSwitch(filled, bufferSize, elapsed, interval)
BY DEF SizeOnlyNeedSwitch, TimeWindowOnlyNeedSwitch, DefaultNeedSwitch, Size, MinBufferSize
=============================================================================
