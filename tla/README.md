# TurboStream in TLA+

TurboStream is a Go library that buffers messages between writers and
readers.  This directory holds TLA+ modules of its core, the configurations
with which TLC checks them on small instances, and proofs, checked by TLAPS,
of theorems that hold for every value of the constants.  Paths such as
`double_buffer.go` are relative to `src/`.

## 1. The system

| component | state | operations |
|---|---|---|
| `DoubleBuffer` (`double_buffer.go`) | the state Writing / Switching / Closed, the rings `active` and `passive`, `count`, two locks, a `sync.Pool` of rings, `sequence`, `currentSequence`, `pendingHeap`, `currentBuffer`, `readMode`, the channel `stop` | `Write`, `switchChannel`, `swapMonitor`, the goroutine a switch spawns, `RegisterReadMode`, `tryRead`, `pickBufferFromHeap`, `BlockingRead`, `Close`, `drainProcessor`, `asyncRecycleWorker` |
| `SmartBuffer` (`component/smart_buffer.go`) | an array of slots, `head`, `tail`, `count`, a write state | `Push`, `Pop`, `Reset`, `SetState`, `GetState`, `Len` |
| `WrapHeap`, `MinHeap` (`min_heap.go`) | an array of items with their index, a mutex | `Push`, `Pick`, `PeekFirst`, `Len` |
| `WaiterManager` (`waiters.go`) | a map from ids to channels, a pool of channels, `closed` | `register`, `unregister`, `notify`, `Close` |
| `LifeCycleManager` (`life_cycle.go`, `chunk.go`) | a `sync.Pool` of small slices, a map of addresses to times, a map of addresses to reference counts | `Put`, `IsValid`, `Release`, `Free`, `Cleanup` |
| `BufferQueue` (`queue.go`) | a linked list, an eviction policy, a closed flag | `Push`, `Pick`, `SetEvictPolicy`, `Reset`, `autoEvict`, `Close` |
| `SwitchStrategy` (`switch_strategy.go`) | none | three predicates `needSwitch` |
| `sizePool`, `smallPool` (`poolx/small_pool.go`) | a channel of buffers and a counter per size | `Alloc`, `Free` |
| `BatchCollectImpl` (`metrics/batch_collector.go`), `Prometheus` (`metrics/prometheus.go`) | counters; what is shown of them | `Record...`, `report`, `Flush`, `Start`, `Stop`; `Observe...` |

`poolx/slab.go` and its neighbours are unfinished, `types.go`,
`backpressure.go` and `buffers/` declare interfaces, `mocks/` is generated.

How they interact.  `Write` pushes into the active ring, first without a lock
while the state is Writing, then, if that fails, under `writeLock`, switching
the rings when the active one is full.  A switch, decided by a writer or by
the monitor, is guarded by a compare-and-swap of the state and then by
`switchLock`; it makes the old ring read-only, puts the passive ring in its
place and a pooled one in the place of the passive, and spawns a goroutine
that gives the old ring a sequence number, pushes it on the heap and notifies
the waiters.  `BlockingRead` pops from `currentBuffer`; when this is empty it
Resets it, gives it to the pool and picks from the heap the ring whose number
is `currentSequence`.  A reader without data registers with the
`WaiterManager` and waits for a notification, its context or `stop`.  `Close`
closes `stop`, pools the rings, waits for the two background goroutines and
drains the heap.

`BufferQueue`, the size pools and the metrics stand beside this core: nothing
in the repository calls them yet.  `BufferQueue` is driven by its callers and
by its own goroutine `autoEvict`, which share an eviction policy that is not
part of the repository.  The collector's counters are added to by any
goroutine and taken to Prometheus by a worker every five seconds and by
whoever calls `Flush`.

What is hard here: `active`, `passive`, `currentBuffer` and the fields that
`Reset` writes are read and written without a common lock; a writer may hold a
ring that has been switched out, read and reused meanwhile; the sequence
numbers are taken in goroutines of their own, in any order; the capacity of a
ring is checked on a counter that is raised later; a notification may come
before the registration it is meant for; and `Close` may come at any moment of
all that.  `PROJECT.json` lists these hazards line by line.

What makes each part correct:

- DoubleBuffer: every ring has one owner; a ring that is handed over admits no
  Push that begins after the hand-over; no sequence number is lost or used
  twice; one switch at a time; Closed is final; a message is delivered at most
  once; every call returns; every ring that is switched out is read in the end.
- SmartBuffer: for one writer and one reader a bounded FIFO, also across the
  wrap of its 32-bit cursors; for more writers, a bounded overshoot.
- WrapHeap: a priority queue, with the heap order and the index of every item
  kept through each operation.
- WaiterManager: no notification is stale, none is lost, no channel is in two
  places, none is sent on a closed channel.
- LifeCycleManager: a small buffer has one owner and keeps its bytes until the
  chunk is Released; the cleanup takes no entry that is in use; the size the
  pool reports covers its entries.
- BufferQueue: items leave in order, each at most once; what is missing has
  been evicted and counted; a closed queue takes no new call, its channel is
  closed once and its worker ends.
- BatchCollector: what is recorded is shown, and at most as often as reports
  overlap, as far as a report that loads a counter and zeroes it later can
  promise that.
- Size pools: a buffer has one holder, what comes out of a channel has its
  capacity, the counter agrees with the channel.
- SwitchStrategy: the decision is monotone, and an early switch needs both
  factors.

## 2. Modules

| module | models | grain of a step |
|---|---|---|
| `SmartBuffer` | `component/smart_buffer.go`: `Push`, `Pop`, `Reset` of a family of rings | one access to shared memory |
| `DoubleBuffer` (extends it) | `double_buffer.go`, all goroutines | one access to shared memory, or a section under a lock nobody sees through |
| `DoubleBufferProperties` | the properties of the above, its fairness | |
| `SharedRing` (extends `SmartBuffer`) | one ring with free-running writers and readers | one access to shared memory |
| `WrapHeap` | `min_heap.go` with the sifting of `container/heap` | one swap; the mutex keeps the others out |
| `WaiterManager` | `waiters.go` and what `BlockingRead` does with it | one method (all of it is under a mutex) |
| `LifeCycle` | `life_cycle.go`, `chunk.go`, and of `double_buffer.go` the choice of a pool in `Write`, `safeRead`, `zeroCopyRead`, `recycle`, `asyncRecycleWorker` | one method of a pool (all of it is under a mutex), with the `Pop` or the change of memory that goes with it |
| `BufferQueue` | `queue.go` | what happens before a mutex, or under it |
| `BatchCollector` | `metrics/batch_collector.go` with the `Observe...` methods of `metrics/prometheus.go` | one atomic operation |
| `SmallPool` | `poolx/small_pool.go` | one use of a channel or of a counter |
| `SwitchStrategy` | `switch_strategy.go`: operators | |
| `AtMostOnceChannel` | what a DoubleBuffer promises its reader | |
| `BoundedFifo` | what a ring promises one writer and one reader | |
| `PriorityQueue` | what the heap promises its callers | |
| `LossyQueue` | what a `BufferQueue` promises its callers | |
| `MC*` | instances for TLC | |
| `*_proofs` | theorems and their proofs | |

### State and actions against the code

A goroutine `t` is at the label `pc[t]`; its local variables are `target[t]`
(the ring), `index[t]` (the cursor value it loaded) and `item[t]` (what it
popped).  Labels `p_...` are lines of `Push`, `q_...` of `Pop`, `z_...` of
`Reset`, `w_...` of `Write`, `s_...` of `switchChannel`, `t_...` of `tryRead`,
`k_...` of `pickBufferFromHeap`, `b_...` of `BlockingRead`, `c_...` of
`Close`; `panic` is a nil pointer dereference.  The goroutine spawned by the
k-th switch is task `k`, with `tpc`, `tbuf`, `tseq`, `tlen`.  `accepted`,
`delivered` (DoubleBuffer) and `popped` (SharedRing) are history variables.

Abstractions, each with its reason:

- A message is a pair of writer and number, `Nil` an empty slot.  The three
  size classes and the pools of the `LifeCycleManager` are left out of
  `DoubleBuffer`: they hang on the message's address and never influence a
  ring.  Both read modes therefore are the same `Pop`.  `LifeCycle` in turn
  leaves out the rings: a read may pop any message that has been accepted, and
  a message that is lost is one that is never read.
- A slot (two words) is read and stored in one step.
- `Pop` reads its slot up to three times until an item appears; the last read
  decides, so one read stands for the three, at any later moment.  `Push`
  looks at an occupied slot three times and then overwrites it: the looks have
  no effect.
- The load of `d.active` in `Write` and that ring's state are one step in
  `WriteInspect`; so are the load of `currentBuffer` and its count in
  `ReadCheckLen`.  The deferred unlock of `writeLock` is part of the return.
- `SmartBuffer.Write` tests for a closed state that nothing ever sets on a
  ring, so it is `Push`.
- `sync.Pool` hands out any pooled ring or a new one (it may drop objects);
  `pool[b]` counts how often ring `b` has been put, since putting one twice is
  what can go wrong.
- The pending heap of `DoubleBuffer` is a set of items, of which one with the
  least number is taken; `WrapHeap` is shown to implement just that.
- In `DoubleBuffer`, `needSwitch` is a free choice between "the count has
  reached the size" and "the time has come" (`MaxTimeouts` times).
  `DefaultStrategy`, which is in `SwitchStrategy`, weighs both factors, which
  lies between the two.
- The notification runs in a goroutine that the spawned one spawns; it is the
  rest of the task.  The two reads of one goroutine that no other step can
  tell apart are one.
- In `WaiterManager` a registered channel is empty (`RegisteredIsEmpty`,
  proved), so that every send of a first batch succeeds and `notify`'s loop
  ends after it.
- In `WrapHeap` a caller pushes an item it holds, that is, one that is not in
  the heap: `DoubleBuffer` pushes fresh items or those it has picked.
- In `LifeCycle` the bytes at an address are the number of the message whose
  they are; a caller fills one of a few slices anew and writes it, at any time,
  whatever messages still point to it, which also stands for an address that
  is allocated again.  A map entry of the medium pool has an age instead of a
  time.  `owner` and `maxSize` are never read.  A message has at least one
  byte, since `Write` of an empty one panics.
- In `BufferQueue` the eviction policy is external: when it is asked it evicts
  any items, or none, of a list it has been shown before.  `Push` shows it an
  empty context (`queue.go:119`), so that it goes by the list `autoEvict`
  showed it last.  A `Reset` makes a new list; the old ones stay in the model
  because the policy may still know them.  What is left of a list after an
  eviction (`Without`) is defined by the ranks of the positions that stay and
  not by `SelectSeq`, of which the provers know nothing; an assumption of
  `MCBufferQueue` compares the two.
- In `BatchCollector` a call is a script of the atomic operations it makes, in
  order, and an amount is 1.  The load of a counter and the addition to a
  Prometheus counter are one step, since to the latter everybody only adds.  A
  report's *window* of a counter is the time between its load and its store of
  zero; the history `together` is the greatest number of reports that have been
  in a counter's window at once. The gauges of the active ring, the latency and
  the skipped switches are modelled, but their values are not sums (they are
  overwritten, or say only that a report was made) and the properties leave
  them out, `Summed`.
- In `SmallPool` any goroutine may free what another has allocated, but no
  buffer is freed twice, and a holder may cut a buffer, which lowers its
  capacity.  What is freed and not kept is left to the garbage collector.
- In `SwitchStrategy` the quotients of the program are multiplied crosswise;
  floating-point rounding is left out.
- `container/heap`, `sync/atomic`, `sync.Pool` and the scheduler are external;
  the first is modelled from its documented algorithm, which `min_heap.go`
  drives through `Less`, `Swap`, `Push` and `Pop`.

Bounds, all named in the modules: `MaxBuffers`, `MaxSwitches`, `MaxWrites`,
`MaxTimeouts` (DoubleBuffer), `MaxPushes` (SharedRing), `MaxChannels`,
`MaxIds`, `DataSizes` (WaiterManager), `Size` (WrapHeap), `MaxWrites`,
`Slices`, `Bufs` (LifeCycle, whose `MaxCleanCounts` is 200 in the program and 0
in the run, so that a cleanup is cut off), `MaxItems`, `MaxLists` (BufferQueue),
`Recorded`, `MaxRecords`, `MaxFlushes` (BatchCollector), and `MaxInt32`,
which is `2^31 - 1` in the program and so small in the runs that the cursors
wrap around.

## 3. What TLC checks

| run | question | bounds and why they are enough |
|---|---|---|
| `MCDoubleBuffer` | `TypeOK`, `SingleOwner`, `PendingReadOnly` | one writer, one reader, rings of one slot, one write, three switches, each for the time, three rings: the ring a writer holds can be switched out, read, pooled, reused as passive and as active again before the writer goes on |
| `MCDoubleBufferWriters` | `SequenceKept`, `CountBound`, `SwitchExclusive`, `ImplementsChannel` | two writers race for one slot: three goroutines may switch, two may pass the capacity check together, two rings may wait on the heap |
| `MCDoubleBufferReaders` | `SequenceKept` with two readers | two items on the heap, picked in any order and put back by either |
| `MCDoubleBufferClose` | `SingleOwner`, `NoNilBuffer`, `ClosedIsFinal` | Close at every moment of two switches, one of them for the time, with empty and with filled rings |
| `MCDoubleBufferPick` | `HandedOverIsPicked` | two tasks that may be numbered and pushed in any order; three retries of the reader |
| `MCDoubleBufferReturns` | `WriteReturns`, `CloseReturns` | a writer that needs the slow path, the monitor and a closer: as many switches as two counted writes can cause, so that no bound stops a goroutine |
| `MCSharedRing` | `ImplementsFifo`, `PushedIsPopped` | two slots, eight cursor values, nine pushes: both cursors pass the wrap |
| `MCWaiterManager` | `TypeOK`, `RegisteredIsEmpty`, `OnePlace`, `DroppedIsNotified`, `NoSendOnClosed` | three callers, batches of two, five ids and channels: a waiter may be left out of a batch, channels are reused, Close comes at any moment |
| `MCWrapHeap` | `IndexKept`, `HeapOrder`, `ImplementsQueue` | six items on three levels, two with the same number, in every order of Push and Pick |
| `MCLifeCycle` | `TypeOK`, `SmallOneOwner`, `SmallIntact`, `EntryKept`, `SizeCovers` | three writes, of one small, one medium and two large sizes, to two slices: an address can be shared by messages of any two classes, overwritten and freed through another one; two small buffers, so that a reader must reuse one; a cleanup that is cut off after one deletion |
| `MCBufferQueue` | `TypeOK`, `Accounted`, `StopClosedOnce`, `ImplementsQueue`, `ClosedRunsDry`, `WorkerEnds` | two callers and the worker, a queue of size 1 and three items, so that it is full and overfull; two policies that may be exchanged; one Reset, so that both policies and the worker can have a list in hand that is no longer the queue; Close by both callers at every moment |
| `MCBatchCollector` | `ShownAtMostOnce`, `SafeIsKept`, `SafeIsShown`, `WorkersEnd` | one caller, one Flush and a worker without a bound on its ticks: two reports can overlap (`together` is 2, and an amount is shown twice) or not, and a call can fall before, into or after either window; one call, of one of two kinds, since the counters do not influence each other and the theorems of section 4 have no bound |

The runs check for deadlock, but for `MCLifeCycle`, where nobody has to write,
read or Release and the worker may have stopped, and for `MCBatchCollector`,
where everything may be over after `Stop`.  Readers, and `RegisterReadMode`, can always take
a step, so that a deadlock of the goroutines that matter shows as a violation
of `WriteReturns`, `CloseReturns` or `HandedOverIsPicked`.

Readers: `SingleOwner`, `NoNilBuffer`, `CountBound`, `ImplementsChannel` and
`HandedOverIsPicked` are stated, and true, for one caller of `BlockingRead` at
a time: `currentBuffer` is a plain field, and two callers may Reset one ring
twice.  `SequenceKept`, `SwitchExclusive` and `ClosedIsFinal` do not need it.
`NoNilBuffer` speaks of a reader for whom a read mode is registered: a read
before `RegisterReadMode` panics, in the code and in the model.
`ImplementsFifo` and `PushedIsPopped` are stated for one writer as well; a slot
that is claimed and not yet stored, which `Pop` meets only if there are two, is
the business of `ImplementsChannel`.

Fairness.  `FairSpec` of `DoubleBufferProperties` assumes weak fairness of
every goroutine in the middle of a procedure, which is Go's scheduling; of the
caller of `BlockingRead`, who calls again and whose context has a deadline;
and strong fairness of the choice of `stop` by the two background goroutines,
since Go's `select` picks one of its ready cases at random.  Nobody has to call
`Write`, `Close` or `RegisterReadMode`.  `FairSpec` of `BufferQueue` assumes
that whoever waits for the mutex gets it (Go's mutex does not starve), that the
worker goes on, and the same of its `select`; nobody has to call anything.
`FairSpec` of `BatchCollector` assumes that every goroutine goes on, that the
ticker ticks, and the same of the worker's `select`; nobody has to record,
Flush, Start or Stop.

Each property of a passing run has a mutant of the code it is about (the
definitions commented "Mutant:"), which that run refutes.

## 4. What is proved

| module | theorem | for all |
|---|---|---|
| `DoubleBuffer_proofs` | `TypeOKAlways`, `SwitchExclusiveAlways`, `SequenceKeptAlways`: `Spec => []...`; `ClosedStaysClosed`: `Spec => ClosedIsFinal` | goroutines, rings, capacities and bounds |
| | `TypeCorrect`: `Spec => []TypeInv`, the types with `HandsFull` (below) | the same |
| | `SingleOwnerAlways`, `NoNilBufferAlways`, `PendingReadOnlyAlways`; `PendingAdmitsNoneAlways`: `Spec => PendingAdmitsNone`; `ImplementsChannelAlways`: `Spec => ImplementsChannel` | the same, with one caller of `BlockingRead` |
| | `CountBoundAlways` | the same, with finitely many writers |
| | `DefaultMonotone`, `DefaultEarly`, `DefaultSwitchesFirst` (of `SwitchStrategy`) | counts, sizes, times and weights |
| `SharedRing_proofs` | `TypeOKAlways` | writers, readers, capacities, cursor widths |
| | `ImplementsFifoAlways`: `Spec => ImplementsFifo` | capacities, cursor widths and numbers of pushes with `NoSkip`; one writer, one reader |
| `WrapHeap_proofs` | `IndexKeptAlways`, `HeapOrderAlways`, `HeapIsQueue`: `Spec => ImplementsQueue` | items, numbers and lengths |
| `WaiterManager_proofs` | `TypeOKAlways`, `RegisteredIsEmptyAlways`, `OnePlaceAlways`, `DroppedIsNotifiedAlways`, `NeverSendsOnClosed` | callers, channels, batch sizes |
| `LifeCycle_proofs` | `TypeOKAlways`, `SmallOneOwnerAlways`, `SmallIntactAlways`, `EntryKeptAlways`, `SizeCoversAlways` | slices, buffers, size classes, bounds |
| `BufferQueue_proofs` | `TypeOKAlways`, `AccountedAlways`, `StopClosedOnceAlways`; `ClosedRunsDryAlways`: `Spec => ClosedRunsDry`; `ImplementsQueueAlways`: `Spec => ImplementsQueue` | callers, items, lists, policies |
| `BatchCollector_proofs` | `TypeOKAlways`, `SafeIsKeptAlways`, `ShownAtMostOnceAlways` | callers, flushers, workers, calls of every kind |
| `SmallPool_proofs` | `TypeOKAlways`, `CountAgreesAlways`, `OneHolderAlways` | users, levels, buffers, room of the channels |

They rest on the assumptions of the modules (`RingAssumption`,
`SharedRingAssumption`, `DoubleBufferAssumption`, `HeapAssumption`,
`WaiterAssumption`, `LifeCycleAssumption`, `QueueAssumption`,
`CollectorAssumption`): kinds of goroutines are disjoint, `Nil` is none of the
values it is compared with, bounds are numbers, and the goroutines of
`BatchCollector`, whose reports are counted, are finitely many.  TLC evaluates them on every
run.  Some theorems carry an assumption in their statement:

- `SoleReader`: there is one caller of `BlockingRead` at a time.  The
  properties are false for two (section 3, Readers).
- `IsFiniteSet(Writers)` in `CountBoundAlways`, which counts the writers that
  are past the check of a ring's capacity.
- `SoleCallers` in `ImplementsFifoAlways`: one writer, one reader, and
  `NoSkip`, that the capacity divides the number of cursor values (2^32 in the
  program) or that there are not so many pushes that a cursor wraps around.
  For another capacity a cursor that wraps skips slots.
- Finitely many users and positive level sizes in `SmallPool_proofs`; natural
  numbers for counts, times and weights in the theorems of the strategies.

The inductive invariants, and why they are needed:

- `TypeOK` of `DoubleBuffer`: that `PushStore` writes into a ring, and that
  `PickSet` installs an item, needs a goroutine at such a label to hold one.
  `TypeInv` adds that: who is inside `Push`, `Pop`, `Reset` or between two
  places has a ring in `target` (`TargetsFull`), a reader between picking and
  raising the number has an item (`PickedFull`), a task from its spawning on
  has a ring (`TasksFull`).  The proof has a lemma per procedure.
- `SwitchExclusive` is inductive relative to `TypeInv`: the lemma
  `ExclusiveAside` disposes of all steps that touch neither the state, nor
  `switchLock`, nor a switcher's label.  `ClosedIsFinal` follows from it: a
  goroutine past the compare-and-swap keeps the state Switching, so it cannot
  be there when the state is Closed.
- `SequenceKept` speaks of all places of numbers together; `NumberInv` says of
  every two kinds of places that they share no number (`NumbersApart`), of
  every number in a place that it is due (`NumbersDue`) and of every due
  number that it is in a place unless `Close` is draining (`NumbersKept`).  It
  adds which readers have an item in hand, that the reader that is to raise
  `currentSequence` holds the item of that number, and that a task beyond the
  last one spawned is idle.
- `SingleOwner`: `OwnerInv` states it over a set of claims, one element per
  place that holds a ring (`Distinct(Claims)`).  A step passes a ring from one
  claim to another (`MoveOne`), two in the swap, three in `Close`; it needs
  that the pool has a ring at most once, that the reader inside `Pop` or
  `Reset` works on `currentBuffer` (`CurrentKnown`, where `SoleReader` comes
  in, and from which `NoNilBuffer` follows) and that there is one closer at
  work, in the state Closed (`ClosingKnown`).
- `PendingReadOnly`: `FrozenInv` follows a ring from the switch to the reader
  (`PendingKept`) and says that the one that is about to be swapped out is
  read-only already (`Frozen`).  The ring that is being Reset is not on its
  way, since it has another owner: this is where `SingleOwner` is needed.  What
  follows for writers is `PendingAdmitsNone`: the check of the state turns away
  every Push, or new round of its loop, that comes to it after the hand-over.
  A Push that is past the check may still store into the ring (section 5).
- `CountBound` needs that the reader that is to lower a count has seen it
  above zero, and nobody else lowers that ring's (`CountKnown`).  Each step of a
  writer changes the set of those past the check by one at most.
- `ImplementsChannel`: `MessageInv` says where a message can be: in one slot,
  in the reader's hand or delivered.  A slot holds what its writer has offered
  and stored (`SlotsKnown`), the item in the reader's hand is in no other slot
  than the one it is about to clear, and not yet delivered (`ItemKnown`), what
  is delivered is in no slot (`DeliveredKnown`).  `Write` maps to an offer, the
  return of the reader with an item to a delivery, everything else stutters.
- `ImplementsFifo`: `RingInv` has the count right where a call has looked at it
  (`CountRight`), the cursors as many slots apart as items are inside and a
  claimed slot (`CursorsApart`), every slot in between filled (`Filled`) and,
  in the case without a wrap, the same of the cursors themselves
  (`NeverWraps`).  Slots are counted from the reader's cursor without a
  remainder (`After`); the lemma `PosIs` relates the two and `NextPos` says
  what the wrap of a cursor does.  `PushCount` maps to an enqueue, `PopClear`
  to a dequeue.
- `HeapOrder` says what holds during a sift: one item may be out of order with
  its parent (while `up` runs) or with its children (while `down` runs), and
  the parent of that place is not after those children.  That a root without
  an out-of-order item is least needs an induction along the path to the root,
  done by taking the smallest slot that contradicts it.  `HeapIsQueue` maps
  the array to the set of its items: sifting is a stutter, `Push` an `Insert`,
  the last step of `Pick` a `Remove`.
- In `WaiterManager` the invariants need that callers past `register` hold
  different ids and different channels, none of them in the pool, and that a
  registered channel is that of the caller with the id (`HandsApart`), and
  that ids and channels stay below their counters (`Bounds`); `WaiterInv` is
  the conjunction.
- In `LifeCycle`, `PlacesInv` says that a message is with its writer, in a ring
  or in one chunk (`InOnePlace`), has a pooled buffer just if it is small
  (`Shape`), and that a buffer is in the pool once or held once (`OneOwner`,
  which is `SmallOneOwner` without cardinalities).  `SmallIntact` needs all of
  them: a buffer that is filled is nobody else's.  `EntryKept` speaks of
  messages that have their address alone; it needs that those that share one
  are on record (`Recorded`), so that a step on another message's entry is a
  step on another entry.
- `SizeCovers` compares `currentSize` with the sum of the entries' sizes,
  written as the number of their bytes.  It is not inductive: a `Put` at an
  address that has an entry replaces it and adds its size all the same, and
  `Free` takes away whatever entry it meets but subtracts the size of its own
  message, which may be the longer one.  `SizeInv` therefore books the sizes
  elsewhere: an entry whose address and size a living large message has counts
  as `LargeDataThreshold` bytes, any other with its size, and every living large
  message counts with what it is longer than the threshold.  Whoever frees a
  message takes its rest out of the sum, and with the entry, whosever it is, at
  least a threshold.  That the sum covers the entries is an injection of what
  the entries lack into the rests of messages (`SizeInvCovers`).
- In `BufferQueue`, `StopClosedOnce` needs that while the state is 0 the
  channel is open and nobody is about to close it (`CloseInv`).  The policies
  do not come into it: a step that is not one of Close leaves all three alone.
  The refinement needs that no two callers push the same item
  (`PushesApart`), and that no list beyond the one in use has been written to,
  or is known to a policy or to the worker (`ListsOK`), so that an eviction
  from a list that was given up is a stutter and a `Reset` loses what is in the
  queue; `QueueInv` is the conjunction, with the types.  That an eviction
  leaves a subsequence (`WithoutIs`) comes without an induction: the ranks of
  the positions that stay are as many different numbers as there are positions,
  none of them greater than their number, and so `1`, `2`, ... (`NthIs`).
- `Accounted` counts places; `ItemsInv` says instead that what has been picked,
  the items of each list and what was evicted from each list have pairwise
  nothing in common and are together the items that came in (`Parted`), and
  that no sequence has an item twice (`Once`).  A push brings in an item that
  is in none of these sets, every other step moves items from one to another
  (`PartedEvict`, `PartedMove`), also when the list that is evicted from is an
  older one.  `evictCount` lies between two numbers (`Counted`): an eviction
  from the list in use raises all three, one from an older list the count and
  the greater one, by as many as it takes since none of them was evicted before.
  A `Reset` may zero the count because nothing has been evicted from the next
  list yet.
- In `BatchCollector` the shape of a report is all that counts:
  `WindowSteps` says that a counter's window is entered by its export and left
  by its reset, `StepOf` that every other step leaves it alone.  `SafeIsKept`
  is not inductive, since a reset throws a counter away; it is with the
  conjunct that in the window what is safe has been shown already (`KeptOf`).
  `ShownAtMostOnce` needs to know what may still be shown of a counter
  (`TimesOf`): what is in it, once for every report that may enter its window
  until `together` are there.  An export takes one of these turns, a reset
  leaves nothing to show, and when `together` rises so does the bound.
- In `SmallPool`, `CountAgrees` is inductive with the types; each step moves
  one call, which changes one of two cardinalities by one (`BusyMoves`).
  `OneHolder` and `RightSize` are proved together: a buffer in a channel is not
  cut because nobody holds it, and nobody holds it because it is the channel's.
- `DefaultEarly` follows from the combined factor by arithmetic: with the
  weights 0.4 and 0.6 and the threshold 0.85, three quarters of the room and
  five eighths of the time have to be used up.

`SmallPool` has theorems in place of a run, and so do the types of `WrapHeap`
and `BatchCollector`.

Only model-checked are the liveness properties: `HandedOverIsPicked`,
`WriteReturns`, `CloseReturns`, `PushedIsPopped`, `WorkerEnds`, `SafeIsShown`,
`WorkersEnd`.  The prover has no rule for fairness and `ENABLED`.  Every other
property of a run is a theorem.

## 5. Divergences

Where the code does something else than a comment or a test suggests, or than a
reader may expect; met while modelling, and part of the models.

In `DoubleBuffer`: the sequence number is taken in the spawned goroutine, so
that two switches may be numbered, and their rings read, in the opposite order
(`:272`, against the comments `:95` and `:101`); a second push of `Write` may
fail although the buffer is open, because another switch is under
way and `switchChannel` returned without effect (`:223`, against the tests'
`require.NoError`, `double_buffer_test.go:184`); a write that overlaps a switch
is counted for the wrong ring (`:205`, against the comment `:83`); two writers
may pass the capacity check together and one overwrites the other, after which
`count` exceeds the items (`smart_buffer.go:95`, against `:36`); one `notify`
wakes 64 waiters at most and not 1024 (`waiters.go:83`, against `:64`); a
writer that loaded `active` before the switch may store its item while the
reader, which has found the ring empty, Resets it, so that `Write` returns nil
and the message goes to the pool with the ring (`:483`, against
`double_buffer_test.go:149`); a ring that is pushed and notified between the
first `tryRead` and `register` wakes nobody (`:466`, against the comment
`:457`); a notification that goes to a waiter that is already leaving, because
its deadline has passed, is lost with it, and no other waiter gets it
(`waiters.go:103`; `DroppedIsNotified` says that it is in the channel, not that
anybody reads it).

In `LifeCycle`: `safeRead` of a large message returns the caller's memory and
not "a copy" (`double_buffer.go:403`); `recycle` does nothing for a small
message, where its comment puts the buffer back (`:344`), so that the buffer
`Write` took never returns to the pool; a large slice that is written again
while its first message is alive has one entry for both, with a count that
ends at -1 and that no cleanup deletes (`life_cycle.go:189`); a refused
`Write` leaves its entry; `currentSize` is not lowered by the cleanup
(`:159`), and by another message's size when `Free` meets the entry of a later
message (`:200`); a message read with zero copy has no reference while it is
in use (`double_buffer.go:445`), which is harmless only because the pool does
not own the memory.

In `BufferQueue`: a full queue takes the item although nothing has been
evicted, so that `maxSize` is no bound (`queue.go:123`); after a `Reset` the
policy may evict from the list that was given up, and the number is added to
the count that `Reset` has just zeroed (`:154`, `:175`), which is why `Accounted`
bounds the count from above by the evictions of all lists; a `Push` that looked
at the state before `Close` puts its item in after `Close` has returned, and
nobody picks it (`:108`).

In `BatchCollector`: what is added between the load of a counter and its reset
is lost (`batch_collector.go:200`), which is why `SafeIsKept` speaks of what is
recorded outside of the windows; a Flush during the worker's report shows the
same amounts twice (`:179`), and n reports that overlap n times, which is what
`ShownAtMostOnce` bounds; a skipped switch is shown as one per report,
whatever the counter says (`prometheus.go:214`, against
`batch_collector.go:83`); the latency is observed at every report, as 0 when
there was no switch (`prometheus.go:211`); an increment or a decrement of the
number of goroutines that is lost in a window leaves its gauge wrong for good;
`Stop` makes no
last report and does not stop the ticker, and a second one panics (`:175`).

In `SmallPool`: the counter may be below zero, when a buffer is allocated before
its `Free` has raised it, or may refuse a buffer that the channel has room for;
`Free` does not cut the length, so that `Alloc` returns a pooled buffer with the
length it was freed with and a new one with length 0 (`small_pool.go:40`,
`:42`).

In `SwitchStrategy`: with size 0 `SizeOnlyStrategy` always switches, where the
default takes the size for 1.

## 6. Not modelled

The slab pool and its neighbours in `poolx` are unfinished: its `Alloc`
returns nil, and nothing sets the counter or the owner of a chunk, so that
there is no behaviour to state a property of.  The interfaces and mocks have
none.  `NewPrometheus` registers the vectors of a library.  `Preload` has no
caller and only fills a `sync.Pool`; nothing calls `len` of `BufferQueue`.
Torn reads of a slot, several concurrent readers beyond `SequenceKept`, the
double free of a chunk or of a pooled buffer, and floating-point rounding are
outside the models.

## 7. Plan

1. Done: `SmartBuffer`, `DoubleBuffer`, `SharedRing`, `WrapHeap`,
   `WaiterManager`, their abstract specifications, runs and first proofs;
   `LifeCycle` and its run.
2. Done: `BufferQueue`, `BatchCollector`, `SmallPool` and `SwitchStrategy`, with
   their runs and theorems.
3. Done: the theorems of section 4: the refinements of all four abstract
   specifications, and every safety invariant and action property of the runs.
4. Left: `SequenceKept` for a `Close` that drains, where it says nothing; what
   the theorems with `SoleReader` leave of themselves for several readers.
