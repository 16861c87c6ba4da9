SPECIFICATION Spec
CONSTANTS
  Writers = {w1}
  Readers = {r1}
  Closers = {}
  Monitor = monitor
  Recycler = recycler
  Nil = nil
  Threads <- MCThreads
  Buffers <- MCBuffers
  Capacity = 1
  MaxInt32 = 7
  MaxWrites = 1
  MaxTimeouts = 3
  MaxSwitches = 3
  MaxBuffers = 3
  MaxWaitersPerBatch = 2
INVARIANTS TypeOK SingleOwner PendingReadOnly
