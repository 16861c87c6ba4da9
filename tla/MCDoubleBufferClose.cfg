SPECIFICATION Spec
CONSTANTS
  Writers = {w1}
  Readers = {r1}
  Closers = {c1}
  Monitor = monitor
  Recycler = recycler
  Nil = nil
  Threads <- MCThreads
  Buffers <- MCBuffers
  Capacity = 1
  MaxInt32 = 7
  MaxWrites = 1
  MaxTimeouts = 1
  MaxSwitches = 2
  MaxBuffers = 4
  MaxWaitersPerBatch = 2
INVARIANTS SingleOwner
PROPERTIES NoNilBuffer ClosedIsFinal
