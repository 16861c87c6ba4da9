SPECIFICATION Spec
CONSTANTS
  Writers = {}
  Readers = {r1,r2}
  Closers = {}
  Monitor = monitor
  Recycler = recycler
  Nil = nil
  Threads <- MCThreads
  Buffers <- MCBuffers
  Capacity = 1
  MaxInt32 = 7
  MaxWrites = 0
  MaxTimeouts = 2
  MaxSwitches = 2
  MaxBuffers = 4
  MaxWaitersPerBatch = 2
SYMMETRY Symmetry
INVARIANTS SequenceKept
