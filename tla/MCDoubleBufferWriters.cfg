SPECIFICATION Spec
CONSTANTS
  Writers = {w1,w2}
  Readers = {r1}
  Closers = {}
  Monitor = monitor
  Recycler = recycler
  Nil = nil
  Threads <- MCThreads
  Buffers <- MCBuffers
  Capacity = 1
  MaxInt32 = 7
  MaxWrites = 1
  MaxTimeouts = 0
  MaxSwitches = 2
  MaxBuffers = 4
  MaxWaitersPerBatch = 2
SYMMETRY Symmetry
INVARIANTS SequenceKept CountBound SwitchExclusive
PROPERTIES ImplementsChannel
