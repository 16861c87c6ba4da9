SPECIFICATION FairSpec
CONSTANTS
  Writers = {w1}
  Readers = {}
  Closers = {c1}
  Monitor = monitor
  Recycler = recycler
  Nil = nil
  Threads <- MCThreads
  Buffers <- MCBuffers
  Capacity = 1
  MaxInt32 = 7
  MaxWrites = 2
  MaxTimeouts = 0
  MaxSwitches = 3
  MaxBuffers = 5
  MaxWaitersPerBatch = 2
PROPERTIES WriteReturns CloseReturns
