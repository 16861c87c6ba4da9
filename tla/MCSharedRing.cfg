SPECIFICATION FairSpec
CONSTANTS
  Writers = {w1}
  Readers = {r1}
  Ring = ring
  Nil = nil
  Threads <- MCThreads
  Buffers <- MCBuffers
  Capacity = 2
  MaxInt32 = 3
  MaxPushes = 9
INVARIANTS TypeOK
PROPERTIES ImplementsFifo PushedIsPopped
