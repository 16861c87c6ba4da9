SPECIFICATION Spec
CONSTANTS
  Callers = {c1, c2, c3}
  MaxWaitersPerBatch = 2
  MaxTotalWaiters = 3
  MaxChannels = 5
  MaxIds = 5
  DataSizes = {0, 1, 2, 3}
SYMMETRY Symmetry
INVARIANTS TypeOK RegisteredIsEmpty OnePlace DroppedIsNotified
PROPERTIES NoSendOnClosed
