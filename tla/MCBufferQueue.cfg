SPECIFICATION FairSpec
CONSTANTS
  Callers = {c1, c2}
  Policies = {p1, p2}
  maxSize = 1
  MaxItems = 3
  MaxLists = 2
INVARIANTS TypeOK Accounted StopClosedOnce
PROPERTIES ImplementsQueue ClosedRunsDry WorkerEnds
