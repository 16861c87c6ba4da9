SPECIFICATION FairSpec
CONSTANTS
  Callers = {c1}
  Flushers = {f1}
  Workers = {w1}
  Recorded = {"RecordRead", "RecordSwitch"}
  MaxRecords = 1
  MaxFlushes = 1
INVARIANTS ShownAtMostOnce SafeIsKept
PROPERTIES SafeIsShown WorkersEnd
CHECK_DEADLOCK FALSE
