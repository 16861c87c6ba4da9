SPECIFICATION Spec
CONSTANTS
  Slices = {s1, s2}
  Bufs = {b1, b2}
  Nil = nil
  Sizes <- MCSizes
  SmallDataThreshold = 2
  LargeDataThreshold = 2
  MaxCleanCounts = 0
  CleanAge = 0
  MediumPoolTTL = 2
  MaxWrites = 3
INVARIANTS TypeOK SmallOneOwner SmallIntact EntryKept SizeCovers
SYMMETRY MCSymmetry
CHECK_DEADLOCK FALSE
