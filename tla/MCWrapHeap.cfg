SPECIFICATION Spec
CONSTANTS
  a = a
  b = b
  c = c
  d = d
  e = e
  f = f
  Items = {a, b, c, d, e, f}
  sequence <- MCSequence
  Size = 6
  Nil = nil
INVARIANTS IndexKept HeapOrder
PROPERTY ImplementsQueue
