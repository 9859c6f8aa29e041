\* A node that one thread inserts is erased by another one.
SPECIFICATION Spec
CONSTANTS
  t1 = t1
  t2 = t2
  t3 = t3
  a = a
  b = b
  c = c
  d = d
  e = e
  Threads <- TwoThreads
  Nodes <- FiveNodes
  head = head
  tail = tail
  None = none
  Key <- Ties
  MaxLayer = 2
  Warm <- Tall
  Programs <- Meet
INVARIANTS Towers
