\* A list whose second layer comes and goes.
SPECIFICATION Spec
CONSTANTS
  t1 = t1
  t2 = t2
  t3 = t3
  a = a
  b = b
  c = c
  d = d
  e = e
  Threads <- TwoThreads
  Nodes <- FourNodes
  head = head
  tail = tail
  None = none
  Key <- Apart
  MaxLayer = 2
  Warm <- Low
  Programs <- Grow
INVARIANTS StoresSucceed
