\* Inserts, erases and finds of three threads around the same nodes, in a list of two layers of three.
SPECIFICATION Spec
CONSTANTS
  t1 = t1
  t2 = t2
  t3 = t3
  a = a
  b = b
  c = c
  d = d
  e = e
  Threads <- ThreeThreads
  Nodes <- FiveNodes
  head = head
  tail = tail
  None = none
  Key <- Ties
  MaxLayer = 3
  Warm <- Tall
  Programs <- Mixed
INVARIANTS TypeOK Fresh Topped StoresSucceed NoNull MarksReturned Towers
PROPERTIES Atomic RefsBalanced
