\* The bottom layer alone, with fair threads.
SPECIFICATION FairSpec
CONSTANTS
  t1 = t1
  t2 = t2
  t3 = t3
  a = a
  b = b
  c = c
  d = d
  e = e
  Threads <- ThreeThreads
  Nodes <- FourNodes
  head = head
  tail = tail
  None = none
  Key <- Rising
  MaxLayer = 1
  Warm <- Low
  Programs <- Flat
PROPERTIES Returns
