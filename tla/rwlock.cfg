\* Three threads read and write under the lock again and again.
SPECIFICATION FairSpec
CONSTANTS
  t1 = t1
  t2 = t2
  t3 = t3
  Threads <- ThreeThreads
  ReaderBase = 4
  WriterBase = 4
INVARIANTS Counted Exclusion
PROPERTIES Drained
