\* All steps of two threads interleave, and racing accesses leave program order.
SPECIFICATION Spec
CONSTANTS
  t1 = t1
  t2 = t2
  NoOwner = NoOwner
  MIN_VAL <- Lowest
  Threads <- TwoThreads
  Keys <- EndKeys
  Warm <- EndWarm
  Programs <- EndPrograms
  MaxTx = 1
  MaxCalls = 3
  MaxNodes = 5
  Grain = "step"
  Reorder = TRUE
SYMMETRY Symmetric
INVARIANTS TypeOK LocksHeld PrivateNodes IndexAgrees
PROPERTIES VersionsRise WritesUnderLock IndexSheds
