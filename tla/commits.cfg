\* The steps of two threads interleave, but for a commit from its first tryLock to its last unlock.
SPECIFICATION Spec
CONSTANTS
  t1 = t1
  t2 = t2
  NoOwner = NoOwner
  MIN_VAL <- Lowest
  Threads <- TwoThreads
  Keys <- InnerKeys
  Warm <- InnerWarm
  Programs <- InnerPrograms
  MaxTx = 2
  MaxCalls = 2
  MaxNodes = 7
  Grain = "commit"
  Reorder = FALSE
SYMMETRY Symmetric
INVARIANTS CommittedSum ChainSorted
PROPERTIES Opaque AbortOnlyOnConflict
