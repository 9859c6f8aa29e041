\* All steps of two threads interleave, in program order.
SPECIFICATION Spec
CONSTANTS
  t1 = t1
  t2 = t2
  NoOwner = NoOwner
  MIN_VAL <- Lowest
  Threads <- TwoThreads
  Keys <- InnerKeys
  Warm <- InnerWarm
  Programs <- InnerOnes
  MaxTx = 1
  MaxCalls = 1
  MaxNodes = 5
  Grain = "step"
  Reorder = FALSE
SYMMETRY Symmetric
INVARIANTS CommittedSum
