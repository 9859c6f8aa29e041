\* All steps of two threads interleave, each thread scheduled fairly.
SPECIFICATION FairSpec
CONSTANTS
  t1 = t1
  t2 = t2
  NoOwner = NoOwner
  MIN_VAL <- Lowest
  Threads <- TwoThreads
  Keys <- EndKeys
  Warm <- EndWarm
  Programs <- EndOnes
  MaxTx = 1
  MaxCalls = 1
  MaxNodes = 5
  Grain = "step"
  Reorder = FALSE
PROPERTIES Termination
