\* One transaction of one call, alone.
SPECIFICATION Spec
CONSTANTS
  t1 = t1
  t2 = t2
  NoOwner = NoOwner
  MIN_VAL <- Lowest
  Threads <- OneThread
  Keys <- EndKeys
  Warm <- EndWarm
  Programs <- EndOnes
  MaxTx = 1
  MaxCalls = 1
  MaxNodes = 5
  Grain = "step"
  Reorder = FALSE
PROPERTIES AbortOnlyOnConflict
