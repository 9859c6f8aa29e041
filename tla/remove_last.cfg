\* One transaction of two calls, alone.
SPECIFICATION Spec
CONSTANTS
  t1 = t1
  t2 = t2
  NoOwner = NoOwner
  MIN_VAL <- Lowest
  Threads <- OneThread
  Keys <- EndKeys
  Warm <- ShortWarm
  Programs <- EndTwos
  MaxTx = 1
  MaxCalls = 2
  MaxNodes = 5
  Grain = "step"
  Reorder = FALSE
INVARIANTS CommittedSum
