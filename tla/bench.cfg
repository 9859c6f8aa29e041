\* Two workers, two transactions of two operations each, after a prefill.
SPECIFICATION FairSpec
CONSTANTS
  w1 = w1
  w2 = w2
  Workers <- TwoWorkers
  main = main
  KeyRange = 2
  TestSize = 2
  TranSize = 2
  Batches <- Pairs
INVARIANTS TypeOK DescriptorsApart Totals
PROPERTIES DescriptorsSerial Ends
