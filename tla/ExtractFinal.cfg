\* A model that reads differently each time: a late worker moves a complete document.
CONSTANTS
  d1 = d1  d2 = d2  f1 = f1  f2 = f2  k1 = k1  k2 = k2
  Doc <- Two
  NumShards <- TwoShards
  HasLayer <- Scans
  Outputs <- AllOutputs
  MayLosePages = FALSE
  Fields = {f1, f2}
  KeyOf <- Keyed
  NoKey = NoKey
  NoResult = NoResult
  EmptyResult = EmptyResult
  Answers <- F1OrF2
  ExtractWorker = {w1, w2}
  Operators = {o1}
  MaxOperations = 0
  MaxTextAttempts = 1
  MaxExtractAttempts = 1
  MaxFaults = 0
  SweeperBatchCap = 1
SPECIFICATION Spec
PROPERTIES CompleteIsFinal
CHECK_DEADLOCK FALSE
