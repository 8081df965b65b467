\* An operator who re-drives and accepts while two workers are at it, with a
\* model that reads differently each time.
CONSTANTS
  d1 = d1  d2 = d2  f1 = f1  f2 = f2  k1 = k1  k2 = k2
  Doc <- One
  NumShards <- TwoShards
  HasLayer <- Scans
  Outputs <- AllOutputs
  MayLosePages = FALSE
  Fields = {f1, f2}
  KeyOf <- Keyed
  NoKey = NoKey
  NoResult = NoResult
  EmptyResult = EmptyResult
  Answers <- AnyAnswer
  ExtractWorker = {w1, w2}
  Operators = {o1}
  MaxOperations = 3
  MaxTextAttempts = 1
  MaxExtractAttempts = 1
  MaxFaults = 2
  SweeperBatchCap = 1
SPECIFICATION Spec
INVARIANTS CompleteSaysWhy InFlightIsOpen
PROPERTIES CompleteIsFinal ImplementsExactlyOnce
CHECK_DEADLOCK FALSE
