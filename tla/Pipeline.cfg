\* A scan of two shards with a person, a deployment and a replay run, under
\* fairness of everybody else.
CONSTANTS
  d1 = d1  f1 = f1  k1 = k1  cron = cron
  Doc <- One
  NumShards <- TwoShards
  HasLayer <- No
  LayerSane <- No
  MayLosePages = FALSE
  PdfWorker = {p1}
  OcrWorker = {o1}
  ExtractWorker = {w1}
  Fields = {f1}
  KeyOf <- Keyed
  NoKey = NoKey
  NoResult = NoResult
  EmptyResult = EmptyResult
  Answers <- F1OrNone
  Operators = {cron, o9}
  Cron = cron
  BlastRadiusCap = 1
  MaxOperations = 1
  MaxDeploys = 1
  MaxReplays = 1
  MaxTextAttempts = 1
  MaxExtractAttempts = 1
  MaxFaults = 0
  SweeperBatchCap = 1
SPECIFICATION FairSpec
INVARIANTS TypeOK
PROPERTIES CompleteIsFinal ImplementsExactlyOnce Settles
CHECK_DEADLOCK FALSE
