\* A document is reviewed, and re-driven by a person.
CONSTANTS
  d1 = d1  f1 = f1  k1 = k1  cron = cron
  Doc <- One
  NumShards <- TwoShards
  HasLayer <- No
  LayerSane <- No
  MayLosePages = FALSE
  PdfWorker = {p1}
  OcrWorker = {o1}
  ExtractWorker = {w1}
  Fields = {f1}
  KeyOf <- Keyed
  NoKey = NoKey
  NoResult = NoResult
  EmptyResult = EmptyResult
  Answers <- F1OrNone
  Operators = {cron, o9}
  Cron = cron
  BlastRadiusCap = 1
  MaxOperations = 1
  MaxDeploys = 0
  MaxReplays = 0
  MaxTextAttempts = 1
  MaxExtractAttempts = 1
  MaxFaults = 0
  SweeperBatchCap = 1
SPECIFICATION Spec
INVARIANTS RedrivenIsOpen
CHECK_DEADLOCK FALSE
