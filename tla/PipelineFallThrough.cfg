\* A document of two shards that falls through to a split, with a fault
\* anywhere: its join may come too early.
CONSTANTS
  d1 = d1  f1 = f1  k1 = k1  cron = cron
  Doc <- One
  NumShards <- TwoShards
  HasLayer <- Yes
  LayerSane <- No
  MayLosePages = TRUE
  PdfWorker = {p1}
  OcrWorker = {o1}
  ExtractWorker = {w1}
  Fields = {f1}
  KeyOf <- Keyed
  NoKey = NoKey
  NoResult = NoResult
  EmptyResult = EmptyResult
  Answers <- AlwaysF1
  Operators = {cron}
  Cron = cron
  BlastRadiusCap = 1
  MaxOperations = 0
  MaxDeploys = 0
  MaxReplays = 0
  MaxTextAttempts = 1
  MaxExtractAttempts = 1
  MaxFaults = 1
  SweeperBatchCap = 1
SPECIFICATION FairSpec
INVARIANTS PostedHasWholeText PostedLacksNoPage
PROPERTIES Settles
CHECK_DEADLOCK FALSE
