\* A scan of two shards, two ocr-shard consumers, beside a tier-0 document,
\* under fairness.
CONSTANTS
  d1 = d1  d2 = d2  p1 = p1  o1 = o1  o2 = o2
  Doc <- Mixed
  NumShards <- MixedShards
  HasLayer <- MixedLayer
  LayerSane <- MixedLayer
  PdfWorker = {p1}
  OcrWorker = {o1, o2}
  MaxTextAttempts = 1
  MaxExtractAttempts = 1
  MaxFaults = 1
  SweeperBatchCap = 2
SPECIFICATION FairSpec
INVARIANTS TypeOK ShardAccounting HandedOnWithText NoLostJoin ShardInputExists
PROPERTIES HandedOnIsFinal ImplementsTextStage TextSettles
CHECK_DEADLOCK FALSE
