\* A two-shard document whose text layer is unusable: no redelivery needed,
\* only a sweeper that re-drives while the first message is still queued.
CONSTANTS
  d1 = d1  d2 = d2  p1 = p1  o1 = o1  o2 = o2
  Doc <- One
  NumShards <- MixedShards
  HasLayer <- Yes
  LayerSane <- No
  PdfWorker = {p1}
  OcrWorker = {o1}
  MaxTextAttempts = 1
  MaxExtractAttempts = 1
  MaxFaults = 0
  SweeperBatchCap = 1
SPECIFICATION Spec
INVARIANTS NeverStranded
CHECK_DEADLOCK FALSE
