\* Two paths, two partitions, two consumers.
CONSTANTS
  good = good  bad = bad
  Doc <- Docs
  Class <- Classes
  Uploads <- Objects
  PartitionOf <- PartitionByDoc
  Path = {1, 2}
  Partition = {0, 1}
  Consumer = {c1, c2}
  Relay = {r1, r2}
  Detector = {x1}
  RelayBatchCap = 2
  MaxBacklog = 1
  MaxChanges = 2
  MaxFaults = 1
SPECIFICATION FairSpec
INVARIANTS TypeOK DispatchNotLost
PROPERTIES TriagedOnce NoOrphanForever
CHECK_DEADLOCK FALSE
