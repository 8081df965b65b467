----------------------------- MODULE MCPipeline -----------------------------
(***************************************************************************)
(* Small instances of Pipeline: one document, one consumer of each group.  *)
(* A document of two shards that is a scan, or whose text layer turns out  *)
(* unusable, so that it falls through to a split.                          *)
(***************************************************************************)
EXTENDS Pipeline

CONSTANTS d1, f1, k1, cron

One == {d1}
TwoShards == [d \in Doc |-> 2]
Yes == [d \in Doc |-> TRUE]
No == [d \in Doc |-> FALSE]
Keyed == [f \in Fields |-> k1]
AlwaysF1 == [d \in Doc |-> {f1}]
F1OrNone == [d \in Doc |-> {f1, NoResult}]
=============================================================================
