-------------------------- MODULE MCTextProduction --------------------------
(***************************************************************************)
(* Small instances of TextProduction.  A document is a scan (no text       *)
(* layer), tier-0 (a good text layer) or falls through (a bad one).        *)
(***************************************************************************)
EXTENDS TextProduction

CONSTANTS d1, d2, p1, o1, o2

\* d1 is a scan of two shards, d2 is tier-0.
Mixed == {d1, d2}
MixedShards == [d \in Doc |-> 2]
MixedLayer == [d \in Doc |-> d = d2]

\* A document of two shards whose text layer turns out unusable.
One == {d1}
Yes == [d \in Doc |-> TRUE]
No == [d \in Doc |-> FALSE]
=============================================================================
