--------------------------- MODULE MCExtractStage ---------------------------
(***************************************************************************)
(* Small instances of ExtractStage.  Extractions f1 and f2 have different  *)
(* business keys; a document with both of them as answers is read by a     *)
(* model that does not always read the same.                               *)
(***************************************************************************)
EXTENDS ExtractStage, TLC

CONSTANTS d1, d2, f1, f2, k1, k2

One == {d1}
Two == {d1, d2}
TwoShards == [d \in Doc |-> 2]
Scans == [d \in Doc |-> FALSE]
AllOutputs == {<<d, i>> : d \in Doc, i \in 0 .. 1}
Keyed == (f1 :> k1) @@ (f2 :> k2)

\* Deterministic: f1, unless the funnel is exhausted.
AlwaysF1 == [d \in Doc |-> {f1}]
F1OrNone == [d \in Doc |-> {f1, NoResult}]
\* A model that may read f1 or f2.
F1OrF2 == [d \in Doc |-> {f1, f2}]
AnyAnswer == [d \in Doc |-> {f1, f2, NoResult}]
=============================================================================
