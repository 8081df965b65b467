------------------------------ MODULE MCIngest ------------------------------
(***************************************************************************)
(* A small instance of Ingest: a readable document, and unreadable bytes   *)
(* uploaded under a content type that is rejected (unless they replace the *)
(* readable ones after their type was read).  Each has its own partition.  *)
(***************************************************************************)
EXTENDS Ingest

CONSTANTS good, bad

Docs == {good, bad}
Classes == [d \in Docs |-> IF d = good THEN "readable" ELSE "unreadable"]
Objects == {[doc |-> good, type |-> "pdf"], [doc |-> bad, type |-> "other"]}
PartitionByDoc == [d \in Docs |-> IF d = good THEN 0 ELSE 1]
=============================================================================
