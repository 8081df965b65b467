---------------------------- MODULE ExactlyOnce -----------------------------
(***************************************************************************)
(* What extraction and the sink promise downstream, without workers,       *)
(* messages or re-drives: a document's result is decided at most once, and *)
(* one row at most is posted for it, for good: that result, or an empty    *)
(* row for a document that somebody accepted by hand.                      *)
(***************************************************************************)
CONSTANTS Doc, Fields, NoResult, EmptyResult

VARIABLES
  result,  \* the decision: fields, no fields at all, or none yet
  row      \* what downstream was given, or NoResult

EOInit ==
  /\ result = [d \in Doc |-> NoResult]
  /\ row = [d \in Doc |-> NoResult]

Decide(d) ==
  /\ result[d] = NoResult
  /\ \E r \in Fields \cup {EmptyResult} : result' = [result EXCEPT ![d] = r]
  /\ UNCHANGED row

Post(d) ==
  /\ row[d] = NoResult
  /\ result[d] \in Fields
  /\ row' = [row EXCEPT ![d] = result[d]]
  /\ UNCHANGED result

Grant(d) ==
  /\ row[d] = NoResult
  /\ row' = [row EXCEPT ![d] = EmptyResult]
  /\ UNCHANGED result

EONext == \E d \in Doc : Decide(d) \/ Post(d) \/ Grant(d)
EOSpec == EOInit /\ [][EONext]_<<result, row>>
=============================================================================
