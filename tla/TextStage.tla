----------------------------- MODULE TextStage ------------------------------
(***************************************************************************)
(* What text production promises of one document, without messages,        *)
(* workers or object store: its text is made of pieces, each gathered at   *)
(* most once and in any order; the step that gathers the last piece is the *)
(* one that hands the document on; until then it may be given up, and a    *)
(* document that was given up keeps the pieces it has but never hands on.  *)
(***************************************************************************)
CONSTANTS Doc, Pieces(_)

VARIABLES
  stage,    \* "gathering", "ready" or "abandoned"
  gathered  \* the pieces there are

TSInit ==
  /\ stage = [d \in Doc |-> "gathering"]
  /\ gathered = [d \in Doc |-> {}]

\* A piece that does not complete the text.
Gather(d) ==
  /\ stage[d] # "ready"
  /\ \E p \in Pieces(d) \ gathered[d] :
       /\ gathered' = [gathered EXCEPT ![d] = @ \cup {p}]
       /\ gathered[d] \cup {p} # Pieces(d)
  /\ UNCHANGED stage

\* The last piece: gathered and handed on at once, by one winner.
Complete(d) ==
  /\ stage[d] = "gathering"
  /\ \E p \in Pieces(d) \ gathered[d] : gathered[d] \cup {p} = Pieces(d)
  /\ gathered' = [gathered EXCEPT ![d] = Pieces(d)]
  /\ stage' = [stage EXCEPT ![d] = "ready"]

\* The sweeper claims a batch in one step, so several may be given up at once.
Abandon(D) ==
  /\ \A d \in D : stage[d] = "gathering"
  /\ stage' = [d \in Doc |-> IF d \in D THEN "abandoned" ELSE stage[d]]
  /\ UNCHANGED gathered

TSNext ==
  \/ \E d \in Doc : Gather(d) \/ Complete(d)
  \/ \E D \in SUBSET Doc : Abandon(D)

TSSpec == TSInit /\ [][TSNext]_<<stage, gathered>>
=============================================================================
