------------------------------ MODULE Operator ------------------------------
(***************************************************************************)
(* reconciliation/operator.py: what people do (force_redrive, also through *)
(* bulk_redrive and dlq_replay.py; accept_review; the kill switch).        *)
(*                                                                         *)
(* Both document operations read the row first, without a lock, decide on  *)
(* what they read, and then update through ledger.transition in the same   *)
(* transaction: another process may commit in between.                     *)
(***************************************************************************)
EXTENDS Results, Artifacts, Sweeper

CONSTANTS
  Operators,      \* people and jobs that use the break-glass lane
  MaxOperations   \* bound: document operations in one behaviour

ASSUME OperatorAssumption == MaxOperations \in Nat

VARIABLES
  op_work,   \* the operation each is in the middle of
  op_count   \* document operations begun so far

opVars == <<op_work, op_count>>

NoOp == [kind |-> "none"]
Operation == [kind : {"redrive", "accept"}, row : Row, had_text : BOOLEAN]
OperatorTypeOK ==
  /\ op_work \in [Operators -> Operation \cup {NoOp}]
  /\ op_count \in 0 .. MaxOperations
OperatorInit ==
  /\ op_work = [o \in Operators |-> NoOp]
  /\ op_count = 0

\* The unlocked read.
ReadRow(o, kind, d) ==
  op_work' = [op_work EXCEPT ![o] =
    [kind |-> kind, row |-> RowOf(d), had_text |-> d \in assembled]]

\* The read, and the check of the state it found.
Begin(o, kind, states) ==
  /\ op_work[o] = NoOp
  /\ op_count < MaxOperations
  /\ op_count' = op_count + 1
  /\ \E d \in Doc : state[d] \in states /\ ReadRow(o, kind, d)
  /\ UNCHANGED <<ledgerVars, artifactVars, resultVars>>

begin_redrive(o) == Begin(o, "redrive", {"review", "failed"})
begin_accept(o) == Begin(o, "accept", {"review"})

\* The target of a failed document depends on whether its artifact exists,
\* looked up some time between the read of the row and the update.
redrive_target_states(work) ==
  IF work.row.state = "review" THEN {"extract_pending"}
  ELSE {to \in {"extract_pending", "text_pending"} :
          IF to = "extract_pending" THEN work.row.doc \in assembled ELSE ~work.had_text}

\* force_redrive's update: any state from which the table reaches the target
\* will do, not only the state that was read.
Redriven(o, to) ==
  LET d == op_work[o].row.doc IN
    /\ MayTransition(d, Predecessors(to), to)
    /\ state' = [state EXCEPT ![d] = to]
    /\ bus' = bus \cup RedriveMessages([op_work[o].row EXCEPT !.state = to])

\* IllegalTransition: the document has moved meanwhile.
Refused(o, to) ==
  /\ ~MayTransition(op_work[o].row.doc, Predecessors(to), to)
  /\ UNCHANGED <<state, bus>>

force_redrive(o) ==
  /\ op_work[o].kind = "redrive"
  /\ \E to \in redrive_target_states(op_work[o]) : Redriven(o, to) \/ Refused(o, to)
  /\ op_work' = [op_work EXCEPT ![o] = NoOp]
  /\ UNCHANGED <<shardVars, attemptVars, faults, artifactVars, resultVars, op_count>>

\* Mutant: an accepted document that is not stamped as one.
AcceptSilently(o) ==
  /\ op_work[o].kind = "accept"
  /\ LET d == op_work[o].row.doc IN
       \/ /\ MayTransition(d, {"review"}, "complete")
          /\ state' = [state EXCEPT ![d] = "complete"]
          /\ extracted' = extracted \cup {ExtractedMsg(d, NoResult)}
       \/ ~MayTransition(d, {"review"}, "complete") /\ UNCHANGED <<state, extracted>>
  /\ op_work' = [op_work EXCEPT ![o] = NoOp]
  /\ UNCHANGED <<shardVars, attemptVars, bus, faults, artifactVars, extraction_result,
                 gate_results, invoice_key, auto_post_enabled, op_count>>

\* accept_review's update.  A document that became complete in the meantime
\* is accepted again: the transition is idempotent.
accept_review(o) ==
  /\ op_work[o].kind = "accept"
  /\ LET d == op_work[o].row.doc IN
       \/ /\ MayTransition(d, {"review"}, "complete")
          /\ gate_results' = [gate_results EXCEPT ![d] = "accepted"]
          /\ state' = [state EXCEPT ![d] = "complete"]
          /\ extracted' = extracted \cup {ExtractedMsg(d, NoResult)}
       \/ /\ ~MayTransition(d, {"review"}, "complete")
          /\ UNCHANGED <<gate_results, state, extracted>>
  /\ op_work' = [op_work EXCEPT ![o] = NoOp]
  /\ UNCHANGED <<shardVars, attemptVars, bus, faults, artifactVars, extraction_result,
                 invoice_key, auto_post_enabled, op_count>>

set_kill_switch(enabled) ==
  /\ op_count < MaxOperations
  /\ op_count' = op_count + 1
  /\ auto_post_enabled' = enabled
  /\ UNCHANGED <<ledgerVars, artifactVars, extraction_result, invoice_key, gate_results,
                 extracted, op_work>>

OperatorStep(o) ==
  begin_redrive(o) \/ force_redrive(o) \/ begin_accept(o) \/ accept_review(o)
=============================================================================
