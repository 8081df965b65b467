--------------------------- MODULE OrphanDetector ---------------------------
(***************************************************************************)
(* Reconciler 2 (reconciliation/orphan_detector_0.py): list the inbox,     *)
(* drop the objects that have a row, drop those with a request in the      *)
(* outbox, and enqueue a request for each of the rest.  Three reads at     *)
(* three times and one commit; the canary and replay_docs run it too, so   *)
(* several passes may overlap.                                             *)
(***************************************************************************)
EXTENDS Triage

CONSTANTS
  Detector,   \* the processes that run find_and_enqueue_orphans
  MaxBacklog  \* bound: a pass starts only while fewer requests are under way

ASSUME DetectorAssumption == MaxBacklog \in Nat

VARIABLE passes  \* what each detector has found so far

IdlePass == [phase |-> "idle"]
Pass == [phase : {"listed", "orphans", "new"}, found : SUBSET Request]

DetectorTypeOK == passes \in [Detector -> Pass \cup {IdlePass}]
DetectorInit == passes = [x \in Detector |-> IdlePass]

\* With nothing left to look for the pass returns 0.
Continue(x, phase, found) ==
  passes' = [passes EXCEPT ![x] =
    IF found = {} THEN IdlePass ELSE [phase |-> phase, found |-> found]]

PendingTriage == {row.content.doc : row \in {r \in outbox : r.content.topic = "triage.requests"}}

Backlog == Cardinality(outbox) + Cardinality(UNION {
  {<<p, i>> : i \in (position[p] + 1) .. Len(log[p])} : p \in Partition})

list_blobs(x) ==
  /\ passes[x] = IdlePass
  /\ Backlog < MaxBacklog
  /\ Continue(x, "listed",
       {[doc |-> inbox[p].doc, path |-> p] : p \in {q \in Path : inbox[q] # Absent}})
  /\ UNCHANGED <<partitionVars, relayVars, inbox, doc_state, triage_work, faults>>

select_known(x) ==
  /\ passes[x].phase = "listed"
  /\ Continue(x, "orphans", {f \in passes[x].found : doc_state[f.doc] = NoRow})
  /\ UNCHANGED <<partitionVars, relayVars, inbox, doc_state, triage_work, faults>>

already_pending_triage(x) ==
  /\ passes[x].phase = "orphans"
  /\ Continue(x, "new", {f \in passes[x].found : f.doc \notin PendingTriage})
  /\ UNCHANGED <<partitionVars, relayVars, inbox, doc_state, triage_work, faults>>

enqueue_many(x) ==
  /\ passes[x].phase = "new"
  /\ outbox' = Enqueued({[topic |-> "triage.requests", doc |-> f.doc, path |-> f.path] :
                           f \in passes[x].found})
  /\ passes' = [passes EXCEPT ![x] = IdlePass]
  /\ UNCHANGED <<partitionVars, arrived, inbox, doc_state, triage_work, faults>>

DetectorStep(x) ==
  list_blobs(x) \/ select_known(x) \/ already_pending_triage(x) \/ enqueue_many(x)

\* The tick fails or dies: rolled back, and the next one starts over.
FailPass(x) ==
  /\ passes[x] # IdlePass
  /\ Fault
  /\ passes' = [passes EXCEPT ![x] = IdlePass]
  /\ UNCHANGED <<partitionVars, relayVars, inbox, doc_state, triage_work>>
=============================================================================
