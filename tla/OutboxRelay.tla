----------------------------- MODULE OutboxRelay -----------------------------
(***************************************************************************)
(* The transactional outbox and its relays (core/outbox.py).  A row that   *)
(* is there is pending; a relay locks a batch (FOR UPDATE SKIP LOCKED),    *)
(* publishes it record by record and deletes it when every delivery is     *)
(* confirmed, or rolls back, whatever the broker has by then.              *)
(*                                                                         *)
(* The rows are requests to triage and the dispatch of a triaged document  *)
(* to text production, whose topic is left open.                           *)
(***************************************************************************)
EXTENDS Partitions

CONSTANTS
  Relay,         \* the relay processes (k8s runs two replicas)
  RelayBatchCap  \* config.RELAY_BATCH_CAP

ASSUME RelayAssumption == RelayBatchCap \in Nat \ {0} /\ "none" \notin Relay

VARIABLES
  outbox,  \* the rows of table outbox
  arrived  \* documents whose dispatch the broker has

relayVars == <<outbox, arrived>>

NoRelay == "none"
Topic == {"triage.requests", "dispatch"}
Content == [topic : Topic, doc : Doc, path : Path]

\* `copy` tells apart rows with the same contents, as their ids do; `by` is
\* the relay that has the row locked, `sent` that the broker has its record.
Row == [content : Content, copy : Nat, by : Relay \cup {NoRelay}, sent : BOOLEAN]

RelayTypeOK ==
  /\ outbox \subseteq Row /\ IsFiniteSet(outbox)
  /\ \A row \in outbox : row.by = NoRelay => ~row.sent
  /\ arrived \subseteq Doc

RelayInit == outbox = {} /\ arrived = {}

\* INSERT INTO outbox, in the caller's transaction.
FreshCopy(content) ==
  CHOOSE n \in 0 .. Cardinality(outbox) :
    \A row \in outbox : row.content = content => row.copy # n
NewRow(content) ==
  [content |-> content, copy |-> FreshCopy(content), by |-> NoRelay, sent |-> FALSE]
Enqueued(contents) == outbox \cup {NewRow(content) : content \in contents}

Unlocked == {row \in outbox : row.by = NoRelay}
Batch(r) == {row \in outbox : row.by = r}

\* LIMIT: as many rows as there are, up to the cap.  Which ones is left open.
claim_outbox_batch(r) ==
  /\ Batch(r) = {}
  /\ Unlocked # {}
  /\ \E batch \in SUBSET Unlocked :
       /\ batch = Unlocked \/ Cardinality(batch) = RelayBatchCap
       /\ Cardinality(batch) <= RelayBatchCap
       /\ outbox' = (outbox \ batch) \cup {[row EXCEPT !.by = r] : row \in batch}
  /\ UNCHANGED <<partitionVars, arrived, faults>>

\* One record of the batch reaches the broker.
deliver(r) ==
  /\ \E row \in Batch(r) :
       /\ ~row.sent
       /\ outbox' = (outbox \ {row}) \cup {[row EXCEPT !.sent = TRUE]}
       /\ \/ /\ row.content.topic = "triage.requests"
             /\ publish([doc |-> row.content.doc, path |-> row.content.path])
             /\ UNCHANGED arrived
          \/ /\ row.content.topic = "dispatch"
             /\ arrived' = arrived \cup {row.content.doc}
             /\ UNCHANGED log
  /\ UNCHANGED <<position, owner, faults>>

\* Mutant: what flush() returns is not looked at.
delete_unconfirmed(r) ==
  /\ Batch(r) # {}
  /\ outbox' = outbox \ Batch(r)
  /\ UNCHANGED <<partitionVars, arrived, faults>>

\* flush() confirmed every delivery: delete and commit.
delete_on_ack(r) ==
  /\ Batch(r) # {}
  /\ \A row \in Batch(r) : row.sent
  /\ outbox' = outbox \ Batch(r)
  /\ UNCHANGED <<partitionVars, arrived, faults>>

RelayStep(r) == claim_outbox_batch(r) \/ deliver(r) \/ delete_on_ack(r)

\* DeliveryFailed, or the relay dies: the rows are free and pending again.
FailRelay(r) ==
  /\ Batch(r) # {}
  /\ Fault
  /\ outbox' = (outbox \ Batch(r)) \cup
       {[row EXCEPT !.by = NoRelay, !.sent = FALSE] : row \in Batch(r)}
  /\ UNCHANGED <<partitionVars, arrived>>
=============================================================================
