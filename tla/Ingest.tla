------------------------------- MODULE Ingest -------------------------------
(***************************************************************************)
(* From an object in the inbox to a dispatched document: the orphan        *)
(* detector, the outbox and its relays, the topic triage.requests and      *)
(* triage itself.                                                          *)
(***************************************************************************)
EXTENDS OrphanDetector

CONSTANTS
  Uploads,    \* the objects users put into the inbox
  MaxChanges  \* bound: uploads and deletions in one behaviour

ASSUME IngestAssumption == Uploads \subseteq Object /\ MaxChanges \in Nat

VARIABLE changes  \* uploads and deletions so far

vars == <<partitionVars, relayVars, inbox, doc_state, triage_work, passes, faults, changes>>

Init ==
  /\ PartitionsInit
  /\ RelayInit
  /\ TriageInit
  /\ DetectorInit
  /\ changes = 0

\* The users: a new object, one over another, or a deletion.
ChangeInbox ==
  /\ changes < MaxChanges
  /\ changes' = changes + 1
  /\ \E p \in Path, object \in Uploads \cup {Absent} :
       inbox[p] # object /\ inbox' = [inbox EXCEPT ![p] = object]
  /\ UNCHANGED <<partitionVars, relayVars, doc_state, triage_work, passes, faults>>

Publish(r) == RelayStep(r) /\ UNCHANGED <<inbox, doc_state, triage_work, passes, changes>>
RelayFault(r) == FailRelay(r) /\ UNCHANGED <<inbox, doc_state, triage_work, passes, changes>>
Handle(c) == TriageStep(c) /\ UNCHANGED <<passes, changes>>
TriageFault(c) == (FailTriage(c) \/ CrashTriage(c)) /\ UNCHANGED <<passes, changes>>
Move(p, c) == MovePartition(p, c) /\ UNCHANGED <<passes, changes>>
Detect(x) == DetectorStep(x) /\ UNCHANGED changes
DetectorFault(x) == FailPass(x) /\ UNCHANGED changes

Next ==
  \/ ChangeInbox
  \/ \E r \in Relay : Publish(r) \/ RelayFault(r)
  \/ \E c \in Consumer : Handle(c) \/ TriageFault(c)
  \/ \E p \in Partition, c \in Consumer : Move(p, c)
  \/ \E x \in Detector : Detect(x) \/ DetectorFault(x)

Spec == Init /\ [][Next]_vars

(***************************************************************************)
(* Fairness.  Relays, consumers and the detector run in endless loops, so  *)
(* each takes its next step if it stays possible.  Nothing is asked of the *)
(* users, and faults are never forced.                                     *)
(***************************************************************************)
Fairness ==
  /\ \A r \in Relay : WF_vars(Publish(r))
  /\ \A c \in Consumer : WF_vars(Handle(c))
  /\ \A x \in Detector : WF_vars(Detect(x))

FairSpec == Spec /\ Fairness

-----------------------------------------------------------------------------
(* Properties. *)

\* Every variable holds a value of its type (documents, outbox, the inbox,
\* the topic, and what each process holds in its locals).
TypeOK ==
  /\ PartitionsTypeOK
  /\ RelayTypeOK
  /\ TriageTypeOK
  /\ DetectorTypeOK
  /\ changes \in 0 .. MaxChanges

DispatchPending == {row.content.doc : row \in {r \in outbox : r.content.topic = "dispatch"}}

\* Ledger-first (triage_1.py:3-6), and a relay that loses nothing (outbox.py:
\* 37-43): a document waits for its text exactly if its dispatch is in the
\* outbox or with the broker, whatever relays, brokers and consumers do.
DispatchNotLost ==
  \A d \in Doc : doc_state[d] = "text_pending" <=> d \in DispatchPending \cup arrived

DispatchRows(d) ==
  Cardinality({row \in outbox : row.content.topic = "dispatch" /\ row.content.doc = d})

\* Checksum dedupe (triage_1.py:95-96): only the step that makes the row of a
\* document enqueues its dispatch, and the verdict of that step stands, however
\* often, by how many consumers and from how many paths it is triaged.
TriagedOnce ==
  [][\A d \in Doc : doc_state[d] # NoRow =>
       /\ doc_state'[d] = doc_state[d]
       /\ DispatchRows(d)' <= DispatchRows(d)]_vars

\* The orphan detector's promise (orphan_detector_0.py:10-12) carried through
\* triage: every object that stays in the inbox gets a row, rejected or not,
\* although its request can be lost, and overwritten objects come and go.
NoOrphanForever ==
  <>[](\A p \in Path : inbox[p] # Absent => doc_state[inbox[p].doc] # NoRow)
-----------------------------------------------------------------------------
(***************************************************************************)
(* The inductive invariant.  A dispatch that a relay holds as delivered is *)
(* with the broker, so deleting it loses nothing; and a consumer that owns *)
(* the partition of its job was given everything up to that job, so that   *)
(* its commit stays behind the partition's position.                       *)
(***************************************************************************)

SentArrived ==
  \A row \in outbox : row.sent /\ row.content.topic = "dispatch" => row.content.doc \in arrived

CommitsWhatItWasGiven ==
  \A c \in Consumer : triage_work[c].phase # "idle" =>
    (owner[triage_work[c].part] = c => triage_work[c].offset <= position[triage_work[c].part])

IngestInv == TypeOK /\ DispatchNotLost /\ SentArrived /\ CommitsWhatItWasGiven
=============================================================================
