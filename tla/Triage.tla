------------------------------- MODULE Triage -------------------------------
(***************************************************************************)
(* Stage 0 (stages/triage_1.py): a consumer takes a request, asks the      *)
(* object store for the object's checksum, size and type, downloads the    *)
(* object in a second call, and inserts the initial row of the document,   *)
(* with the outbox row that dispatches it, in one transaction.             *)
(*                                                                         *)
(* The inbox is filled, overwritten and emptied by its users.              *)
(***************************************************************************)
EXTENDS OutboxRelay

\* What the bytes of a document are: empty; unreadable (an encrypted, corrupt
\* or too long PDF); readable.
CONSTANT Class

ASSUME TriageAssumption == Class \in [Doc -> {"empty", "unreadable", "readable"}]

VARIABLES
  inbox,        \* the object at each path
  doc_state,    \* documents.state as triage leaves it, or NoRow
  triage_work   \* what each consumer is doing

NoRow == "none"
Absent == [doc |-> "absent", type |-> "other"]

\* An object is its bytes and its content type, which the uploader names;
\* "other" is not in ALLOWED_MIME_TYPES.
Object == [doc : Doc, type : {"pdf", "image", "other"}]

InitialStates == {"text_pending", "review", "failed"}

IdleTriage == [phase |-> "idle"]
TriageJob ==
  [phase : {"polled", "handled"}, part : Partition, offset : Nat, path : Path]
    \cup
  [phase : {"described"}, part : Partition, offset : Nat, path : Path, object : Object]
    \cup
  [phase : {"classified"}, part : Partition, offset : Nat, path : Path,
   doc : Doc, state : InitialStates]

TriageTypeOK ==
  /\ inbox \in [Path -> Object \cup {Absent}]
  /\ doc_state \in [Doc -> InitialStates \cup {NoRow}]
  /\ triage_work \in [Consumer -> TriageJob \cup {IdleTriage}]

TriageInit ==
  /\ inbox = [p \in Path |-> Absent]
  /\ doc_state = [d \in Doc |-> NoRow]
  /\ triage_work = [c \in Consumer |-> IdleTriage]

Job(phase, job) ==
  [phase |-> phase, part |-> job.part, offset |-> job.offset, path |-> job.path]

\* Mutant: rejected objects get no row.
insert_only_dispatched(d, state) ==
  doc_state' = IF doc_state[d] = NoRow /\ state = "text_pending"
               THEN [doc_state EXCEPT ![d] = state] ELSE doc_state

\* INSERT ... ON CONFLICT (doc_id) DO NOTHING.
insert_initial_document(d, state) ==
  doc_state' = IF doc_state[d] = NoRow THEN [doc_state EXCEPT ![d] = state] ELSE doc_state

poll(c) ==
  /\ triage_work[c] = IdleTriage
  /\ \E p \in Partition :
       /\ poll_json(c, p)
       /\ triage_work' = [triage_work EXCEPT ![c] =
            [phase |-> "polled", part |-> p, offset |-> position[p] + 1, path |-> Polled(p).path]]
  /\ UNCHANGED <<relayVars, inbox, doc_state, faults>>

\* The object is gone: nothing to do.  What its size and type rule out is
\* rejected here; the rest must be downloaded.
object_info(c) ==
  LET job == triage_work[c]
      object == inbox[job.path]
      rejected == object # Absent /\ (Class[object.doc] = "empty" \/ object.type = "other")
  IN /\ job.phase = "polled"
     /\ \/ /\ object = Absent
           /\ triage_work' = [triage_work EXCEPT ![c] = Job("handled", job)]
           /\ UNCHANGED doc_state
        \/ /\ rejected
           /\ insert_initial_document(object.doc, "failed")
           /\ triage_work' = [triage_work EXCEPT ![c] = Job("handled", job)]
        \/ /\ object # Absent /\ ~rejected
           /\ triage_work' = [triage_work EXCEPT ![c] =
                [phase |-> "described", part |-> job.part, offset |-> job.offset,
                 path |-> job.path, object |-> object]]
           /\ UNCHANGED doc_state
     /\ UNCHANGED <<partitionVars, relayVars, inbox, faults>>

\* What triage makes of bytes under a content type: an image is not parsed.
Classify(d, type) ==
  IF type = "image" \/ Class[d] = "readable" THEN "text_pending" ELSE "review"

\* The bytes are whatever is at the path now; checksum and type are those of
\* object_info.  If nothing is there the download raises, and the request is
\* passed over without an offset commit.
download_and_classify(c) ==
  LET job == triage_work[c]
      object == inbox[job.path]
  IN /\ job.phase = "described"
     /\ \/ /\ object = Absent
           /\ triage_work' = [triage_work EXCEPT ![c] = IdleTriage]
        \/ /\ object # Absent
           /\ triage_work' = [triage_work EXCEPT ![c] =
                [phase |-> "classified", part |-> job.part, offset |-> job.offset,
                 path |-> job.path, doc |-> job.object.doc,
                 state |-> Classify(object.doc, job.object.type)]]
     /\ UNCHANGED <<partitionVars, relayVars, inbox, doc_state, faults>>

\* Mutant: a duplicate is dispatched like a new document.
dispatch_always(c) ==
  LET job == triage_work[c] IN
  /\ job.phase = "classified"
  /\ insert_initial_document(job.doc, job.state)
  /\ outbox' = IF job.state = "text_pending"
               THEN Enqueued({[topic |-> "dispatch", doc |-> job.doc, path |-> job.path]})
               ELSE outbox
  /\ triage_work' = [triage_work EXCEPT ![c] = Job("handled", job)]
  /\ UNCHANGED <<partitionVars, arrived, inbox, faults>>

\* The row and its dispatch, or neither: a document that has a row is a duplicate.
insert_and_dispatch(c) ==
  LET job == triage_work[c]
      inserted == doc_state[job.doc] = NoRow
  IN /\ job.phase = "classified"
     /\ insert_initial_document(job.doc, job.state)
     /\ outbox' = IF inserted /\ job.state = "text_pending"
                  THEN Enqueued({[topic |-> "dispatch", doc |-> job.doc, path |-> job.path]})
                  ELSE outbox
     /\ triage_work' = [triage_work EXCEPT ![c] = Job("handled", job)]
     /\ UNCHANGED <<partitionVars, arrived, inbox, faults>>

commit_offset(c) ==
  LET job == triage_work[c] IN
  /\ job.phase = "handled"
  /\ commit(c, job.part, job.offset)
  /\ triage_work' = [triage_work EXCEPT ![c] = IdleTriage]
  /\ UNCHANGED <<relayVars, inbox, doc_state, faults>>

TriageStep(c) ==
  \/ poll(c)
  \/ object_info(c)
  \/ download_and_classify(c)
  \/ insert_and_dispatch(c)
  \/ commit_offset(c)

\* An exception: roll back, no offset commit, and on to the next record.
FailTriage(c) ==
  /\ triage_work[c] # IdleTriage
  /\ Fault
  /\ triage_work' = [triage_work EXCEPT ![c] = IdleTriage]
  /\ UNCHANGED <<partitionVars, relayVars, inbox, doc_state>>

\* The process dies and is started again.
CrashTriage(c) ==
  /\ Fault
  /\ RestartConsumer(c)
  /\ triage_work' = [triage_work EXCEPT ![c] = IdleTriage]
  /\ UNCHANGED <<relayVars, inbox, doc_state>>

\* Scaling, or a member too slow to poll, moves a partition to another one;
\* the old owner may still be at work on a request from it.
MovePartition(p, c) ==
  /\ triage_work[c] = IdleTriage
  /\ Fault
  /\ Rebalance(p, c)
  /\ UNCHANGED <<relayVars, inbox, doc_state, triage_work>>
=============================================================================
