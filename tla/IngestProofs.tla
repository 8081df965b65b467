---------------------------- MODULE IngestProofs ----------------------------
(***************************************************************************)
(* Proofs about Ingest, for any documents, paths, partitions, consumers,   *)
(* relays, detectors, batch cap and number of faults.                      *)
(***************************************************************************)
EXTENDS Ingest, TLAPS, FiniteSetTheorems, SequenceTheorems

(***************************************************************************)
(* Finite sets.                                                            *)
(***************************************************************************)

\* The image of a finite set under a function is finite and not larger.
LEMMA FiniteImage ==
  ASSUME NEW S, IsFiniteSet(S), NEW f
  PROVE  LET T == {f[x] : x \in S}
         IN  IsFiniteSet(T) /\ Cardinality(T) <= Cardinality(S)
<1> DEFINE T == {f[x] : x \in S}
           g == [x \in S |-> f[x]]
<1>1. g \in Surjection(S, T)
  BY DEF Surjection
<1> HIDE DEF T, g
<1>2. IsFiniteSet(T) /\ Cardinality(T) <= Cardinality(S)
  BY <1>1, FS_Surjection
<1> QED
  BY <1>2 DEF T

\* There are finitely many requests, so what a detector finds is finite.
LEMMA FiniteRequests == IsFiniteSet(Request)
<1> DEFINE f == [x \in Doc \X Path |-> [doc |-> x[1], path |-> x[2]]]
<1>1. IsFiniteSet(Doc \X Path)
  BY PartitionsAssumption, FS_Product
<1>2. IsFiniteSet({f[x] : x \in Doc \X Path})
  <2> HIDE DEF f
  <2> QED
    BY <1>1, FiniteImage
<1>3. Request = {f[x] : x \in Doc \X Path}
  <2>1. ASSUME NEW q \in Request PROVE q \in {f[x] : x \in Doc \X Path}
    <3>1. <<q.doc, q.path>> \in Doc \X Path /\ q = f[<<q.doc, q.path>>]
      BY DEF Request
    <3> QED
      BY <3>1
  <2>2. ASSUME NEW x \in Doc \X Path PROVE f[x] \in Request
    BY DEF Request
  <2> QED
    BY <2>1, <2>2
<1> QED
  BY <1>2, <1>3

(***************************************************************************)
(* Rows of the outbox.                                                     *)
(***************************************************************************)

\* A finite table always leaves a copy number free.
LEMMA FreshCopyExists ==
  ASSUME IsFiniteSet(outbox), NEW content
  PROVE  FreshCopy(content) \in Nat
<1> DEFINE f == [row \in outbox |-> row.copy]
           Used == {f[row] : row \in outbox}
           k == Cardinality(outbox)
           Free(n) == \A row \in outbox : row.content = content => row.copy # n
<1>1. k \in Nat
  BY FS_CardinalityType
<1>2. IsFiniteSet(Used) /\ Cardinality(Used) <= k
  BY FiniteImage
<1>3. IsFiniteSet(0 .. k) /\ Cardinality(0 .. k) = k + 1
  BY <1>1, FS_Interval
<1> HIDE DEF k
<1>4. ~ (0 .. k) \subseteq Used
  <2>1. Cardinality(Used) \in Nat
    BY <1>2, FS_CardinalityType
  <2>2. ASSUME (0 .. k) \in SUBSET Used PROVE FALSE
    <3>1. Cardinality(0 .. k) <= Cardinality(Used)
      BY <1>2, <2>2, FS_Subset
    <3> QED
      BY <1>1, <1>2, <1>3, <2>1, <3>1
  <2> QED
    BY <2>2
<1>5. \E n \in 0 .. k : Free(n)
  <2>1. PICK n \in 0 .. k : n \notin Used
    BY <1>4
  <2> QED
    BY <2>1
<1>6. FreshCopy(content) = CHOOSE n \in 0 .. k : Free(n)
  BY DEF FreshCopy, k
<1>7. FreshCopy(content) \in 0 .. k
  <2> HIDE DEF Free
  <2> QED
    BY <1>5, <1>6
<1> QED
  BY <1>1, <1>7

\* What an INSERT of several rows leaves: the old rows, and a free, unsent row
\* for each of the contents.
LEMMA EnqueuedRows ==
  ASSUME RelayTypeOK, NEW S \in SUBSET Content, IsFiniteSet(S)
  PROVE  /\ Enqueued(S) \subseteq Row
         /\ IsFiniteSet(Enqueued(S))
         /\ outbox \subseteq Enqueued(S)
         /\ \A row \in Enqueued(S) \ outbox :
              row.content \in S /\ row.by = NoRelay /\ ~row.sent
         /\ \A q \in S : \E row \in Enqueued(S) : row.content = q
<1> DEFINE f == [q \in S |-> NewRow(q)]
<1>1. \A q \in S : /\ NewRow(q) \in Row
                   /\ NewRow(q).content = q
                   /\ NewRow(q).by = NoRelay
                   /\ NewRow(q).sent = FALSE
  <2> TAKE q \in S
  <2>1. FreshCopy(q) \in Nat
    BY FreshCopyExists DEF RelayTypeOK
  <2> QED
    BY <2>1 DEF NewRow, Row
<1>2. {NewRow(q) : q \in S} = {f[q] : q \in S}
  OBVIOUS
<1>3. IsFiniteSet({NewRow(q) : q \in S})
  <2> HIDE DEF f
  <2> QED
    BY <1>2, FiniteImage
<1>4. IsFiniteSet(Enqueued(S))
  BY <1>3, FS_Union DEF Enqueued, RelayTypeOK
<1>5. Enqueued(S) = outbox \cup {NewRow(q) : q \in S}
  BY DEF Enqueued
<1> HIDE DEF f
<1>6. ASSUME NEW row \in Enqueued(S), row \notin outbox
      PROVE  row \in Row /\ row.content \in S /\ row.by = NoRelay /\ ~row.sent
  <2>1. PICK q \in S : row = NewRow(q)
    BY <1>5, <1>6
  <2> QED
    BY <1>1, <2>1
<1>7. ASSUME NEW q \in S PROVE \E row \in Enqueued(S) : row.content = q
  <2>1. NewRow(q) \in Enqueued(S)
    BY <1>5
  <2> QED
    BY <1>1, <2>1
<1>8. Enqueued(S) \subseteq Row
  BY <1>6 DEF RelayTypeOK
<1> QED
  BY <1>4, <1>5, <1>6, <1>7, <1>8

\* Locking, freeing or marking rows keeps what they say.
LEMMA Relabel ==
  ASSUME RelayTypeOK, NEW B \in SUBSET outbox, NEW f,
         \A row \in B : f[row] \in Row /\ f[row].content = row.content,
         outbox' = (outbox \ B) \cup {f[row] : row \in B}
  PROVE  /\ outbox' \subseteq Row
         /\ IsFiniteSet(outbox')
         /\ DispatchPending' = DispatchPending
         /\ \A row \in outbox' : row \in outbox \/ \E old \in B : row = f[old]
<1>1. IsFiniteSet(B) /\ IsFiniteSet(outbox \ B)
  BY FS_Subset DEF RelayTypeOK
<1>2. IsFiniteSet({f[row] : row \in B})
  BY <1>1, FiniteImage
<1>3. IsFiniteSet(outbox')
  BY <1>1, <1>2, FS_Union
<1>4. outbox' \subseteq Row
  BY DEF RelayTypeOK
<1>5. ASSUME NEW d PROVE d \in DispatchPending' <=> d \in DispatchPending
  <2>1. d \in DispatchPending <=>
          \E row \in outbox : row.content.topic = "dispatch" /\ row.content.doc = d
    BY DEF DispatchPending
  <2>2. d \in DispatchPending' <=>
          \E row \in outbox' : row.content.topic = "dispatch" /\ row.content.doc = d
    BY DEF DispatchPending
  <2>3. ASSUME NEW row \in outbox
        PROVE  \E new \in outbox' : new.content = row.content
    <3>1. CASE row \in B
      BY <3>1
    <3>2. CASE row \notin B
      BY <3>2
    <3> QED
      BY <3>1, <3>2
  <2>4. ASSUME NEW new \in outbox'
        PROVE  \E row \in outbox : new.content = row.content
    OBVIOUS
  <2> QED
    BY <2>1, <2>2, <2>3, <2>4
<1>6. DispatchPending' = DispatchPending
  <2>1. \A d : d \in DispatchPending' <=> d \in DispatchPending
    BY <1>5
  <2> QED
    BY <2>1
<1> QED
  BY <1>3, <1>4, <1>6

(***************************************************************************)
(* The relays.                                                             *)
(***************************************************************************)

\* What every step of a relay leaves alone, and what is left to show of it.
LEMMA RelayFrame ==
  ASSUME IngestInv, UNCHANGED <<position, owner, inbox, doc_state, triage_work, passes, changes>>,
         PartitionsTypeOK', RelayTypeOK', SentArrived',
         DispatchPending' \cup arrived' = DispatchPending \cup arrived
  PROVE  IngestInv'
<1>1. TypeOK'
  BY DEF IngestInv, TypeOK, TriageTypeOK, DetectorTypeOK, IngestInv
<1>2. DispatchNotLost'
  BY DEF IngestInv, DispatchNotLost
<1>3. CommitsWhatItWasGiven'
  BY DEF IngestInv, CommitsWhatItWasGiven
<1> QED
  BY <1>1, <1>2, <1>3 DEF IngestInv

LEMMA RelayClaims ==
  ASSUME IngestInv, NEW r \in Relay, claim_outbox_batch(r),
         UNCHANGED <<inbox, doc_state, triage_work, passes, changes>>
  PROVE  IngestInv'
<1> USE DEF partitionVars
<1>1. PICK batch \in SUBSET Unlocked :
        outbox' = (outbox \ batch) \cup {[row EXCEPT !.by = r] : row \in batch}
  BY DEF claim_outbox_batch
<1> DEFINE f == [row \in batch |-> [row EXCEPT !.by = r]]
<1>2. RelayTypeOK /\ PartitionsTypeOK /\ SentArrived
  BY DEF IngestInv, TypeOK
<1>3. batch \in SUBSET outbox
  BY DEF Unlocked
<1>4. \A row \in batch : /\ f[row] \in Row
                         /\ f[row].content = row.content
                         /\ f[row].sent = row.sent
                         /\ f[row].by = r
                         /\ ~f[row].sent
  BY <1>2, <1>3 DEF RelayTypeOK, Row, Unlocked
<1>5. outbox' = (outbox \ batch) \cup {f[row] : row \in batch}
  BY <1>1
<1> HIDE DEF f
<1>6. /\ outbox' \subseteq Row
      /\ IsFiniteSet(outbox')
      /\ DispatchPending' = DispatchPending
      /\ \A row \in outbox' : row \in outbox \/ \E old \in batch : row = f[old]
  BY <1>2, <1>3, <1>4, <1>5, Relabel
<1>7. UNCHANGED <<log, position, owner, arrived, faults>>
  BY DEF claim_outbox_batch
<1>8. RelayTypeOK'
  BY <1>2, <1>4, <1>6, <1>7, RelayAssumption DEF RelayTypeOK
<1>9. SentArrived'
  BY <1>2, <1>4, <1>6, <1>7 DEF SentArrived
<1>10. PartitionsTypeOK'
  BY <1>2, <1>7 DEF PartitionsTypeOK
<1> QED
  BY <1>6, <1>7, <1>8, <1>9, <1>10, RelayFrame

LEMMA PublishTypes ==
  ASSUME PartitionsTypeOK, NEW q \in Request, publish(q), UNCHANGED <<position, owner, faults>>
  PROVE  PartitionsTypeOK'
<1> DEFINE p == PartitionOf[q.doc]
<1>1. p \in Partition
  BY PartitionsAssumption DEF Request
<1>2. log' = [log EXCEPT ![p] = Append(@, q)]
  BY DEF publish
<1> HIDE DEF p
<1>3. log' \in [Partition -> Seq(Request)]
  BY <1>1, <1>2 DEF PartitionsTypeOK
<1>4. \A s \in Partition : position[s] <= Len(log'[s])
  <2> TAKE s \in Partition
  <2>1. CASE s = p
    <3>1. Len(log'[s]) = Len(log[s]) + 1 /\ Len(log[s]) \in Nat
      BY <1>1, <1>2, <2>1 DEF PartitionsTypeOK
    <3> QED
      BY <3>1 DEF PartitionsTypeOK
  <2>2. CASE s # p
    BY <1>1, <1>2, <2>2 DEF PartitionsTypeOK
  <2> QED
    BY <2>1, <2>2
<1> QED
  BY <1>3, <1>4 DEF PartitionsTypeOK

LEMMA RelayDelivers ==
  ASSUME IngestInv, NEW r \in Relay, deliver(r),
         UNCHANGED <<inbox, doc_state, triage_work, passes, changes>>
  PROVE  IngestInv'
<1>1. PICK row \in Batch(r) :
        /\ outbox' = (outbox \ {row}) \cup {[row EXCEPT !.sent = TRUE]}
        /\ \/ /\ row.content.topic = "triage.requests"
              /\ publish([doc |-> row.content.doc, path |-> row.content.path])
              /\ UNCHANGED arrived
           \/ /\ row.content.topic = "dispatch"
              /\ arrived' = arrived \cup {row.content.doc}
              /\ UNCHANGED log
  BY DEF deliver
<1> DEFINE f == [x \in {row} |-> [x EXCEPT !.sent = TRUE]]
<1>2. RelayTypeOK /\ PartitionsTypeOK /\ SentArrived
  BY DEF IngestInv, TypeOK
<1>3. row \in outbox /\ row \in Row /\ row.content \in Content /\ row.by = r
  BY <1>2 DEF Batch, RelayTypeOK, Row
<1>4. \A x \in {row} : f[x] \in Row /\ f[x].content = x.content /\ f[x].by = r
  BY <1>3 DEF Row
<1>5. outbox' = (outbox \ {row}) \cup {f[x] : x \in {row}}
  BY <1>1
<1> HIDE DEF f
<1>6. /\ outbox' \subseteq Row
      /\ IsFiniteSet(outbox')
      /\ DispatchPending' = DispatchPending
      /\ \A x \in outbox' : x \in outbox \/ \E old \in {row} : x = f[old]
  <2>1. {row} \in SUBSET outbox
    BY <1>3
  <2> QED
    BY <1>2, <1>4, <1>5, <2>1, Relabel
<1>7. UNCHANGED <<position, owner, faults>>
  BY DEF deliver
<1>8. arrived \subseteq arrived' /\ arrived' \subseteq Doc
      /\ (row.content.topic = "dispatch" => row.content.doc \in arrived')
  BY <1>1, <1>2, <1>3 DEF RelayTypeOK, Content
<1>9. RelayTypeOK'
  BY <1>2, <1>4, <1>6, <1>8, RelayAssumption DEF RelayTypeOK, NoRelay
<1>10. SentArrived'
  BY <1>2, <1>4, <1>6, <1>8 DEF SentArrived
<1>11. PartitionsTypeOK'
  <2>1. CASE row.content.topic = "triage.requests"
    <3>1. [doc |-> row.content.doc, path |-> row.content.path] \in Request
      BY <1>3 DEF Content, Request
    <3> QED
      BY <1>1, <1>2, <1>7, <2>1, <3>1, PublishTypes
  <2>2. CASE row.content.topic = "dispatch"
    BY <1>1, <1>2, <1>7, <2>2 DEF PartitionsTypeOK
  <2> QED
    BY <1>1, <2>1, <2>2
<1>12. DispatchPending' \cup arrived' = DispatchPending \cup arrived
  <2>1. row.content.topic = "dispatch" => row.content.doc \in DispatchPending
    BY <1>3 DEF DispatchPending
  <2> QED
    BY <1>1, <1>6, <2>1
<1> QED
  BY <1>7, <1>9, <1>10, <1>11, <1>12, RelayFrame

\* A row is deleted only when the broker has its record.
LEMMA RelayDeletes ==
  ASSUME IngestInv, NEW r \in Relay, delete_on_ack(r),
         UNCHANGED <<inbox, doc_state, triage_work, passes, changes>>
  PROVE  IngestInv'
<1>1. /\ \A row \in Batch(r) : row.sent
      /\ outbox' = outbox \ Batch(r)
      /\ UNCHANGED <<log, position, owner, arrived, faults>>
  BY DEF delete_on_ack, partitionVars
<1>2. RelayTypeOK /\ PartitionsTypeOK /\ SentArrived
  BY DEF IngestInv, TypeOK
<1>3. IsFiniteSet(outbox')
  BY <1>1, <1>2, FS_Subset DEF RelayTypeOK
<1>4. RelayTypeOK'
  BY <1>1, <1>2, <1>3 DEF RelayTypeOK
<1>5. SentArrived'
  BY <1>1, <1>2 DEF SentArrived
<1>6. PartitionsTypeOK'
  BY <1>1, <1>2 DEF PartitionsTypeOK
<1>7. ASSUME NEW d \in DispatchPending, d \notin DispatchPending' PROVE d \in arrived
  <2>1. PICK row \in outbox : row.content.topic = "dispatch" /\ row.content.doc = d
    BY DEF DispatchPending
  <2>2. row \notin outbox'
    BY <1>7, <2>1 DEF DispatchPending
  <2>3. row.sent
    BY <1>1, <2>2
  <2> QED
    BY <1>2, <2>1, <2>3 DEF SentArrived
<1>8. DispatchPending' \subseteq DispatchPending
  BY <1>1 DEF DispatchPending
<1>9. DispatchPending' \cup arrived' = DispatchPending \cup arrived
  BY <1>1, <1>7, <1>8
<1> QED
  BY <1>1, <1>4, <1>5, <1>6, <1>9, RelayFrame

LEMMA RelayFails ==
  ASSUME IngestInv, NEW r \in Relay, FailRelay(r),
         UNCHANGED <<inbox, doc_state, triage_work, passes, changes>>
  PROVE  IngestInv'
<1> DEFINE f == [row \in Batch(r) |-> [row EXCEPT !.by = NoRelay, !.sent = FALSE]]
<1>1. /\ outbox' = (outbox \ Batch(r)) \cup {f[row] : row \in Batch(r)}
      /\ Fault
      /\ UNCHANGED <<log, position, owner, arrived>>
  BY DEF FailRelay, partitionVars
<1>2. RelayTypeOK /\ PartitionsTypeOK /\ SentArrived
  BY DEF IngestInv, TypeOK
<1>3. Batch(r) \in SUBSET outbox
  BY DEF Batch
<1>4. \A row \in Batch(r) : f[row] \in Row /\ f[row].content = row.content /\ ~f[row].sent
  BY <1>2, <1>3 DEF RelayTypeOK, Row
<1> HIDE DEF f
<1>5. /\ outbox' \subseteq Row
      /\ IsFiniteSet(outbox')
      /\ DispatchPending' = DispatchPending
      /\ \A row \in outbox' : row \in outbox \/ \E old \in Batch(r) : row = f[old]
  BY <1>1, <1>2, <1>3, <1>4, Relabel
<1>6. RelayTypeOK'
  BY <1>1, <1>2, <1>4, <1>5 DEF RelayTypeOK
<1>7. SentArrived'
  BY <1>1, <1>2, <1>4, <1>5 DEF SentArrived
<1>8. PartitionsTypeOK'
  BY <1>1, <1>2, PartitionsAssumption DEF PartitionsTypeOK, Fault
<1> QED
  BY <1>1, <1>5, <1>6, <1>7, <1>8, RelayFrame

(***************************************************************************)
(* Triage.                                                                 *)
(***************************************************************************)

\* What a consumer at work holds, phase by phase.
LEMMA JobTypes ==
  ASSUME TriageTypeOK, NEW c \in Consumer, triage_work[c].phase # "idle"
  PROVE  /\ triage_work[c].part \in Partition
         /\ triage_work[c].offset \in Nat
         /\ triage_work[c].path \in Path
         /\ triage_work[c].phase = "described" => triage_work[c].object \in Object
         /\ triage_work[c].phase = "classified" =>
              triage_work[c].doc \in Doc /\ triage_work[c].state \in InitialStates
<1>1. triage_work[c] \in TriageJob
  BY DEF TriageTypeOK, IdleTriage
<1> QED
  BY <1>1 DEF TriageJob

\* A consumer that goes on with its job, or drops it, breaks neither types nor
\* the order of offsets; rows and outbox are a matter of the step.
LEMMA TriageFrame ==
  ASSUME IngestInv, NEW c \in Consumer, UNCHANGED <<partitionVars, arrived, inbox, passes, changes>>,
         NEW job \in TriageJob \cup {IdleTriage},
         triage_work' = [triage_work EXCEPT ![c] = job],
         job.phase # "idle" =>
           /\ triage_work[c].phase # "idle"
           /\ job.part = triage_work[c].part /\ job.offset = triage_work[c].offset,
         doc_state' \in [Doc -> InitialStates \cup {NoRow}],
         RelayTypeOK', DispatchNotLost', SentArrived',
         faults' \in 0 .. MaxFaults
  PROVE  IngestInv'
<1> USE DEF partitionVars
<1>1. PartitionsTypeOK'
  BY DEF IngestInv, TypeOK, PartitionsTypeOK
<1>2. TriageTypeOK'
  BY DEF IngestInv, TypeOK, TriageTypeOK
<1>3. TypeOK'
  BY <1>1, <1>2 DEF IngestInv, TypeOK, DetectorTypeOK
<1>4. CommitsWhatItWasGiven'
  <2> SUFFICES ASSUME NEW x \in Consumer, triage_work'[x].phase # "idle",
                      owner[triage_work'[x].part] = x
               PROVE  triage_work'[x].offset <= position[triage_work'[x].part]
    BY DEF CommitsWhatItWasGiven
  <2>1. triage_work \in [Consumer -> TriageJob \cup {IdleTriage}]
    BY DEF IngestInv, TypeOK, TriageTypeOK
  <2>2. triage_work'[x] = IF x = c THEN job ELSE triage_work[x]
    BY <2>1
  <2>3. /\ triage_work[x].phase # "idle"
        /\ triage_work'[x].part = triage_work[x].part
        /\ triage_work'[x].offset = triage_work[x].offset
    BY <2>2
  <2> QED
    BY <2>3 DEF IngestInv, CommitsWhatItWasGiven
<1> QED
  BY <1>3, <1>4 DEF IngestInv

\* The same for a step that leaves the rows and the outbox alone too.
LEMMA TriageQuiet ==
  ASSUME IngestInv, NEW c \in Consumer,
         UNCHANGED <<partitionVars, relayVars, inbox, doc_state, passes, changes>>,
         NEW job \in TriageJob \cup {IdleTriage},
         triage_work' = [triage_work EXCEPT ![c] = job],
         job.phase # "idle" =>
           /\ triage_work[c].phase # "idle"
           /\ job.part = triage_work[c].part /\ job.offset = triage_work[c].offset,
         faults' \in 0 .. MaxFaults
  PROVE  IngestInv'
<1>1. RelayTypeOK' /\ SentArrived' /\ DispatchNotLost'
  BY DEF relayVars, IngestInv, TypeOK, RelayTypeOK, SentArrived, DispatchNotLost, DispatchPending
<1>2. doc_state' \in [Doc -> InitialStates \cup {NoRow}]
  BY DEF IngestInv, TypeOK, TriageTypeOK
<1>3. UNCHANGED <<arrived>>
  BY DEF relayVars
<1> QED
  BY <1>1, <1>2, <1>3, TriageFrame

LEMMA HandledJob ==
  ASSUME TriageTypeOK, NEW c \in Consumer, triage_work[c].phase # "idle"
  PROVE  /\ Job("handled", triage_work[c]) \in TriageJob
         /\ Job("handled", triage_work[c]).part = triage_work[c].part
         /\ Job("handled", triage_work[c]).offset = triage_work[c].offset
  BY JobTypes DEF Job, TriageJob

LEMMA InboxDocs ==
  ASSUME TriageTypeOK, NEW p \in Path, inbox[p] # Absent
  PROVE  inbox[p] \in Object /\ inbox[p].doc \in Doc
  BY DEF TriageTypeOK, Object

\* Insertion of a row that is not text_pending dispatches nothing.
LEMMA InsertRejected ==
  ASSUME IngestInv, NEW d \in Doc, NEW st \in InitialStates \ {"text_pending"},
         insert_initial_document(d, st), UNCHANGED relayVars
  PROVE  /\ doc_state' \in [Doc -> InitialStates \cup {NoRow}]
         /\ RelayTypeOK' /\ SentArrived' /\ DispatchNotLost'
<1>1. doc_state \in [Doc -> InitialStates \cup {NoRow}]
  BY DEF IngestInv, TypeOK, TriageTypeOK
<1>2. doc_state' = IF doc_state[d] = NoRow THEN [doc_state EXCEPT ![d] = st] ELSE doc_state
  BY DEF insert_initial_document
<1>3. doc_state' \in [Doc -> InitialStates \cup {NoRow}]
  BY <1>1, <1>2
<1>4. \A x \in Doc : doc_state'[x] = "text_pending" <=> doc_state[x] = "text_pending"
  BY <1>1, <1>2 DEF NoRow
<1>5. RelayTypeOK' /\ SentArrived'
  BY DEF relayVars, IngestInv, TypeOK, RelayTypeOK, SentArrived
<1>6. DispatchPending' = DispatchPending /\ arrived' = arrived
  BY DEF relayVars, DispatchPending
<1>7. DispatchNotLost'
  BY <1>4, <1>6 DEF IngestInv, DispatchNotLost
<1> QED
  BY <1>3, <1>5, <1>7

LEMMA TriagePolls ==
  ASSUME IngestInv, NEW c \in Consumer, poll(c), UNCHANGED <<passes, changes>>
  PROVE  IngestInv'
<1> USE DEF partitionVars, relayVars
<1>1. PICK p \in Partition :
        /\ poll_json(c, p)
        /\ triage_work' = [triage_work EXCEPT ![c] =
             [phase |-> "polled", part |-> p, offset |-> position[p] + 1, path |-> Polled(p).path]]
  BY DEF poll
<1> DEFINE job == [phase |-> "polled", part |-> p, offset |-> position[p] + 1,
                   path |-> Polled(p).path]
<1>2. /\ owner[p] = c /\ position[p] < Len(log[p])
      /\ position' = [position EXCEPT ![p] = @ + 1]
      /\ UNCHANGED <<log, owner, outbox, arrived, inbox, doc_state, faults, passes, changes>>
  BY <1>1 DEF poll, poll_json
<1>3. TypeOK /\ CommitsWhatItWasGiven
  BY DEF IngestInv
<1>4. /\ position \in [Partition -> Nat] /\ log[p] \in Seq(Request)
      /\ Len(log[p]) \in Nat
      /\ triage_work \in [Consumer -> TriageJob \cup {IdleTriage}]
  BY <1>3 DEF TypeOK, PartitionsTypeOK, TriageTypeOK
<1>5. Polled(p) \in Request
  BY <1>2, <1>4 DEF Polled
<1>6. job \in TriageJob
  BY <1>4, <1>5 DEF TriageJob, Request
<1>7. PartitionsTypeOK'
  BY <1>2, <1>3, <1>4 DEF TypeOK, PartitionsTypeOK
<1>8. TriageTypeOK'
  BY <1>1, <1>2, <1>3, <1>4, <1>6 DEF TypeOK, TriageTypeOK
<1>9. TypeOK'
  BY <1>2, <1>3, <1>7, <1>8 DEF TypeOK, RelayTypeOK, DetectorTypeOK
<1>10. DispatchNotLost' /\ SentArrived'
  BY <1>2 DEF IngestInv, DispatchNotLost, DispatchPending, SentArrived
<1>11. CommitsWhatItWasGiven'
  <2> SUFFICES ASSUME NEW x \in Consumer, triage_work'[x].phase # "idle",
                      owner[triage_work'[x].part] = x
               PROVE  triage_work'[x].offset <= position'[triage_work'[x].part]
    BY <1>2 DEF CommitsWhatItWasGiven
  <2>1. CASE x = c
    <3>1. triage_work'[x] = job
      BY <1>1, <1>4, <2>1
    <3> QED
      BY <1>2, <1>4, <3>1
  <2>2. CASE x # c
    <3>1. triage_work'[x] = triage_work[x]
      BY <1>1, <1>4, <2>2
    <3>2. triage_work[x].part \in Partition
      BY <1>3, <3>1, JobTypes DEF TypeOK
    <3>3. triage_work[x].part # p
      BY <1>2, <2>2, <3>1
    <3> QED
      BY <1>2, <1>3, <1>4, <3>1, <3>2, <3>3 DEF CommitsWhatItWasGiven
  <2> QED
    BY <2>1, <2>2
<1> QED
  BY <1>9, <1>10, <1>11 DEF IngestInv

LEMMA TriageLooks ==
  ASSUME IngestInv, NEW c \in Consumer, object_info(c), UNCHANGED <<passes, changes>>
  PROVE  IngestInv'
<1> DEFINE job == triage_work[c]
           object == inbox[job.path]
           rejected == object # Absent /\ (Class[object.doc] = "empty" \/ object.type = "other")
           described == [phase |-> "described", part |-> job.part, offset |-> job.offset,
                         path |-> job.path, object |-> object]
<1>1. /\ job.phase = "polled"
      /\ \/ /\ object = Absent
            /\ triage_work' = [triage_work EXCEPT ![c] = Job("handled", job)]
            /\ UNCHANGED doc_state
         \/ /\ rejected
            /\ insert_initial_document(object.doc, "failed")
            /\ triage_work' = [triage_work EXCEPT ![c] = Job("handled", job)]
         \/ /\ object # Absent /\ ~rejected
            /\ triage_work' = [triage_work EXCEPT ![c] = described]
            /\ UNCHANGED doc_state
      /\ UNCHANGED <<partitionVars, relayVars, inbox, faults>>
  BY DEF object_info
<1>2. TriageTypeOK /\ faults \in 0 .. MaxFaults
  BY DEF IngestInv, TypeOK, PartitionsTypeOK
<1>3. /\ job.phase # "idle" /\ job.part \in Partition /\ job.offset \in Nat /\ job.path \in Path
      /\ Job("handled", job) \in TriageJob
      /\ Job("handled", job).part = job.part
      /\ Job("handled", job).offset = job.offset
  BY <1>1, <1>2, JobTypes, HandledJob
<1>4. object # Absent => object \in Object /\ object.doc \in Doc
  BY <1>2, <1>3, InboxDocs
<1>5. faults' \in 0 .. MaxFaults
  BY <1>1, <1>2
<1>6. CASE rejected /\ insert_initial_document(object.doc, "failed")
           /\ triage_work' = [triage_work EXCEPT ![c] = Job("handled", job)]
  <2>1. object.doc \in Doc /\ "failed" \in InitialStates \ {"text_pending"}
    BY <1>4, <1>6 DEF InitialStates
  <2> HIDE DEF object, rejected
  <2>2. /\ doc_state' \in [Doc -> InitialStates \cup {NoRow}]
        /\ RelayTypeOK' /\ SentArrived' /\ DispatchNotLost'
    BY <1>1, <1>6, <2>1, InsertRejected
  <2>3. UNCHANGED <<partitionVars, arrived, inbox, passes, changes>>
    BY <1>1 DEF relayVars
  <2> QED
    BY <1>3, <1>5, <1>6, <2>2, <2>3, TriageFrame
<1>7. CASE UNCHANGED doc_state /\ triage_work' = [triage_work EXCEPT ![c] = Job("handled", job)]
  BY <1>1, <1>3, <1>5, <1>7, TriageQuiet
<1>8. CASE object # Absent /\ UNCHANGED doc_state
           /\ triage_work' = [triage_work EXCEPT ![c] = described]
  <2>1. described \in TriageJob /\ described.part = job.part /\ described.offset = job.offset
    BY <1>3, <1>4, <1>8 DEF TriageJob
  <2> HIDE DEF described
  <2> QED
    BY <1>1, <1>3, <1>5, <1>8, <2>1, TriageQuiet
<1> QED
  BY <1>1, <1>6, <1>7, <1>8

LEMMA TriageDownloads ==
  ASSUME IngestInv, NEW c \in Consumer, download_and_classify(c), UNCHANGED <<passes, changes>>
  PROVE  IngestInv'
<1> DEFINE job == triage_work[c]
           object == inbox[job.path]
           classified == [phase |-> "classified", part |-> job.part, offset |-> job.offset,
                          path |-> job.path, doc |-> job.object.doc,
                          state |-> Classify(object.doc, job.object.type)]
<1>1. /\ job.phase = "described"
      /\ \/ triage_work' = [triage_work EXCEPT ![c] = IdleTriage]
         \/ triage_work' = [triage_work EXCEPT ![c] = classified]
      /\ UNCHANGED <<partitionVars, relayVars, inbox, doc_state, faults>>
  BY DEF download_and_classify
<1>2. TriageTypeOK /\ faults' \in 0 .. MaxFaults
  BY <1>1 DEF IngestInv, TypeOK, PartitionsTypeOK
<1>3. /\ job.phase # "idle" /\ job.part \in Partition /\ job.offset \in Nat /\ job.path \in Path
      /\ job.object.doc \in Doc
  BY <1>1, <1>2, JobTypes DEF Object
<1>4. classified \in TriageJob /\ classified.part = job.part /\ classified.offset = job.offset
  <2>1. Classify(object.doc, job.object.type) \in InitialStates
    BY DEF Classify, InitialStates
  <2> QED
    BY <1>3, <2>1 DEF TriageJob
<1> HIDE DEF classified
<1>5. CASE triage_work' = [triage_work EXCEPT ![c] = IdleTriage]
  BY <1>1, <1>2, <1>5, TriageQuiet DEF IdleTriage
<1>6. CASE triage_work' = [triage_work EXCEPT ![c] = classified]
  BY <1>1, <1>2, <1>3, <1>4, <1>6, TriageQuiet
<1> QED
  BY <1>1, <1>5, <1>6

\* What a new row of the outbox adds to the dispatches.
LEMMA EnqueueTypes ==
  ASSUME IngestInv, NEW S \in SUBSET Content, IsFiniteSet(S),
         outbox' = Enqueued(S), UNCHANGED arrived
  PROVE  /\ RelayTypeOK' /\ SentArrived'
         /\ DispatchPending' = DispatchPending \cup {q.doc : q \in {x \in S : x.topic = "dispatch"}}
<1>1. RelayTypeOK /\ SentArrived
  BY DEF IngestInv, TypeOK
<1>2. /\ outbox' \subseteq Row
      /\ IsFiniteSet(outbox')
      /\ outbox \subseteq outbox'
      /\ \A row \in outbox' \ outbox : row.content \in S /\ row.by = NoRelay /\ ~row.sent
      /\ \A q \in S : \E row \in outbox' : row.content = q
  BY <1>1, EnqueuedRows
<1>3. RelayTypeOK'
  BY <1>1, <1>2 DEF RelayTypeOK
<1>4. SentArrived'
  BY <1>1, <1>2 DEF SentArrived
<1>5. ASSUME NEW d
      PROVE  d \in DispatchPending' <=>
               d \in DispatchPending \cup {q.doc : q \in {x \in S : x.topic = "dispatch"}}
  <2>1. d \in DispatchPending' <=>
          \E row \in outbox' : row.content.topic = "dispatch" /\ row.content.doc = d
    BY DEF DispatchPending
  <2>2. d \in DispatchPending <=>
          \E row \in outbox : row.content.topic = "dispatch" /\ row.content.doc = d
    BY DEF DispatchPending
  <2>3. d \in {q.doc : q \in {x \in S : x.topic = "dispatch"}} <=>
          \E q \in S : q.topic = "dispatch" /\ q.doc = d
    OBVIOUS
  <2> QED
    BY <1>2, <2>1, <2>2, <2>3
<1>6. DispatchPending' = DispatchPending \cup {q.doc : q \in {x \in S : x.topic = "dispatch"}}
  <2>1. \A d : d \in DispatchPending' <=>
               d \in DispatchPending \cup {q.doc : q \in {x \in S : x.topic = "dispatch"}}
    BY <1>5
  <2> QED
    BY <2>1
<1> QED
  BY <1>3, <1>4, <1>6

\* Row and dispatch come together: the one step that makes a document
\* text_pending.
LEMMA TriageInserts ==
  ASSUME IngestInv, NEW c \in Consumer, insert_and_dispatch(c), UNCHANGED <<passes, changes>>
  PROVE  IngestInv'
<1> DEFINE job == triage_work[c]
           dispatch == [topic |-> "dispatch", doc |-> job.doc, path |-> job.path]
           dispatched == doc_state[job.doc] = NoRow /\ job.state = "text_pending"
<1>1. /\ job.phase = "classified"
      /\ insert_initial_document(job.doc, job.state)
      /\ outbox' = IF dispatched THEN Enqueued({dispatch}) ELSE outbox
      /\ triage_work' = [triage_work EXCEPT ![c] = Job("handled", job)]
      /\ UNCHANGED <<partitionVars, arrived, inbox, faults>>
  BY DEF insert_and_dispatch
<1>2. TriageTypeOK /\ RelayTypeOK /\ faults' \in 0 .. MaxFaults
  BY <1>1 DEF IngestInv, TypeOK, PartitionsTypeOK
<1>3. /\ job.phase # "idle" /\ job.path \in Path
      /\ job.doc \in Doc /\ job.state \in InitialStates
      /\ Job("handled", job) \in TriageJob
      /\ Job("handled", job).part = job.part
      /\ Job("handled", job).offset = job.offset
  BY <1>1, <1>2, JobTypes, HandledJob
<1>4. doc_state \in [Doc -> InitialStates \cup {NoRow}]
  BY <1>2 DEF TriageTypeOK
<1>5. doc_state' =
        IF doc_state[job.doc] = NoRow THEN [doc_state EXCEPT ![job.doc] = job.state] ELSE doc_state
  BY <1>1 DEF insert_initial_document
<1>6. doc_state' \in [Doc -> InitialStates \cup {NoRow}]
  BY <1>3, <1>4, <1>5
<1>7. RelayTypeOK' /\ SentArrived' /\ DispatchNotLost'
  <2>1. CASE dispatched
    <3>1. {dispatch} \in SUBSET Content /\ IsFiniteSet({dispatch})
      <4>1. dispatch \in Content
        BY <1>3 DEF Content, Topic
      <4> HIDE DEF dispatch
      <4> QED
        BY <4>1, FS_Singleton
    <3>2. outbox' = Enqueued({dispatch}) /\ UNCHANGED arrived
      BY <1>1, <2>1
    <3>3. /\ RelayTypeOK' /\ SentArrived'
          /\ DispatchPending' =
               DispatchPending \cup {q.doc : q \in {x \in {dispatch} : x.topic = "dispatch"}}
      <4> HIDE DEF dispatch
      <4> QED
        BY <3>1, <3>2, EnqueueTypes
    <3>4. DispatchPending' = DispatchPending \cup {job.doc}
      <4>1. {x \in {dispatch} : x.topic = "dispatch"} = {dispatch}
        OBVIOUS
      <4>2. {q.doc : q \in {dispatch}} = {job.doc}
        OBVIOUS
      <4> HIDE DEF dispatch
      <4> QED
        BY <3>3, <4>1, <4>2
    <3>5. \A x \in Doc : doc_state'[x] = "text_pending" <=>
            doc_state[x] = "text_pending" \/ x = job.doc
      BY <1>3, <1>4, <1>5, <2>1
    <3> QED
      BY <3>2, <3>3, <3>4, <3>5 DEF IngestInv, DispatchNotLost
  <2>2. CASE ~dispatched
    <3>1. UNCHANGED <<outbox, arrived>>
      BY <1>1, <2>2
    <3>2. \A x \in Doc : doc_state'[x] = "text_pending" <=> doc_state[x] = "text_pending"
      BY <1>3, <1>4, <1>5, <2>2 DEF NoRow
    <3> QED
      BY <3>1, <3>2
      DEF IngestInv, TypeOK, RelayTypeOK, SentArrived, DispatchNotLost, DispatchPending
  <2> QED
    BY <2>1, <2>2
<1>8. UNCHANGED <<partitionVars, arrived, inbox, passes, changes>>
  BY <1>1
<1> HIDE DEF dispatch, dispatched
<1> QED
  BY <1>1, <1>2, <1>3, <1>6, <1>7, <1>8, TriageFrame

\* The offset of a job in hand is behind the position, so the log has it.
LEMMA TriageCommits ==
  ASSUME IngestInv, NEW c \in Consumer, commit_offset(c), UNCHANGED <<passes, changes>>
  PROVE  IngestInv'
<1> USE DEF partitionVars, relayVars
<1> DEFINE job == triage_work[c]
           p == job.part
<1>1. /\ job.phase = "handled"
      /\ commit(c, p, job.offset)
      /\ triage_work' = [triage_work EXCEPT ![c] = IdleTriage]
      /\ UNCHANGED <<outbox, arrived, inbox, doc_state, faults>>
  BY DEF commit_offset
<1>2. TypeOK /\ CommitsWhatItWasGiven /\ TriageTypeOK
  BY DEF IngestInv, TypeOK
<1>3. job.phase # "idle" /\ p \in Partition /\ job.offset \in Nat
  BY <1>1, <1>2, JobTypes
<1>4. CASE owner[p] # c
  <2>1. UNCHANGED partitionVars
    BY <1>1, <1>4 DEF commit
  <2> QED
    BY <1>1, <1>2, <2>1, TriageQuiet DEF IdleTriage, TypeOK, PartitionsTypeOK
<1>5. CASE owner[p] = c
  <2>1. /\ log' = [log EXCEPT ![p] = SubSeq(@, job.offset + 1, Len(@))]
        /\ position' = [position EXCEPT ![p] = @ - job.offset]
        /\ UNCHANGED owner
    BY <1>1, <1>5 DEF commit
  <2>2. /\ log \in [Partition -> Seq(Request)]
        /\ position \in [Partition -> Nat]
        /\ \A x \in Partition : position[x] <= Len(log[x])
        /\ triage_work \in [Consumer -> TriageJob \cup {IdleTriage}]
    BY <1>2 DEF TypeOK, PartitionsTypeOK, TriageTypeOK
  <2>3. job.offset <= position[p] /\ position[p] <= Len(log[p]) /\ Len(log[p]) \in Nat
    BY <1>2, <1>3, <1>5, <2>2 DEF CommitsWhatItWasGiven
  <2> DEFINE rest == SubSeq(log[p], job.offset + 1, Len(log[p]))
  <2>4. rest \in Seq(Request) /\ Len(rest) = Len(log[p]) - job.offset
    <3>1. \A i \in job.offset + 1 .. Len(log[p]) : log[p][i] \in Request
      BY <1>3, <2>2, <2>3
    <3>2. job.offset + 1 \in Int /\ Len(log[p]) \in Int
      BY <1>3, <2>3
    <3>3. /\ rest \in Seq(Request)
          /\ Len(rest) = IF job.offset + 1 <= Len(log[p])
                         THEN Len(log[p]) - (job.offset + 1) + 1 ELSE 0
      <4> HIDE DEF job, p
      <4> QED
        BY <3>1, <3>2, SubSeqProperties
    <3>4. job.offset <= Len(log[p])
      BY <1>3, <2>2, <2>3
    <3> HIDE DEF rest
    <3> QED
      BY <1>3, <2>3, <3>3, <3>4
  <2> HIDE DEF rest
  <2>5. log' = [log EXCEPT ![p] = rest]
    BY <2>1 DEF rest
  <2>6. log' \in [Partition -> Seq(Request)] /\ position' \in [Partition -> Nat]
    <3>1. position[p] - job.offset \in Nat
      BY <1>3, <2>2, <2>3
    <3>2. p \in Partition /\ rest \in Seq(Request)
      BY <1>3, <2>4
    <3>3. position' = [position EXCEPT ![p] = position[p] - job.offset]
      BY <2>1
    <3> HIDE DEF job, p
    <3>4. log' \in [Partition -> Seq(Request)]
      BY <2>2, <2>5, <3>2
    <3>5. position' \in [Partition -> Nat]
      BY <2>2, <3>1, <3>2, <3>3
    <3> QED
      BY <3>4, <3>5
  <2>7. \A x \in Partition : position'[x] <= Len(log'[x])
    <3> TAKE x \in Partition
    <3>1. CASE x = p
      <4>1. position'[p] = position[p] - job.offset
        BY <1>3, <2>1, <2>2
      <4>2. log'[p] = rest
        BY <1>3, <2>2, <2>5
      <4> HIDE DEF job, p
      <4> QED
        BY <1>3, <2>2, <2>3, <2>4, <3>1, <4>1, <4>2
    <3>2. CASE x # p
      <4> HIDE DEF job, p
      <4> QED
        BY <1>3, <2>1, <2>2, <2>5, <3>2
    <3> QED
      BY <3>1, <3>2
  <2>8. PartitionsTypeOK'
    BY <1>1, <1>2, <2>1, <2>6, <2>7 DEF TypeOK, PartitionsTypeOK
  <2>9. TriageTypeOK'
    BY <1>1, <1>2, <2>2 DEF TriageTypeOK
  <2>10. TypeOK'
    BY <1>1, <1>2, <2>8, <2>9 DEF TypeOK, RelayTypeOK, DetectorTypeOK
  <2>11. DispatchNotLost' /\ SentArrived'
    BY <1>1 DEF IngestInv, DispatchNotLost, DispatchPending, SentArrived
  <2>12. CommitsWhatItWasGiven'
    <3> SUFFICES ASSUME NEW x \in Consumer, triage_work'[x].phase # "idle",
                        owner[triage_work'[x].part] = x
                 PROVE  triage_work'[x].offset <= position'[triage_work'[x].part]
      BY <2>1 DEF CommitsWhatItWasGiven
    <3>1. x # c
      BY <1>1, <2>2 DEF IdleTriage
    <3>2. triage_work'[x] = triage_work[x]
      BY <1>1, <2>2, <3>1
    <3>3. triage_work[x].part # p
      BY <1>5, <3>1, <3>2
    <3>4. triage_work[x].part \in Partition
      BY <1>2, <3>2, JobTypes
    <3> QED
      BY <1>2, <2>1, <2>2, <3>2, <3>3, <3>4 DEF CommitsWhatItWasGiven
  <2> QED
    BY <2>10, <2>11, <2>12 DEF IngestInv
<1> QED
  BY <1>4, <1>5

LEMMA TriageSteps ==
  ASSUME IngestInv, NEW c \in Consumer, Handle(c)
  PROVE  IngestInv'
<1>1. UNCHANGED <<passes, changes>>
  BY DEF Handle
<1>2. CASE poll(c)
  BY <1>1, <1>2, TriagePolls
<1>3. CASE object_info(c)
  BY <1>1, <1>3, TriageLooks
<1>4. CASE download_and_classify(c)
  BY <1>1, <1>4, TriageDownloads
<1>5. CASE insert_and_dispatch(c)
  BY <1>1, <1>5, TriageInserts
<1>6. CASE commit_offset(c)
  BY <1>1, <1>6, TriageCommits
<1> QED
  BY <1>2, <1>3, <1>4, <1>5, <1>6 DEF Handle, TriageStep

\* A consumer that fails forgets its job and, if it dies, its positions.
LEMMA TriageFails ==
  ASSUME IngestInv, NEW c \in Consumer, TriageFault(c)
  PROVE  IngestInv'
<1> USE DEF partitionVars, relayVars
<1>1. /\ triage_work' = [triage_work EXCEPT ![c] = IdleTriage]
      /\ Fault
      /\ UNCHANGED <<log, owner, outbox, arrived, inbox, doc_state, passes, changes>>
      /\ \/ UNCHANGED position
         \/ position' = [p \in Partition |-> IF owner[p] = c THEN 0 ELSE position[p]]
  BY DEF TriageFault, FailTriage, CrashTriage, RestartConsumer
<1>2. TypeOK /\ TriageTypeOK /\ CommitsWhatItWasGiven
  BY DEF IngestInv, TypeOK
<1>3. /\ log \in [Partition -> Seq(Request)]
      /\ position \in [Partition -> Nat]
      /\ triage_work \in [Consumer -> TriageJob \cup {IdleTriage}]
      /\ faults' \in 0 .. MaxFaults
  BY <1>1, <1>2, PartitionsAssumption DEF TypeOK, PartitionsTypeOK, TriageTypeOK, Fault
<1>4. PartitionsTypeOK'
  BY <1>1, <1>2, <1>3 DEF TypeOK, PartitionsTypeOK
<1>5. TypeOK'
  BY <1>1, <1>2, <1>3, <1>4 DEF TypeOK, RelayTypeOK, TriageTypeOK, DetectorTypeOK
<1>6. DispatchNotLost' /\ SentArrived'
  BY <1>1 DEF IngestInv, DispatchNotLost, DispatchPending, SentArrived
<1>7. CommitsWhatItWasGiven'
  <2> SUFFICES ASSUME NEW x \in Consumer, triage_work'[x].phase # "idle",
                      owner[triage_work'[x].part] = x
               PROVE  triage_work'[x].offset <= position'[triage_work'[x].part]
    BY <1>1 DEF CommitsWhatItWasGiven
  <2>1. x # c
    BY <1>1, <1>3 DEF IdleTriage
  <2>2. triage_work'[x] = triage_work[x]
    BY <1>1, <1>3, <2>1
  <2>3. triage_work[x].part \in Partition
    BY <1>2, <2>2, JobTypes
  <2>4. position'[triage_work[x].part] = position[triage_work[x].part]
    BY <1>1, <2>1, <2>2, <2>3
  <2> QED
    BY <1>2, <2>2, <2>4 DEF CommitsWhatItWasGiven
<1> QED
  BY <1>5, <1>6, <1>7 DEF IngestInv

\* The new owner is idle and the old one can no longer commit.
LEMMA PartitionMoves ==
  ASSUME IngestInv, NEW p \in Partition, NEW c \in Consumer, Move(p, c)
  PROVE  IngestInv'
<1> USE DEF partitionVars, relayVars
<1>1. /\ triage_work[c] = IdleTriage
      /\ Fault
      /\ owner' = [owner EXCEPT ![p] = c]
      /\ position' = [position EXCEPT ![p] = 0]
      /\ UNCHANGED <<log, outbox, arrived, inbox, doc_state, triage_work, passes, changes>>
  BY DEF Move, MovePartition, Rebalance
<1>2. TypeOK /\ TriageTypeOK /\ CommitsWhatItWasGiven
  BY DEF IngestInv, TypeOK
<1>3. /\ log \in [Partition -> Seq(Request)]
      /\ position \in [Partition -> Nat]
      /\ owner \in [Partition -> Consumer]
      /\ faults' \in 0 .. MaxFaults
  BY <1>1, <1>2, PartitionsAssumption DEF TypeOK, PartitionsTypeOK, Fault
<1>4. PartitionsTypeOK'
  BY <1>1, <1>2, <1>3 DEF TypeOK, PartitionsTypeOK
<1>5. TypeOK'
  BY <1>1, <1>2, <1>4 DEF TypeOK, RelayTypeOK, TriageTypeOK, DetectorTypeOK
<1>6. DispatchNotLost' /\ SentArrived'
  BY <1>1 DEF IngestInv, DispatchNotLost, DispatchPending, SentArrived
<1>7. CommitsWhatItWasGiven'
  <2> SUFFICES ASSUME NEW x \in Consumer, triage_work[x].phase # "idle",
                      owner'[triage_work[x].part] = x
               PROVE  triage_work[x].offset <= position'[triage_work[x].part]
    BY <1>1 DEF CommitsWhatItWasGiven
  <2>1. x # c
    BY <1>1 DEF IdleTriage
  <2>2. triage_work[x].part \in Partition /\ triage_work[x].part # p
    BY <1>1, <1>2, <1>3, <2>1, JobTypes
  <2> QED
    BY <1>1, <1>2, <1>3, <2>2 DEF CommitsWhatItWasGiven
<1> QED
  BY <1>5, <1>6, <1>7 DEF IngestInv

(***************************************************************************)
(* The orphan detector and the users.                                      *)
(***************************************************************************)

\* A pass that reads, or is dropped, changes nothing but itself.
LEMMA PassReads ==
  ASSUME IngestInv, NEW x \in Detector, NEW pass \in Pass \cup {IdlePass},
         passes' = [passes EXCEPT ![x] = pass],
         UNCHANGED <<partitionVars, relayVars, inbox, doc_state, triage_work, changes>>,
         faults' \in 0 .. MaxFaults
  PROVE  IngestInv'
<1> USE DEF partitionVars, relayVars
<1>1. DetectorTypeOK'
  BY DEF IngestInv, TypeOK, DetectorTypeOK
<1>2. TypeOK'
  BY <1>1 DEF IngestInv, TypeOK, PartitionsTypeOK, RelayTypeOK, TriageTypeOK
<1>3. DispatchNotLost' /\ SentArrived' /\ CommitsWhatItWasGiven'
  BY DEF IngestInv, DispatchNotLost, DispatchPending, SentArrived, CommitsWhatItWasGiven
<1> QED
  BY <1>2, <1>3 DEF IngestInv

LEMMA PassContinues ==
  ASSUME IngestInv, NEW x \in Detector, NEW found \in SUBSET Request,
         NEW phase \in {"listed", "orphans", "new"}, Continue(x, phase, found),
         UNCHANGED <<partitionVars, relayVars, inbox, doc_state, triage_work, faults, changes>>
  PROVE  IngestInv'
<1> DEFINE pass == IF found = {} THEN IdlePass ELSE [phase |-> phase, found |-> found]
<1>1. pass \in Pass \cup {IdlePass}
  BY DEF Pass
<1>2. passes' = [passes EXCEPT ![x] = pass]
  BY DEF Continue
<1>3. faults' \in 0 .. MaxFaults
  BY DEF IngestInv, TypeOK, PartitionsTypeOK
<1> HIDE DEF pass
<1> QED
  BY <1>1, <1>2, <1>3, PassReads

LEMMA PassFound ==
  ASSUME DetectorTypeOK, NEW x \in Detector, passes[x].phase # "idle"
  PROVE  passes[x].found \in SUBSET Request
<1>1. passes[x] \in Pass
  BY DEF DetectorTypeOK, IdlePass
<1> QED
  BY <1>1 DEF Pass

\* A request to triage is no dispatch.
LEMMA PassEnqueues ==
  ASSUME IngestInv, NEW x \in Detector, enqueue_many(x), UNCHANGED changes
  PROVE  IngestInv'
<1> USE DEF partitionVars
<1> DEFINE f == [q \in passes[x].found |->
                   [topic |-> "triage.requests", doc |-> q.doc, path |-> q.path]]
           S == {f[q] : q \in passes[x].found}
<1>1. /\ passes[x].phase = "new"
      /\ outbox' = Enqueued(S)
      /\ passes' = [passes EXCEPT ![x] = IdlePass]
      /\ UNCHANGED <<log, position, owner, arrived, inbox, doc_state, triage_work, faults>>
  BY DEF enqueue_many
<1>2. passes[x].found \in SUBSET Request
  BY <1>1, PassFound DEF IngestInv, TypeOK
<1>3. \A y \in S : y \in Content /\ y.topic # "dispatch"
  <2> SUFFICES ASSUME NEW q \in passes[x].found
               PROVE  f[q] \in Content /\ f[q].topic # "dispatch"
    OBVIOUS
  <2>1. q.doc \in Doc /\ q.path \in Path
    BY <1>2 DEF Request
  <2> QED
    BY <2>1 DEF Content, Topic
<1>4. IsFiniteSet(S)
  <2>1. IsFiniteSet(passes[x].found)
    BY <1>2, FiniteRequests, FS_Subset
  <2> HIDE DEF f
  <2> QED
    BY <2>1, FiniteImage
<1> HIDE DEF S
<1>5. /\ RelayTypeOK' /\ SentArrived'
      /\ DispatchPending' = DispatchPending \cup {q.doc : q \in {y \in S : y.topic = "dispatch"}}
  BY <1>1, <1>3, <1>4, EnqueueTypes
<1>6. DispatchPending' = DispatchPending
  BY <1>3, <1>5
<1>7. TypeOK'
  BY <1>1, <1>5
  DEF IngestInv, TypeOK, PartitionsTypeOK, TriageTypeOK, DetectorTypeOK
<1>8. DispatchNotLost' /\ CommitsWhatItWasGiven'
  BY <1>1, <1>6 DEF IngestInv, DispatchNotLost, CommitsWhatItWasGiven
<1> QED
  BY <1>5, <1>7, <1>8 DEF IngestInv

LEMMA PassSteps ==
  ASSUME IngestInv, NEW x \in Detector, Detect(x)
  PROVE  IngestInv'
<1>1. TriageTypeOK /\ DetectorTypeOK /\ UNCHANGED changes
  BY DEF IngestInv, TypeOK, Detect
<1>2. CASE list_blobs(x)
  <2> DEFINE found == {[doc |-> inbox[p].doc, path |-> p] : p \in {q \in Path : inbox[q] # Absent}}
  <2>1. found \in SUBSET Request
    BY <1>1, InboxDocs DEF Request
  <2>2. Continue(x, "listed", found)
    BY <1>2 DEF list_blobs
  <2> HIDE DEF found
  <2> QED
    BY <1>1, <1>2, <2>1, <2>2, PassContinues DEF list_blobs
<1>3. CASE select_known(x)
  <2> DEFINE found == {f \in passes[x].found : doc_state[f.doc] = NoRow}
  <2>1. found \in SUBSET Request
    BY <1>1, <1>3, PassFound DEF select_known
  <2>2. Continue(x, "orphans", found)
    BY <1>3 DEF select_known
  <2> HIDE DEF found
  <2> QED
    BY <1>1, <1>3, <2>1, <2>2, PassContinues DEF select_known
<1>4. CASE already_pending_triage(x)
  <2> DEFINE found == {f \in passes[x].found : f.doc \notin PendingTriage}
  <2>1. found \in SUBSET Request
    BY <1>1, <1>4, PassFound DEF already_pending_triage
  <2>2. Continue(x, "new", found)
    BY <1>4 DEF already_pending_triage
  <2> HIDE DEF found
  <2> QED
    BY <1>1, <1>4, <2>1, <2>2, PassContinues DEF already_pending_triage
<1>5. CASE enqueue_many(x)
  BY <1>1, <1>5, PassEnqueues
<1> QED
  BY <1>2, <1>3, <1>4, <1>5 DEF Detect, DetectorStep

LEMMA PassFails ==
  ASSUME IngestInv, NEW x \in Detector, DetectorFault(x)
  PROVE  IngestInv'
<1>1. faults' \in 0 .. MaxFaults
  BY PartitionsAssumption
  DEF DetectorFault, FailPass, Fault, IngestInv, TypeOK, PartitionsTypeOK
<1> QED
  BY <1>1, PassReads DEF DetectorFault, FailPass

LEMMA InboxChanges ==
  ASSUME IngestInv, ChangeInbox
  PROVE  IngestInv'
<1> USE DEF partitionVars, relayVars
<1>1. TriageTypeOK' /\ changes' \in 0 .. MaxChanges
  <2>1. PICK p \in Path, object \in Uploads \cup {Absent} :
          inbox' = [inbox EXCEPT ![p] = object]
    BY DEF ChangeInbox
  <2>2. inbox' \in [Path -> Object \cup {Absent}]
    BY <2>1, IngestAssumption DEF IngestInv, TypeOK, TriageTypeOK
  <2> QED
    BY <2>2, IngestAssumption DEF ChangeInbox, IngestInv, TypeOK, TriageTypeOK
<1>2. TypeOK'
  BY <1>1 DEF ChangeInbox, IngestInv, TypeOK, PartitionsTypeOK, RelayTypeOK, DetectorTypeOK
<1>3. DispatchNotLost' /\ SentArrived' /\ CommitsWhatItWasGiven'
  BY DEF ChangeInbox, IngestInv, DispatchNotLost, DispatchPending, SentArrived,
     CommitsWhatItWasGiven
<1> QED
  BY <1>2, <1>3 DEF IngestInv

(***************************************************************************)
(* The theorems.                                                           *)
(***************************************************************************)

LEMMA InvInit == Init => IngestInv
<1> SUFFICES ASSUME Init PROVE IngestInv
  OBVIOUS
<1> USE DEF Init, PartitionsInit, RelayInit, TriageInit, DetectorInit
<1>1. PartitionsTypeOK
  BY PartitionsAssumption DEF PartitionsTypeOK
<1>2. RelayTypeOK
  BY FS_EmptySet DEF RelayTypeOK
<1>3. TypeOK
  BY <1>1, <1>2, IngestAssumption DEF TypeOK, TriageTypeOK, DetectorTypeOK
<1>4. DispatchNotLost /\ SentArrived /\ CommitsWhatItWasGiven
  BY DEF DispatchNotLost, DispatchPending, SentArrived, CommitsWhatItWasGiven, IdleTriage, NoRow
<1> QED
  BY <1>3, <1>4 DEF IngestInv

LEMMA InvNext == IngestInv /\ [Next]_vars => IngestInv'
<1> SUFFICES ASSUME IngestInv, [Next]_vars PROVE IngestInv'
  OBVIOUS
<1>1. CASE ChangeInbox
  BY <1>1, InboxChanges
<1>2. ASSUME NEW r \in Relay, Publish(r) PROVE IngestInv'
  <2>1. UNCHANGED <<inbox, doc_state, triage_work, passes, changes>>
    BY <1>2 DEF Publish
  <2>2. claim_outbox_batch(r) \/ deliver(r) \/ delete_on_ack(r)
    BY <1>2 DEF Publish, RelayStep
  <2> QED
    BY <2>1, <2>2, RelayClaims, RelayDelivers, RelayDeletes
<1>3. ASSUME NEW r \in Relay, RelayFault(r) PROVE IngestInv'
  BY <1>3, RelayFails DEF RelayFault
<1>4. ASSUME NEW c \in Consumer, Handle(c) \/ TriageFault(c) PROVE IngestInv'
  BY <1>4, TriageSteps, TriageFails
<1>5. ASSUME NEW p \in Partition, NEW c \in Consumer, Move(p, c) PROVE IngestInv'
  BY <1>5, PartitionMoves
<1>6. ASSUME NEW x \in Detector, Detect(x) \/ DetectorFault(x) PROVE IngestInv'
  BY <1>6, PassSteps, PassFails
<1>7. CASE UNCHANGED vars
  BY <1>7 DEF vars, partitionVars, relayVars, IngestInv, TypeOK, PartitionsTypeOK, RelayTypeOK,
     TriageTypeOK, DetectorTypeOK, DispatchNotLost, DispatchPending, SentArrived,
     CommitsWhatItWasGiven
<1> QED
  BY <1>1, <1>2, <1>3, <1>4, <1>5, <1>6, <1>7 DEF Next

\* The inductive invariant holds in every reachable state.
THEOREM IngestInvHolds == Spec => []IngestInv
<1> QED
  BY InvInit, InvNext, PTL DEF Spec

\* Every variable of ingest has its type; a late commit of a consumer that
\* lost its partition, in particular, cannot push a position out of the log.
THEOREM IngestTypeCorrect == Spec => []TypeOK
<1>1. IngestInv => TypeOK
  BY DEF IngestInv
<1> QED
  BY <1>1, IngestInvHolds, PTL

\* Row and dispatch come and stay together: no failure of a relay, a consumer
\* or a broker leaves a text_pending document without its dispatch, and no
\* dispatch exists of a document without a row (triage_1.py:3-6, outbox.py:
\* 37-43).
THEOREM DispatchNotLostHolds == Spec => []DispatchNotLost
<1>1. IngestInv => DispatchNotLost
  BY DEF IngestInv
<1> QED
  BY <1>1, IngestInvHolds, PTL

(***************************************************************************)
(* TriagedOnce: what a step does to the document and to the dispatch rows  *)
(* of a document that has been triaged.                                    *)
(***************************************************************************)

DispatchesOf(d) == {row \in outbox : row.content.topic = "dispatch" /\ row.content.doc = d}

Verdict(d) == doc_state'[d] = doc_state[d] /\ DispatchRows(d)' <= DispatchRows(d)

\* The dispatch rows left are each made of an old one: there are no more.
LEMMA NoMoreDispatches ==
  ASSUME RelayTypeOK, NEW d, NEW f,
         DispatchesOf(d)' \subseteq {f[row] : row \in DispatchesOf(d)}
  PROVE  DispatchRows(d)' <= DispatchRows(d)
<1> DEFINE S == DispatchesOf(d)
           T == {f[row] : row \in S}
<1>1. IsFiniteSet(S)
  BY FS_Subset DEF RelayTypeOK, DispatchesOf
<1> HIDE DEF S
<1>2. IsFiniteSet(T) /\ Cardinality(T) <= Cardinality(S)
  BY <1>1, FiniteImage
<1>3. IsFiniteSet(DispatchesOf(d)') /\ Cardinality(DispatchesOf(d)') <= Cardinality(T)
  <2>1. DispatchesOf(d)' \in SUBSET T
    BY DEF S
  <2> HIDE DEF T
  <2> QED
    BY <1>2, <2>1, FS_Subset
<1>4. /\ Cardinality(S) \in Nat
      /\ Cardinality(T) \in Nat
      /\ Cardinality(DispatchesOf(d)') \in Nat
  BY <1>1, <1>2, <1>3, FS_CardinalityType
<1>5. DispatchRows(d) = Cardinality(S)
  BY DEF S, DispatchRows, DispatchesOf
<1>6. DispatchRows(d)' = Cardinality(DispatchesOf(d)')
  BY DEF DispatchRows, DispatchesOf
<1> HIDE DEF T
<1> QED
  BY <1>2, <1>3, <1>4, <1>5, <1>6

\* A step that adds no dispatch of the document: rows go, or rows of other
\* documents and of the other topic come.
LEMMA NoDispatchAdded ==
  ASSUME RelayTypeOK, NEW d,
         \A row \in outbox' \ outbox :
           ~ (row.content.topic = "dispatch" /\ row.content.doc = d)
  PROVE  DispatchRows(d)' <= DispatchRows(d)
<1> DEFINE f == [row \in DispatchesOf(d) |-> row]
<1>1. DispatchesOf(d)' \subseteq DispatchesOf(d)
  BY DEF DispatchesOf
<1>2. {f[row] : row \in DispatchesOf(d)} = DispatchesOf(d)
  OBVIOUS
<1> HIDE DEF f
<1> QED
  BY <1>1, <1>2, NoMoreDispatches

\* A lock, a mark or a rollback of a relay rewrites rows and adds none.
LEMMA RelabelAddsNone ==
  ASSUME RelayTypeOK, NEW d, NEW B \in SUBSET outbox, NEW f,
         \A row \in B : f[row].content = row.content,
         outbox' = (outbox \ B) \cup {f[row] : row \in B}
  PROVE  DispatchRows(d)' <= DispatchRows(d)
<1> DEFINE g == [row \in DispatchesOf(d) |-> IF row \in B THEN f[row] ELSE row]
<1>1. ASSUME NEW new \in DispatchesOf(d)'
      PROVE  new \in {g[row] : row \in DispatchesOf(d)}
  <2>1. new \in outbox' /\ new.content.topic = "dispatch" /\ new.content.doc = d
    BY DEF DispatchesOf
  <2>2. CASE new \in outbox \ B
    <3>1. new \in DispatchesOf(d) /\ g[new] = new
      BY <2>1, <2>2 DEF DispatchesOf
    <3> QED
      BY <3>1
  <2>3. CASE new \in {f[row] : row \in B}
    <3>1. PICK row \in B : new = f[row]
      BY <2>3
    <3>2. row \in DispatchesOf(d) /\ g[row] = new
      BY <2>1, <3>1 DEF DispatchesOf
    <3> QED
      BY <3>2
  <2> QED
    BY <2>1, <2>2, <2>3
<1> HIDE DEF g
<1> QED
  BY <1>1, NoMoreDispatches

\* Relays rewrite and delete rows of the outbox; none of their steps adds a
\* dispatch, a rollback after a partial delivery included.
LEMMA RelaysAddNone ==
  ASSUME RelayTypeOK, NEW d, NEW r \in Relay, RelayStep(r) \/ FailRelay(r)
  PROVE  DispatchRows(d)' <= DispatchRows(d)
<1>1. CASE claim_outbox_batch(r)
  <2>1. PICK batch \in SUBSET Unlocked :
          outbox' = (outbox \ batch) \cup {[row EXCEPT !.by = r] : row \in batch}
    BY <1>1 DEF claim_outbox_batch
  <2> DEFINE f == [row \in batch |-> [row EXCEPT !.by = r]]
  <2>2. /\ outbox' = (outbox \ batch) \cup {f[row] : row \in batch}
        /\ batch \in SUBSET outbox
    BY <2>1 DEF Unlocked
  <2>3. \A row \in batch : f[row].content = row.content
    BY <2>2 DEF RelayTypeOK, Row
  <2> HIDE DEF f
  <2> QED
    BY <2>2, <2>3, RelabelAddsNone
<1>2. CASE deliver(r)
  <2>1. PICK row \in Batch(r) : outbox' = (outbox \ {row}) \cup {[row EXCEPT !.sent = TRUE]}
    BY <1>2 DEF deliver
  <2> DEFINE f == [x \in {row} |-> [x EXCEPT !.sent = TRUE]]
  <2>2. /\ outbox' = (outbox \ {row}) \cup {f[x] : x \in {row}}
        /\ {row} \in SUBSET outbox
    BY <2>1 DEF Batch
  <2>3. \A x \in {row} : f[x].content = x.content
    BY <2>2 DEF RelayTypeOK, Row
  <2> HIDE DEF f
  <2> QED
    BY <2>2, <2>3, RelabelAddsNone
<1>3. CASE delete_on_ack(r)
  BY <1>3, NoDispatchAdded DEF delete_on_ack
<1>4. CASE FailRelay(r)
  <2> DEFINE f == [row \in Batch(r) |-> [row EXCEPT !.by = NoRelay, !.sent = FALSE]]
  <2>1. /\ outbox' = (outbox \ Batch(r)) \cup {f[row] : row \in Batch(r)}
        /\ Batch(r) \in SUBSET outbox
    BY <1>4 DEF FailRelay, Batch
  <2>2. \A row \in Batch(r) : f[row].content = row.content
    BY <2>1 DEF RelayTypeOK, Row
  <2> HIDE DEF f
  <2> QED
    BY <2>1, <2>2, RelabelAddsNone
<1> QED
  BY <1>1, <1>2, <1>3, <1>4 DEF RelayStep

\* ON CONFLICT DO NOTHING: the verdict on a document that has one stands.
LEMMA InsertKeepsVerdict ==
  ASSUME TriageTypeOK, NEW d \in Doc, doc_state[d] # NoRow,
         NEW e, NEW state, insert_initial_document(e, state)
  PROVE  doc_state'[d] = doc_state[d]
BY DEF insert_initial_document, TriageTypeOK

\* The one INSERT of a dispatch is for a document that had no row.
LEMMA InsertsOnce ==
  ASSUME RelayTypeOK, TriageTypeOK, NEW c \in Consumer, insert_and_dispatch(c),
         NEW d \in Doc, doc_state[d] # NoRow
  PROVE  Verdict(d)
<1> DEFINE job == triage_work[c]
           dispatch == [topic |-> "dispatch", doc |-> job.doc, path |-> job.path]
<1>1. /\ job.phase = "classified"
      /\ insert_initial_document(job.doc, job.state)
      /\ outbox' = IF doc_state[job.doc] = NoRow /\ job.state = "text_pending"
                   THEN Enqueued({dispatch}) ELSE outbox
  BY DEF insert_and_dispatch
<1>2. doc_state'[d] = doc_state[d]
  BY <1>1, InsertKeepsVerdict
<1>3. \A row \in outbox' \ outbox :
        ~ (row.content.topic = "dispatch" /\ row.content.doc = d)
  <2>1. CASE doc_state[job.doc] = NoRow /\ job.state = "text_pending"
    <3>1. job.doc # d
      BY <2>1
    <3>2. dispatch \in Content /\ dispatch.doc = job.doc
      BY <1>1, JobTypes DEF Content, Topic
    <3> HIDE DEF dispatch
    <3>3. {dispatch} \in SUBSET Content /\ IsFiniteSet({dispatch})
      BY <3>2, FS_Singleton
    <3>4. \A row \in Enqueued({dispatch}) \ outbox : row.content \in {dispatch}
      BY <3>3, EnqueuedRows
    <3> QED
      BY <1>1, <2>1, <3>1, <3>2, <3>4
  <2>2. CASE ~ (doc_state[job.doc] = NoRow /\ job.state = "text_pending")
    BY <1>1, <2>2
  <2> QED
    BY <2>1, <2>2
<1> QED
  BY <1>2, <1>3, NoDispatchAdded DEF Verdict

\* What the detector enqueues are requests.
LEMMA PassesAddNone ==
  ASSUME RelayTypeOK, DetectorTypeOK, NEW x \in Detector, enqueue_many(x), NEW d
  PROVE  DispatchRows(d)' <= DispatchRows(d)
<1> DEFINE f == [q \in passes[x].found |->
                   [topic |-> "triage.requests", doc |-> q.doc, path |-> q.path]]
           S == {f[q] : q \in passes[x].found}
<1>1. passes[x].phase = "new" /\ outbox' = Enqueued(S)
  BY DEF enqueue_many
<1>2. passes[x].found \in SUBSET Request
  BY <1>1, PassFound
<1>3. \A y \in S : y \in Content /\ y.topic # "dispatch"
  <2> SUFFICES ASSUME NEW q \in passes[x].found
               PROVE  f[q] \in Content /\ f[q].topic # "dispatch"
    OBVIOUS
  <2>1. q.doc \in Doc /\ q.path \in Path
    BY <1>2 DEF Request
  <2> QED
    BY <2>1 DEF Content, Topic
<1>4. IsFiniteSet(S)
  <2>1. IsFiniteSet(passes[x].found)
    BY <1>2, FiniteRequests, FS_Subset
  <2> HIDE DEF f
  <2> QED
    BY <2>1, FiniteImage
<1> HIDE DEF S
<1>5. \A row \in outbox' \ outbox : row.content \in S
  BY <1>1, <1>3, <1>4, EnqueuedRows
<1> QED
  BY <1>3, <1>5, NoDispatchAdded

\* Every step of ingest leaves what was decided of a triaged document.
LEMMA VerdictStands ==
  ASSUME RelayTypeOK, TriageTypeOK, DetectorTypeOK, [Next]_vars,
         NEW d \in Doc, doc_state[d] # NoRow
  PROVE  Verdict(d)
<1>1. ASSUME UNCHANGED <<outbox, doc_state>> PROVE Verdict(d)
  BY <1>1, NoDispatchAdded DEF Verdict
<1>2. CASE ChangeInbox \/ UNCHANGED vars
  BY <1>1, <1>2 DEF ChangeInbox, vars, relayVars
<1>3. ASSUME NEW r \in Relay, Publish(r) \/ RelayFault(r) PROVE Verdict(d)
  BY <1>3, RelaysAddNone DEF Publish, RelayFault, Verdict
<1>4. ASSUME NEW c \in Consumer, Handle(c) PROVE Verdict(d)
  <2>1. CASE insert_and_dispatch(c)
    BY <2>1, InsertsOnce
  <2>2. CASE object_info(c)
    <3>1. doc_state'[d] = doc_state[d] /\ UNCHANGED outbox
      BY <2>2, InsertKeepsVerdict DEF object_info, relayVars
    <3> QED
      BY <3>1, NoDispatchAdded DEF Verdict
  <2>3. CASE poll(c) \/ download_and_classify(c) \/ commit_offset(c)
    BY <1>1, <2>3 DEF poll, download_and_classify, commit_offset, relayVars
  <2> QED
    BY <1>4, <2>1, <2>2, <2>3 DEF Handle, TriageStep
<1>5. ASSUME NEW c \in Consumer, TriageFault(c) PROVE Verdict(d)
  BY <1>1, <1>5 DEF TriageFault, FailTriage, CrashTriage, relayVars
<1>6. ASSUME NEW p \in Partition, NEW c \in Consumer, Move(p, c) PROVE Verdict(d)
  BY <1>1, <1>6 DEF Move, MovePartition, relayVars
<1>7. ASSUME NEW x \in Detector, Detect(x) PROVE Verdict(d)
  <2>1. CASE enqueue_many(x)
    BY <2>1, PassesAddNone DEF enqueue_many, Verdict
  <2>2. CASE list_blobs(x) \/ select_known(x) \/ already_pending_triage(x)
    BY <1>1, <2>2 DEF list_blobs, select_known, already_pending_triage, relayVars
  <2> QED
    BY <1>7, <2>1, <2>2 DEF Detect, DetectorStep
<1>8. ASSUME NEW x \in Detector, DetectorFault(x) PROVE Verdict(d)
  BY <1>1, <1>8 DEF DetectorFault, FailPass, relayVars
<1> QED
  BY <1>2, <1>3, <1>4, <1>5, <1>6, <1>7, <1>8 DEF Next

\* Checksum dedupe (triage_1.py:95-96), however many consumers, paths, repeats
\* and relays a document meets: no step after the one that made its row
\* changes the verdict or puts one more dispatch of it into the outbox.
THEOREM TriagedOnceHolds == Spec => TriagedOnce
<1> DEFINE Step == \A d \in Doc : doc_state[d] # NoRow =>
                     /\ doc_state'[d] = doc_state[d]
                     /\ DispatchRows(d)' <= DispatchRows(d)
<1>1. IngestInv /\ [Next]_vars => Step
  BY VerdictStands DEF IngestInv, TypeOK, Verdict
<1>2. Spec => [][Step]_vars
  <2> HIDE DEF Step
  <2> QED
    BY <1>1, IngestInvHolds, PTL DEF Spec
<1> QED
  BY <1>2 DEF TriagedOnce
=============================================================================
