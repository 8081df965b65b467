------------------------ MODULE TextProductionProofs ------------------------
(***************************************************************************)
(* Proofs about TextProduction, for any documents, workers, shard counts,  *)
(* attempt caps and number of faults.                                      *)
(***************************************************************************)
EXTENDS TextProduction, TextStepProofs, FiniteSetTheorems

(***************************************************************************)
(* Type correctness.                                                       *)
(***************************************************************************)

\* The types every step has to keep, in one list.
USE DEF TextStates, ExtractStates, InFlightStates, RunningStates, States, Topics

LEMMA TypeInit == Init => TypeOK
<1> SUFFICES ASSUME Init PROVE TypeOK
  OBVIOUS
<1>1. bus \subseteq Message
  BY MessageTypes, RouteType DEF Init, LedgerInit
<1> QED
  BY <1>1, LedgerAssumption, TextAssumption
  DEF Init, LedgerInit, ArtifactsInit, PdfWorkerInit, OcrShardInit, SweeperInit,
      TypeOK, LedgerTypeOK, PdfWorkerTypeOK, OcrShardTypeOK, SweeperTypeOK

\* One lemma per group of actions: what a step of it does to the types.
LEMMA TypePdf ==
  ASSUME TypeOK, NEW w \in PdfWorker, Pdf(w)
  PROVE  TypeOK'
<1>1. LedgerTypeOK' /\ ArtifactsTypeOK' /\ PdfWorkerTypeOK'
  BY PdfTypes DEF TypeOK, ArtifactsTypeOK, Pdf
<1> QED
  BY <1>1 DEF TypeOK, ArtifactsTypeOK, Pdf, OcrShardTypeOK, SweeperTypeOK

LEMMA TypeOcr ==
  ASSUME TypeOK, NEW w \in OcrWorker, Ocr(w)
  PROVE  TypeOK'
<1>1. LedgerTypeOK' /\ ArtifactsTypeOK' /\ OcrShardTypeOK'
  BY OcrTypes DEF TypeOK, ArtifactsTypeOK, Ocr
<1> QED
  BY <1>1 DEF TypeOK, ArtifactsTypeOK, Ocr, PdfWorkerTypeOK, SweeperTypeOK

\* The sweeper's steps, from what SweeperProofs says of them.
LEMMA TypeSweep ==
  ASSUME TypeOK, Redrive \/ SweepFault \/ Skip \/ \E batch \in SUBSET Doc : Claim(batch)
  PROVE  TypeOK'
<1>1. LedgerTypeOK' /\ SweeperTypeOK'
  BY ClaimTypes, RedriveTypes, ForgetTypes
  DEF TypeOK, Claim, Redrive, SweepFault, Skip
<1>2. UNCHANGED <<artifactVars, pdf_work, ocr_work>>
  BY DEF Claim, Redrive, SweepFault, Skip
<1> QED
  BY <1>1, <1>2 DEF TypeOK, artifactVars, PdfWorkerTypeOK, OcrShardTypeOK

LEMMA TypeNext == TypeOK /\ [Next]_vars => TypeOK'
<1> SUFFICES ASSUME TypeOK, [Next]_vars PROVE TypeOK'
  OBVIOUS
<1>1. CASE UNCHANGED vars
  BY <1>1 DEF vars, ledgerVars, shardVars, attemptVars, artifactVars, TypeOK, LedgerTypeOK,
     PdfWorkerTypeOK, OcrShardTypeOK, SweeperTypeOK
<1>2. CASE Next
  BY <1>2, TypePdf, TypeOcr, TypeSweep DEF Next
<1> QED
  BY <1>1, <1>2

\* Type correctness of text production: every column, message, job and claimed
\* row keeps its type, and neither text_attempts nor the number of faults ever
\* passes its bound.
THEOREM TypeCorrect == Spec => []TypeOK
BY TypeInit, TypeNext, PTL DEF Spec

-----------------------------------------------------------------------------
(***************************************************************************)
(* The inductive invariant.                                                *)
(***************************************************************************)

\* Every document has a shard 0, so no document starts with all recorded.
LEMMA FirstShard ==
  ASSUME NEW d \in Doc PROVE 0 \in AllShards(d) /\ NumShards[d] \in Nat \ {0}
BY LedgerAssumption DEF AllShards

\* There are NumShards shards, and a part of them as large is all of them.
LEMMA ShardCount ==
  ASSUME NEW d \in Doc, NEW S \in SUBSET AllShards(d)
  PROVE  /\ IsFiniteSet(S)
         /\ Cardinality(S) \in Nat
         /\ Cardinality(S) = NumShards[d] <=> S = AllShards(d)
         /\ \A i : i \notin S => Cardinality(S \cup {i}) = Cardinality(S) + 1
<1>1. IsFiniteSet(AllShards(d)) /\ Cardinality(AllShards(d)) = NumShards[d]
  BY FirstShard, FS_Interval DEF AllShards
<1>2. IsFiniteSet(S)
  BY <1>1, FS_Subset
<1>3. Cardinality(S) = Cardinality(AllShards(d)) => S = AllShards(d)
  BY <1>1, FS_Subset
<1>4. Cardinality(S) \in Nat
  BY <1>2, FS_CardinalityType
<1> QED
  BY <1>1, <1>2, <1>3, <1>4, FS_AddElement

\* The fields of the messages the code builds.
LEMMA MessageFields ==
  \A t, d, i :
    /\ Msg(t, d).topic = t /\ Msg(t, d).doc = d
    /\ ShardMsg(d, i).topic = "ocr.shard" /\ ShardMsg(d, i).doc = d /\ ShardMsg(d, i).shard = i
BY DEF Msg, ShardMsg

\* The message a document is dispatched with agrees with what the document is.
LEMMA RouteFields ==
  ASSUME NEW d \in Doc, NEW l \in BOOLEAN,
         l => HasLayer[d],
         IsTierZero(d) => l
  PROVE  LET m == Msg(route_text_production(l, d), d) IN
           /\ m.doc = d
           /\ m.topic = "text.embedded" => HasLayer[m.doc]
           /\ m.topic \in {"ocr.split", "ocr.shard"} => ~IsTierZero(m.doc)
           /\ m.topic = "ocr.shard" => m.shard = 0 /\ NumShards[d] = 1
           /\ m.topic # "ocr.completed"
BY DEF Msg, route_text_production

LEMMA IInvInit == Init => IInv
<1> SUFFICES ASSUME Init PROVE IInv
  OBVIOUS
<1>1. TypeOK
  BY TypeInit
<1> USE TextAssumption, PdfWorkerAssumption DEF Init, LedgerInit
<1>2. BusInv
  <2> SUFFICES ASSUME NEW d \in Doc
               PROVE  LET m == Msg(route_text_production(HasLayer[d], d), d) IN
                        /\ m.topic = "text.embedded" => HasLayer[m.doc]
                        /\ m.topic \in {"ocr.split", "ocr.shard"} => ~IsTierZero(m.doc)
                        /\ m.topic = "ocr.shard" => m.shard \in AllShards(m.doc) /\ IsSplit(m.doc)
                        /\ m.topic = "ocr.completed" => state[m.doc] = "extract_pending"
    BY DEF BusInv
  <2>1. HasLayer[d] \in BOOLEAN
    OBVIOUS
  <2>2. IsTierZero(d) => HasLayer[d]
    BY DEF IsTierZero
  <2> QED
    BY <2>1, <2>2, RouteFields, FirstShard DEF IsSplit
<1>3. PdfInv /\ OcrInv /\ RowInv
  BY DEF PdfInv, OcrInv, RowInv, PdfWorkerInit, OcrShardInit, SweeperInit, NoSplit, NoShard
<1>4. DocInv
  BY DEF DocInv, IsTierZero
<1>5. ShardInv
  BY FS_EmptySet DEF ShardInv
<1>6. JoinInv
  BY FirstShard DEF JoinInv, AllRecorded, Joinable
<1> QED
  BY <1>1, <1>2, <1>3, <1>4, <1>5, <1>6 DEF IInv

\* The part of the invariant that no step can take back: a split document
\* stays split as long as its uploads and its authoritative count do.
LEMMA SplitStable ==
  ASSUME split_out \subseteq split_out',
         \A d \in Joinable : shards_total[d] = NumShards[d] => shards_total'[d] = NumShards[d]
  PROVE  \A d : IsSplit(d) => IsSplit(d)'
BY DEF IsSplit, Joinable, FallsThroughToSplit

\* A step that touches no document keeps what is said of documents.
LEMMA DocumentsFrame ==
  ASSUME IInv, UNCHANGED <<state, shardVars>>,
         assembled \subseteq assembled', split_out \subseteq split_out',
         shard_out \subseteq shard_out'
  PROVE  DocInv' /\ ShardInv' /\ JoinInv' /\ \A d : IsSplit(d) => IsSplit(d)'
<1>1. \A d : IsSplit(d) => IsSplit(d)'
  BY SplitStable DEF shardVars
<1>2. DocInv'
  BY DEF IInv, DocInv, IsTierZero, shardVars
<1>3. ShardInv'
  BY <1>1 DEF IInv, ShardInv, shardVars
<1>4. JoinInv'
  BY DEF IInv, JoinInv, AllRecorded, IsTierZero, Joinable, FallsThroughToSplit, shardVars
<1> QED
  BY <1>1, <1>2, <1>3, <1>4

\* Messages, jobs and rows that were there before the step stay right when no
\* document leaves extract_pending, split documents stay split and no object
\* disappears.
LEMMA BusFrame ==
  ASSUME IInv, NEW B, NEW m \in B, B \subseteq bus,
         \A d \in Doc : state[d] = "extract_pending" => state'[d] = "extract_pending",
         \A d : IsSplit(d) => IsSplit(d)'
  PROVE  /\ m.topic = "text.embedded" => HasLayer[m.doc]
         /\ m.topic \in {"ocr.split", "ocr.shard"} => ~IsTierZero(m.doc)
         /\ m.topic = "ocr.shard" => m.shard \in AllShards(m.doc) /\ IsSplit(m.doc)'
         /\ m.topic = "ocr.completed" => state'[m.doc] = "extract_pending"
BY DEF IInv, BusInv, TypeOK, LedgerTypeOK, Message

LEMMA RowFrame ==
  ASSUME IInv, sweep_rows' \subseteq sweep_rows,
         \A d \in Doc : state[d] = "extract_pending" => state'[d] = "extract_pending",
         \A d : IsSplit(d) => IsSplit(d)'
  PROVE  RowInv'
<1> SUFFICES ASSUME NEW row \in sweep_rows
             PROVE  /\ row.has_text_layer => HasLayer[row.doc]
                    /\ IsTierZero(row.doc) => row.has_text_layer /\ row.shards_total = 1
                    /\ row.shards_total \in {1, NumShards[row.doc]}
                    /\ row.shards_total > 1 => IsSplit(row.doc)'
                    /\ row.state \in ExtractStates => state'[row.doc] = "extract_pending"
  BY DEF RowInv, IsTierZero
<1>1. row.doc \in Doc
  BY DEF IInv, TypeOK, SweeperTypeOK, Row
<1> QED
  BY <1>1 DEF IInv, RowInv

LEMMA OcrFrame ==
  ASSUME IInv, UNCHANGED ocr_work, shard_out \subseteq shard_out',
         \A d : IsSplit(d) => IsSplit(d)'
  PROVE  OcrInv'
BY DEF IInv, OcrInv, IsTierZero, AllShards

LEMMA PdfFrame ==
  ASSUME IInv, UNCHANGED pdf_work, split_out \subseteq split_out'
  PROVE  PdfInv'
BY DEF IInv, PdfInv, IsTierZero

\* text.embedded: a tier-0 document is handed on with its artifact, one that
\* falls through is dispatched to OCR anew.
LEMMA IInvTextEmbedded ==
  ASSUME IInv, TypeOK', NEW w \in PdfWorker, handle_text_embedded(w),
         UNCHANGED <<ocr_work, sweep_rows>>
  PROVE  IInv'
<1>1. PICK m \in bus, rest \in SUBSET bus :
        /\ m.topic = "text.embedded"
        /\ \/ /\ MayTransition(m.doc, {"text_pending"}, "text_running")
              /\ TierZero(m.doc, rest) \/ FallThrough(m.doc, rest)
           \/ bus' = rest /\ UNCHANGED <<state, shardVars, assembled>>
  BY DEF handle_text_embedded
<1>2. UNCHANGED <<split_out, shard_out, pdf_work>>
  BY DEF handle_text_embedded
<1>3. m.doc \in Doc /\ HasLayer[m.doc]
  BY <1>1 DEF IInv, TypeOK, LedgerTypeOK, Message, BusInv
<1> DEFINE d == m.doc
<1>4. CASE bus' = rest /\ UNCHANGED <<state, shardVars, assembled>>
  <2>1. /\ DocInv' /\ ShardInv' /\ JoinInv'
        /\ \A e : IsSplit(e) => IsSplit(e)'
    BY <1>2, <1>4, DocumentsFrame
  <2>2. BusInv'
    BY <1>4, <2>1, BusFrame DEF BusInv, IsTierZero, AllShards
  <2>3. PdfInv' /\ OcrInv' /\ RowInv'
    BY <1>2, <1>4, <2>1, PdfFrame, OcrFrame, RowFrame
  <2> QED
    BY <2>1, <2>2, <2>3 DEF IInv
<1>5. CASE MayTransition(d, {"text_pending"}, "text_running") /\ TierZero(d, rest)
  <2>1. IsTierZero(d) /\ state[d] \in TextStates
    BY <1>3, <1>5 DEF TierZero, IsTierZero, MayTransition
  <2>2. /\ state' = [state EXCEPT ![d] = "extract_pending"]
        /\ assembled' = assembled \cup {d}
        /\ bus' = rest \cup {Msg("ocr.completed", d)}
        /\ UNCHANGED shardVars
    BY <1>5 DEF TierZero, write_assembled
  <2>3. \A e : IsSplit(e) => IsSplit(e)'
    BY <1>2, <2>2, SplitStable DEF shardVars
  <2>4. \A e \in Doc : state[e] = "extract_pending" => state'[e] = "extract_pending"
    BY <1>3, <2>2 DEF IInv, TypeOK, LedgerTypeOK
  <2>5. state'[d] = "extract_pending"
    BY <1>3, <2>2 DEF IInv, TypeOK, LedgerTypeOK
  <2>6. BusInv'
    BY <2>2, <2>3, <2>4, <2>5, BusFrame, MessageFields DEF BusInv, IsTierZero, AllShards
  <2>7. PdfInv' /\ OcrInv' /\ RowInv'
    BY <1>2, <2>3, <2>4, PdfFrame, OcrFrame, RowFrame
  <2>8. DocInv'
    BY <1>2, <1>3, <2>2 DEF IInv, TypeOK, LedgerTypeOK, DocInv, IsTierZero, shardVars
  <2>9. ShardInv'
    BY <1>2, <2>2, <2>3 DEF IInv, ShardInv, shardVars
  <2>10. JoinInv'
    BY <1>3, <2>1, <2>2 DEF IInv, TypeOK, LedgerTypeOK, JoinInv, AllRecorded, IsTierZero,
       Joinable, FallsThroughToSplit, shardVars
  <2> QED
    BY <2>6, <2>7, <2>8, <2>9, <2>10 DEF IInv
<1>6. CASE MayTransition(d, {"text_pending"}, "text_running") /\ FallThrough(d, rest)
  <2>1. state[d] \in TextStates /\ ~LayerSane[d]
    BY <1>3, <1>6 DEF FallThrough, MayTransition
  <2>2. /\ state' = [state EXCEPT ![d] = "text_pending"]
        /\ has_text_layer' = [has_text_layer EXCEPT ![d] = FALSE]
        /\ shards_total' = [shards_total EXCEPT ![d] = 1]
        /\ bus' = rest \cup {Msg(route_text_production(FALSE, d), d)}
        /\ UNCHANGED <<shards_done, document_shards, assembled>>
    BY <1>6 DEF FallThrough
  <2>3. d \in Joinable => NumShards[d] = 1
    BY <1>3, <2>1, FirstShard DEF Joinable, FallsThroughToSplit
  <2>4. \A e : IsSplit(e) => IsSplit(e)'
    BY <1>2, <1>3, <2>2, <2>3, SplitStable DEF IInv, TypeOK, LedgerTypeOK, Joinable
  <2>5. \A e \in Doc : state[e] = "extract_pending" => state'[e] = "extract_pending"
    BY <1>3, <2>1, <2>2 DEF IInv, TypeOK, LedgerTypeOK
  <2>6. BusInv'
    <3>1. ~IsTierZero(d)
      BY <2>1 DEF IsTierZero
    <3> DEFINE n == Msg(route_text_production(FALSE, d), d)
    <3>2. /\ n.doc = d
          /\ n.topic # "text.embedded"
          /\ n.topic = "ocr.shard" => n.shard = 0 /\ NumShards[d] = 1
          /\ n.topic # "ocr.completed"
      BY DEF Msg, route_text_production
    <3> HIDE DEF n
    <3>3. n.topic = "ocr.shard" => n.shard \in AllShards(d) /\ IsSplit(d)'
      BY <1>3, <3>2, FirstShard DEF IsSplit
    <3> QED
      BY <2>2, <2>4, <2>5, <3>1, <3>2, <3>3, BusFrame DEF BusInv, IsTierZero, AllShards, n
  <2>7. PdfInv' /\ OcrInv' /\ RowInv'
    BY <1>2, <2>4, <2>5, PdfFrame, OcrFrame, RowFrame
  <2>8. DocInv'
    <3> SUFFICES ASSUME NEW e \in Doc
                 PROVE  /\ state'[e] \in TextStates \cup {"extract_pending", "failed"}
                        /\ has_text_layer'[e] => HasLayer[e]
                        /\ IsTierZero(e) => has_text_layer'[e] /\ shards_total'[e] = 1 /\ document_shards'[e] = {}
                        /\ shards_total'[e] \in {1, NumShards[e]}
                        /\ shards_total'[e] > 1 => e \in split_out'
      BY DEF DocInv, IsTierZero
    <3>1. CASE e = d
      BY <1>3, <2>1, <2>2, <3>1 DEF IInv, TypeOK, LedgerTypeOK, IsTierZero
    <3>2. CASE e # d
      BY <1>2, <1>3, <2>2, <3>2 DEF IInv, TypeOK, LedgerTypeOK, DocInv
    <3> QED
      BY <3>1, <3>2
  <2>9. ShardInv'
    BY <1>2, <2>2, <2>4 DEF IInv, ShardInv
  <2>10. JoinInv'
    BY <1>3, <2>1, <2>2, <2>3 DEF IInv, TypeOK, LedgerTypeOK, JoinInv, AllRecorded, AllShards,
       IsTierZero, Joinable, FallsThroughToSplit
  <2> QED
    BY <2>6, <2>7, <2>8, <2>9, <2>10 DEF IInv
<1> QED
  BY <1>1, <1>4, <1>5, <1>6

\* ocr.split, begin: the document is running, nothing else is written.
LEMMA IInvBeginSplit ==
  ASSUME IInv, TypeOK', NEW w \in PdfWorker, begin_split(w),
         UNCHANGED <<ocr_work, sweep_rows>>
  PROVE  IInv'
<1>1. PICK m \in bus, rest \in SUBSET bus :
        /\ m.topic = "ocr.split"
        /\ bus' = rest
        /\ \/ /\ MayTransition(m.doc, {"text_pending"}, "text_running")
              /\ state' = [state EXCEPT ![m.doc] = "text_running"]
              /\ pdf_work' = [pdf_work EXCEPT ![w] = [phase |-> "begun", doc |-> m.doc]]
           \/ UNCHANGED <<state, pdf_work>>
  BY DEF begin_split
<1>2. UNCHANGED <<shardVars, artifactVars>>
  BY DEF begin_split
<1>3. m.doc \in Doc /\ ~IsTierZero(m.doc)
  BY <1>1 DEF IInv, TypeOK, LedgerTypeOK, Message, BusInv
<1>4. \A e : IsSplit(e) => IsSplit(e)'
  BY <1>2, SplitStable DEF shardVars, artifactVars
<1>5. /\ \A e \in Doc : state[e] = "extract_pending" <=> state'[e] = "extract_pending"
      /\ \A e \in Doc : state'[e] \in TextStates \cup {"extract_pending", "failed"}
  BY <1>1, <1>3 DEF IInv, TypeOK, LedgerTypeOK, DocInv, MayTransition
<1>6. BusInv'
  BY <1>1, <1>4, <1>5, BusFrame DEF BusInv, IsTierZero, AllShards
<1>7. PdfInv'
  BY <1>1, <1>2, <1>3 DEF IInv, TypeOK, PdfWorkerTypeOK, PdfInv, IsTierZero, artifactVars
<1>8. OcrInv' /\ RowInv'
  BY <1>2, <1>4, <1>5, OcrFrame, RowFrame DEF artifactVars
<1>9. DocInv'
  BY <1>2, <1>5 DEF IInv, DocInv, IsTierZero, shardVars, artifactVars
<1>10. ShardInv'
  BY <1>2, <1>4 DEF IInv, ShardInv, shardVars, artifactVars
<1>11. JoinInv'
  BY <1>2, <1>5 DEF IInv, JoinInv, AllRecorded, IsTierZero, Joinable,
     FallsThroughToSplit, shardVars, artifactVars
<1> QED
  BY <1>6, <1>7, <1>8, <1>9, <1>10, <1>11 DEF IInv

\* ocr.split, uploads: the sub-PDFs are there for good.
LEMMA IInvDoSplit ==
  ASSUME IInv, TypeOK', NEW w \in PdfWorker, do_split(w),
         UNCHANGED <<ocr_work, sweep_rows>>
  PROVE  IInv'
<1> DEFINE d == pdf_work[w].doc
<1>1. /\ pdf_work[w].phase = "begun"
      /\ split_out' = split_out \cup {d}
      /\ pdf_work' = [pdf_work EXCEPT ![w].phase = "uploaded"]
      /\ UNCHANGED <<ledgerVars, assembled, shard_out>>
  BY DEF do_split, upload_split
<1>2. UNCHANGED <<state, shardVars, bus>>
  BY <1>1 DEF ledgerVars
<1>3. /\ DocInv' /\ ShardInv' /\ JoinInv'
      /\ \A e : IsSplit(e) => IsSplit(e)'
  BY <1>1, <1>2, DocumentsFrame
<1>4. BusInv'
  BY <1>2, <1>3, BusFrame DEF BusInv, IsTierZero, AllShards
<1>5. PdfInv'
  <2>1. pdf_work[w] \in SplitJob
    BY <1>1 DEF IInv, TypeOK, PdfWorkerTypeOK, NoSplit
  <2>2. pdf_work'[w].phase = "uploaded" /\ pdf_work'[w].doc = d
    BY <1>1, <2>1 DEF IInv, TypeOK, PdfWorkerTypeOK, SplitJob
  <2>3. \A v \in PdfWorker : v # w => pdf_work'[v] = pdf_work[v]
    BY <1>1 DEF IInv, TypeOK, PdfWorkerTypeOK
  <2> SUFFICES ASSUME NEW v \in PdfWorker, pdf_work'[v].phase # "idle"
               PROVE  /\ ~IsTierZero(pdf_work'[v].doc)
                      /\ pdf_work'[v].phase = "uploaded" => pdf_work'[v].doc \in split_out'
    BY DEF PdfInv, IsTierZero
  <2>4. CASE v = w
    BY <1>1, <2>2, <2>4 DEF IInv, PdfInv
  <2>5. CASE v # w
    BY <1>1, <2>3, <2>5 DEF IInv, PdfInv
  <2> QED
    BY <2>4, <2>5
<1>6. OcrInv' /\ RowInv'
  BY <1>1, <1>2, <1>3, OcrFrame, RowFrame
<1> QED
  BY <1>3, <1>4, <1>5, <1>6 DEF IInv

\* ocr.split, commit: shards_total becomes authoritative, whatever the state.
LEMMA IInvCommitSplit ==
  ASSUME IInv, TypeOK', NEW w \in PdfWorker, commit_split_result(w),
         UNCHANGED <<ocr_work, sweep_rows>>
  PROVE  IInv'
<1>0. pdf_work[w].doc \in Doc
  BY DEF commit_split_result, IInv, TypeOK, PdfWorkerTypeOK, SplitJob, NoSplit
<1>1. PICK d \in Doc :
      /\ d = pdf_work[w].doc
      /\ pdf_work[w].phase = "uploaded"
      /\ shards_total' = [shards_total EXCEPT ![d] = NumShards[d]]
      /\ bus' = bus \cup {ShardMsg(d, i) : i \in AllShards(d)}
      /\ pdf_work' = [pdf_work EXCEPT ![w] = NoSplit]
      /\ UNCHANGED <<state, shards_done, has_text_layer, document_shards, artifactVars>>
  BY <1>0 DEF commit_split_result
<1>2. d \in split_out /\ ~IsTierZero(d)
  BY <1>1 DEF IInv, PdfInv
<1>3. \A e \in Doc : shards_total'[e] = IF e = d THEN NumShards[d] ELSE shards_total[e]
  BY <1>1, <1>2 DEF IInv, TypeOK, LedgerTypeOK
<1>4. \A e : IsSplit(e) => IsSplit(e)'
  BY <1>1, <1>3, SplitStable DEF Joinable, artifactVars
<1>5. IsSplit(d)'
  BY <1>1, <1>2, <1>3 DEF IsSplit, artifactVars
<1>6. BusInv'
  <2> SUFFICES ASSUME NEW m \in bus'
               PROVE  /\ m.topic = "text.embedded" => HasLayer[m.doc]
                      /\ m.topic \in {"ocr.split", "ocr.shard"} => ~IsTierZero(m.doc)
                      /\ m.topic = "ocr.shard" => m.shard \in AllShards(m.doc) /\ IsSplit(m.doc)'
                      /\ m.topic = "ocr.completed" => state'[m.doc] = "extract_pending"
    BY DEF BusInv, IsTierZero, AllShards
  <2>1. CASE m \in bus
    BY <1>1, <1>4, <2>1, BusFrame
  <2>2. CASE m \in {ShardMsg(d, i) : i \in AllShards(d)}
    BY <1>2, <1>5, <2>2, MessageFields
  <2> QED
    BY <1>1, <2>1, <2>2
<1>7. PdfInv'
  BY <1>1 DEF IInv, TypeOK, PdfWorkerTypeOK, PdfInv, IsTierZero, NoSplit, artifactVars
<1>8. OcrInv' /\ RowInv'
  BY <1>1, <1>4, OcrFrame, RowFrame DEF artifactVars
<1>9. DocInv'
  BY <1>1, <1>2, <1>3 DEF IInv, DocInv, IsTierZero, artifactVars
<1>10. ShardInv'
  BY <1>1, <1>4 DEF IInv, ShardInv, artifactVars
<1>11. JoinInv'
  BY <1>1, <1>3 DEF IInv, JoinInv, AllRecorded, IsTierZero, Joinable, FallsThroughToSplit,
     artifactVars
<1> QED
  BY <1>6, <1>7, <1>8, <1>9, <1>10, <1>11 DEF IInv

\* A failed pdf-worker leaves at most an artifact behind.
LEMMA IInvFailPdf ==
  ASSUME IInv, TypeOK', NEW w \in PdfWorker, PdfWorkerFault(w),
         UNCHANGED <<ocr_work, sweep_rows>>
  PROVE  IInv'
<1>1. /\ UNCHANGED <<state, shardVars, split_out, shard_out>>
      /\ assembled \subseteq assembled'
  BY DEF PdfWorkerFault, FailTextEmbedded, FailSplit, write_assembled, artifactVars
<1>2. /\ DocInv' /\ ShardInv' /\ JoinInv'
      /\ \A e : IsSplit(e) => IsSplit(e)'
  BY <1>1, DocumentsFrame
<1>3. OcrInv' /\ RowInv'
  BY <1>1, <1>2, OcrFrame, RowFrame
<1>4. CASE FailTextEmbedded(w)
  <2>1. bus' \subseteq bus /\ UNCHANGED pdf_work
    BY <1>4 DEF FailTextEmbedded, FailHolding
  <2> QED
    BY <1>1, <1>2, <1>3, <2>1, BusFrame, PdfFrame DEF IInv, BusInv, IsTierZero, AllShards
<1>5. CASE FailSplit(w)
  <2>1. pdf_work[w].phase # "idle" /\ pdf_work' = [pdf_work EXCEPT ![w] = NoSplit]
    BY <1>5 DEF FailSplit, IInv, TypeOK, PdfWorkerTypeOK, SplitJob
  <2>2. PdfInv'
    BY <1>1, <2>1 DEF IInv, TypeOK, PdfWorkerTypeOK, PdfInv, IsTierZero, NoSplit
  <2>3. ~IsTierZero(pdf_work[w].doc)
    BY <2>1 DEF IInv, PdfInv
  <2>4. bus' \subseteq bus \cup {Msg("ocr.split", pdf_work[w].doc)}
    BY <1>5 DEF FailSplit, FailHolding
  <2>5. BusInv'
    BY <1>1, <1>2, <2>3, <2>4, BusFrame, MessageFields DEF BusInv, IsTierZero, AllShards
  <2> QED
    BY <1>2, <1>3, <2>2, <2>5 DEF IInv
<1> QED
  BY <1>4, <1>5 DEF PdfWorkerFault

\* ocr.shard, begin: the job that is taken on is one of a split document.
LEMMA IInvBeginShard ==
  ASSUME IInv, TypeOK', NEW w \in OcrWorker, begin_shard(w),
         UNCHANGED <<pdf_work, sweep_rows>>
  PROVE  IInv'
<1>1. PICK m \in bus, rest \in SUBSET bus :
        /\ m.topic = "ocr.shard"
        /\ bus' = rest
        /\ \/ /\ MayTransition(m.doc, {"text_pending"}, "text_running")
              /\ state' = [state EXCEPT ![m.doc] = "text_running"]
              /\ ocr_work' = [ocr_work EXCEPT ![w] =
                                [phase |-> "ocr", doc |-> m.doc, shard |-> m.shard]]
           \/ UNCHANGED <<state, ocr_work>>
  BY DEF begin_shard
<1>2. UNCHANGED <<shardVars, artifactVars>>
  BY DEF begin_shard
<1>3. /\ m.doc \in Doc /\ ~IsTierZero(m.doc)
      /\ m.shard \in AllShards(m.doc) /\ IsSplit(m.doc)
  BY <1>1 DEF IInv, TypeOK, LedgerTypeOK, Message, BusInv
<1>4. \A e : IsSplit(e) => IsSplit(e)'
  BY <1>2, SplitStable DEF shardVars, artifactVars
<1>5. /\ \A e \in Doc : state[e] = "extract_pending" <=> state'[e] = "extract_pending"
      /\ \A e \in Doc : state'[e] \in TextStates \cup {"extract_pending", "failed"}
  BY <1>1, <1>3 DEF IInv, TypeOK, LedgerTypeOK, DocInv, MayTransition
<1>6. BusInv'
  BY <1>1, <1>4, <1>5, BusFrame DEF BusInv, IsTierZero, AllShards
<1>7. OcrInv'
  <2>1. CASE UNCHANGED ocr_work
    BY <1>2, <1>4, <2>1, OcrFrame DEF artifactVars
  <2>2. CASE ocr_work' = [ocr_work EXCEPT ![w] =
                            [phase |-> "ocr", doc |-> m.doc, shard |-> m.shard]]
    <3> SUFFICES ASSUME NEW v \in OcrWorker, NEW j, j = ocr_work'[v], j.phase # "idle"
                 PROVE  /\ ~IsTierZero(j.doc)
                        /\ j.shard \in AllShards(j.doc)
                        /\ IsSplit(j.doc)'
                        /\ j.phase = "written" => <<j.doc, j.shard>> \in shard_out'
      BY DEF OcrInv, IsTierZero, AllShards, IsSplit
    <3>1. CASE v = w
      BY <1>3, <1>4, <2>2, <3>1 DEF IInv, TypeOK, OcrShardTypeOK
    <3>2. CASE v # w
      BY <1>2, <1>4, <2>2, <3>2 DEF IInv, TypeOK, OcrShardTypeOK, OcrInv, artifactVars
    <3> QED
      BY <3>1, <3>2
  <2> QED
    BY <1>1, <2>1, <2>2
<1>8. PdfInv' /\ RowInv'
  BY <1>2, <1>4, <1>5, PdfFrame, RowFrame DEF artifactVars
<1>9. DocInv'
  BY <1>2, <1>5 DEF IInv, DocInv, IsTierZero, shardVars, artifactVars
<1>10. ShardInv'
  BY <1>2, <1>4 DEF IInv, ShardInv, shardVars, artifactVars
<1>11. JoinInv'
  BY <1>2, <1>5 DEF IInv, JoinInv, AllRecorded, IsTierZero, Joinable,
     FallsThroughToSplit, shardVars, artifactVars
<1> QED
  BY <1>6, <1>7, <1>8, <1>9, <1>10, <1>11 DEF IInv

\* ocr.shard, OCR: the output is uploaded before the shard can be recorded.
LEMMA IInvOcrPages ==
  ASSUME IInv, TypeOK', NEW w \in OcrWorker, ocr_pages(w),
         UNCHANGED <<pdf_work, sweep_rows>>
  PROVE  IInv'
<1>0. ocr_work[w] \in ShardJob
  BY DEF ocr_pages, IInv, TypeOK, OcrShardTypeOK, NoShard
<1>1. PICK job \in ShardJob :
      /\ job = ocr_work[w]
      /\ job.phase = "ocr"
      /\ shard_out' = shard_out \cup {<<job.doc, job.shard>>}
      /\ ocr_work' = [ocr_work EXCEPT ![w].phase = "written"]
      /\ UNCHANGED <<ledgerVars, assembled, split_out>>
  BY <1>0 DEF ocr_pages, write_shard_output
<1>2. UNCHANGED <<state, shardVars, bus>>
  BY <1>1 DEF ledgerVars
<1>3. /\ DocInv' /\ ShardInv' /\ JoinInv'
      /\ \A e : IsSplit(e) => IsSplit(e)'
  BY <1>1, <1>2, DocumentsFrame
<1>4. BusInv'
  BY <1>2, <1>3, BusFrame DEF BusInv, IsTierZero, AllShards
<1>5. OcrInv'
  <2>1. /\ ocr_work'[w].doc = job.doc /\ ocr_work'[w].shard = job.shard
        /\ \A v \in OcrWorker : v # w => ocr_work'[v] = ocr_work[v]
    BY <1>1 DEF IInv, TypeOK, OcrShardTypeOK, ShardJob
  <2> SUFFICES ASSUME NEW v \in OcrWorker, NEW j, j = ocr_work'[v], j.phase # "idle"
               PROVE  /\ ~IsTierZero(j.doc)
                      /\ j.shard \in AllShards(j.doc)
                      /\ IsSplit(j.doc)'
                      /\ j.phase = "written" => <<j.doc, j.shard>> \in shard_out'
    BY DEF OcrInv, IsTierZero, AllShards, IsSplit
  <2>2. CASE v = w
    <3>1. ~IsTierZero(job.doc) /\ job.shard \in AllShards(job.doc) /\ IsSplit(job.doc)
      BY <1>1 DEF IInv, OcrInv
    <3>2. j.doc = job.doc /\ j.shard = job.shard
      BY <2>1, <2>2
    <3>3. IsSplit(job.doc)'
      BY <1>3, <3>1
    <3>4. IsSplit(j.doc)'
      BY <3>2, <3>3
    <3> QED
      BY <1>1, <3>1, <3>2, <3>4
  <2>3. CASE v # w
    BY <1>1, <1>3, <2>1, <2>3 DEF IInv, OcrInv
  <2> QED
    BY <2>2, <2>3
<1>6. PdfInv' /\ RowInv'
  BY <1>1, <1>2, <1>3, PdfFrame, RowFrame
<1> QED
  BY <1>3, <1>4, <1>5, <1>6 DEF IInv

\* The shard that is being recorded is one of its document's, has its output
\* and is compared with the authoritative count.
LEMMA RecordedShard ==
  ASSUME IInv, NEW d \in Doc, NEW i \in AllShards(d), IsSplit(d), ~IsTierZero(d),
         <<d, i>> \in shard_out, ClaimShard(d, i)
  PROVE  LET S == document_shards[d] \cup {i} IN
         /\ S \subseteq AllShards(d)
         /\ Cardinality(S) = shards_done[d] + 1
         /\ d \in Joinable => shards_total[d] = NumShards[d]
         /\ d \in Joinable => (WinsJoin(d) <=> S = AllShards(d))
<1>1. /\ document_shards[d] \subseteq AllShards(d)
      /\ shards_done[d] = Cardinality(document_shards[d])
  BY DEF IInv, ShardInv
<1>2. Cardinality(document_shards[d] \cup {i}) = shards_done[d] + 1
  BY <1>1, ShardCount DEF ClaimShard
<1>3. d \in Joinable => shards_total[d] = NumShards[d]
  BY FirstShard DEF IsSplit, IInv, DocInv
<1>4. document_shards[d] \cup {i} \subseteq AllShards(d)
  BY <1>1
<1> QED
  BY <1>2, <1>3, <1>4, ShardCount DEF WinsJoin

\* ocr.shard, finish: nothing at all, one more shard, or the last one and with
\* it the hand-over to extraction.
LEMMA IInvFinishShard ==
  ASSUME IInv, TypeOK', NEW w \in OcrWorker, finish_shard(w),
         UNCHANGED <<pdf_work, sweep_rows>>
  PROVE  IInv'
<1>0. ocr_work[w] \in ShardJob
  BY DEF finish_shard, IInv, TypeOK, OcrShardTypeOK, NoShard
<1>1. PICK d \in Doc, i \in Nat :
        /\ d = ocr_work[w].doc /\ i = ocr_work[w].shard
        /\ ocr_work[w].phase = "written"
        /\ record_shard_and_maybe_join(d, i)
  BY <1>0 DEF finish_shard, ShardJob
<1>2. /\ ocr_work' = [ocr_work EXCEPT ![w] = NoShard]
      /\ UNCHANGED <<shards_total, has_text_layer, artifactVars>>
  BY DEF finish_shard
<1>3. i \in AllShards(d) /\ IsSplit(d) /\ ~IsTierZero(d) /\ <<d, i>> \in shard_out
  BY <1>1 DEF IInv, OcrInv
<1>4. \A e : IsSplit(e) => IsSplit(e)'
  BY <1>2, SplitStable DEF artifactVars
<1>5. OcrInv'
  BY <1>2, <1>4 DEF IInv, TypeOK, OcrShardTypeOK, OcrInv, NoShard, IsTierZero, AllShards,
     artifactVars
<1>6. PdfInv'
  BY <1>2, PdfFrame DEF artifactVars
<1>7. CASE UNCHANGED <<state, shards_done, document_shards, bus>>
  <2>1. DocInv' /\ ShardInv' /\ JoinInv'
    BY <1>2, <1>7, DocumentsFrame DEF shardVars, artifactVars
  <2>2. BusInv' /\ RowInv'
    BY <1>4, <1>7, BusFrame, RowFrame DEF BusInv, IsTierZero, AllShards
  <2> QED
    BY <1>5, <1>6, <2>1, <2>2 DEF IInv
<1>8. ASSUME ClaimShard(d, i), RecordShard(d, i),
             \/ ~WinsJoin(d) /\ UNCHANGED <<state, bus>>
             \/ /\ WinsJoin(d)
                /\ MayTransition(d, {"text_running"}, "extract_pending")
                /\ state' = [state EXCEPT ![d] = "extract_pending"]
                /\ bus' = bus \cup {Msg("ocr.completed", d)}
      PROVE  IInv'
  <2> DEFINE S == document_shards[d] \cup {i}
  <2>1. /\ S \subseteq AllShards(d) /\ Cardinality(S) = shards_done[d] + 1
        /\ d \in Joinable => shards_total[d] = NumShards[d]
        /\ d \in Joinable => (WinsJoin(d) <=> S = AllShards(d))
    BY <1>3, <1>8, RecordedShard
  <2>2. /\ document_shards' = [document_shards EXCEPT ![d] = S]
        /\ shards_done' = [shards_done EXCEPT ![d] = shards_done[d] + 1]
    BY <1>8 DEF RecordShard
  <2>3. \A e \in Doc : state[e] = "extract_pending" => state'[e] = "extract_pending"
    BY <1>8 DEF IInv, TypeOK, LedgerTypeOK
  <2>4. WinsJoin(d) => state'[d] = "extract_pending"
    BY <1>8 DEF IInv, TypeOK, LedgerTypeOK
  <2>5. \A e \in Doc : e # d => document_shards'[e] = document_shards[e]
                               /\ shards_done'[e] = shards_done[e] /\ state'[e] = state[e]
    BY <1>8, <2>2 DEF IInv, TypeOK, LedgerTypeOK
  <2>6. document_shards'[d] = S /\ shards_done'[d] = shards_done[d] + 1
    BY <2>2 DEF IInv, TypeOK, LedgerTypeOK
  <2> HIDE DEF S
  <2>7. BusInv'
    BY <1>4, <1>8, <2>3, <2>4, BusFrame, MessageFields DEF BusInv, IsTierZero, AllShards
  <2>8. RowInv'
    BY <1>4, <2>3, RowFrame
  <2>9. DocInv'
    BY <1>2, <1>3, <1>8, <2>5 DEF IInv, DocInv, TypeOK, LedgerTypeOK, IsTierZero, artifactVars
  <2>10. ShardInv'
    BY <1>2, <1>3, <1>4, <2>1, <2>5, <2>6 DEF S, IInv, ShardInv, AllShards, artifactVars
  <2>11. JoinInv'
    <3> SUFFICES ASSUME NEW e \in Joinable
                 PROVE  /\ state'[e] # "extract_pending" => document_shards'[e] # AllShards(e)
                        /\ state'[e] = "extract_pending" =>
                             \/ IsTierZero(e) /\ e \in assembled
                             \/ /\ ~IsTierZero(e)
                                /\ document_shards'[e] = AllShards(e)
                                /\ shards_total[e] = NumShards[e]
      BY <1>2 DEF JoinInv, AllRecorded, AllShards, IsTierZero, Joinable, FallsThroughToSplit,
         artifactVars
    <3>1. CASE e # d
      BY <2>5, <3>1 DEF IInv, JoinInv, AllRecorded, Joinable
    <3>2. CASE e = d
      <4>1. state[d] = "extract_pending" => AllRecorded(d)
        BY <1>3, <3>2 DEF IInv, JoinInv
      <4>2. state[d] # "extract_pending"
        BY <1>3, <1>8, <4>1 DEF AllRecorded, ClaimShard
      <4> QED
        BY <1>3, <1>8, <2>1, <2>4, <2>6, <3>2, <4>2
    <3> QED
      BY <3>1, <3>2
  <2> QED
    BY <1>5, <1>6, <2>7, <2>8, <2>9, <2>10, <2>11 DEF IInv
<1> QED
  BY <1>1, <1>7, <1>8 DEF record_shard_and_maybe_join

\* The sweeper's claim: a waiting document stays a waiting one or is failed,
\* and the row remembers what is still true of its document.
LEMMA IInvClaim ==
  ASSUME IInv, TypeOK', NEW batch \in SUBSET Doc, Claim(batch)
  PROVE  IInv'
<1>1. /\ claim_batch(batch)
      /\ UNCHANGED <<shardVars, bus, artifactVars, pdf_work, ocr_work>>
  BY DEF Claim, claim_batch
<1>2. /\ \A e \in Doc : state[e] = "extract_pending" <=> state'[e] = "extract_pending"
      /\ \A e \in Doc : state'[e] \in TextStates \cup {"extract_pending", "failed"}
  BY <1>1 DEF claim_batch, GivesUp, PendingOf, IInv, DocInv
<1>3. \A e : IsSplit(e) => IsSplit(e)'
  BY <1>1, SplitStable DEF shardVars, artifactVars
<1>4. BusInv'
  BY <1>1, <1>2, <1>3, BusFrame DEF BusInv, IsTierZero, AllShards
<1>5. PdfInv' /\ OcrInv'
  BY <1>1, <1>3, PdfFrame, OcrFrame DEF artifactVars
<1>6. RowInv'
  <2> SUFFICES ASSUME NEW d \in Doc
               PROVE  /\ has_text_layer[d] => HasLayer[d]
                      /\ IsTierZero(d) => has_text_layer[d] /\ shards_total[d] = 1
                      /\ shards_total[d] \in {1, NumShards[d]}
                      /\ shards_total[d] > 1 => IsSplit(d)'
                      /\ d \in batch /\ state[d] \in ExtractStates => state'[d] = "extract_pending"
    BY <1>1 DEF RowInv, claim_batch, RowOf, IsTierZero
  <2>1. shards_total[d] > 1 => IsSplit(d)
    BY DEF IsSplit, IInv, DocInv
  <2>2. state[d] \in ExtractStates => state'[d] = "extract_pending"
    BY <1>2 DEF IInv, DocInv
  <2> QED
    BY <1>3, <2>1, <2>2 DEF IInv, DocInv
<1>7. DocInv'
  BY <1>1, <1>2 DEF IInv, DocInv, IsTierZero, shardVars, artifactVars
<1>8. ShardInv'
  BY <1>1, <1>3 DEF IInv, ShardInv, shardVars, artifactVars
<1>9. JoinInv'
  BY <1>1, <1>2 DEF IInv, JoinInv, AllRecorded, IsTierZero, Joinable,
     FallsThroughToSplit, shardVars, artifactVars
<1> QED
  BY <1>4, <1>5, <1>6, <1>7, <1>8, <1>9 DEF IInv

\* What a row is re-driven with is right for its document, however stale the
\* row is.
LEMMA IInvRedrive ==
  ASSUME IInv, TypeOK', Redrive
  PROVE  IInv'
<1>1. PICK row \in sweep_rows :
        bus' = bus \cup RedriveMessages(row) /\ sweep_rows' = sweep_rows \ {row}
  BY DEF Redrive, redrive_document
<1>2. UNCHANGED <<state, shardVars, artifactVars, pdf_work, ocr_work>>
  BY DEF Redrive, redrive_document
<1>3. /\ DocInv' /\ ShardInv' /\ JoinInv'
      /\ \A e : IsSplit(e) => IsSplit(e)'
  BY <1>2, DocumentsFrame DEF artifactVars
<1>4. PdfInv' /\ OcrInv' /\ RowInv'
  BY <1>1, <1>2, <1>3, PdfFrame, OcrFrame, RowFrame DEF artifactVars
<1>5. BusInv'
  <2> DEFINE d == row.doc
  <2>1. /\ d \in Doc /\ row.state \in States /\ row.shards_total \in Nat
        /\ row.has_text_layer \in BOOLEAN
    BY DEF IInv, TypeOK, SweeperTypeOK, Row
  <2>2. /\ row.has_text_layer => HasLayer[d]
        /\ IsTierZero(d) => row.has_text_layer /\ row.shards_total = 1
        /\ row.shards_total \in {1, NumShards[d]}
        /\ row.shards_total > 1 => IsSplit(d)
        /\ row.state \in ExtractStates => state[d] = "extract_pending"
    BY DEF IInv, RowInv
  <2> SUFFICES ASSUME NEW m \in bus'
               PROVE  /\ m.topic = "text.embedded" => HasLayer[m.doc]
                      /\ m.topic \in {"ocr.split", "ocr.shard"} => ~IsTierZero(m.doc)
                      /\ m.topic = "ocr.shard" => m.shard \in AllShards(m.doc) /\ IsSplit(m.doc)'
                      /\ m.topic = "ocr.completed" => state'[m.doc] = "extract_pending"
    BY DEF BusInv, IsTierZero, AllShards
  <2>3. CASE m \in bus
    BY <1>2, <1>3, <2>3, BusFrame
  <2>4. CASE m = Msg(route_text_production(row.has_text_layer, d), d)
    <3>1. /\ m.doc = d
          /\ m.topic = "text.embedded" => HasLayer[m.doc]
          /\ m.topic \in {"ocr.split", "ocr.shard"} => ~IsTierZero(m.doc)
          /\ m.topic = "ocr.shard" => m.shard = 0 /\ NumShards[d] = 1
          /\ m.topic # "ocr.completed"
      BY <2>1, <2>2, <2>4, RouteFields
    <3>2. m.topic = "ocr.shard" => IsSplit(d)'
      BY <3>1 DEF IsSplit
    <3> QED
      BY <2>1, <3>1, <3>2, FirstShard
  <2>5. CASE /\ row.shards_total > 1
             /\ m \in {ShardMsg(d, i) : i \in missing_shards(d, row.shards_total)}
    <3>1. PICK i \in missing_shards(d, row.shards_total) : m = ShardMsg(d, i)
      BY <2>5
    <3>2. i \in AllShards(d)
      BY <2>2, <2>5 DEF missing_shards, AllShards
    <3>3. m.topic = "ocr.shard" /\ m.doc = d /\ m.shard = i
      BY <3>1, MessageFields
    <3> QED
      BY <1>3, <2>2, <2>5, <3>2, <3>3
  <2>6. CASE row.shards_total > 1 /\ m = Msg("ocr.split", d)
    BY <2>2, <2>6, MessageFields
  <2>7. CASE row.state \in ExtractStates /\ m = Msg("ocr.completed", d)
    BY <1>2, <2>2, <2>7, MessageFields
  <2>8. \/ m \in bus
        \/ m = Msg(route_text_production(row.has_text_layer, d), d)
        \/ /\ row.shards_total > 1
           /\ m \in {ShardMsg(d, i) : i \in missing_shards(d, row.shards_total)}
        \/ row.shards_total > 1 /\ m = Msg("ocr.split", d)
        \/ row.state \in ExtractStates /\ m = Msg("ocr.completed", d)
    BY <1>1, <2>1 DEF RedriveMessages
  <2> QED
    BY <2>3, <2>4, <2>5, <2>6, <2>7, <2>8
<1> QED
  BY <1>3, <1>4, <1>5 DEF IInv

\* A tick that dies forgets rows, a skipped message is gone: nothing else changes.
LEMMA IInvForget ==
  ASSUME IInv, TypeOK', SweepFault \/ Skip
  PROVE  IInv'
<1>1. /\ sweep_rows' \subseteq sweep_rows /\ bus' \subseteq bus
      /\ UNCHANGED <<state, shardVars, artifactVars, pdf_work, ocr_work>>
  BY DEF SweepFault, FailSweep, Skip, SkipUnbegun
<1>2. /\ DocInv' /\ ShardInv' /\ JoinInv'
      /\ \A e : IsSplit(e) => IsSplit(e)'
  BY <1>1, DocumentsFrame DEF artifactVars
<1>3. PdfInv' /\ OcrInv' /\ RowInv'
  BY <1>1, <1>2, PdfFrame, OcrFrame, RowFrame DEF artifactVars
<1>4. BusInv'
  BY <1>1, <1>2, BusFrame DEF BusInv, IsTierZero, AllShards
<1> QED
  BY <1>2, <1>3, <1>4 DEF IInv

\* A failed ocr-shard worker gives its message back or loses it.
LEMMA IInvFailShard ==
  ASSUME IInv, TypeOK', NEW w \in OcrWorker, FailShard(w),
         UNCHANGED <<pdf_work, sweep_rows>>
  PROVE  IInv'
<1>0. ocr_work[w] \in ShardJob
  BY DEF FailShard, IInv, TypeOK, OcrShardTypeOK
<1>1. PICK d \in Doc, i \in Nat :
        /\ d = ocr_work[w].doc /\ i = ocr_work[w].shard
        /\ ocr_work[w].phase # "idle"
        /\ bus' \subseteq bus \cup {ShardMsg(d, i)}
  BY <1>0 DEF FailShard, FailHolding, ShardJob
<1>2. /\ ocr_work' = [ocr_work EXCEPT ![w] = NoShard]
      /\ UNCHANGED <<state, shardVars, artifactVars>>
  BY DEF FailShard
<1>3. /\ DocInv' /\ ShardInv' /\ JoinInv'
      /\ \A e : IsSplit(e) => IsSplit(e)'
  BY <1>2, DocumentsFrame DEF artifactVars
<1>4. PdfInv' /\ RowInv'
  BY <1>2, <1>3, PdfFrame, RowFrame DEF artifactVars
<1>5. OcrInv'
  BY <1>2, <1>3 DEF IInv, TypeOK, OcrShardTypeOK, OcrInv, NoShard, IsTierZero, AllShards,
     artifactVars
<1>6. i \in AllShards(d) /\ IsSplit(d) /\ ~IsTierZero(d)
  BY <1>1 DEF IInv, OcrInv
<1>7. BusInv'
  BY <1>1, <1>2, <1>3, <1>6, BusFrame, MessageFields DEF BusInv, IsTierZero, AllShards
<1> QED
  BY <1>3, <1>4, <1>5, <1>7 DEF IInv

LEMMA IInvNext == IInv /\ [Next]_vars => IInv'
<1> SUFFICES ASSUME IInv, [Next]_vars PROVE IInv'
  OBVIOUS
<1>1. TypeOK'
  BY TypeNext DEF IInv
<1>2. CASE UNCHANGED vars
  <2>1. UNCHANGED <<state, shardVars, bus, artifactVars, pdf_work, ocr_work, sweep_rows>>
    BY <1>2 DEF vars, ledgerVars
  <2>2. /\ DocInv' /\ ShardInv' /\ JoinInv'
        /\ \A e : IsSplit(e) => IsSplit(e)'
    BY <2>1, DocumentsFrame DEF artifactVars
  <2>3. PdfInv' /\ OcrInv' /\ RowInv'
    BY <2>1, <2>2, PdfFrame, OcrFrame, RowFrame DEF artifactVars
  <2>4. BusInv'
    BY <2>1, <2>2, BusFrame DEF BusInv, IsTierZero, AllShards
  <2> QED
    BY <1>1, <2>2, <2>3, <2>4 DEF IInv
<1>3. ASSUME NEW w \in PdfWorker, Pdf(w) PROVE IInv'
  BY <1>1, <1>3, IInvTextEmbedded, IInvBeginSplit, IInvDoSplit, IInvCommitSplit, IInvFailPdf
  DEF Pdf, PdfWorkerStep
<1>4. ASSUME NEW w \in OcrWorker, Ocr(w) PROVE IInv'
  BY <1>1, <1>4, IInvBeginShard, IInvOcrPages, IInvFinishShard, IInvFailShard
  DEF Ocr, OcrShardStep
<1>5. ASSUME NEW batch \in SUBSET Doc, Claim(batch) PROVE IInv'
  BY <1>1, <1>5, IInvClaim
<1> QED
  BY <1>1, <1>2, <1>3, <1>4, <1>5, IInvRedrive, IInvForget DEF Next

LEMMA IInvCorrect == Spec => []IInv
BY IInvInit, IInvNext, PTL DEF Spec

-----------------------------------------------------------------------------
(***************************************************************************)
(* The properties.                                                         *)
(***************************************************************************)

\* shards_done counts the recorded shards, and every recorded shard is one of
\* the document's and has its output, under any redelivery and any failure.
THEOREM ShardAccountingHolds == Spec => []ShardAccounting
<1>1. IInv => ShardAccounting
  BY DEF IInv, ShardInv, ShardAccounting
<1> QED
  BY <1>1, IInvCorrect, PTL

\* Extraction is told of a document only once its whole text exists and the
\* ledger says from how many shards to read it.
THEOREM HandedOnWithTextHolds == Spec => []HandedOnWithText
<1>1. IInv => HandedOnWithText
  <2> SUFFICES ASSUME IInv, NEW d \in Joinable,
                      state[d] \in ExtractStates \/ Msg("ocr.completed", d) \in bus
               PROVE  TextExists(d) /\ (d \in assembled \/ shards_total[d] = NumShards[d])
    BY DEF HandedOnWithText
  <2>1. state[d] = "extract_pending"
    BY MessageFields DEF IInv, DocInv, BusInv, Joinable
  <2> QED
    BY <2>1 DEF IInv, JoinInv, ShardInv, TextExists, AllRecorded, Joinable
<1> QED
  BY <1>1, IInvCorrect, PTL

\* No document waits for its text with all of its shards recorded.
THEOREM NoLostJoinHolds == Spec => []NoLostJoin
<1>1. IInv => NoLostJoin
  BY DEF IInv, JoinInv, NoLostJoin, NotStranded
<1> QED
  BY <1>1, IInvCorrect, PTL

\* A shard message of a split document comes after the upload of its input.
THEOREM ShardInputExistsHolds == Spec => []ShardInputExists
<1>1. IInv => ShardInputExists
  BY MessageFields DEF IInv, BusInv, IsSplit, ShardInputExists
<1> QED
  BY <1>1, IInvCorrect, PTL

\* The step form of HandedOnIsFinal.
LEMMA HandedOnStep ==
  ASSUME IInv, [Next]_vars, NEW d \in Joinable, state[d] = "extract_pending"
  PROVE  /\ state'[d] = "extract_pending"
         /\ shards_total'[d] = shards_total[d]
         /\ document_shards'[d] = document_shards[d]
<1> DEFINE Final == /\ state'[d] = "extract_pending"
                    /\ shards_total'[d] = shards_total[d]
                    /\ document_shards'[d] = document_shards[d]
<1>0. /\ d \in Doc
      /\ TypeOK
      /\ IsTierZero(d) \/ (AllRecorded(d) /\ shards_total[d] = NumShards[d])
  BY DEF IInv, JoinInv, Joinable
<1>1. CASE UNCHANGED <<state, shards_total, document_shards>>
  BY <1>1
<1>2. ASSUME NEW w \in PdfWorker, handle_text_embedded(w) PROVE Final
  <2>1. PICK m \in bus, rest \in SUBSET bus :
          \/ /\ MayTransition(m.doc, {"text_pending"}, "text_running")
             /\ TierZero(m.doc, rest) \/ FallThrough(m.doc, rest)
          \/ UNCHANGED <<state, shards_total, document_shards>>
    BY <1>2 DEF handle_text_embedded, shardVars
  <2>2. CASE m.doc = d
    BY <2>1, <2>2 DEF MayTransition
  <2>3. CASE m.doc # d
    BY <1>0, <2>1, <2>3 DEF TierZero, FallThrough, shardVars, TypeOK, LedgerTypeOK
  <2> QED
    BY <2>2, <2>3
<1>3. ASSUME NEW w \in PdfWorker, begin_split(w) PROVE Final
  BY <1>0, <1>3 DEF begin_split, MayTransition, shardVars, TypeOK, LedgerTypeOK
<1>4. ASSUME NEW w \in PdfWorker, commit_split_result(w) PROVE Final
  <2>1. pdf_work[w].doc = d => ~IsTierZero(d)
    BY <1>4 DEF commit_split_result, IInv, PdfInv
  <2> QED
    BY <1>0, <1>4, <2>1 DEF commit_split_result, TypeOK, LedgerTypeOK
<1>5. ASSUME NEW w \in OcrWorker, begin_shard(w) PROVE Final
  BY <1>0, <1>5 DEF begin_shard, MayTransition, shardVars, TypeOK, LedgerTypeOK
<1>6. ASSUME NEW w \in OcrWorker, finish_shard(w) PROVE Final
  <2>1. PICK e, i :
          /\ e = ocr_work[w].doc /\ i = ocr_work[w].shard
          /\ ocr_work[w].phase = "written"
          /\ record_shard_and_maybe_join(e, i)
          /\ UNCHANGED shards_total
    BY <1>6 DEF finish_shard
  <2>2. e = d => ~ClaimShard(d, i)
    BY <1>0, <2>1 DEF IInv, OcrInv, AllRecorded, ClaimShard
  <2> QED
    BY <1>0, <2>1, <2>2 DEF record_shard_and_maybe_join, RecordShard, TypeOK, LedgerTypeOK
<1>7. ASSUME NEW batch \in SUBSET Doc, Claim(batch) PROVE Final
  BY <1>0, <1>7 DEF Claim, claim_batch, GivesUp, PendingOf, shardVars
<1>9. CASE Next
  <2>1. \/ \E w \in PdfWorker :
             handle_text_embedded(w) \/ begin_split(w) \/ commit_split_result(w)
        \/ \E w \in OcrWorker : begin_shard(w) \/ finish_shard(w)
        \/ \E batch \in SUBSET Doc : Claim(batch)
        \/ UNCHANGED <<state, shards_total, document_shards>>
    BY <1>9 DEF Next, Pdf, PdfWorkerStep, PdfWorkerFault, do_split, FailTextEmbedded, FailSplit,
       Ocr, OcrShardStep, ocr_pages, FailShard, Redrive, redrive_document, SweepFault,
       FailSweep, Skip, SkipUnbegun, ledgerVars, shardVars
  <2> QED
    BY <1>1, <1>2, <1>3, <1>4, <1>5, <1>6, <1>7, <2>1
<1> QED
  BY <1>1, <1>9 DEF vars, ledgerVars, shardVars

\* Text production leaves a document alone once it is handed on, whatever is
\* still in flight.
THEOREM HandedOnIsFinalHolds == Spec => HandedOnIsFinal
<1>1. IInv /\ [Next]_vars =>
        [\A d \in Joinable : state[d] = "extract_pending" =>
           /\ state'[d] = "extract_pending"
           /\ shards_total'[d] = shards_total[d]
           /\ document_shards'[d] = document_shards[d]]_vars
  BY HandedOnStep
<1> QED
  BY <1>1, IInvCorrect, PTL DEF Spec, HandedOnIsFinal

-----------------------------------------------------------------------------
(***************************************************************************)
(* Text production implements TextStage.                                   *)
(***************************************************************************)

\* The initial states of text production are initial states of the stage.
LEMMA RefinesInit == Init => Abstract!TSInit
BY DEF Init, LedgerInit, Abstract!TSInit, StageOf, Gathered, Joinable

stages == [d \in Joinable |-> StageOf(d)]
pieces == [d \in Joinable |-> Gathered(d)]

\* A step that changes neither stage nor recorded shards is a stutter.
LEMMA RefinesStutter ==
  ASSUME UNCHANGED document_shards,
         \A d \in Joinable : StageOf(d)' = StageOf(d)
  PROVE  UNCHANGED <<stages, pieces>>
<1>1. \A d \in Joinable : Gathered(d)' = Gathered(d)
  BY DEF Gathered, StageOf, IsTierZero
<1> QED
  BY <1>1 DEF stages, pieces, Joinable, FallsThroughToSplit

\* Handing on a tier-0 document completes it.
LEMMA RefinesTierZero ==
  ASSUME IInv, NEW d \in Doc, IsTierZero(d), state[d] \in TextStates,
         state' = [state EXCEPT ![d] = "extract_pending"],
         UNCHANGED document_shards
  PROVE  Abstract!Complete(d)
<1>1. d \in Joinable /\ TypeOK
  BY DEF Joinable, FallsThroughToSplit, IsTierZero, IInv
<1>2. StageOf(d) = "gathering" /\ Gathered(d) = {} /\ Pieces(d) = {0}
  BY DEF StageOf, Gathered, Pieces
<1>3. \A e \in Joinable : /\ StageOf(e)' = IF e = d THEN "ready" ELSE StageOf(e)
                          /\ Gathered(e)' = IF e = d THEN {0} ELSE Gathered(e)
  BY <1>1 DEF StageOf, Gathered, IsTierZero, TypeOK, LedgerTypeOK, Joinable
<1>4. pieces' = [pieces EXCEPT ![d] = {0}] /\ stages' = [stages EXCEPT ![d] = "ready"]
  BY <1>1, <1>3 DEF pieces, stages, Joinable, FallsThroughToSplit
<1> QED
  BY <1>1, <1>2, <1>4 DEF Abstract!Complete, stages, pieces

\* Recording a shard gathers a piece; the winning one completes the document.
LEMMA RefinesShard ==
  ASSUME IInv, NEW d \in Doc, NEW i \in AllShards(d), IsSplit(d), ~IsTierZero(d),
         <<d, i>> \in shard_out, ClaimShard(d, i), RecordShard(d, i),
         \/ ~WinsJoin(d) /\ UNCHANGED state
         \/ WinsJoin(d) /\ state[d] \in {"text_running", "extract_pending"}
            /\ state' = [state EXCEPT ![d] = "extract_pending"],
         d \in Joinable
  PROVE  Abstract!Gather(d) \/ Abstract!Complete(d)
<1> DEFINE S == document_shards[d] \cup {i}
<1>1. /\ S \subseteq AllShards(d)
      /\ WinsJoin(d) <=> S = AllShards(d)
  BY RecordedShard
<1>2. TypeOK /\ state[d] # "extract_pending" /\ state[d] \in TextStates \cup {"failed"}
  BY DEF IInv, JoinInv, DocInv, AllRecorded, ClaimShard
<1>3. /\ Gathered(d) = document_shards[d] /\ Pieces(d) = AllShards(d)
      /\ i \in AllShards(d) \ document_shards[d]
  BY DEF Gathered, Pieces, ClaimShard
<1>4. \A e \in Joinable : Gathered(e)' = IF e = d THEN S ELSE Gathered(e)
  <2> TAKE e \in Joinable
  <2>1. CASE e = d
    BY <2>1, <1>2 DEF Gathered, IsTierZero, RecordShard, TypeOK, LedgerTypeOK
  <2>2. CASE e # d
    <3>1. document_shards'[e] = document_shards[e] /\ state'[e] = state[e]
      BY <1>2, <2>2 DEF RecordShard, TypeOK, LedgerTypeOK, Joinable
    <3> QED
      BY <2>2, <3>1 DEF Gathered, IsTierZero
  <2> QED
    BY <2>1, <2>2
<1>5. pieces' = [pieces EXCEPT ![d] = S]
  BY <1>4 DEF pieces, Joinable, FallsThroughToSplit
<1> HIDE DEF S
<1>6. CASE ~WinsJoin(d) /\ UNCHANGED state
  <2>1. UNCHANGED stages
    BY <1>6 DEF stages, StageOf, Joinable, FallsThroughToSplit
  <2>2. stages[d] # "ready" /\ pieces[d] = document_shards[d]
    BY <1>2, <1>3 DEF stages, pieces, StageOf
  <2>3. pieces[d] \cup {i} = S
    BY <2>2 DEF S
  <2> QED
    BY <1>1, <1>3, <1>5, <1>6, <2>1, <2>2, <2>3 DEF Abstract!Gather, stages, pieces
<1>7. CASE WinsJoin(d) /\ state[d] \in {"text_running", "extract_pending"}
           /\ state' = [state EXCEPT ![d] = "extract_pending"]
  <2>1. stages[d] = "gathering" /\ pieces[d] = document_shards[d]
    BY <1>2, <1>3, <1>7 DEF stages, pieces, StageOf
  <2>2. stages' = [stages EXCEPT ![d] = "ready"]
    BY <1>2, <1>7 DEF stages, StageOf, TypeOK, LedgerTypeOK, Joinable, FallsThroughToSplit
  <2>3. pieces[d] \cup {i} = Pieces(d) /\ S = Pieces(d)
    BY <1>1, <1>3, <1>7, <2>1 DEF S
  <2> QED
    BY <1>3, <1>5, <2>1, <2>2, <2>3 DEF Abstract!Complete, stages, pieces
<1> QED
  BY <1>6, <1>7

\* A claim gives up the documents of the batch that are at their cap.
LEMMA RefinesClaim ==
  ASSUME IInv, NEW batch \in SUBSET Doc, Claim(batch)
  PROVE  \E D \in SUBSET Joinable : Abstract!Abandon(D)
<1> DEFINE D == {d \in Joinable : d \in batch /\ GivesUp(d)}
<1>1. /\ \A d \in batch : state[d] \in InFlightStates
      /\ state' = [d \in Doc |-> IF d \notin batch THEN state[d]
                                ELSE IF GivesUp(d) THEN "failed" ELSE PendingOf(state[d])]
      /\ UNCHANGED document_shards
  BY DEF Claim, claim_batch, shardVars
<1>2. \A d \in Joinable : d \in Doc /\ state[d] \in TextStates \cup {"extract_pending", "failed"}
  BY DEF IInv, DocInv, Joinable
<1>3. \A d \in D : StageOf(d) = "gathering"
  BY <1>1, <1>2 DEF StageOf, GivesUp
<1>4. \A d \in Joinable : StageOf(d)' = IF d \in D THEN "abandoned" ELSE StageOf(d)
  BY <1>1, <1>2 DEF StageOf, GivesUp, PendingOf
<1>5. \A d \in Joinable : Gathered(d)' = Gathered(d)
  BY <1>1, <1>2, <1>4 DEF Gathered, IsTierZero, GivesUp, PendingOf
<1> HIDE DEF D
<1>6. stages' = [d \in Joinable |-> IF d \in D THEN "abandoned" ELSE stages[d]]
  BY <1>4 DEF stages, Joinable, FallsThroughToSplit
<1>7. UNCHANGED pieces
  BY <1>5 DEF pieces, Joinable, FallsThroughToSplit
<1>8. D \in SUBSET Joinable
  BY DEF D
<1>9. \A d \in D : stages[d] = "gathering"
  BY <1>3, <1>8 DEF stages
<1> QED
  BY <1>6, <1>7, <1>8, <1>9 DEF Abstract!Abandon, stages, pieces

LEMMA RefinesNext == IInv /\ [Next]_vars => [Abstract!TSNext]_<<stages, pieces>>
<1> SUFFICES ASSUME IInv, [Next]_vars, ~UNCHANGED <<stages, pieces>>
             PROVE  Abstract!TSNext
  OBVIOUS
<1> USE DEF shardVars
<1>0. TypeOK /\ \A d \in Joinable : d \in Doc
  BY DEF IInv, Joinable
<1>1. ~UNCHANGED <<state, document_shards>>
  <2> SUFFICES ASSUME UNCHANGED <<state, document_shards>> PROVE UNCHANGED <<stages, pieces>>
    OBVIOUS
  <2> QED
    BY RefinesStutter DEF StageOf
<1>2. ASSUME NEW w \in PdfWorker, handle_text_embedded(w) PROVE Abstract!TSNext
  <2>1. PICK m \in bus, rest \in SUBSET bus :
          /\ MayTransition(m.doc, {"text_pending"}, "text_running")
          /\ TierZero(m.doc, rest) \/ FallThrough(m.doc, rest)
          /\ m.topic = "text.embedded"
    BY <1>1, <1>2 DEF handle_text_embedded
  <2>2. m.doc \in Doc /\ HasLayer[m.doc] /\ state[m.doc] \in TextStates
    BY <2>1 DEF IInv, TypeOK, LedgerTypeOK, Message, BusInv, MayTransition
  <2>3. CASE TierZero(m.doc, rest)
    <3>1. IsTierZero(m.doc) /\ m.doc \in Joinable
      BY <2>2, <2>3 DEF TierZero, IsTierZero, Joinable, FallsThroughToSplit
    <3>2. Abstract!Complete(m.doc)
      BY <2>2, <2>3, <3>1, RefinesTierZero DEF TierZero
    <3> QED
      BY <3>1, <3>2 DEF Abstract!TSNext
  <2>4. CASE FallThrough(m.doc, rest)
    <3>1. \A d \in Joinable : StageOf(d)' = StageOf(d)
      BY <1>0, <2>2, <2>4 DEF FallThrough, StageOf, TypeOK, LedgerTypeOK
    <3> QED
      BY <2>4, <3>1, RefinesStutter DEF FallThrough
  <2> QED
    BY <2>1, <2>3, <2>4
<1>3. ASSUME NEW w \in PdfWorker, begin_split(w) PROVE Abstract!TSNext
  <2>1. \A d \in Joinable : StageOf(d)' = StageOf(d)
    BY <1>0, <1>3 DEF begin_split, MayTransition, StageOf, TypeOK, LedgerTypeOK
  <2> QED
    BY <1>3, <2>1, RefinesStutter DEF begin_split
<1>4. ASSUME NEW w \in OcrWorker, begin_shard(w) PROVE Abstract!TSNext
  <2>1. \A d \in Joinable : StageOf(d)' = StageOf(d)
    BY <1>0, <1>4 DEF begin_shard, MayTransition, StageOf, TypeOK, LedgerTypeOK
  <2> QED
    BY <1>4, <2>1, RefinesStutter DEF begin_shard
<1>5. ASSUME NEW w \in OcrWorker, finish_shard(w) PROVE Abstract!TSNext
  <2>0. ocr_work[w] \in ShardJob
    BY <1>0, <1>5 DEF finish_shard, TypeOK, OcrShardTypeOK, NoShard
  <2>1. PICK d \in Doc, i \in Nat :
          /\ d = ocr_work[w].doc /\ i = ocr_work[w].shard
          /\ ocr_work[w].phase = "written"
          /\ record_shard_and_maybe_join(d, i)
    BY <1>5, <2>0 DEF finish_shard, ShardJob
  <2>2. i \in AllShards(d) /\ IsSplit(d) /\ ~IsTierZero(d) /\ <<d, i>> \in shard_out
    BY <2>1 DEF IInv, OcrInv
  <2>3. /\ ClaimShard(d, i) /\ RecordShard(d, i)
        /\ \/ ~WinsJoin(d) /\ UNCHANGED state
           \/ /\ WinsJoin(d) /\ state[d] \in {"text_running", "extract_pending"}
              /\ state' = [state EXCEPT ![d] = "extract_pending"]
    BY <1>1, <2>1 DEF record_shard_and_maybe_join, MayTransition
  <2>4. CASE d \in Joinable
    BY <2>2, <2>3, <2>4, RefinesShard DEF Abstract!TSNext
  <2>5. CASE d \notin Joinable
    <3>1. \A e \in Joinable : state'[e] = state[e] /\ document_shards'[e] = document_shards[e]
      BY <1>0, <2>3, <2>5 DEF RecordShard, TypeOK, LedgerTypeOK
    <3>2. \A e \in Joinable : StageOf(e)' = StageOf(e) /\ Gathered(e)' = Gathered(e)
      BY <3>1 DEF StageOf, Gathered, IsTierZero
    <3> QED
      BY <3>2 DEF stages, pieces, Joinable, FallsThroughToSplit
  <2> QED
    BY <2>4, <2>5
<1>6. ASSUME NEW batch \in SUBSET Doc, Claim(batch) PROVE Abstract!TSNext
  BY <1>6, RefinesClaim DEF Abstract!TSNext
<1> QED
  <2>1. \/ \E w \in PdfWorker : handle_text_embedded(w) \/ begin_split(w)
        \/ \E w \in OcrWorker : begin_shard(w) \/ finish_shard(w)
        \/ \E batch \in SUBSET Doc : Claim(batch)
    BY <1>1 DEF Next, vars, Pdf, PdfWorkerStep, PdfWorkerFault, do_split, commit_split_result,
       FailTextEmbedded, FailSplit, Ocr, OcrShardStep, ocr_pages, FailShard, Redrive,
       redrive_document, SweepFault, FailSweep, Skip, SkipUnbegun, ledgerVars
  <2> QED
    BY <1>2, <1>3, <1>4, <1>5, <1>6, <2>1

\* Text production implements the abstract text stage: every piece is gathered
\* at most once, and the step that records the last one hands the document on,
\* for any number of shards, workers, re-drives and failures.
THEOREM TextProductionRefines == Spec => ImplementsTextStage
<1>1. IInv /\ [Next]_vars => [Abstract!TSNext]_<<[d \in Joinable |-> StageOf(d)],
                                              [d \in Joinable |-> Gathered(d)]>>
  BY RefinesNext DEF stages, pieces
<1> QED
  BY <1>1, RefinesInit, IInvCorrect, PTL DEF Spec, ImplementsTextStage, Abstract!TSSpec
=============================================================================
