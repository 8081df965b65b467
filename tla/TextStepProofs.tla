--------------------------- MODULE TextStepProofs ---------------------------
(***************************************************************************)
(* What a step of a pdf-worker and of an ocr-shard worker does: to the     *)
(* types, and to what later stages read.  Both modules that compose these  *)
(* workers, TextProduction and Pipeline, rest on this one.                 *)
(***************************************************************************)
EXTENDS PdfWorker, OcrShard, SweeperProofs

USE DEF TextStates, ExtractStates, InFlightStates, RunningStates, States, Topics

ArtifactsTypeOK ==
  assembled \subseteq Doc /\ split_out \subseteq Doc /\ shard_out \subseteq Doc \X Nat

\* A step of a pdf-worker keeps the types of what it writes.
LEMMA PdfTypes ==
  ASSUME LedgerTypeOK, ArtifactsTypeOK, PdfWorkerTypeOK, NEW w \in PdfWorker,
         PdfWorkerStep(w) \/ PdfWorkerFault(w)
  PROVE  LedgerTypeOK' /\ ArtifactsTypeOK' /\ PdfWorkerTypeOK'
<1> USE LedgerAssumption DEF LedgerTypeOK, ArtifactsTypeOK, PdfWorkerTypeOK
<1> USE DEF ledgerVars, shardVars, attemptVars, artifactVars, Take, FailHolding,
      write_assembled, upload_split
<1>1. CASE handle_text_embedded(w)
  <2>1. PICK m \in bus, rest \in SUBSET bus :
          /\ Take(m, rest)
          /\ \/ TierZero(m.doc, rest) \/ FallThrough(m.doc, rest)
             \/ bus' = rest /\ UNCHANGED <<state, shardVars, assembled>>
    BY <1>1 DEF handle_text_embedded
  <2>2. m.doc \in Doc
    BY DEF Message
  <2>3. UNCHANGED <<attemptVars, split_out, shard_out, pdf_work>>
    BY <1>1 DEF handle_text_embedded
  <2>4. CASE TierZero(m.doc, rest)
    <3>1. bus' \subseteq Message
      BY <2>2, <2>4, MessageTypes DEF TierZero
    <3> QED
      BY <2>1, <2>2, <2>3, <2>4, <3>1 DEF TierZero
  <2>5. CASE FallThrough(m.doc, rest)
    <3>1. bus' \subseteq Message
      BY <2>2, <2>5, MessageTypes, RouteType DEF FallThrough
    <3>2. has_text_layer' = [has_text_layer EXCEPT ![m.doc] = FALSE]
      BY <2>5 DEF FallThrough
    <3>3. has_text_layer' \in [Doc -> BOOLEAN]
      BY <3>2, Zenon
    <3>4. /\ shards_total' = [shards_total EXCEPT ![m.doc] = 1]
          /\ state' = [state EXCEPT ![m.doc] = "text_pending"]
          /\ UNCHANGED <<shards_done, document_shards, assembled>>
      BY <2>5 DEF FallThrough
    <3> QED
      BY <2>1, <2>2, <2>3, <3>1, <3>3, <3>4
  <2>6. CASE bus' = rest /\ UNCHANGED <<state, shardVars, assembled>>
    BY <2>1, <2>3, <2>6
  <2> QED
    BY <2>1, <2>4, <2>5, <2>6
<1>2. CASE begin_split(w)
  <2>1. PICK m \in bus, rest \in SUBSET bus :
          /\ Take(m, rest)
          /\ bus' = rest
          /\ \/ /\ state' = [state EXCEPT ![m.doc] = "text_running"]
                /\ pdf_work' = [pdf_work EXCEPT ![w] = [phase |-> "begun", doc |-> m.doc]]
             \/ UNCHANGED <<state, pdf_work>>
    BY <1>2 DEF begin_split
  <2>2. [phase |-> "begun", doc |-> m.doc] \in SplitJob
    BY DEF Message, SplitJob
  <2>3. UNCHANGED <<shardVars, attemptVars, artifactVars>>
    BY <1>2 DEF begin_split
  <2> QED
    BY <2>1, <2>2, <2>3
<1>3. CASE do_split(w)
  <2>1. pdf_work[w] \in SplitJob
    BY <1>3 DEF do_split, NoSplit
  <2>2. pdf_work[w].doc \in Doc /\ [pdf_work[w] EXCEPT !.phase = "uploaded"] \in SplitJob
    BY <2>1 DEF SplitJob
  <2> QED
    BY <1>3, <2>2 DEF do_split
<1>4. CASE commit_split_result(w)
  <2>1. pdf_work[w] \in SplitJob
    BY <1>4 DEF commit_split_result, NoSplit
  <2>2. pdf_work[w].doc \in Doc
    BY <2>1 DEF SplitJob
  <2>3. bus' \subseteq Message
    BY <1>4, <2>2, MessageTypes, ShardsAreNat DEF commit_split_result
  <2> QED
    BY <1>4, <2>2, <2>3 DEF commit_split_result
<1>5. CASE FailTextEmbedded(w)
  <2>1. PICK m \in bus :
          /\ FailHolding(m, bus \ {m})
          /\ UNCHANGED assembled \/ write_assembled(m.doc)
    BY <1>5 DEF FailTextEmbedded
  <2>2. m.doc \in Doc
    BY DEF Message
  <2>3. UNCHANGED <<state, shardVars, attemptVars, split_out, shard_out, pdf_work>>
    BY <1>5 DEF FailTextEmbedded
  <2> QED
    BY <2>1, <2>2, <2>3
<1>6. CASE FailSplit(w)
  <2>1. pdf_work[w].doc \in Doc
    BY <1>6 DEF FailSplit, SplitJob
  <2>2. bus' \subseteq Message
    BY <1>6, <2>1, MessageTypes DEF FailSplit
  <2> QED
    BY <1>6, <2>2 DEF FailSplit
<1> QED
  BY <1>1, <1>2, <1>3, <1>4, <1>5, <1>6 DEF PdfWorkerStep, PdfWorkerFault

\* A step of an ocr-shard worker keeps the types of what it writes.
LEMMA OcrTypes ==
  ASSUME LedgerTypeOK, ArtifactsTypeOK, OcrShardTypeOK, NEW w \in OcrWorker,
         OcrShardStep(w) \/ FailShard(w)
  PROVE  LedgerTypeOK' /\ ArtifactsTypeOK' /\ OcrShardTypeOK'
<1> USE LedgerAssumption DEF LedgerTypeOK, ArtifactsTypeOK, OcrShardTypeOK
<1> USE DEF ledgerVars, shardVars, attemptVars, artifactVars, Take, FailHolding
<1>1. CASE begin_shard(w)
  <2>1. PICK m \in bus, rest \in SUBSET bus :
          /\ Take(m, rest)
          /\ bus' = rest
          /\ \/ /\ state' = [state EXCEPT ![m.doc] = "text_running"]
                /\ ocr_work' = [ocr_work EXCEPT ![w] =
                                  [phase |-> "ocr", doc |-> m.doc, shard |-> m.shard]]
             \/ UNCHANGED <<state, ocr_work>>
    BY <1>1 DEF begin_shard
  <2>2. [phase |-> "ocr", doc |-> m.doc, shard |-> m.shard] \in ShardJob
    BY DEF Message, ShardJob
  <2>3. UNCHANGED <<shardVars, attemptVars, artifactVars>>
    BY <1>1 DEF begin_shard
  <2> QED
    BY <2>1, <2>2, <2>3
<1>2. CASE ocr_pages(w)
  <2>1. ocr_work[w] \in ShardJob
    BY <1>2 DEF ocr_pages, NoShard
  <2>2. /\ <<ocr_work[w].doc, ocr_work[w].shard>> \in Doc \X Nat
        /\ [ocr_work[w] EXCEPT !.phase = "written"] \in ShardJob
    BY <2>1 DEF ShardJob
  <2> QED
    BY <1>2, <2>2 DEF ocr_pages, write_shard_output
<1>3. CASE finish_shard(w)
  <2>1. ocr_work[w] \in ShardJob
    BY <1>3 DEF finish_shard, NoShard
  <2> DEFINE d == ocr_work[w].doc  i == ocr_work[w].shard
  <2>2. d \in Doc /\ i \in Nat
    BY <2>1 DEF ShardJob
  <2>3. /\ ocr_work' = [ocr_work EXCEPT ![w] = NoShard]
        /\ UNCHANGED <<shards_total, has_text_layer, attemptVars, faults, artifactVars>>
        /\ record_shard_and_maybe_join(d, i)
    BY <1>3 DEF finish_shard
  <2>4. Msg("ocr.completed", d) \in Message
    BY <2>2, MessageTypes
  <2> HIDE DEF d, i
  <2>5. /\ state' \in [Doc -> States]
        /\ shards_done' \in [Doc -> Nat]
        /\ document_shards' \in [Doc -> SUBSET Nat]
        /\ bus' \subseteq Message
    BY <2>2, <2>3, <2>4 DEF record_shard_and_maybe_join, RecordShard
  <2> QED
    BY <2>3, <2>5
<1>4. CASE FailShard(w)
  <2>1. ocr_work[w] \in ShardJob
    BY <1>4 DEF FailShard
  <2>2. ShardMsg(ocr_work[w].doc, ocr_work[w].shard) \in Message
    BY <2>1 DEF ShardJob, ShardMsg, Message
  <2> QED
    BY <1>4, <2>2 DEF FailShard
<1> QED
  BY <1>1, <1>2, <1>3, <1>4 DEF OcrShardStep

-----------------------------------------------------------------------------
(***************************************************************************)
(* What they write for others to read.                                     *)
(***************************************************************************)

\* Nobody but triage and a re-drive dispatches to text.embedded.
OnlyOlderEmbedded == \A m \in bus' : m.topic = "text.embedded" => m \in bus

\* A pdf-worker writes an artifact only of a text layer it was sent to read.
LEMMA PdfWrites ==
  ASSUME bus \subseteq Message, NEW w, PdfWorkerStep(w) \/ PdfWorkerFault(w)
  PROVE  /\ OnlyOlderEmbedded
         /\ UNCHANGED shard_out
         /\ \/ UNCHANGED assembled
            \/ \E m \in bus : /\ m.topic = "text.embedded" /\ LayerSane[m.doc]
                              /\ assembled' = assembled \cup {m.doc}
         /\ \/ UNCHANGED has_text_layer
            \/ \E d \in Doc : has_text_layer' = [has_text_layer EXCEPT ![d] = FALSE]
<1> USE DEF ledgerVars, shardVars, artifactVars, write_assembled, OnlyOlderEmbedded
<1>0. \A t, d, i : Msg(t, d).topic = t /\ ShardMsg(d, i).topic = "ocr.shard"
  BY DEF Msg, ShardMsg
<1>1. CASE handle_text_embedded(w)
  <2>1. PICK m \in bus, rest \in SUBSET bus :
          /\ m.topic = "text.embedded"
          /\ \/ TierZero(m.doc, rest) \/ FallThrough(m.doc, rest)
             \/ bus' = rest /\ UNCHANGED <<shardVars, assembled>>
    BY <1>1 DEF handle_text_embedded
  <2>2. m.doc \in Doc /\ UNCHANGED shard_out
    BY <1>1 DEF Message, handle_text_embedded
  <2>3. CASE TierZero(m.doc, rest)
    BY <1>0, <2>1, <2>2, <2>3 DEF TierZero
  <2>4. CASE FallThrough(m.doc, rest)
    <3>1. \E d \in Doc : has_text_layer' = [has_text_layer EXCEPT ![d] = FALSE]
      BY <2>2, <2>4, Zenon DEF FallThrough
    <3>2. bus' = rest \cup {Msg(route_text_production(FALSE, m.doc), m.doc)} /\ UNCHANGED assembled
      BY <2>4 DEF FallThrough
    <3>3. Msg(route_text_production(FALSE, m.doc), m.doc).topic # "text.embedded"
      BY DEF Msg, route_text_production
    <3>4. OnlyOlderEmbedded
      BY <2>1, <3>2, <3>3
    <3> QED
      BY <2>2, <3>1, <3>2, <3>4
  <2> QED
    BY <2>1, <2>2, <2>3, <2>4
<1>2. CASE begin_split(w) \/ do_split(w)
  BY <1>2 DEF begin_split, do_split
<1>3. CASE commit_split_result(w)
  BY <1>0, <1>3 DEF commit_split_result
<1>4. CASE FailTextEmbedded(w)
  <2>1. PICK m \in bus :
          /\ m.topic = "text.embedded" /\ FailHolding(m, bus \ {m})
          /\ UNCHANGED assembled \/ (LayerSane[m.doc] /\ write_assembled(m.doc))
    BY <1>4 DEF FailTextEmbedded
  <2> QED
    BY <1>4, <2>1 DEF FailTextEmbedded, FailHolding
<1>5. CASE FailSplit(w)
  BY <1>0, <1>5 DEF FailSplit, FailHolding
<1> QED
  BY <1>1, <1>2, <1>3, <1>4, <1>5 DEF PdfWorkerStep, PdfWorkerFault

\* An ocr-shard worker only adds outputs, and hands on to extraction.
LEMMA OcrWrites ==
  ASSUME NEW w, OcrShardStep(w) \/ FailShard(w)
  PROVE  /\ OnlyOlderEmbedded
         /\ shard_out \subseteq shard_out'
         /\ UNCHANGED <<assembled, has_text_layer>>
<1> USE DEF ledgerVars, shardVars, artifactVars, OnlyOlderEmbedded
<1>0. \A t, d, i : Msg(t, d).topic = t /\ ShardMsg(d, i).topic = "ocr.shard"
  BY DEF Msg, ShardMsg
<1>1. CASE begin_shard(w)
  BY <1>1 DEF begin_shard
<1>2. CASE ocr_pages(w)
  BY <1>2 DEF ocr_pages, write_shard_output
<1>3. CASE finish_shard(w)
  BY <1>0, <1>3 DEF finish_shard, record_shard_and_maybe_join
<1>4. CASE FailShard(w)
  BY <1>0, <1>4 DEF FailShard, FailHolding
<1> QED
  BY <1>1, <1>2, <1>3, <1>4 DEF OcrShardStep
\* Text production moves a document that is in flight, and keeps it in flight:
\* what later stages settled it does not touch.
MovesInFlight ==
  \/ UNCHANGED state
  \/ \E d \in Doc : \E to \in InFlightStates :
       state[d] \in InFlightStates /\ state' = [state EXCEPT ![d] = to]

LEMMA PdfMoves ==
  ASSUME bus \subseteq Message, NEW w, PdfWorkerStep(w) \/ PdfWorkerFault(w)
  PROVE  MovesInFlight
<1> USE DEF ledgerVars, MovesInFlight
<1>1. CASE handle_text_embedded(w)
  <2>1. PICK m \in bus, rest \in SUBSET bus :
          \/ /\ state[m.doc] \in InFlightStates
             /\ TierZero(m.doc, rest) \/ FallThrough(m.doc, rest)
          \/ UNCHANGED state
    BY <1>1 DEF handle_text_embedded, MayTransition
  <2>2. m.doc \in Doc
    BY DEF Message
  <2> QED
    BY <2>1, <2>2 DEF TierZero, FallThrough
<1>2. CASE begin_split(w)
  <2>1. PICK m \in bus :
          \/ /\ state[m.doc] \in InFlightStates
             /\ state' = [state EXCEPT ![m.doc] = "text_running"]
          \/ UNCHANGED state
    BY <1>2 DEF begin_split, MayTransition
  <2>2. m.doc \in Doc
    BY DEF Message
  <2> QED
    BY <2>1, <2>2
<1>3. CASE do_split(w) \/ commit_split_result(w) \/ FailTextEmbedded(w) \/ FailSplit(w)
  BY <1>3 DEF do_split, commit_split_result, FailTextEmbedded, FailSplit
<1> QED
  BY <1>1, <1>2, <1>3 DEF PdfWorkerStep, PdfWorkerFault

LEMMA OcrMoves ==
  ASSUME bus \subseteq Message, OcrShardTypeOK, NEW w \in OcrWorker, OcrShardStep(w) \/ FailShard(w)
  PROVE  MovesInFlight
<1> USE DEF ledgerVars, MovesInFlight
<1>1. CASE begin_shard(w)
  <2>1. PICK m \in bus :
          \/ /\ state[m.doc] \in InFlightStates
             /\ state' = [state EXCEPT ![m.doc] = "text_running"]
          \/ UNCHANGED state
    BY <1>1 DEF begin_shard, MayTransition
  <2>2. m.doc \in Doc
    BY DEF Message
  <2> QED
    BY <2>1, <2>2
<1>2. CASE finish_shard(w)
  <2>1. ocr_work[w].doc \in Doc
    BY <1>2 DEF finish_shard, OcrShardTypeOK, NoShard, ShardJob
  <2> QED
    BY <1>2, <2>1 DEF finish_shard, record_shard_and_maybe_join, MayTransition
<1>3. CASE ocr_pages(w) \/ FailShard(w)
  BY <1>3 DEF ocr_pages, FailShard
<1> QED
  BY <1>1, <1>2, <1>3 DEF OcrShardStep
=============================================================================
