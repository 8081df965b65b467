--------------------------- MODULE PipelineProofs ---------------------------
(***************************************************************************)
(* Proofs about Pipeline: from the dispatch of a document to its row, for  *)
(* any documents, workers of every group, people, batches, releases,       *)
(* attempt caps and number of faults.                                      *)
(***************************************************************************)
EXTENDS Pipeline, TextStepProofs, ExtractionProofs

USE DEF TextStates, ExtractStates, InFlightStates, RunningStates, States, Topics

(***************************************************************************)
(* Type correctness.                                                       *)
(***************************************************************************)

LEMMA TypeInit == Init => TypeOK
<1> SUFFICES ASSUME Init PROVE TypeOK
  OBVIOUS
<1>1. bus \subseteq Message
  BY MessageTypes, RouteType DEF Init, LedgerInit
<1>2. LedgerTypeOK
  BY <1>1, LedgerAssumption, PipelineAssumption DEF Init, LedgerInit, LedgerTypeOK
<1>3. ResultsTypeOK /\ SinkTypeOK
  BY DEF Init, ResultsInit, SinkInit, ResultsTypeOK, SinkTypeOK, Result, Keys, Verdicts
<1>4. OperatorTypeOK /\ ReplayTypeOK
  BY OperatorAssumption, DlqReplayAssumption
  DEF Init, OperatorInit, ReplayInit, OperatorTypeOK, ReplayTypeOK, Stamps, NoStamp
<1> QED
  BY <1>2, <1>3, <1>4
  DEF Init, ArtifactsInit, PdfWorkerInit, OcrShardInit, ExtractionInit, SweeperInit, TypeOK,
      PdfWorkerTypeOK, OcrShardTypeOK, ExtractionTypeOK, SweeperTypeOK

\* A pdf-worker or an ocr-shard worker, at work or failing.
TextStep ==
  \/ /\ \E w \in PdfWorker : PdfWorkerStep(w) \/ PdfWorkerFault(w)
     /\ UNCHANGED <<resultVars, ocr_work, extVars, laneVars, posted>>
  \/ /\ \E w \in OcrWorker : OcrShardStep(w) \/ FailShard(w)
     /\ UNCHANGED <<resultVars, pdf_work, extVars, laneVars, posted>>

LEMMA TypeText == TypeOK /\ TextStep => TypeOK'
<1> SUFFICES ASSUME TypeOK, TextStep PROVE TypeOK'
  OBVIOUS
<1>1. UNCHANGED <<resultVars, extVars, laneVars, posted>>
  BY DEF TextStep
<1>2. LedgerTypeOK' /\ ArtifactsTypeOK' /\ PdfWorkerTypeOK' /\ OcrShardTypeOK'
  BY PdfTypes, OcrTypes DEF TextStep, TypeOK, ArtifactsTypeOK, PdfWorkerTypeOK, OcrShardTypeOK
<1> QED
  BY <1>1, <1>2
  DEF TypeOK, ArtifactsTypeOK, resultVars, extVars, laneVars, opVars, replayVars, ResultsTypeOK,
      ExtractionTypeOK, SweeperTypeOK, OperatorTypeOK, ReplayTypeOK, SinkTypeOK

\* An extraction worker, at work or failing.
ExtractorStep(w) ==
  /\ ExtractStep(w) \/ FailExtract(w)
  /\ stamp' = stamp \/ \E d : stamp' = [stamp EXCEPT ![d] = version]
  /\ UNCHANGED <<textVars, sweep_rows, opVars, version, batch, runs, posted>>

LEMMA TypeExtract ==
  ASSUME TypeOK, PostingHasFields, NEW w \in ExtractWorker, ExtractorStep(w)
  PROVE  TypeOK'
<1>1. WorkerTypeOK'
  BY WorkerTypes DEF TypeOK, WorkerTypeOK, ExtractorStep
<1>2. ReplayTypeOK'
  BY DlqReplayAssumption DEF TypeOK, ExtractorStep, ReplayTypeOK, Stamps, NoStamp
<1>3. UNCHANGED <<textVars, sweep_rows, opVars, posted>>
  BY DEF ExtractorStep
<1> QED
  BY <1>1, <1>2, <1>3
  DEF TypeOK, WorkerTypeOK, textVars, opVars, PdfWorkerTypeOK, OcrShardTypeOK, SweeperTypeOK,
      OperatorTypeOK, SinkTypeOK

\* The sweeper, and messages that nobody had begun to handle.
SweepStep ==
  /\ \/ \E docs \in SUBSET Doc : claim_batch(docs)
     \/ redrive_document \/ FailSweep
     \/ \E topics : SkipUnbegun(topics) /\ UNCHANGED sweep_rows
  /\ UNCHANGED <<artifactVars, resultVars, textVars, extVars, opVars, replayVars, posted>>

LEMMA TypeSweep == TypeOK /\ SweepStep => TypeOK'
<1> SUFFICES ASSUME TypeOK, SweepStep PROVE TypeOK'
  OBVIOUS
<1>1. LedgerTypeOK' /\ SweeperTypeOK'
  BY ClaimTypes, RedriveTypes, ForgetTypes DEF TypeOK, SweepStep
<1>2. UNCHANGED <<artifactVars, resultVars, textVars, extVars, opVars, replayVars, posted>>
  BY DEF SweepStep
<1> QED
  BY <1>1, <1>2
  DEF TypeOK, artifactVars, resultVars, textVars, extVars, opVars, replayVars, ResultsTypeOK,
      PdfWorkerTypeOK, OcrShardTypeOK, ExtractionTypeOK, OperatorTypeOK, ReplayTypeOK, SinkTypeOK

\* The sink, at work or failing.
SinkStep ==
  (handle_document_extracted \/ FailPost) /\ UNCHANGED <<artifactVars, textVars, extVars, laneVars>>

LEMMA TypeSink == TypeOK /\ SinkStep => TypeOK'
<1> SUFFICES ASSUME TypeOK, SinkStep PROVE TypeOK'
  OBVIOUS
<1>1. LedgerTypeOK' /\ ResultsTypeOK' /\ SinkTypeOK'
  BY SinkTypes DEF TypeOK, SinkStep
<1> QED
  BY <1>1
  DEF TypeOK, SinkStep, artifactVars, textVars, extVars, laneVars, opVars, replayVars,
      PdfWorkerTypeOK, OcrShardTypeOK, ExtractionTypeOK, SweeperTypeOK, OperatorTypeOK, ReplayTypeOK

\* A person or the replay job: looks at a row, re-drives from the row it
\* looked at, or accepts.
LaneStep(o) ==
  \/ o # Cron /\ Operate(o)
  \/ o = Cron /\ Replay

Looks(o) ==
  /\ \/ UNCHANGED op_work
     \/ \E d \in Doc, kind \in {"redrive", "accept"} : ReadRow(o, kind, d)
  /\ UNCHANGED <<ledgerVars, resultVars>>

Redrives(o) ==
  /\ op_work[o] \in Operation
  /\ op_work' = [op_work EXCEPT ![o] = NoOp]
  /\ \/ UNCHANGED <<state, bus>>
     \/ \E d \in Doc, to \in {"extract_pending", "text_pending"} :
          /\ op_work[o].row.doc = d
          /\ state[d] # "complete"
          /\ state' = [state EXCEPT ![d] = to]
          /\ bus' = bus \cup RedriveMessages([op_work[o].row EXCEPT !.state = to])
  /\ state' \in [Doc -> States] /\ bus' \subseteq Message
  /\ UNCHANGED <<shardVars, attemptVars, faults, resultVars>>

Accepts(o) ==
  /\ op_work' = [op_work EXCEPT ![o] = NoOp]
  /\ \/ UNCHANGED <<state, gate_results, extracted>>
     \/ \E d \in Doc :
          /\ state[d] \in {"review", "complete"}
          /\ gate_results' = [gate_results EXCEPT ![d] = "accepted"]
          /\ state' = [state EXCEPT ![d] = "complete"]
          /\ extracted' = extracted \cup {ExtractedMsg(d, NoResult)}
          /\ ExtractedMsg(d, NoResult) \in Extracted
  /\ UNCHANGED <<shardVars, attemptVars, bus, faults, extraction_result, invoice_key,
                 auto_post_enabled>>

LEMMA LaneKinds ==
  ASSUME TypeOK, NEW o \in Operators, LaneStep(o)
  PROVE  /\ Looks(o) \/ Redrives(o) \/ Accepts(o)
         /\ op_count' \in {op_count, op_count + 1} /\ op_count' <= MaxOperations
         /\ ReplayTypeOK'
         /\ UNCHANGED <<artifactVars, textVars, extVars, sweep_rows, posted>>
<1>0. /\ LedgerTypeOK /\ ResultsTypeOK /\ OpWorkTypeOK /\ ReplayTypeOK
      /\ op_count \in Nat /\ op_count <= MaxOperations /\ MaxOperations \in Nat
      /\ UNCHANGED <<textVars, extVars, sweep_rows, posted>>
  BY OperatorAssumption DEF TypeOK, OperatorTypeOK, OpWorkTypeOK, LaneStep, Operate, Replay
<1> USE DEF ledgerVars, resultVars, opVars, replayVars
<1>1. CASE (begin_redrive(o) \/ begin_accept(o)) /\ UNCHANGED replayVars
  BY <1>0, <1>1 DEF begin_redrive, begin_accept, Begin, Looks, ReplayTypeOK
<1>2. CASE accept_review(o) /\ UNCHANGED replayVars
  BY <1>0, <1>2, AcceptEffect DEF Accepts, ReplayTypeOK
<1>3. CASE bulk_redrive(o) \/ find_replayable
  <2>1. /\ UNCHANGED <<version, stamp, ledgerVars, artifactVars, resultVars, op_work>>
        /\ op_count' \in {op_count, op_count + 1} /\ op_count' <= MaxOperations
    BY <1>0, <1>3 DEF bulk_redrive, find_replayable
  <2>2. batch' \in [Operators -> SUBSET Doc]
    BY <1>0, <1>3 DEF bulk_redrive, find_replayable, ReplayTypeOK
  <2>3. runs' \in 0 .. MaxReplays
    BY <1>0, <1>3, DlqReplayAssumption DEF bulk_redrive, find_replayable, ReplayTypeOK
  <2> QED
    BY <1>0, <2>1, <2>2, <2>3 DEF Looks, ReplayTypeOK
<1>4. CASE batch_next(o)
  <2>1. /\ UNCHANGED <<version, stamp, runs, ledgerVars, artifactVars, resultVars, op_count>>
        /\ \E d \in batch[o] :
             /\ batch' = [batch EXCEPT ![o] = @ \ {d}]
             /\ ReadRow(o, "redrive", d) \/ UNCHANGED op_work
    BY <1>4 DEF batch_next
  <2>2. batch[o] \subseteq Doc
    BY <1>0 DEF ReplayTypeOK
  <2> QED
    BY <1>0, <2>1, <2>2 DEF Looks, ReplayTypeOK
<1>5. CASE batch_redrive(o)
  <2>1. PICK to \in redrive_target_states(op_work[o]) : Redriven(o, to) \/ Refused(o, to)
    BY <1>5 DEF batch_redrive
  <2>2. /\ op_work[o].kind = "redrive" /\ op_work' = [op_work EXCEPT ![o] = NoOp]
        /\ batch' \in {batch, [batch EXCEPT ![o] = {}]}
        /\ UNCHANGED <<version, stamp, runs, shardVars, attemptVars, faults, artifactVars,
                       resultVars, op_count>>
    BY <1>5 DEF batch_redrive
  <2>3. Redrives(o)
    BY <1>0, <2>1, <2>2, RedriveEffect DEF Redrives
  <2> QED
    BY <1>0, <2>2, <2>3 DEF ReplayTypeOK
<1> QED
  BY <1>1, <1>2, <1>3, <1>4, <1>5 DEF LaneStep, Operate, Replay, ReplayStep, BulkStep

LEMMA TypeLane ==
  ASSUME TypeOK, NEW o \in Operators, LaneStep(o)
  PROVE  TypeOK'
<1>0. LedgerTypeOK /\ ResultsTypeOK /\ OpWorkTypeOK
  BY DEF TypeOK, OperatorTypeOK, OpWorkTypeOK
<1>1. LedgerTypeOK' /\ ResultsTypeOK' /\ OpWorkTypeOK'
  <2>1. CASE Looks(o)
    BY <1>0, <2>1, LookTypes
    DEF Looks, ledgerVars, resultVars, LedgerTypeOK, ResultsTypeOK, shardVars, attemptVars, OpWorkTypeOK
  <2>2. CASE Redrives(o)
    BY <1>0, <2>2, PutDown
    DEF Redrives, resultVars, LedgerTypeOK, ResultsTypeOK, shardVars, attemptVars
  <2>3. CASE Accepts(o)
    <3>1. state' \in [Doc -> States]
      BY <1>0, <2>3 DEF Accepts, LedgerTypeOK
    <3>2. gate_results' \in [Doc -> Verdicts] /\ extracted' \subseteq Extracted
      BY <1>0, <2>3 DEF Accepts, ResultsTypeOK, Verdicts
    <3> QED
      BY <1>0, <2>3, <3>1, <3>2, PutDown
      DEF Accepts, LedgerTypeOK, ResultsTypeOK, shardVars, attemptVars
  <2> QED
    BY <2>1, <2>2, <2>3, LaneKinds
<1>2. op_count' \in 0 .. MaxOperations
  BY LaneKinds, OperatorAssumption DEF TypeOK, OperatorTypeOK
<1>3. ReplayTypeOK' /\ UNCHANGED <<artifactVars, textVars, extVars, sweep_rows, posted>>
  BY LaneKinds
<1> QED
  BY <1>1, <1>2, <1>3
  DEF TypeOK, OpWorkTypeOK, artifactVars, textVars, extVars, PdfWorkerTypeOK, OcrShardTypeOK,
      ExtractionTypeOK, SweeperTypeOK, OperatorTypeOK, SinkTypeOK

\* The kill switch and a release touch no document.
SettingStep ==
  /\ UNCHANGED <<ledgerVars, artifactVars, extraction_result, invoice_key, gate_results, extracted,
                 textVars, extVars, sweep_rows, op_work, posted>>
  /\ auto_post_enabled' \in BOOLEAN
  /\ op_count' \in 0 .. MaxOperations
  /\ ReplayTypeOK'

LEMMA Settings ==
  ASSUME TypeOK, Release \/ \E enabled \in BOOLEAN : Switch(enabled)
  PROVE  SettingStep
<1> USE OperatorAssumption, DlqReplayAssumption
    DEF TypeOK, SettingStep, resultVars, opVars, replayVars, ResultsTypeOK, OperatorTypeOK, ReplayTypeOK
<1>1. CASE Release
  <2>1. version' \in 0 .. MaxDeploys /\ UNCHANGED <<stamp, batch, runs>>
    BY <1>1 DEF Release, Deploy
  <2> QED
    BY <1>1, <2>1 DEF Release
<1>2. ASSUME NEW enabled \in BOOLEAN, Switch(enabled)
      PROVE  SettingStep
  BY <1>2 DEF Switch, set_kill_switch
<1> QED
  BY <1>1, <1>2

LEMMA TypeSetting == TypeOK /\ SettingStep => TypeOK'
BY DEF TypeOK, SettingStep, ledgerVars, shardVars, attemptVars, artifactVars, textVars, extVars,
   LedgerTypeOK, ResultsTypeOK, PdfWorkerTypeOK, OcrShardTypeOK, ExtractionTypeOK, SweeperTypeOK,
   OperatorTypeOK, SinkTypeOK

\* Every step is one of these.
LEMMA StepKinds ==
  ASSUME TypeOK, Next
  PROVE  \/ TextStep \/ (\E w \in ExtractWorker : ExtractorStep(w)) \/ SweepStep \/ SinkStep
         \/ (\E o \in Operators : LaneStep(o)) \/ SettingStep
<1>1. CASE (\E w \in PdfWorker : PdfSteps(w)) \/ \E w \in OcrWorker : OcrSteps(w)
  BY <1>1 DEF PdfSteps, OcrSteps, TextStep
<1>2. ASSUME NEW w \in ExtractWorker, ExtractSteps(w)
      PROVE  ExtractorStep(w)
  BY <1>2 DEF ExtractSteps, stamp_build_info, ExtractorStep
<1>3. CASE SinkSteps
  BY <1>3 DEF SinkSteps, SinkStep
<1>4. CASE (\E doc \in Doc : Claim(doc)) \/ Redrive
  BY <1>4 DEF Claim, Redrive, SweepStep
<1>5. CASE Faults
  BY <1>5 DEF Faults, TextStep, ExtractorStep, SweepStep, SinkStep, laneVars, replayVars
<1>6. ASSUME NEW o \in Operators \ {Cron}, Operate(o)
      PROVE  LaneStep(o)
  BY <1>6 DEF LaneStep
<1>7. CASE Replay
  BY <1>7, DlqReplayAssumption DEF LaneStep
<1>8. CASE Release \/ \E enabled \in BOOLEAN : Switch(enabled)
  BY <1>8, Settings
<1> QED
  BY <1>1, <1>2, <1>3, <1>4, <1>5, <1>6, <1>7, <1>8 DEF Next

LEMMA TypeNext ==
  ASSUME TypeOK, PostingHasFields, [Next]_vars
  PROVE  TypeOK'
<1>1. CASE UNCHANGED vars
  BY <1>1
  DEF vars, ledgerVars, shardVars, attemptVars, artifactVars, resultVars, textVars, extVars, laneVars,
      opVars, replayVars, TypeOK, LedgerTypeOK, ResultsTypeOK, PdfWorkerTypeOK, OcrShardTypeOK,
      ExtractionTypeOK, SweeperTypeOK, OperatorTypeOK, ReplayTypeOK, SinkTypeOK
<1>2. CASE Next
  BY <1>2, StepKinds, TypeText, TypeExtract, TypeSweep, TypeSink, TypeLane, TypeSetting
<1> QED
  BY <1>1, <1>2

-----------------------------------------------------------------------------
(***************************************************************************)
(* Who is handled as having a text layer: rows and messages tell no more   *)
(* than triage saw, however often they are copied and re-driven.           *)
(***************************************************************************)

LEMMA LayerInit == Init => LayerInv
<1> SUFFICES ASSUME Init PROVE LayerInv
  OBVIOUS
<1>1. \A m \in bus : m.topic = "text.embedded" => HasLayer[m.doc]
  BY DEF Init, LedgerInit, Msg, route_text_production
<1> QED
  BY <1>1 DEF Init, LedgerInit, SweeperInit, OperatorInit, LayerInv

\* A message of a re-drive, from a row that tells what triage saw.
LEMMA RedriveLayer ==
  ASSUME LayerInv, NEW row, row.has_text_layer => HasLayer[row.doc],
         bus' = bus \cup RedriveMessages(row)
  PROVE  \A m \in bus' : m.topic = "text.embedded" => HasLayer[m.doc]
BY RedriveEmbedded DEF LayerInv

LEMMA LayerNext ==
  ASSUME TypeOK, LayerInv, Next
  PROVE  LayerInv'
<1>0. /\ bus \subseteq Message /\ has_text_layer \in [Doc -> BOOLEAN] /\ LedgerTypeOK
      /\ op_work \in [Operators -> Operation \cup {NoOp}]
      /\ \A d : RowOf(d).doc = d /\ RowOf(d).has_text_layer = has_text_layer[d]
  BY DEF TypeOK, LedgerTypeOK, OperatorTypeOK, RowOf
<1>1. ASSUME OnlyOlderEmbedded,
             \/ UNCHANGED has_text_layer
             \/ \E d \in Doc : has_text_layer' = [has_text_layer EXCEPT ![d] = FALSE],
             UNCHANGED <<sweep_rows, op_work>>
      PROVE  LayerInv'
  <2>1. \A d \in Doc : has_text_layer'[d] => has_text_layer[d]
    <3>1. ASSUME NEW d \in Doc, has_text_layer' = [has_text_layer EXCEPT ![d] = FALSE],
                 NEW e \in Doc
          PROVE  has_text_layer'[e] => has_text_layer[e]
      BY <1>0, <3>1, Zenon
    <3> QED
      BY <1>1, <3>1
  <2> QED
    BY <1>1, <2>1 DEF LayerInv, OnlyOlderEmbedded
<1>2. CASE TextStep
  <2>1. UNCHANGED <<sweep_rows, op_work>>
    BY <1>2 DEF TextStep, laneVars, opVars
  <2>2. /\ OnlyOlderEmbedded
        /\ \/ UNCHANGED has_text_layer
           \/ \E d \in Doc : has_text_layer' = [has_text_layer EXCEPT ![d] = FALSE]
    BY <1>0, <1>2, PdfWrites, OcrWrites DEF TextStep
  <2> QED
    BY <1>1, <2>1, <2>2
<1>3. ASSUME NEW w \in ExtractWorker, ExtractorStep(w)
      PROVE  LayerInv'
  <2>1. UNCHANGED <<sweep_rows, op_work>>
    BY <1>3 DEF ExtractorStep, opVars
  <2>2. OnlyOlderEmbedded
    BY <1>3, WorkerSends DEF ExtractorStep, OnlyOlderEmbedded
  <2>3. UNCHANGED has_text_layer
    BY <1>3 DEF ExtractorStep, ExtractStep, FailExtract, begin_extract, load_document,
       ensure_assembled, assemble, start_attempt, route_incomplete, run_funnel, commit_exhausted,
       read_flag, commit_held, commit_post, route_duplicate, ledgerVars, shardVars
  <2> QED
    BY <1>1, <2>1, <2>2, <2>3
<1>4. CASE SweepStep
  <2>0. UNCHANGED <<has_text_layer, op_work>>
    BY <1>4 DEF SweepStep, claim_batch, redrive_document, FailSweep, SkipUnbegun, shardVars, opVars
  <2>1. ASSUME NEW docs \in SUBSET Doc, claim_batch(docs)
        PROVE  LayerInv'
    <3>1. bus' = bus /\ \A row \in sweep_rows' : \E d \in Doc : row = RowOf(d)
      BY <2>1 DEF claim_batch
    <3> QED
      BY <1>0, <2>0, <3>1 DEF LayerInv
  <2>2. CASE redrive_document
    <3>1. PICK row \in sweep_rows :
            bus' = bus \cup RedriveMessages(row) /\ sweep_rows' = sweep_rows \ {row}
      BY <2>2 DEF redrive_document
    <3>2. \A m \in bus' : m.topic = "text.embedded" => HasLayer[m.doc]
      BY <3>1, RedriveLayer DEF LayerInv
    <3> QED
      BY <2>0, <3>1, <3>2 DEF LayerInv
  <2>3. CASE FailSweep \/ \E topics : SkipUnbegun(topics) /\ UNCHANGED sweep_rows
    BY <2>0, <2>3 DEF FailSweep, SkipUnbegun, LayerInv
  <2> QED
    BY <1>4, <2>1, <2>2, <2>3 DEF SweepStep
<1>5. CASE SinkStep
  BY <1>5, SinkEffect DEF SinkStep, laneVars, opVars, shardVars, LayerInv
<1>6. ASSUME NEW o \in Operators, LaneStep(o)
      PROVE  LayerInv'
  <2>0. UNCHANGED sweep_rows /\ (Looks(o) \/ Redrives(o) \/ Accepts(o))
    BY <1>6, LaneKinds
  <2>1. CASE Looks(o)
    <3>1. \A p \in Operators : op_work'[p] # NoOp =>
            \/ op_work'[p] = op_work[p]
            \/ \E d \in Doc : op_work'[p].row = RowOf(d)
      BY <1>0, <2>1 DEF Looks, ReadRow
    <3> QED
      BY <1>0, <2>0, <2>1, <3>1 DEF Looks, ledgerVars, shardVars, LayerInv
  <2>2. CASE Redrives(o)
    <3>1. op_work[o] # NoOp /\ op_work[o].row \in Row
      BY <2>2 DEF Redrives, Operation, NoOp
    <3>2. ASSUME NEW to
          PROVE  LET row == [op_work[o].row EXCEPT !.state = to]
                 IN  row.has_text_layer => HasLayer[row.doc]
      BY <3>1 DEF LayerInv, Row
    <3>3. \A m \in bus' : m.topic = "text.embedded" => HasLayer[m.doc]
      <4>1. CASE UNCHANGED bus
        BY <4>1 DEF LayerInv
      <4>2. ASSUME NEW to, bus' = bus \cup RedriveMessages([op_work[o].row EXCEPT !.state = to])
            PROVE  \A m \in bus' : m.topic = "text.embedded" => HasLayer[m.doc]
        BY <3>2, <4>2, RedriveLayer
      <4> QED
        BY <2>2, <4>1, <4>2 DEF Redrives
    <3> QED
      BY <1>0, <2>0, <2>2, <3>3 DEF Redrives, shardVars, LayerInv
  <2>3. CASE Accepts(o)
    BY <1>0, <2>0, <2>3 DEF Accepts, shardVars, LayerInv
  <2> QED
    BY <2>0, <2>1, <2>2, <2>3
<1>7. CASE SettingStep
  BY <1>7 DEF SettingStep, ledgerVars, shardVars, LayerInv
<1> QED
  BY <1>2, <1>3, <1>4, <1>5, <1>6, <1>7, StepKinds

-----------------------------------------------------------------------------
(***************************************************************************)
(* What is decided and posted, and from what text.                         *)
(***************************************************************************)

\* A step of anybody but an extraction worker and the sink decides nothing and
\* posts nothing; messages that come with it have no fields, and artifacts are
\* those of tier 0.
Elsewhere ==
  /\ UNCHANGED <<extraction_result, posted, extVars>>
  /\ \A m \in extracted' : m \in extracted \/ m.fields = NoResult
  /\ shard_out \subseteq shard_out'
  /\ assembled \subseteq assembled'
  /\ \A d \in assembled' \ assembled : IsTierZero(d)

LEMMA ElsewhereSteps ==
  ASSUME TypeOK, LayerInv,
         TextStep \/ SweepStep \/ (\E o \in Operators : LaneStep(o)) \/ SettingStep
  PROVE  Elsewhere
<1> USE DEF Elsewhere, resultVars, artifactVars
<1>1. CASE TextStep
  <2>0. bus \subseteq Message
    BY DEF TypeOK, LedgerTypeOK
  <2>1. UNCHANGED <<resultVars, extVars, posted>>
    BY <1>1 DEF TextStep
  <2>2. /\ shard_out \subseteq shard_out'
        /\ \/ UNCHANGED assembled
           \/ \E m \in bus : /\ m.topic = "text.embedded" /\ LayerSane[m.doc]
                             /\ assembled' = assembled \cup {m.doc}
    BY <1>1, <2>0, PdfWrites, OcrWrites DEF TextStep
  <2> QED
    BY <2>1, <2>2 DEF LayerInv, IsTierZero
<1>2. CASE SweepStep \/ SettingStep
  BY <1>2 DEF SweepStep, SettingStep
<1>3. ASSUME NEW o \in Operators, LaneStep(o)
      PROVE  Elsewhere
  <2>1. UNCHANGED <<extraction_result, posted, extVars, artifactVars>>
    BY <1>3, LaneKinds DEF Looks, Redrives, Accepts
  <2>2. UNCHANGED extracted \/ \E d \in Doc : extracted' = extracted \cup {ExtractedMsg(d, NoResult)}
    BY <1>3, LaneKinds DEF Looks, Redrives, Accepts
  <2> QED
    BY <2>1, <2>2 DEF ExtractedMsg
<1> QED
  BY <1>1, <1>2, <1>3

\* What an extraction worker decides, and what it posts of it.
Decides(w, d, r) ==
  /\ r \in Fields \cup {EmptyResult}
  /\ r \in Fields =>
       ext_work[w].doc = d /\ ext_work[w].phase \in {"post", "hold"} /\ r = ext_work[w].fields
  /\ extraction_result[d] = NoResult
  /\ extraction_result' = [extraction_result EXCEPT ![d] = r]
  /\ extracted' \in {extracted, extracted \cup {ExtractedMsg(d, r)}}

LEMMA WorkerDecides ==
  ASSUME TypeOK, PostingHasFields, NEW w \in ExtractWorker, ExtractorStep(w)
  PROVE  /\ UNCHANGED posted
         /\ \/ UNCHANGED <<extraction_result, extracted>>
            \/ \E d \in Doc : \E r : Decides(w, d, r)
<1>1. bus \subseteq Message /\ UNCHANGED posted
  BY DEF TypeOK, LedgerTypeOK, ExtractorStep
<1>2. \/ UNCHANGED <<state, extraction_result, gate_results, extracted, invoice_key>>
      \/ \E d \in Doc : Begins(d) \/ Rejects(w, d) \/ Reviews(w, d) \/ Posts(w, d)
  BY <1>1, WorkerCommits DEF ExtractorStep
<1>3. ASSUME NEW d \in Doc, Reviews(w, d)
      PROVE  \E r : Decides(w, d, r)
  BY <1>3 DEF Reviews, Decides, At
<1>4. ASSUME NEW d \in Doc, Posts(w, d)
      PROVE  UNCHANGED <<extraction_result, extracted>> \/ \E r : Decides(w, d, r)
  BY <1>4 DEF Posts, Decides, At
<1> QED
  BY <1>1, <1>2, <1>3, <1>4 DEF Begins, Rejects

\* Messages and rows with fields tell the result.
Tells == PostingHasFields /\ MessagesTellResult /\ RowsTellResult

LEMMA TellsNext ==
  ASSUME TypeOK, LayerInv, Tells, Next
  PROVE  Tells'
<1>0. /\ extraction_result \in [Doc -> Result] /\ posted \in [Doc -> Result]
      /\ extracted \subseteq Extracted /\ ExtractionTypeOK /\ LedgerTypeOK
  BY DEF TypeOK, ResultsTypeOK, SinkTypeOK
<1>1. CASE Elsewhere
  BY <1>1, ResultsAssumption
  DEF Elsewhere, Tells, extVars, PostingHasFields, MessagesTellResult, RowsTellResult
<1>2. ASSUME NEW w \in ExtractWorker, ExtractorStep(w)
      PROVE  Tells'
  <2>1. PostingHasFields'
    BY <1>2, PostingStep DEF TypeOK, WorkerTypeOK, ExtractorStep, Tells
  <2>2. CASE UNCHANGED <<extraction_result, extracted, posted>>
    BY <2>1, <2>2 DEF Tells, MessagesTellResult, RowsTellResult
  <2>3. ASSUME NEW d \in Doc, NEW r, Decides(w, d, r), UNCHANGED posted
        PROVE  Tells'
    <3>1. ASSUME NEW m \in extracted', m.fields \in Fields
          PROVE  extraction_result'[m.doc] = m.fields
      <4>1. CASE m \in extracted
        BY <1>0, <2>3, <3>1, <4>1, ResultsAssumption DEF Decides, Tells, MessagesTellResult, Extracted
      <4>2. CASE m = ExtractedMsg(d, r)
        BY <1>0, <2>3, <4>2 DEF Decides, ExtractedMsg
      <4> QED
        BY <2>3, <3>1, <4>1, <4>2 DEF Decides
    <3>2. \A e \in Doc : posted[e] \in Fields => extraction_result'[e] = posted[e]
      BY <1>0, <2>3, ResultsAssumption DEF Decides, Tells, RowsTellResult
    <3> QED
      BY <2>1, <2>3, <3>1, <3>2 DEF Tells, MessagesTellResult, RowsTellResult
  <2> QED
    BY <1>2, <2>2, <2>3, WorkerDecides DEF Tells
<1>3. CASE SinkStep
  <2>1. /\ UNCHANGED <<extraction_result, ext_work>> /\ extracted' \in SUBSET extracted
        /\ \/ UNCHANGED posted
           \/ \E m \in extracted :
                posted[m.doc] = NoResult /\ posted' = [posted EXCEPT ![m.doc] = FieldsOf(m)]
    BY <1>3, SinkEffect DEF SinkStep, extVars
  <2>2. ASSUME NEW m \in extracted, FieldsOf(m) \in Fields
        PROVE  m.doc \in Doc /\ extraction_result[m.doc] = FieldsOf(m)
    BY <1>0, <2>2, ResultsAssumption DEF FieldsOf, Tells, MessagesTellResult, Extracted
  <2> QED
    BY <1>0, <2>1, <2>2 DEF Tells, PostingHasFields, MessagesTellResult, RowsTellResult
<1> QED
  BY <1>1, <1>2, <1>3, StepKinds, ElsewhereSteps

\* A worker's memory of whether the text is whole tells the truth, and only
\* with a whole text it passes the gate.
LEMMA WorkerWhole ==
  ASSUME TypeOK, WholeInv, PostingHasFields, NEW w \in ExtractWorker, ExtractorStep(w)
  PROVE  WholeInv'
<1>0. /\ ExtractionTypeOK /\ bus \subseteq Message /\ NumShards \in [Doc -> Nat]
      /\ extraction_result \in [Doc -> Result]
      /\ ExtractStep(w) \/ FailExtract(w)
  BY LedgerAssumption DEF TypeOK, LedgerTypeOK, ResultsTypeOK, ExtractorStep
<1>1. /\ UNCHANGED shard_out
      /\ \/ UNCHANGED <<assembled, partial>>
         \/ \E d \in Doc :
              At(w, "absent", d) /\ AllOutputsExist(d, ext_work[w].total) /\ WriteArtifact(w, d)
  BY <1>0, WorkerWrites
<1>2. \A d : Whole(d)' <=> Whole(d)
  BY <1>1 DEF Whole, IsTierZero
<1>3. \A d \in assembled' \ partial' : Whole(d)
  <2>1. CASE UNCHANGED <<assembled, partial>>
    BY <2>1 DEF WholeInv
  <2>2. ASSUME NEW d \in Doc, At(w, "absent", d), AllOutputsExist(d, ext_work[w].total),
               WriteArtifact(w, d), NEW e \in assembled' \ partial'
        PROVE  Whole(e)
    <3>1. CASE e = d
      <4>1. ~(ext_work[w].total < NumShards[d])
        BY <2>2, <3>1 DEF WriteArtifact
      <4>2. ext_work[w].total \in Nat
        BY <1>0, <2>2, AtJob DEF ExtractJob, Phases
      <4> QED
        BY <1>0, <2>2, <3>1, <4>1, <4>2 DEF AllOutputsExist, Whole, AllShards
    <3>2. CASE e # d
      BY <2>2, <3>2 DEF WriteArtifact, write_assembled, WholeInv
    <3> QED
      BY <3>1, <3>2
  <2> QED
    BY <1>1, <2>1, <2>2
<1>4. PICK job :
        /\ ext_work' = [ext_work EXCEPT ![w] = job]
        /\ \/ job \in {NoJob, ext_work[w]}
           \/ \E d \in Doc : job = NewJob(d)
           \/ ext_work[w] \in ExtractJob /\ JobMove(ext_work[w], job)
  BY <1>0, WorkerMoves
<1>5. /\ job.phase = "read" /\ job.whole => Whole(job.doc)
      /\ job.phase \in PastGate => Whole(job.doc)
  <2>1. CASE job = NoJob \/ \E d \in Doc : job = NewJob(d)
    BY <2>1 DEF NoJob, NewJob, PastGate
  <2>2. CASE job = ext_work[w]
    BY <2>2 DEF WholeInv
  <2>3. CASE ext_work[w] \in ExtractJob /\ JobMove(ext_work[w], job)
    <3> DEFINE old == ext_work[w]
    <3>1. /\ old \in ExtractJob /\ JobMove(old, job)
          /\ old.phase = "read" /\ old.whole => Whole(old.doc)
          /\ old.phase \in PastGate => Whole(old.doc)
      BY <2>3 DEF WholeInv
    <3> HIDE DEF old
    <3>2. \A d \in Doc : d \in assembled /\ d \notin partial => Whole(d)
      BY DEF WholeInv
    <3>3. CASE old.phase \in {"begun", "loaded", "absent"}
      <4>1. \/ \E total : job = [old EXCEPT !.phase = "loaded", !.total = total]
            \/ \E phase \in {"absent", "incomplete"} : job = [old EXCEPT !.phase = phase]
            \/ \E whole : /\ job = [old EXCEPT !.phase = "read", !.whole = whole]
                          /\ whole => Whole(old.doc)
        BY <1>3, <3>1, <3>2, <3>3 DEF JobMove, ExtractJob
      <4> QED
        BY <3>1, <4>1 DEF ExtractJob, PastGate
    <3>4. CASE old.phase \notin {"begun", "loaded", "absent"}
      <4>1. \/ job = [old EXCEPT !.phase = "incomplete"]
            \/ /\ Whole(old.doc)
               /\ \/ \E phase \in {"attempt", "post", "hold", "duplicate"} :
                       job = [old EXCEPT !.phase = phase]
                  \/ \E f : job = [old EXCEPT !.phase = "judged", !.fields = f]
        BY <3>1, <3>4 DEF JobMove, PastGate
      <4> QED
        BY <3>1, <4>1 DEF ExtractJob, PastGate
    <3> QED
      BY <3>3, <3>4
  <2> QED
    BY <1>4, <2>1, <2>2, <2>3
<1>6. \A v \in ExtractWorker :
        /\ ext_work'[v].phase = "read" /\ ext_work'[v].whole => Whole(ext_work'[v].doc)
        /\ ext_work'[v].phase \in PastGate => Whole(ext_work'[v].doc)
  BY <1>0, <1>4, <1>5 DEF WholeInv, ExtractionTypeOK
<1>7. \A d \in Doc : extraction_result'[d] \in Fields => Whole(d)
  <2>1. CASE UNCHANGED extraction_result
    BY <2>1 DEF WholeInv
  <2>2. ASSUME NEW d \in Doc, NEW r, Decides(w, d, r)
        PROVE  \A e \in Doc : extraction_result'[e] \in Fields => Whole(e)
    <3>1. r \in Fields => Whole(d)
      BY <2>2 DEF Decides, WholeInv, PastGate
    <3> QED
      BY <1>0, <2>2, <3>1 DEF Decides, WholeInv
  <2> QED
    BY <2>1, <2>2, WorkerDecides
<1> QED
  BY <1>2, <1>3, <1>6, <1>7 DEF WholeInv

LEMMA ElsewhereWhole == WholeInv /\ Elsewhere => WholeInv'
<1> SUFFICES ASSUME WholeInv, Elsewhere PROVE WholeInv'
  OBVIOUS
<1>1. \A d : Whole(d) => Whole(d)'
  BY DEF Elsewhere, Whole, IsTierZero
<1>2. \A d \in assembled' \ partial' : Whole(d)
  BY DEF Elsewhere, WholeInv, Whole, extVars
<1> QED
  BY <1>1, <1>2 DEF Elsewhere, WholeInv, extVars

LEMMA PInvInit == Init => PInv
<1> SUFFICES ASSUME Init PROVE PInv
  OBVIOUS
<1>1. PostingHasFields /\ MessagesTellResult /\ RowsTellResult
  BY ResultsAssumption
  DEF Init, ResultsInit, ExtractionInit, SinkInit, NoJob, PostingHasFields, MessagesTellResult,
      RowsTellResult
<1>2. WholeInv
  BY ResultsAssumption
  DEF Init, ResultsInit, ExtractionInit, ArtifactsInit, NoJob, WholeInv, PastGate
<1> QED
  BY <1>1, <1>2, TypeInit, LayerInit DEF PInv

LEMMA PInvNext == PInv /\ [Next]_vars => PInv'
<1> SUFFICES ASSUME PInv, [Next]_vars PROVE PInv'
  OBVIOUS
<1>0. TypeOK /\ LayerInv /\ Tells /\ WholeInv /\ PostingHasFields
  BY DEF PInv, Tells
<1>1. CASE UNCHANGED vars
  <2>1. UNCHANGED <<has_text_layer, sweep_rows, op_work, bus, assembled, partial, shard_out, ext_work,
                    extraction_result, extracted, posted>>
    BY <1>1 DEF vars, ledgerVars, shardVars, artifactVars, resultVars, extVars, laneVars, opVars
  <2>2. LayerInv' /\ Tells'
    BY <1>0, <2>1
    DEF LayerInv, Tells, PostingHasFields, MessagesTellResult, RowsTellResult
  <2>3. WholeInv'
    BY <1>0, <2>1 DEF WholeInv, Whole, IsTierZero
  <2> QED
    BY <1>0, <2>2, <2>3, TypeNext DEF PInv, Tells
<1>2. CASE Next
  <2>1. TypeOK' /\ LayerInv' /\ Tells'
    BY <1>0, <1>2, TypeNext, LayerNext, TellsNext
  <2>2. WholeInv'
    <3>1. CASE Elsewhere
      BY <1>0, <3>1, ElsewhereWhole
    <3>2. CASE SinkStep
      <4>1. UNCHANGED <<assembled, partial, shard_out, ext_work, extraction_result>>
        BY <3>2, SinkEffect DEF SinkStep, artifactVars, extVars
      <4> QED
        BY <1>0, <4>1 DEF WholeInv, Whole, IsTierZero
    <3> QED
      BY <1>0, <1>2, <3>1, <3>2, StepKinds, ElsewhereSteps, WorkerWhole
  <2> QED
    BY <2>1, <2>2 DEF PInv, Tells
<1> QED
  BY <1>1, <1>2

\* Type correctness of the whole pipeline: every column, message, job, claimed
\* or looked-up row, batch and stamp keeps its type, and neither text_attempts
\* nor an operation, a replay or a release passes its bound.
THEOREM PipelineTypeCorrect == Spec => []TypeOK
<1>1. PInv => TypeOK
  BY DEF PInv
<1> QED
  BY <1>1, PInvInit, PInvNext, PTL DEF Spec

\* End to end: what is posted with fields was extracted when all of the text
\* was there, however early the join came (ensure_assembled and the gate of
\* extraction_4.py), with any number of workers, re-drives and redeliveries.
THEOREM PostedHasWholeTextHolds == Spec => []PostedHasWholeText
<1>1. PInv => PostedHasWholeText
  BY DEF PInv, WholeInv, RowsTellResult, PostedHasWholeText
<1> QED
  BY <1>1, PInvInit, PInvNext, PTL DEF Spec

-----------------------------------------------------------------------------
(***************************************************************************)
(* The refinement.                                                         *)
(***************************************************************************)

LEMMA StepRefines ==
  ASSUME PInv, [Next]_vars
  PROVE  [Abstract!EONext]_<<extraction_result, posted>>
<1>0. /\ TypeOK /\ LayerInv /\ PostingHasFields /\ MessagesTellResult
      /\ extracted \subseteq Extracted
  BY DEF PInv, TypeOK, ResultsTypeOK
<1>1. CASE UNCHANGED vars \/ Elsewhere
  BY <1>1 DEF vars, resultVars, Elsewhere
<1>2. ASSUME NEW w \in ExtractWorker, ExtractorStep(w)
      PROVE  [Abstract!EONext]_<<extraction_result, posted>>
  <2>1. CASE UNCHANGED <<extraction_result, posted>>
    BY <2>1
  <2>2. ASSUME NEW d \in Doc, NEW r, Decides(w, d, r), UNCHANGED posted
        PROVE  Abstract!EONext
    BY <2>2 DEF Decides, Abstract!EONext, Abstract!Decide
  <2> QED
    BY <1>0, <1>2, <2>1, <2>2, WorkerDecides
<1>3. CASE SinkStep
  <2>1. /\ UNCHANGED extraction_result
        /\ \/ UNCHANGED posted
           \/ \E m \in extracted :
                posted[m.doc] = NoResult /\ posted' = [posted EXCEPT ![m.doc] = FieldsOf(m)]
    BY <1>3, SinkEffect DEF SinkStep
  <2>2. ASSUME NEW m \in extracted,
               posted[m.doc] = NoResult, posted' = [posted EXCEPT ![m.doc] = FieldsOf(m)]
        PROVE  Abstract!EONext
    <3>1. m.doc \in Doc /\ m.fields \in Fields \cup {NoResult}
      BY <1>0 DEF Extracted
    <3>2. CASE m.fields \in Fields
      <4>1. extraction_result[m.doc] \in Fields /\ FieldsOf(m) = extraction_result[m.doc]
        BY <1>0, <3>2, ResultsAssumption DEF MessagesTellResult, FieldsOf
      <4> QED
        BY <2>1, <2>2, <3>1, <4>1 DEF Abstract!EONext, Abstract!Post
    <3>3. CASE m.fields = NoResult
      BY <2>1, <2>2, <3>1, <3>3 DEF Abstract!EONext, Abstract!Grant, FieldsOf
    <3> QED
      BY <3>1, <3>2, <3>3
  <2> QED
    BY <2>1, <2>2
<1> QED
  BY <1>0, <1>1, <1>2, <1>3, StepKinds, ElsewhereSteps

\* The pipeline keeps the promise of commit_extraction_result and the sink:
\* whatever text production, sweeps, batches, replays and people do to a
\* document, its result is decided once and its one row is that, or empty.
THEOREM PipelineRefines == Spec => ImplementsExactlyOnce
<1>1. Init => Abstract!EOInit
  BY DEF Init, ResultsInit, SinkInit, Abstract!EOInit
<1> QED
  BY <1>1, PInvInit, PInvNext, StepRefines, PTL DEF Spec, ImplementsExactlyOnce, Abstract!EOSpec

-----------------------------------------------------------------------------
(***************************************************************************)
(* One live worker.  While no document is in two extraction workers' hands *)
(* (state_machine.sql:8-9) an artifact stays as it was read, and nobody is *)
(* at work on a document that has been settled.                            *)
(***************************************************************************)

\* Artifacts of documents that are not tier 0 are written by nobody else.
LEMMA ElsewhereKept == KeptInv /\ Elsewhere => KeptInv'
<1> SUFFICES ASSUME KeptInv, Elsewhere PROVE KeptInv'
  OBVIOUS
<1>1. \A d : Kept(d) => Kept(d)'
  BY DEF Elsewhere, Kept, IsTierZero, extVars
<1>2. \A d : IsTierZero(d)' <=> IsTierZero(d)
  BY DEF IsTierZero
<1>3. \A d : IsTierZero(d) \/ d \notin assembled => IsTierZero(d)' \/ d \notin assembled'
  BY DEF Elsewhere, IsTierZero
<1> QED
  BY <1>1, <1>3 DEF Elsewhere, KeptInv, extVars

\* Kept(d) after a step, for a d of the state before it.
KeptThen(d) == IsTierZero(d) \/ d \in assembled' \ partial'

\* Who holds a document alone writes its artifact only where there is none.
LEMMA WorkerKept ==
  ASSUME Exclusive, TypeOK, KeptInv, PostingHasFields, NEW w \in ExtractWorker, ExtractorStep(w)
  PROVE  KeptInv'
<1>0. /\ ExtractionTypeOK /\ bus \subseteq Message
      /\ extraction_result \in [Doc -> Result]
      /\ ExtractStep(w) \/ FailExtract(w)
  BY DEF TypeOK, LedgerTypeOK, ResultsTypeOK, ExtractorStep
<1>1. \/ UNCHANGED <<assembled, partial>>
      \/ \E d \in Doc : At(w, "absent", d) /\ WriteArtifact(w, d)
  BY <1>0, WorkerWrites
<1>2. \A d : Kept(d) => KeptThen(d)
  <2>1. CASE UNCHANGED <<assembled, partial>>
    BY <2>1 DEF Kept, KeptThen
  <2>2. ASSUME NEW d \in Doc, At(w, "absent", d), WriteArtifact(w, d), NEW e, Kept(e)
        PROVE  KeptThen(e)
    <3>1. IsTierZero(d) \/ d \notin assembled
      BY <2>2 DEF KeptInv, At
    <3>2. /\ assembled' = assembled \cup {d}
          /\ partial' \in {partial \cup {d}, partial \ {d}}
      BY <2>2 DEF WriteArtifact, write_assembled
    <3> QED
      BY <2>2, <3>1, <3>2 DEF Kept, KeptThen
  <2> QED
    BY <1>1, <2>1, <2>2
<1>3. PICK job :
        /\ ext_work' = [ext_work EXCEPT ![w] = job]
        /\ \/ job \in {NoJob, ext_work[w]}
           \/ \E d \in Doc : job = NewJob(d)
           \/ ext_work[w] \in ExtractJob /\ JobMove(ext_work[w], job)
  BY <1>0, WorkerMoves
<1> DEFINE Fresh(j) == j.phase = "absent" => IsTierZero(j.doc) \/ j.doc \notin assembled'
           Safe(j) == /\ j.phase = "read" /\ j.whole => KeptThen(j.doc)
                      /\ j.phase \in PastGate => KeptThen(j.doc)
<1>4. Fresh(job) /\ Safe(job)
  <2>1. CASE job = NoJob \/ \E d \in Doc : job = NewJob(d)
    BY <2>1 DEF NoJob, NewJob, PastGate
  <2>2. CASE job = ext_work[w]
    <3>1. Safe(job)
      BY <1>2, <2>2 DEF KeptInv
    <3>2. CASE UNCHANGED <<assembled, partial>>
      BY <2>2, <3>1, <3>2 DEF KeptInv
    <3>3. ASSUME NEW d \in Doc, At(w, "absent", d), WriteArtifact(w, d)
          PROVE  FALSE
      <4>1. ext_work'[w].phase = "read"
        BY <1>0, <3>3, AtJob DEF WriteArtifact, Read, ExtractionTypeOK, ExtractJob, Phases
      <4> QED
        BY <1>0, <1>3, <2>2, <3>3, <4>1 DEF At, ExtractionTypeOK
    <3> QED
      BY <1>1, <3>1, <3>2, <3>3
  <2>3. CASE ext_work[w] \in ExtractJob /\ JobMove(ext_work[w], job)
    <3> DEFINE old == ext_work[w]
    <3>1. /\ old \in ExtractJob /\ JobMove(old, job)
          /\ old.phase = "read" /\ old.whole => KeptThen(old.doc)
          /\ old.phase \in PastGate => KeptThen(old.doc)
      BY <1>2, <2>3 DEF KeptInv
    <3>2. old.phase # "absent" => UNCHANGED <<assembled, partial>>
      BY <1>1 DEF At
    <3> HIDE DEF old
    <3>3. CASE old.phase \in {"begun", "loaded", "absent"}
      <4>1. \/ \E total : job = [old EXCEPT !.phase = "loaded", !.total = total]
            \/ job = [old EXCEPT !.phase = "incomplete"]
            \/ /\ job = [old EXCEPT !.phase = "absent"]
               /\ old.doc \notin assembled'
            \/ \E whole : /\ job = [old EXCEPT !.phase = "read", !.whole = whole]
                          /\ whole => KeptThen(old.doc)
        BY <3>1, <3>2, <3>3 DEF JobMove, KeptThen
      <4> QED
        BY <3>1, <4>1 DEF ExtractJob, PastGate
    <3>4. CASE old.phase \notin {"begun", "loaded", "absent"}
      <4>1. \/ job = [old EXCEPT !.phase = "incomplete"]
            \/ /\ KeptThen(old.doc)
               /\ \/ \E phase \in {"attempt", "post", "hold", "duplicate"} :
                       job = [old EXCEPT !.phase = phase]
                  \/ \E f : job = [old EXCEPT !.phase = "judged", !.fields = f]
        BY <3>1, <3>4 DEF JobMove, PastGate
      <4> QED
        BY <3>1, <4>1 DEF ExtractJob, PastGate
    <3> QED
      BY <3>3, <3>4
  <2> QED
    BY <1>3, <2>1, <2>2, <2>3
<1>5. ext_work'[w] = job
  BY <1>0, <1>3 DEF ExtractionTypeOK
<1>6. \A d \in Doc : extraction_result'[d] \in Fields => KeptThen(d)
  <2>1. CASE UNCHANGED extraction_result
    BY <1>2, <2>1 DEF KeptInv
  <2>2. ASSUME NEW d \in Doc, NEW r, Decides(w, d, r)
        PROVE  \A e \in Doc : extraction_result'[e] \in Fields => KeptThen(e)
    <3>1. r \in Fields => KeptThen(d)
      BY <1>2, <2>2 DEF Decides, KeptInv, PastGate
    <3> QED
      BY <1>0, <1>2, <2>2, <3>1 DEF Decides, KeptInv
  <2> QED
    BY <2>1, <2>2, WorkerDecides
<1>7. ASSUME NEW v \in ExtractWorker, v # w
      PROVE  Fresh(ext_work'[v]) /\ Safe(ext_work'[v])
  <2>1. ext_work'[v] = ext_work[v]
    BY <1>0, <1>3, <1>7 DEF ExtractionTypeOK
  <2>2. Safe(ext_work[v])
    BY <1>2, <1>7 DEF KeptInv
  <2>3. ASSUME NEW d \in Doc, At(w, "absent", d), WriteArtifact(w, d), ext_work[v].phase = "absent"
        PROVE  IsTierZero(ext_work[v].doc) \/ ext_work[v].doc \notin assembled'
    <3>1. ext_work[v].doc \in Doc /\ ext_work[v] # NoJob
      BY <1>0, <1>7, <2>3 DEF ExtractionTypeOK, ExtractJob, NoJob
    <3>2. ext_work[v].doc # d
      BY <1>7, <2>3, <3>1 DEF Exclusive, Holds, At, NoJob
    <3> QED
      BY <1>7, <2>3, <3>2 DEF KeptInv, WriteArtifact, write_assembled
  <2>4. Fresh(ext_work[v])
    BY <1>1, <1>7, <2>3 DEF KeptInv
  <2> QED
    BY <2>1, <2>2, <2>4
<1>8. \A v \in ExtractWorker : Fresh(ext_work'[v]) /\ Safe(ext_work'[v])
  BY <1>4, <1>5, <1>7
<1> QED
  BY <1>6, <1>8 DEF KeptInv, Kept, KeptThen, IsTierZero

\* What is posted was read from an artifact that has all the pages and is
\* still in the store (ensure_assembled's check-then-skip), while no document
\* is in two hands; when one is, the slower may have written over it.
THEOREM PostedLacksNoPageHolds == Spec /\ []Exclusive => []PostedLacksNoPage
<1>1. Init => KeptInv
  BY ResultsAssumption
  DEF Init, ResultsInit, ExtractionInit, NoJob, KeptInv, PastGate
<1>2. PInv /\ Exclusive /\ KeptInv /\ [Next]_vars => KeptInv'
  <2> SUFFICES ASSUME PInv, Exclusive, KeptInv, [Next]_vars PROVE KeptInv'
    OBVIOUS
  <2>0. TypeOK /\ LayerInv /\ PostingHasFields
    BY DEF PInv
  <2>1. CASE UNCHANGED vars \/ SinkStep
    <3>1. UNCHANGED <<assembled, partial, ext_work, extraction_result>>
      BY <2>1, SinkEffect DEF vars, resultVars, SinkStep, artifactVars, extVars
    <3> QED
      BY <3>1 DEF KeptInv, Kept, IsTierZero
  <2>2. CASE Elsewhere
    BY <2>2, ElsewhereKept
  <2> QED
    BY <2>0, <2>1, <2>2, StepKinds, ElsewhereSteps, WorkerKept
<1>3. PInv /\ KeptInv => PostedLacksNoPage
  BY DEF PInv, KeptInv, Kept, RowsTellResult, PostedLacksNoPage
<1> QED
  BY <1>1, <1>2, <1>3, PInvInit, PInvNext, PTL DEF Spec
\* Everybody but an extraction worker: whoever holds a document still does,
\* nothing is settled but what was, and complete documents stay.
Spares ==
  /\ UNCHANGED ext_work
  /\ \A d \in Doc :
       /\ state'[d] \in {"review", "complete"} => state[d] \in {"review", "complete"}
       /\ state[d] = "complete" => state'[d] = "complete"

LEMMA OthersSpare ==
  ASSUME TypeOK,
         \/ UNCHANGED vars \/ TextStep \/ SweepStep \/ SinkStep
         \/ (\E o \in Operators : LaneStep(o)) \/ SettingStep
  PROVE  Spares
<1>0. state \in [Doc -> States] /\ bus \subseteq Message /\ OcrShardTypeOK
  BY DEF TypeOK, LedgerTypeOK
<1>1. CASE UNCHANGED vars \/ SinkStep \/ SettingStep
  BY <1>1, SinkEffect DEF vars, ledgerVars, extVars, SinkStep, SettingStep, Spares
<1>2. CASE TextStep
  <2>1. MovesInFlight /\ UNCHANGED ext_work
    BY <1>0, <1>2, PdfMoves, OcrMoves DEF TextStep, extVars
  <2> QED
    BY <1>0, <2>1 DEF MovesInFlight, Spares
<1>3. CASE SweepStep
  <2>1. \A d \in Doc :
          \/ state'[d] = state[d]
          \/ state[d] \in InFlightStates /\ state'[d] \in {"failed", PendingOf(state[d])}
    BY <1>0, <1>3 DEF SweepStep, claim_batch, redrive_document, FailSweep, SkipUnbegun
  <2> QED
    BY <1>3, <2>1 DEF SweepStep, extVars, Spares, PendingOf
<1>4. ASSUME NEW o \in Operators, LaneStep(o)
      PROVE  Spares
  <2>1. UNCHANGED ext_work /\ (Looks(o) \/ Redrives(o) \/ Accepts(o))
    BY <1>4, LaneKinds DEF extVars
  <2> QED
    BY <1>0, <2>1 DEF Looks, Redrives, Accepts, ledgerVars, Spares
<1> QED
  BY <1>1, <1>2, <1>3, <1>4

\* A step while every document is in one pair of hands at most.
LEMMA ExclusiveStep ==
  ASSUME PInv, Exclusive, HeldIsUnsettled, [Next]_vars
  PROVE  /\ HeldIsUnsettled'
         /\ \A d \in Doc : state[d] = "complete" => state'[d] = "complete"
<1>0. /\ TypeOK /\ PostingHasFields /\ ExtractionTypeOK /\ bus \subseteq Message
      /\ state \in [Doc -> States]
  BY DEF PInv, TypeOK, LedgerTypeOK
<1>1. CASE Spares
  BY <1>1 DEF Spares, HeldIsUnsettled, Holds
<1>2. ASSUME NEW w \in ExtractWorker, ExtractorStep(w)
      PROVE  /\ HeldIsUnsettled'
             /\ \A d \in Doc : state[d] = "complete" => state'[d] = "complete"
  <2>1. HoldsOn(w)
    BY <1>0, <1>2, WorkerHolds DEF ExtractorStep
  <2>2. \/ UNCHANGED state
        \/ \E d \in Doc : Begins(d) \/ Rejects(w, d) \/ Reviews(w, d) \/ Posts(w, d)
    BY <1>0, <1>2, WorkerCommits DEF ExtractorStep
  <2> QED
    BY <1>0, <2>1, <2>2, WorkerUnsettled
<1> QED
  BY <1>0, <1>1, <1>2, StepKinds, OthersSpare

\* README.md:32-33, "Only `complete` is truly final": no late worker, sweep,
\* batch, replay or person who read the row earlier moves a document that was
\* completed meanwhile, while no document is in two extraction workers' hands.
THEOREM PipelineCompleteIsFinal == Spec /\ []Exclusive => CompleteIsFinal
<1>1. Init => HeldIsUnsettled
  BY DEF Init, ExtractionInit, HeldIsUnsettled, Holds
<1>2. PInv /\ Exclusive /\ HeldIsUnsettled /\ [Next]_vars =>
        /\ HeldIsUnsettled'
        /\ \A d \in Doc : state[d] = "complete" => state'[d] = "complete"
  BY ExclusiveStep
<1> QED
  BY <1>1, <1>2, PInvInit, PInvNext, PTL DEF Spec, CompleteIsFinal
=============================================================================
