------------------------- MODULE ExtractStageProofs -------------------------
(***************************************************************************)
(* Proofs about ExtractStage, for any documents, answers of the model,     *)
(* workers, operators, attempt caps and number of faults.                  *)
(***************************************************************************)
EXTENDS ExtractStage, ExtractionProofs

USE DEF TextStates, ExtractStates, InFlightStates, RunningStates, States, Topics

(***************************************************************************)
(* Type correctness.  The types alone are not inductive: what is committed *)
(* comes from the worker's memory, so a worker about to post or hold must  *)
(* have fields.                                                            *)
(***************************************************************************)

LEMMA TypeInit == Init => TypeOK
<1> SUFFICES ASSUME Init PROVE TypeOK
  OBVIOUS
<1>1. bus \subseteq Message
  BY MessageTypes DEF Init
<1>2. document_shards \in [Doc -> SUBSET Nat]
  BY ShardsAreNat DEF Init
<1>3. LedgerTypeOK
  BY <1>1, <1>2, LedgerAssumption, ExtractStageAssumption DEF Init, LedgerTypeOK
<1>4. assembled \subseteq Doc /\ split_out \subseteq Doc /\ shard_out \subseteq Doc \X Nat
  BY ExtractStageAssumption DEF Init
<1>5. ResultsTypeOK /\ SinkTypeOK
  BY DEF Init, ResultsInit, SinkInit, ResultsTypeOK, SinkTypeOK, Result, Keys, Verdicts
<1>6. ExtractionTypeOK /\ SweeperTypeOK /\ OperatorTypeOK
  BY OperatorAssumption DEF Init, ExtractionInit, SweeperInit, OperatorInit,
     ExtractionTypeOK, SweeperTypeOK, OperatorTypeOK
<1> QED
  BY <1>3, <1>4, <1>5, <1>6 DEF TypeOK

LEMMA TypeExtract ==
  ASSUME TypeOK, PostingHasFields, NEW w \in ExtractWorker, Extract(w)
  PROVE  TypeOK'
<1>1. WorkerTypeOK'
  BY WorkerTypes DEF TypeOK, WorkerTypeOK, Extract
<1>2. SweeperTypeOK' /\ OperatorTypeOK' /\ SinkTypeOK'
  BY DEF TypeOK, Extract, SweeperTypeOK, OperatorTypeOK, SinkTypeOK, opVars
<1> QED
  BY <1>1, <1>2 DEF TypeOK, WorkerTypeOK

\* The sweeper, and messages that nobody had begun to handle.
LEMMA TypeSweep ==
  ASSUME TypeOK,
         \/ \E batch \in SUBSET Doc : Claim(batch)
         \/ Redrive \/ SweepFault \/ Skip
  PROVE  TypeOK'
<1>1. LedgerTypeOK' /\ SweeperTypeOK'
  BY ClaimTypes, RedriveTypes, ForgetTypes DEF TypeOK, Claim, Redrive, SweepFault, Skip
<1>2. UNCHANGED <<artifactVars, resultVars, extVars, opVars, posted>>
  BY DEF Claim, Redrive, SweepFault, Skip
<1> QED
  BY <1>1, <1>2 DEF TypeOK, artifactVars, resultVars, extVars, opVars, ResultsTypeOK, ExtractionTypeOK,
     OperatorTypeOK, SinkTypeOK

\* What an operator's step does, in the terms of this module.
LEMMA OperateEffect ==
  ASSUME TypeOK, NEW o \in Operators, Operate(o)
  PROVE  /\ OpWorkTypeOK'
         /\ UNCHANGED <<shardVars, attemptVars, faults, artifactVars, extraction_result, invoice_key,
                        auto_post_enabled, extVars, sweep_rows, posted>>
         /\ \/ UNCHANGED op_count
            \/ op_count < MaxOperations /\ op_count' = op_count + 1
         /\ \/ op_work' = [op_work EXCEPT ![o] = NoOp] /\ op_work[o] # NoOp
            \/ op_count' = op_count + 1 /\ \A p \in Operators \ {o} : op_work'[p] = op_work[p]
         /\ \/ UNCHANGED <<state, bus, gate_results, extracted>>
            \/ \E d \in Doc, row \in Row, to \in {"extract_pending", "text_pending"} :
                 /\ op_work[o] # NoOp /\ state[d] # "complete"
                 /\ state' = [state EXCEPT ![d] = to]
                 /\ bus' = bus \cup RedriveMessages(row)
                 /\ UNCHANGED <<gate_results, extracted>>
            \/ \E d \in Doc :
                 /\ op_work[o] # NoOp /\ state[d] \in {"review", "complete"}
                 /\ gate_results' = [gate_results EXCEPT ![d] = "accepted"]
                 /\ state' = [state EXCEPT ![d] = "complete"]
                 /\ extracted' = extracted \cup {ExtractedMsg(d, NoResult)}
                 /\ ExtractedMsg(d, NoResult) \in Extracted
                 /\ op_work' = [op_work EXCEPT ![o] = NoOp]
                 /\ UNCHANGED <<bus, op_count>>
<1>0. /\ LedgerTypeOK /\ ResultsTypeOK /\ OpWorkTypeOK
      /\ UNCHANGED <<extVars, sweep_rows, posted>>
  BY DEF TypeOK, OperatorTypeOK, OpWorkTypeOK, Operate
<1> USE DEF ledgerVars, resultVars
<1>1. CASE begin_redrive(o) \/ begin_accept(o)
  <2>1. PICK d \in Doc, kind \in {"redrive", "accept"} :
          /\ ReadRow(o, kind, d)
          /\ op_count < MaxOperations /\ op_count' = op_count + 1
          /\ UNCHANGED <<ledgerVars, artifactVars, resultVars>>
    BY <1>1 DEF begin_redrive, begin_accept, Begin
  <2>2. OpWorkTypeOK'
    BY <1>0, <2>1, LookTypes
  <2>3. \A p \in Operators \ {o} : op_work'[p] = op_work[p]
    BY <1>0, <2>1 DEF ReadRow, OpWorkTypeOK
  <2> QED
    BY <1>0, <2>1, <2>2, <2>3
<1>2. CASE force_redrive(o)
  <2>1. PICK to \in redrive_target_states(op_work[o]) : Redriven(o, to) \/ Refused(o, to)
    BY <1>2 DEF force_redrive
  <2>2. /\ op_work' = [op_work EXCEPT ![o] = NoOp] /\ op_work[o].kind = "redrive"
        /\ UNCHANGED <<shardVars, attemptVars, faults, artifactVars, resultVars, op_count>>
    BY <1>2 DEF force_redrive
  <2>3. /\ op_work[o] # NoOp
        /\ \/ UNCHANGED <<state, bus>>
           \/ \E d \in Doc, row \in Row :
                /\ state[d] # "complete" /\ to \in {"extract_pending", "text_pending"}
                /\ state' = [state EXCEPT ![d] = to]
                /\ bus' = bus \cup RedriveMessages(row)
    BY <1>0, <2>1, <2>2, RedriveEffect DEF NoOp
  <2> QED
    BY <1>0, <2>2, <2>3, PutDown
<1>3. CASE accept_review(o)
  <2>1. op_work[o] # NoOp
    BY <1>3 DEF accept_review, NoOp
  <2> QED
    BY <1>0, <1>3, <2>1, AcceptEffect, PutDown
<1> QED
  BY <1>1, <1>2, <1>3 DEF Operate, OperatorStep

LEMMA TypeOperate ==
  ASSUME TypeOK, NEW o \in Operators, Operate(o)
  PROVE  TypeOK'
<1>1. OperatorTypeOK'
  BY OperateEffect, OperatorAssumption DEF TypeOK, OperatorTypeOK, OpWorkTypeOK
<1>2. bus' \subseteq Message
  BY OperateEffect, RedriveType DEF TypeOK, LedgerTypeOK
<1>3. state' \in [Doc -> States]
  BY OperateEffect DEF TypeOK, LedgerTypeOK
<1>4. gate_results' \in [Doc -> Verdicts] /\ extracted' \subseteq Extracted
  BY OperateEffect DEF TypeOK, ResultsTypeOK, Verdicts
<1>5. UNCHANGED <<shardVars, attemptVars, faults, artifactVars, extraction_result, invoice_key,
                  auto_post_enabled, extVars, sweep_rows, posted>>
  BY OperateEffect
<1> QED
  BY <1>1, <1>2, <1>3, <1>4, <1>5
  DEF TypeOK, LedgerTypeOK, ResultsTypeOK, ExtractionTypeOK, SweeperTypeOK, SinkTypeOK,
      shardVars, attemptVars, artifactVars, extVars

\* The kill switch, and the sink.
LEMMA TypeSinkSwitch ==
  ASSUME TypeOK, Sink \/ SinkFault \/ \E enabled \in BOOLEAN : Switch(enabled)
  PROVE  TypeOK'
<1> USE DEF artifactVars, extVars, opVars
<1>1. ASSUME NEW enabled \in BOOLEAN, Switch(enabled)
      PROVE  TypeOK'
  <2>1. /\ op_count < MaxOperations /\ op_count' = op_count + 1
        /\ auto_post_enabled' = enabled
        /\ UNCHANGED <<ledgerVars, artifactVars, extraction_result, invoice_key,
                       gate_results, extracted, op_work, posted, extVars, sweep_rows>>
    BY <1>1 DEF Switch, set_kill_switch
  <2>2. OperatorTypeOK'
    BY <2>1, OperatorAssumption DEF TypeOK, OperatorTypeOK
  <2>3. auto_post_enabled' \in BOOLEAN
    BY <1>1, <2>1
  <2>4. ResultsTypeOK'
    BY <2>1, <2>3 DEF TypeOK, ResultsTypeOK
  <2> QED
    BY <2>1, <2>2, <2>4
    DEF TypeOK, LedgerTypeOK, SinkTypeOK, ExtractionTypeOK, SweeperTypeOK, ledgerVars, shardVars,
        attemptVars
<1>2. CASE Sink \/ SinkFault
  <2>1. LedgerTypeOK' /\ ResultsTypeOK' /\ SinkTypeOK'
    BY <1>2, SinkTypes DEF TypeOK, Sink, SinkFault
  <2>2. UNCHANGED <<artifactVars, extVars, sweep_rows, opVars>>
    BY <1>2 DEF Sink, SinkFault
  <2> QED
    BY <2>1, <2>2 DEF TypeOK, OperatorTypeOK, ExtractionTypeOK, SweeperTypeOK
<1> QED
  BY <1>1, <1>2

\* Every step keeps the types, of a worker that knows what it commits.
LEMMA TypeNext ==
  ASSUME TypeOK, PostingHasFields, [Next]_vars
  PROVE  TypeOK'
<1>1. CASE UNCHANGED vars
  BY <1>1 DEF vars, ledgerVars, shardVars, attemptVars, artifactVars, resultVars, extVars, opVars, TypeOK,
     LedgerTypeOK, ResultsTypeOK, ExtractionTypeOK, SweeperTypeOK, OperatorTypeOK, SinkTypeOK
<1>2. CASE Next
  BY <1>2, TypeExtract, TypeSweep, TypeOperate, TypeSinkSwitch DEF Next
<1> QED
  BY <1>1, <1>2

-----------------------------------------------------------------------------
(***************************************************************************)
(* The steps, seen from the columns extraction writes.  Every invariant    *)
(* below is proved for these few kinds of step.                            *)
(***************************************************************************)

\* A worker's step.
WorkerEffect(w) ==
  /\ UNCHANGED <<shardVars, split_out, shard_out, op_work, op_count, posted>>
  /\ \/ UNCHANGED <<assembled, partial>>
     \/ \E d \in Doc :
          /\ At(w, "absent", d) /\ AllOutputsExist(d, ext_work[w].total)
          /\ WriteArtifact(w, d)
  /\ \/ UNCHANGED <<state, extraction_result, gate_results, extracted, invoice_key>>
     \/ \E d \in Doc : Begins(d) \/ Rejects(w, d) \/ Reviews(w, d) \/ Posts(w, d)
  /\ \E job :
       /\ ext_work' = [ext_work EXCEPT ![w] = job]
       /\ \/ job \in {NoJob, ext_work[w]}
          \/ \E d \in Doc : job = NewJob(d)
          \/ ext_work[w] \in ExtractJob /\ JobMove(ext_work[w], job)
  /\ HoldsOn(w)

\* A step that decides nothing and moves no document but in flight or to
\* failed: the sweeper's, and those of operators that do not commit.
LaneEffect ==
  /\ UNCHANGED <<shardVars, artifactVars, extVars, extraction_result, gate_results, invoice_key,
                 extracted, posted>>
  /\ op_count' >= op_count
  /\ \A o \in Operators : op_work'[o] # NoOp => op_work[o] # NoOp \/ op_count' > 0
  /\ \A d \in Doc :
       \/ state'[d] = state[d]
       \/ state[d] \in InFlightStates /\ state'[d] \in {"failed", "text_pending", "extract_pending"}
            /\ (state'[d] \in ExtractStates => state[d] \in ExtractStates)
       \/ /\ op_count > 0 /\ state[d] # "complete"
          /\ state'[d] \in {"extract_pending", "text_pending"}

\* An operator who accepts document d.
AcceptStep(d) ==
  /\ state[d] \in {"review", "complete"}
  /\ gate_results' = [gate_results EXCEPT ![d] = "accepted"]
  /\ state' = [state EXCEPT ![d] = "complete"]
  /\ extracted' = extracted \cup {ExtractedMsg(d, NoResult)}
  /\ op_count' = op_count /\ op_count > 0
  /\ \A o \in Operators : op_work'[o] # NoOp => op_work[o] # NoOp
  /\ UNCHANGED <<shardVars, artifactVars, extVars, extraction_result, invoice_key, posted>>

\* The sink.
SinkStep ==
  /\ UNCHANGED <<state, shardVars, artifactVars, extVars, opVars, extraction_result,
                 gate_results, invoice_key>>
  /\ extracted' \in SUBSET extracted
  /\ \/ UNCHANGED posted
     \/ \E m \in extracted :
          posted[m.doc] = NoResult /\ posted' = [posted EXCEPT ![m.doc] = FieldsOf(m)]

LEMMA StepKinds ==
  ASSUME TypeOK, PostingHasFields, OperationsCounted, [Next]_vars
  PROVE  \/ \E w \in ExtractWorker : WorkerEffect(w)
         \/ LaneEffect
         \/ \E d \in Doc : AcceptStep(d)
         \/ SinkStep
<1>0. op_count \in Nat /\ LedgerTypeOK /\ ExtractionTypeOK /\ bus \subseteq Message
  BY DEF TypeOK, OperatorTypeOK, LedgerTypeOK
<1>1. CASE UNCHANGED vars
  BY <1>0, <1>1 DEF vars, ledgerVars, resultVars, opVars, LaneEffect
<1>2. ASSUME NEW w \in ExtractWorker, Extract(w)
      PROVE  WorkerEffect(w)
  <2>1. ExtractStep(w) \/ FailExtract(w)
    BY <1>2 DEF Extract
  <2>2. UNCHANGED <<op_work, op_count, posted>>
    BY <1>2 DEF Extract, opVars
  <2> QED
    BY <1>0, <2>1, <2>2, WorkerMoves, WorkerWrites, WorkerCommits, WorkerHolds
    DEF WorkerEffect
<1>3. CASE (\E batch \in SUBSET Doc : Claim(batch)) \/ Redrive \/ SweepFault \/ Skip
  <2>1. /\ UNCHANGED <<shardVars, artifactVars, resultVars, extVars, opVars, posted>>
        /\ \A d \in Doc : \/ state'[d] = state[d]
                          \/ state[d] \in InFlightStates /\ state'[d] \in {"failed", PendingOf(state[d])}
    <3>1. CASE \E batch \in SUBSET Doc : Claim(batch)
      BY <1>0, <3>1 DEF Claim, claim_batch
    <3>2. CASE Redrive \/ SweepFault \/ Skip
      BY <3>2 DEF Redrive, redrive_document, SweepFault, FailSweep, Skip, SkipUnbegun
    <3> QED
      BY <1>3, <3>1, <3>2
  <2> QED
    BY <1>0, <2>1 DEF LaneEffect, resultVars, opVars, PendingOf
<1>4. ASSUME NEW enabled \in BOOLEAN, Switch(enabled)
      PROVE  LaneEffect
  BY <1>0, <1>4 DEF Switch, set_kill_switch, LaneEffect, ledgerVars
<1>5. ASSUME NEW o \in Operators, Operate(o)
      PROVE  LaneEffect \/ \E d \in Doc : AcceptStep(d)
  <2>1. op_work[o] # NoOp => op_count > 0
    BY DEF OperationsCounted
  <2>2. op_work \in [Operators -> Operation \cup {NoOp}]
    BY DEF TypeOK, OperatorTypeOK
  <2>3. /\ op_count' >= op_count
        /\ \A p \in Operators : op_work'[p] # NoOp => op_work[p] # NoOp \/ op_count' > 0
    BY <1>0, <1>5, <2>2, OperateEffect
  <2>4. CASE \/ UNCHANGED <<state, bus, gate_results, extracted>>
             \/ \E d \in Doc, row \in Row, to \in {"extract_pending", "text_pending"} :
                  /\ op_work[o] # NoOp /\ state[d] # "complete"
                  /\ state' = [state EXCEPT ![d] = to]
                  /\ UNCHANGED <<gate_results, extracted>>
    BY <1>0, <1>5, <2>1, <2>3, <2>4, OperateEffect DEF LaneEffect, LedgerTypeOK
  <2>5. CASE \E d \in Doc :
               /\ op_work[o] # NoOp /\ state[d] \in {"review", "complete"}
               /\ gate_results' = [gate_results EXCEPT ![d] = "accepted"]
               /\ state' = [state EXCEPT ![d] = "complete"]
               /\ extracted' = extracted \cup {ExtractedMsg(d, NoResult)}
               /\ op_work' = [op_work EXCEPT ![o] = NoOp]
               /\ UNCHANGED op_count
    BY <1>0, <1>5, <2>1, <2>2, <2>5, OperateEffect DEF AcceptStep
  <2> QED
    BY <1>5, <2>4, <2>5, OperateEffect
<1>6. CASE Sink \/ SinkFault
  BY <1>6, SinkEffect DEF Sink, SinkFault, SinkStep
<1> QED
  BY <1>1, <1>2, <1>3, <1>4, <1>5, <1>6 DEF Next

-----------------------------------------------------------------------------
(***************************************************************************)
(* The general invariant: what is committed comes from a worker's memory,  *)
(* and what is posted from what was committed.                             *)
(***************************************************************************)

GInv == EInv /\ OperationsCounted

LEMMA GInvInit == Init => GInv
<1> SUFFICES ASSUME Init PROVE GInv
  OBVIOUS
<1>1. PostingHasFields
  BY DEF Init, ExtractionInit, PostingHasFields, NoJob
<1>2. MessagesTellResult /\ RowsTellResult
  BY ResultsAssumption DEF Init, ResultsInit, SinkInit, MessagesTellResult, RowsTellResult
<1>3. OperationsCounted
  BY DEF Init, OperatorInit, OperationsCounted
<1> QED
  BY <1>1, <1>2, <1>3, TypeInit DEF GInv, EInv

\* What a worker commits is the first result of its document, and the message
\* that goes with it tells it.
LEMMA WorkerTells ==
  ASSUME GInv, NEW w \in ExtractWorker, WorkerEffect(w)
  PROVE  MessagesTellResult' /\ RowsTellResult'
<1>1. /\ extraction_result \in [Doc -> Result] /\ posted \in [Doc -> Result]
      /\ extracted \subseteq Extracted
  BY DEF GInv, EInv, TypeOK, ResultsTypeOK, SinkTypeOK
<1>2. MessagesTellResult /\ RowsTellResult /\ UNCHANGED posted
  BY DEF GInv, EInv, WorkerEffect
<1>3. CASE UNCHANGED <<extraction_result, extracted>>
  BY <1>2, <1>3 DEF MessagesTellResult, RowsTellResult
<1>4. ASSUME NEW d \in Doc, NEW r \in Fields \cup {EmptyResult},
             extraction_result[d] = NoResult,
             extraction_result' = [extraction_result EXCEPT ![d] = r],
             extracted' \in {extracted, extracted \cup {ExtractedMsg(d, r)}}
      PROVE  MessagesTellResult' /\ RowsTellResult'
  <2>1. ASSUME NEW m \in extracted', m.fields \in Fields
        PROVE  extraction_result'[m.doc] = m.fields
    <3>1. CASE m \in extracted
      BY <1>1, <1>2, <1>4, <2>1, <3>1, ResultsAssumption DEF MessagesTellResult, Extracted
    <3>2. CASE m = ExtractedMsg(d, r)
      BY <1>1, <1>4, <3>2 DEF ExtractedMsg
    <3> QED
      BY <1>4, <3>1, <3>2
  <2>2. \A e \in Doc : posted[e] \in Fields => extraction_result'[e] = posted[e]
    BY <1>1, <1>2, <1>4, ResultsAssumption DEF RowsTellResult
  <2> QED
    BY <1>2, <2>1, <2>2 DEF MessagesTellResult, RowsTellResult
<1>5. \/ UNCHANGED <<extraction_result, extracted>>
      \/ \E d \in Doc, r \in Fields \cup {EmptyResult} :
           /\ extraction_result[d] = NoResult
           /\ extraction_result' = [extraction_result EXCEPT ![d] = r]
           /\ extracted' \in {extracted, extracted \cup {ExtractedMsg(d, r)}}
  BY DEF WorkerEffect, Begins, Rejects, Reviews, Posts
<1> QED
  BY <1>3, <1>4, <1>5

LEMMA GInvNext == GInv /\ [Next]_vars => GInv'
<1> SUFFICES ASSUME GInv, [Next]_vars PROVE GInv'
  OBVIOUS
<1>0. /\ TypeOK /\ PostingHasFields /\ MessagesTellResult /\ RowsTellResult /\ OperationsCounted
      /\ extraction_result \in [Doc -> Result] /\ posted \in [Doc -> Result]
      /\ extracted \subseteq Extracted /\ op_count \in Nat /\ ExtractionTypeOK
  BY DEF GInv, EInv, TypeOK, ResultsTypeOK, SinkTypeOK, OperatorTypeOK
<1>1. TypeOK'
  BY <1>0, TypeNext
<1>2. op_count' \in Nat
  BY <1>1 DEF TypeOK, OperatorTypeOK
<1>3. ASSUME NEW w \in ExtractWorker, WorkerEffect(w)
      PROVE  GInv'
  <2>1. PostingHasFields'
    <3>1. PICK job :
            /\ ext_work' = [ext_work EXCEPT ![w] = job]
            /\ \/ job \in {NoJob, ext_work[w]}
               \/ \E d \in Doc : job = NewJob(d)
               \/ ext_work[w] \in ExtractJob /\ JobMove(ext_work[w], job)
      BY <1>3 DEF WorkerEffect
    <3> QED
      BY <1>0, <3>1, JobHasFields DEF PostingHasFields, ExtractionTypeOK
  <2>2. OperationsCounted'
    BY <1>0, <1>3 DEF WorkerEffect, OperationsCounted
  <2> QED
    BY <1>1, <1>3, <2>1, <2>2, WorkerTells DEF GInv, EInv
<1>4. CASE LaneEffect
  BY <1>0, <1>1, <1>2, <1>4
  DEF LaneEffect, GInv, EInv, PostingHasFields, MessagesTellResult, RowsTellResult, OperationsCounted,
      extVars
<1>5. ASSUME NEW d \in Doc, AcceptStep(d)
      PROVE  GInv'
  BY <1>0, <1>1, <1>5, ResultsAssumption
  DEF AcceptStep, GInv, EInv, PostingHasFields, MessagesTellResult, RowsTellResult,
      OperationsCounted, extVars, ExtractedMsg
<1>6. CASE SinkStep
  <2>1. RowsTellResult'
    <3>1. ASSUME NEW m \in extracted, FieldsOf(m) \in Fields
          PROVE  m.doc \in Doc /\ extraction_result[m.doc] = FieldsOf(m)
      BY <1>0, <3>1, ResultsAssumption DEF FieldsOf, MessagesTellResult, Extracted
    <3> QED
      BY <1>0, <1>6, <3>1 DEF SinkStep, RowsTellResult
  <2>2. PostingHasFields' /\ MessagesTellResult' /\ OperationsCounted'
    BY <1>0, <1>6 DEF SinkStep, PostingHasFields, MessagesTellResult, OperationsCounted, extVars, opVars
  <2> QED
    BY <1>1, <2>1, <2>2 DEF GInv, EInv
<1> QED
  BY <1>0, <1>3, <1>4, <1>5, <1>6, StepKinds

\* Every variable holds a value of its type, and every worker, message and
\* posted row the fields that were decided, in every reachable state.
THEOREM EInvHolds == Spec => []EInv
<1>1. GInv => EInv
  BY DEF GInv
<1> QED
  BY <1>1, GInvInit, GInvNext, PTL DEF Spec

\* Type correctness of the columns, messages and memories of the stage.
THEOREM ExtractTypeCorrect == Spec => []TypeOK
<1>1. EInv => TypeOK
  BY DEF EInv
<1> QED
  BY <1>1, EInvHolds, PTL

-----------------------------------------------------------------------------
(***************************************************************************)
(* The refinement.                                                         *)
(***************************************************************************)

\* The one way a worker's step changes what is seen from outside.
LEMMA WorkerRefines ==
  ASSUME NEW w \in ExtractWorker, WorkerEffect(w)
  PROVE  [Abstract!EONext]_<<extraction_result, posted>>
<1>1. /\ UNCHANGED posted
      /\ \/ UNCHANGED extraction_result
         \/ \E d \in Doc, r \in Fields \cup {EmptyResult} :
              /\ extraction_result[d] = NoResult
              /\ extraction_result' = [extraction_result EXCEPT ![d] = r]
  BY DEF WorkerEffect, Begins, Rejects, Reviews, Posts
<1> QED
  BY <1>1 DEF Abstract!EONext, Abstract!Decide

\* A row is the decided result, if its message had fields, or empty.
LEMMA SinkRefines ==
  ASSUME EInv, SinkStep
  PROVE  [Abstract!EONext]_<<extraction_result, posted>>
<1>1. CASE UNCHANGED posted
  BY <1>1 DEF SinkStep
<1>2. ASSUME NEW m \in extracted,
             posted[m.doc] = NoResult,
             posted' = [posted EXCEPT ![m.doc] = FieldsOf(m)]
      PROVE  Abstract!EONext
  <2>0. UNCHANGED extraction_result
    BY DEF SinkStep
  <2>1. m.doc \in Doc /\ m.fields \in Fields \cup {NoResult}
    BY DEF EInv, TypeOK, ResultsTypeOK, Extracted
  <2>2. CASE m.fields \in Fields
    <3>1. extraction_result[m.doc] \in Fields /\ FieldsOf(m) = extraction_result[m.doc]
      BY <2>2, ResultsAssumption DEF EInv, MessagesTellResult, FieldsOf
    <3> QED
      BY <1>2, <2>0, <2>1, <3>1 DEF Abstract!EONext, Abstract!Post
  <2>3. CASE m.fields = NoResult
    BY <1>2, <2>0, <2>1, <2>3 DEF Abstract!EONext, Abstract!Grant, FieldsOf
  <2> QED
    BY <2>1, <2>2, <2>3
<1> QED
  BY <1>1, <1>2 DEF SinkStep

\* commit_extraction_result and the sink keep their promise: with any workers,
\* re-drives, operators, redeliveries and crashes, a result is decided once
\* and what is posted is that result, once, or an operator's empty row.
THEOREM ExtractionRefines == Spec => ImplementsExactlyOnce
<1>1. Init => Abstract!EOInit
  BY DEF Init, ResultsInit, SinkInit, Abstract!EOInit
<1>2. ASSUME GInv, [Next]_vars
      PROVE  [Abstract!EONext]_<<extraction_result, posted>>
  <2>1. CASE LaneEffect \/ \E d \in Doc : AcceptStep(d)
    BY <2>1 DEF LaneEffect, AcceptStep
  <2> QED
    BY <1>2, <2>1, StepKinds, WorkerRefines, SinkRefines DEF GInv, EInv
<1> QED
  BY <1>1, <1>2, GInvInit, GInvNext, PTL DEF Spec, ImplementsExactlyOnce, Abstract!EOSpec

-----------------------------------------------------------------------------
(***************************************************************************)
(* In flight, the result is open.                                          *)
(***************************************************************************)

\* Extraction moves a document out of flight in the commit that decides it,
\* and only operators bring it back.
LEMMA InFlightStep ==
  ASSUME GInv, InFlightIsOpen, [Next]_vars
  PROVE  InFlightIsOpen'
<1>0. /\ TypeOK /\ PostingHasFields /\ OperationsCounted
      /\ state \in [Doc -> States] /\ extraction_result \in [Doc -> Result] /\ op_count \in Nat
  BY DEF GInv, EInv, TypeOK, LedgerTypeOK, ResultsTypeOK, OperatorTypeOK
<1>1. op_count' \in Nat
  BY GInvNext DEF GInv, EInv, TypeOK, OperatorTypeOK
<1>2. ASSUME NEW w \in ExtractWorker, WorkerEffect(w)
      PROVE  InFlightIsOpen'
  <2>1. UNCHANGED op_count
    BY <1>2 DEF WorkerEffect
  <2>2. CASE UNCHANGED <<state, extraction_result, gate_results, extracted, invoice_key>>
    BY <2>1, <2>2 DEF InFlightIsOpen
  <2>3. ASSUME NEW d \in Doc, Begins(d) \/ Rejects(w, d) \/ Reviews(w, d) \/ Posts(w, d)
        PROVE  InFlightIsOpen'
    BY <1>0, <2>1, <2>3 DEF InFlightIsOpen, Begins, Rejects, Reviews, Posts
  <2> QED
    BY <1>2, <2>2, <2>3 DEF WorkerEffect
<1>3. CASE LaneEffect
  BY <1>0, <1>1, <1>3 DEF LaneEffect, InFlightIsOpen
<1>4. ASSUME NEW d \in Doc, AcceptStep(d)
      PROVE  InFlightIsOpen'
  BY <1>0, <1>4 DEF AcceptStep, InFlightIsOpen
<1>5. CASE SinkStep
  BY <1>5 DEF SinkStep, InFlightIsOpen, opVars
<1> QED
  BY <1>0, <1>2, <1>3, <1>4, <1>5, StepKinds

\* A worker's result is discarded only when somebody else finished its
\* document, as long as no operator brought that back (extraction_4.py:244-252).
THEOREM InFlightIsOpenHolds == Spec => []InFlightIsOpen
<1>1. Init => InFlightIsOpen
  BY DEF Init, ResultsInit, InFlightIsOpen
<1> QED
  BY <1>1, GInvInit, GInvNext, InFlightStep, PTL DEF Spec

-----------------------------------------------------------------------------
(***************************************************************************)
(* A complete document earned it.                                          *)
(***************************************************************************)

LEMMA EarnedStep ==
  ASSUME GInv, CompleteIsEarned, [Next]_vars
  PROVE  CompleteIsEarned'
<1>0. /\ TypeOK /\ PostingHasFields /\ OperationsCounted
      /\ state \in [Doc -> States] /\ extraction_result \in [Doc -> Result]
      /\ gate_results \in [Doc -> Verdicts]
  BY DEF GInv, EInv, TypeOK, LedgerTypeOK, ResultsTypeOK
<1>1. ASSUME NEW w \in ExtractWorker, WorkerEffect(w)
      PROVE  CompleteIsEarned'
  <2>1. CASE UNCHANGED <<state, extraction_result, gate_results, extracted, invoice_key>>
    BY <2>1 DEF CompleteIsEarned
  <2>2. ASSUME NEW d \in Doc, Begins(d) \/ Rejects(w, d) \/ Reviews(w, d) \/ Posts(w, d)
        PROVE  CompleteIsEarned'
    BY <1>0, <2>2 DEF CompleteIsEarned, Begins, Rejects, Reviews, Posts
  <2> QED
    BY <1>1, <2>1, <2>2 DEF WorkerEffect
<1>2. CASE LaneEffect
  BY <1>0, <1>2 DEF LaneEffect, CompleteIsEarned
<1>3. ASSUME NEW d \in Doc, AcceptStep(d)
      PROVE  CompleteIsEarned'
  BY <1>0, <1>3 DEF AcceptStep, CompleteIsEarned
<1>4. CASE SinkStep
  BY <1>4 DEF SinkStep, CompleteIsEarned
<1> QED
  BY <1>0, <1>1, <1>2, <1>3, <1>4, StepKinds

\* A complete document was accepted, or passed its gates with a result that
\* has fields: in particular nothing completes it by default.
THEOREM CompleteIsEarnedHolds == Spec => []CompleteIsEarned
<1>1. Init => CompleteIsEarned
  BY DEF Init, CompleteIsEarned
<1> QED
  BY <1>1, GInvInit, GInvNext, EarnedStep, PTL DEF Spec

-----------------------------------------------------------------------------
(***************************************************************************)
(* Answers and keys: what a worker holds was answered for its document,    *)
(* and a key was taken from such an answer.                                *)
(***************************************************************************)

KInv == GInv /\ HeldIsAnswer /\ KeyIsOfAnswer /\ UniqueKeys

LEMMA KInvInit == Init => KInv
BY GInvInit DEF Init, ExtractionInit, ResultsInit, KInv, HeldIsAnswer, KeyIsOfAnswer, UniqueKeys

LEMMA HeldStep ==
  ASSUME ExtractionTypeOK, HeldIsAnswer, NEW w \in ExtractWorker, WorkerEffect(w)
  PROVE  HeldIsAnswer'
<1>1. PICK job :
        /\ ext_work' = [ext_work EXCEPT ![w] = job]
        /\ \/ job \in {NoJob, ext_work[w]}
           \/ \E d \in Doc : job = NewJob(d)
           \/ ext_work[w] \in ExtractJob /\ JobMove(ext_work[w], job)
  BY DEF WorkerEffect
<1>2. job # NoJob => job.fields \in Answers[job.doc] \cup {NoResult}
  <2>1. CASE job \in {NoJob, ext_work[w]}
    BY <2>1 DEF HeldIsAnswer
  <2>2. CASE \E d \in Doc : job = NewJob(d)
    BY <2>2 DEF NewJob
  <2>3. CASE ext_work[w] \in ExtractJob /\ JobMove(ext_work[w], job)
    <3>1. ext_work[w] # NoJob
      BY <2>3 DEF ExtractJob, NoJob, Phases
    <3>2. /\ job.doc = ext_work[w].doc
          /\ job.fields \in {ext_work[w].fields, NoResult} \cup Answers[ext_work[w].doc]
      BY <2>3 DEF JobMove, ExtractJob
    <3> QED
      BY <3>1, <3>2 DEF HeldIsAnswer
  <2> QED
    BY <1>1, <2>1, <2>2, <2>3
<1> QED
  BY <1>1, <1>2 DEF HeldIsAnswer, ExtractionTypeOK

\* What a worker is about to post is an answer for its document.
LEMMA PostedAnswer ==
  ASSUME ExtractionTypeOK, HeldIsAnswer, NEW w \in ExtractWorker, NEW d \in Doc, At(w, "post", d),
         ext_work[w].fields \in Fields
  PROVE  ext_work[w].fields \in Answers[d] \cap Fields
<1>1. ext_work[w] # NoJob /\ ext_work[w].doc = d
  BY DEF At, NoJob
<1> QED
  BY <1>1, ResultsAssumption DEF HeldIsAnswer

LEMMA KInvNext == KInv /\ [Next]_vars => KInv'
<1> SUFFICES ASSUME KInv, [Next]_vars PROVE KInv'
  OBVIOUS
<1>0. /\ GInv /\ HeldIsAnswer /\ KeyIsOfAnswer /\ UniqueKeys
      /\ TypeOK /\ PostingHasFields /\ OperationsCounted /\ ExtractionTypeOK
      /\ invoice_key \in [Doc -> Keys]
  BY DEF KInv, GInv, EInv, TypeOK, ResultsTypeOK
<1>1. GInv'
  BY <1>0, GInvNext
<1>2. ASSUME NEW w \in ExtractWorker, WorkerEffect(w)
      PROVE  KInv'
  <2>1. HeldIsAnswer'
    BY <1>0, <1>2, HeldStep
  <2>2. CASE UNCHANGED invoice_key
    BY <1>0, <1>1, <2>1, <2>2 DEF KInv, KeyIsOfAnswer, UniqueKeys
  <2>3. ASSUME NEW d \in Doc, Posts(w, d)
        PROVE  KInv'
    <3>1. PICK f \in Fields :
            /\ f = ext_work[w].fields /\ At(w, "post", d)
            /\ ~KeyTaken(d, KeyOf[f])
            /\ invoice_key' = [invoice_key EXCEPT ![d] = KeyOf[f]]
      BY <2>3 DEF Posts
    <3>2. f \in Answers[d] \cap Fields
      BY <1>0, <3>1, PostedAnswer
    <3>3. KeyIsOfAnswer'
      BY <1>0, <3>1, <3>2 DEF KeyIsOfAnswer
    <3>4. UniqueKeys'
      BY <1>0, <3>1 DEF UniqueKeys, KeyTaken
    <3> QED
      BY <1>1, <2>1, <3>3, <3>4 DEF KInv
  <2> QED
    BY <1>2, <2>2, <2>3 DEF WorkerEffect, Begins, Rejects, Reviews
<1>3. CASE LaneEffect \/ (\E d \in Doc : AcceptStep(d)) \/ SinkStep
  <2>1. UNCHANGED <<ext_work, invoice_key>>
    BY <1>3 DEF LaneEffect, AcceptStep, SinkStep, extVars
  <2> QED
    BY <1>0, <1>1, <2>1 DEF KInv, HeldIsAnswer, KeyIsOfAnswer, UniqueKeys
<1> QED
  BY <1>0, <1>2, <1>3, StepKinds

-----------------------------------------------------------------------------
(***************************************************************************)
(* No invoice is posted twice.                                             *)
(***************************************************************************)

\* While a document has one key, whoever overwrites it writes the same.
LEMMA KeyStandsStep ==
  ASSUME SteadyKeys, KInv, KeyStands, [Next]_vars
  PROVE  KeyStands'
<1>0. /\ HeldIsAnswer
      /\ TypeOK /\ PostingHasFields /\ OperationsCounted /\ ExtractionTypeOK
      /\ invoice_key \in [Doc -> Keys] /\ extracted \subseteq Extracted
      /\ posted \in [Doc -> Result]
  BY DEF KInv, GInv, EInv, TypeOK, ResultsTypeOK, SinkTypeOK
<1>1. ASSUME NEW w \in ExtractWorker, WorkerEffect(w)
      PROVE  KeyStands'
  <2>1. UNCHANGED posted
    BY <1>1 DEF WorkerEffect
  <2>2. CASE UNCHANGED <<extracted, invoice_key>>
    BY <2>1, <2>2 DEF KeyStands
  <2>3. ASSUME NEW d \in Doc, Posts(w, d)
        PROVE  KeyStands'
    <3>1. PICK f \in Fields :
            /\ f = ext_work[w].fields /\ At(w, "post", d)
            /\ invoice_key' = [invoice_key EXCEPT ![d] = KeyOf[f]]
            /\ extracted' \in {extracted, extracted \cup {ExtractedMsg(d, f)}}
      BY <2>3 DEF Posts
    <3>2. f \in Answers[d] \cap Fields
      BY <1>0, <3>1, PostedAnswer
    <3>3. \A g \in Answers[d] \cap Fields : KeyOf[g] = KeyOf[f]
      BY <3>2 DEF SteadyKeys
    <3>4. \A e \in Doc : \A g \in Answers[e] \cap Fields :
            invoice_key[e] = KeyOf[g] => invoice_key'[e] = KeyOf[g]
      BY <1>0, <3>1, <3>3
    <3>5. ASSUME NEW m \in extracted', m.fields \in Fields
          PROVE  m.fields \in Answers[m.doc] /\ invoice_key'[m.doc] = KeyOf[m.fields]
      <4>1. CASE m \in extracted
        BY <1>0, <3>4, <3>5, <4>1 DEF KeyStands, Extracted
      <4>2. CASE m = ExtractedMsg(d, f)
        BY <1>0, <3>1, <3>2, <4>2 DEF ExtractedMsg
      <4> QED
        BY <3>1, <3>5, <4>1, <4>2
    <3> QED
      BY <2>1, <3>4, <3>5 DEF KeyStands
  <2> QED
    BY <1>1, <2>2, <2>3 DEF WorkerEffect, Begins, Rejects, Reviews
<1>2. CASE LaneEffect
  BY <1>2 DEF LaneEffect, KeyStands
<1>3. ASSUME NEW d \in Doc, AcceptStep(d)
      PROVE  KeyStands'
  BY <1>3, ResultsAssumption DEF AcceptStep, KeyStands, ExtractedMsg
<1>4. CASE SinkStep
  <2>1. ASSUME NEW m \in extracted, FieldsOf(m) \in Fields
        PROVE  m.doc \in Doc /\ m.fields \in Fields /\ FieldsOf(m) = m.fields
    BY <1>0, <2>1, ResultsAssumption DEF FieldsOf, Extracted
  <2> QED
    BY <1>0, <1>4, <2>1 DEF SinkStep, KeyStands
<1> QED
  BY <1>0, <1>1, <1>2, <1>3, <1>4, StepKinds

\* business_dedupe and the unique index: if every reading of a document finds
\* the same business key, one invoice is posted once, however often it was
\* scanned, and whatever is discarded, rejected or accepted by hand meanwhile.
THEOREM NoDoubleInvoiceHolds == SteadyKeys => (Spec => []NoDoubleInvoice)
<1> SUFFICES ASSUME SteadyKeys PROVE Spec => []NoDoubleInvoice
  OBVIOUS
<1>1. Init => KeyStands
  BY ResultsAssumption DEF Init, ResultsInit, SinkInit, KeyStands
<1>2. KInv /\ KeyStands => NoDoubleInvoice
  BY DEF KInv, UniqueKeys, KeyStands, NoDoubleInvoice
<1>3. KInv /\ KeyStands /\ [Next]_vars => KeyStands'
  BY KeyStandsStep
<1> QED
  BY <1>1, <1>2, <1>3, KInvInit, KInvNext, PTL DEF Spec

-----------------------------------------------------------------------------
(***************************************************************************)
(* Complete is final.  A rejection writes over whatever state and stamp    *)
(* the document has (route_without_writing).  Where no text lacks pages    *)
(* and no invoice was scanned twice nobody comes to reject, and then every *)
(* settled document has its result, which closes it to late workers.       *)
(***************************************************************************)

AInv == KInv /\ NoneIncomplete /\ NoneDuplicate /\ SettledIsDecided /\ EmptyIsGranted

LEMMA AInvInit == WholeTexts /\ Init => AInv
BY KInvInit, ResultsAssumption DEF Init, ResultsInit, ExtractionInit, SinkInit, NoJob,
   AInv, NoneIncomplete, NoneDuplicate, SettledIsDecided, EmptyIsGranted

\* A worker that assembles a text finds every output of it.
LEMMA WholeStep ==
  ASSUME WholeTexts, KInv, NoneIncomplete, NEW w \in ExtractWorker, WorkerEffect(w)
  PROVE  NoneIncomplete'
<1>0. /\ ExtractionTypeOK /\ NumShards \in [Doc -> Nat]
      /\ shards_total = [d \in Doc |-> IF HasLayer[d] THEN 1 ELSE NumShards[d]]
      /\ shard_out = Outputs /\ partial = {}
  BY LedgerAssumption DEF KInv, GInv, EInv, TypeOK, NoneIncomplete
<1>1. ASSUME NEW v \in ExtractWorker, NEW d \in Doc, At(v, "absent", d)
      PROVE  ~HasLayer[d] /\ ext_work[v].total = NumShards[d] /\ AllOutputsExist(d, ext_work[v].total)
  BY <1>0, <1>1 DEF NoneIncomplete, At, AllOutputsExist, WholeTexts, AllShards
<1>2. UNCHANGED <<shards_total, shard_out>> /\ partial' = {} /\ assembled \subseteq assembled'
  <2>1. CASE UNCHANGED <<assembled, partial>>
    BY <1>0, <2>1 DEF WorkerEffect, shardVars
  <2>2. ASSUME NEW d \in Doc, At(w, "absent", d), WriteArtifact(w, d)
        PROVE  partial' = {} /\ assembled \subseteq assembled'
    <3>1. ~(ext_work[w].total < NumShards[d]) /\ MayLosePages = FALSE
      BY <1>0, <1>1, <2>2, ExtractionAssumption DEF WholeTexts
    <3>2. partial' = partial \ {d} /\ assembled' = assembled \cup {d}
      BY <2>2, <3>1 DEF WriteArtifact, write_assembled
    <3> QED
      BY <1>0, <3>2
  <2> QED
    BY <2>1, <2>2 DEF WorkerEffect, shardVars
<1>3. PICK job :
        /\ ext_work' = [ext_work EXCEPT ![w] = job]
        /\ \/ job \in {NoJob, ext_work[w]}
           \/ \E d \in Doc : job = NewJob(d)
           \/ ext_work[w] \in ExtractJob /\ JobMove(ext_work[w], job)
  BY DEF WorkerEffect
<1>4. /\ job.phase \in {"loaded", "absent"} => job.total = shards_total[job.doc]
      /\ job.phase = "absent" => ~HasLayer[job.doc]
      /\ job.phase = "read" => job.whole
      /\ job.phase # "incomplete"
  <2>1. CASE job = NoJob \/ \E d \in Doc : job = NewJob(d)
    BY <2>1 DEF NoJob, NewJob
  <2>2. CASE job = ext_work[w]
    BY <2>2 DEF NoneIncomplete
  <2>3. CASE ext_work[w] \in ExtractJob /\ JobMove(ext_work[w], job)
    <3> DEFINE old == ext_work[w]
    <3>1. /\ old \in ExtractJob /\ JobMove(old, job) /\ old.doc \in Doc
          /\ old.phase = "absent" => AllOutputsExist(old.doc, old.total)
      BY <1>1, <2>3 DEF ExtractJob, At
    <3>2. /\ old.phase \in {"loaded", "absent"} => old.total = shards_total[old.doc]
          /\ old.phase = "read" => old.whole
          /\ HasLayer[old.doc] => old.doc \in assembled
      BY <3>1 DEF NoneIncomplete
    <3> HIDE DEF old
    <3>3. CASE old.phase \in {"begun", "loaded", "absent"}
      <4>1. \/ job = [old EXCEPT !.phase = "loaded", !.total = shards_total[old.doc]]
            \/ job = [old EXCEPT !.phase = "read", !.whole = TRUE]
            \/ /\ ~HasLayer[old.doc] /\ old.phase = "loaded"
               /\ job = [old EXCEPT !.phase = "absent"]
        BY <1>0, <1>2, <3>1, <3>2, <3>3 DEF JobMove
      <4>2. CASE job = [old EXCEPT !.phase = "loaded", !.total = shards_total[old.doc]]
        BY <3>1, <4>2 DEF ExtractJob
      <4>3. CASE job = [old EXCEPT !.phase = "read", !.whole = TRUE]
        BY <3>1, <4>3 DEF ExtractJob
      <4>4. CASE /\ ~HasLayer[old.doc] /\ old.phase = "loaded"
                 /\ job = [old EXCEPT !.phase = "absent"]
        BY <3>1, <3>2, <4>4 DEF ExtractJob
      <4> QED
        BY <4>1, <4>2, <4>3, <4>4
    <3>4. CASE old.phase \notin {"begun", "loaded", "absent"}
      <4>1. \/ \E phase \in {"attempt", "post", "hold", "duplicate"} :
                 job = [old EXCEPT !.phase = phase]
            \/ \E f : job = [old EXCEPT !.phase = "judged", !.fields = f]
        BY <3>1, <3>2, <3>4 DEF JobMove
      <4>2. CASE \E f : job = [old EXCEPT !.phase = "judged", !.fields = f]
        BY <3>1, <4>2 DEF ExtractJob
      <4> QED
        BY <3>1, <4>1, <4>2 DEF ExtractJob
    <3> QED
      BY <3>3, <3>4
  <2> QED
    BY <1>3, <2>1, <2>2, <2>3
<1> QED
  BY <1>0, <1>2, <1>3, <1>4 DEF NoneIncomplete, ExtractionTypeOK

\* Whoever posts an invoice finds its key free, or its own.
LEMMA ApartStep ==
  ASSUME KeysApart, KInv, NoneDuplicate, NEW w \in ExtractWorker, WorkerEffect(w)
  PROVE  NoneDuplicate'
<1>0. ExtractionTypeOK /\ PostingHasFields /\ HeldIsAnswer /\ KeyIsOfAnswer
  BY DEF KInv, GInv, EInv, TypeOK
<1>1. ASSUME NEW d \in Doc, At(w, "post", d)
      PROVE  ~KeyTaken(d, KeyOf[ext_work[w].fields])
  <2> DEFINE f == ext_work[w].fields
  <2>1. f \in Answers[d] \cap Fields
    BY <1>0, <1>1, PostedAnswer DEF PostingHasFields, At
  <2>2. SUFFICES ASSUME NEW e \in Doc \ {d}, invoice_key[e] = KeyOf[f], KeyOf[f] # NoKey
                 PROVE  FALSE
    BY DEF KeyTaken
  <2>3. PICK g \in Answers[e] \cap Fields : invoice_key[e] = KeyOf[g]
    BY <1>0, <2>2 DEF KeyIsOfAnswer
  <2> QED
    BY <2>1, <2>2, <2>3 DEF KeysApart
<1>2. PICK job :
        /\ ext_work' = [ext_work EXCEPT ![w] = job]
        /\ \/ job \in {NoJob, ext_work[w]}
           \/ \E d \in Doc : job = NewJob(d)
           \/ ext_work[w] \in ExtractJob /\ JobMove(ext_work[w], job)
  BY DEF WorkerEffect
<1>3. job.phase # "duplicate"
  <2>1. CASE job = NoJob \/ \E d \in Doc : job = NewJob(d)
    BY <2>1 DEF NoJob, NewJob
  <2>2. CASE job = ext_work[w]
    BY <2>2 DEF NoneDuplicate
  <2>3. CASE ext_work[w] \in ExtractJob /\ JobMove(ext_work[w], job)
    <3>1. ext_work[w].doc \in Doc
      BY <2>3 DEF ExtractJob
    <3>2. ext_work[w].phase = "post" => ~KeyTaken(ext_work[w].doc, KeyOf[ext_work[w].fields])
      BY <1>1, <3>1 DEF At
    <3> QED
      BY <2>3, <3>2 DEF JobMove, ExtractJob
  <2> QED
    BY <1>2, <2>1, <2>2, <2>3
<1> QED
  BY <1>0, <1>2, <1>3 DEF NoneDuplicate, ExtractionTypeOK

\* Without rejections a worker changes the state or the stamp of a document
\* only as it decides its result, or as it begins.
LEMMA WorkerSettles ==
  ASSUME AInv, NEW w \in ExtractWorker, WorkerEffect(w)
  PROVE  /\ UNCHANGED posted
         /\ \/ UNCHANGED <<state, extraction_result, gate_results, extracted>>
            \/ \E d \in Doc :
                 /\ state[d] \in ExtractStates
                 /\ state' = [state EXCEPT ![d] = "extract_running"]
                 /\ UNCHANGED <<extraction_result, gate_results, extracted>>
            \/ \E d \in Doc, r \in Fields \cup {EmptyResult}, verdict \in {"failed", "passed"},
                 final \in {"review", "complete"} :
                 /\ extraction_result[d] = NoResult
                 /\ extraction_result' = [extraction_result EXCEPT ![d] = r]
                 /\ gate_results' = [gate_results EXCEPT ![d] = verdict]
                 /\ state' = [state EXCEPT ![d] = final]
                 /\ \/ UNCHANGED extracted
                    \/ r \in Fields /\ extracted' = extracted \cup {ExtractedMsg(d, r)}
<1>1. \A d \in Doc : ~Rejects(w, d)
  BY DEF AInv, NoneIncomplete, NoneDuplicate, Rejects, At
<1> QED
  BY <1>1 DEF WorkerEffect, Begins, Reviews, Posts

LEMMA AInvNext ==
  ASSUME WholeTexts, KeysApart, AInv, [Next]_vars
  PROVE  AInv'
<1>0. /\ KInv /\ NoneIncomplete /\ NoneDuplicate /\ SettledIsDecided /\ EmptyIsGranted
      /\ TypeOK /\ PostingHasFields /\ OperationsCounted
      /\ state \in [Doc -> States] /\ extraction_result \in [Doc -> Result]
      /\ gate_results \in [Doc -> Verdicts] /\ posted \in [Doc -> Result]
      /\ extracted \subseteq Extracted
  BY DEF AInv, KInv, GInv, EInv, TypeOK, LedgerTypeOK, ResultsTypeOK, SinkTypeOK
<1>1. KInv'
  BY <1>0, KInvNext
<1>2. ASSUME NEW w \in ExtractWorker, WorkerEffect(w)
      PROVE  AInv'
  <2>1. NoneIncomplete' /\ NoneDuplicate'
    BY <1>0, <1>2, WholeStep, ApartStep
  <2>2. CASE UNCHANGED <<extraction_result, gate_results, extracted, posted>>
    <3>1. \A d \in Doc : state'[d] \in {"review", "complete"} => state'[d] = state[d]
      BY <1>0, <1>2, <2>2, WorkerSettles, ResultsAssumption
    <3> QED
      BY <1>0, <1>1, <2>1, <2>2, <3>1 DEF AInv, SettledIsDecided, EmptyIsGranted
  <2>3. ASSUME NEW d \in Doc, NEW r \in Fields \cup {EmptyResult},
               extraction_result[d] = NoResult,
               extraction_result' = [extraction_result EXCEPT ![d] = r],
               NEW verdict \in {"failed", "passed"}, NEW final \in {"review", "complete"},
               gate_results' = [gate_results EXCEPT ![d] = verdict],
               state' = [state EXCEPT ![d] = final],
               \/ UNCHANGED extracted
               \/ r \in Fields /\ extracted' = extracted \cup {ExtractedMsg(d, r)},
               UNCHANGED posted
        PROVE  AInv'
    <3>1. SettledIsDecided'
      BY <1>0, <2>3, ResultsAssumption DEF SettledIsDecided
    <3>2. \A e \in Doc : extraction_result[e] # NoResult /\ gate_results[e] # "passed" =>
            extraction_result'[e] # NoResult /\ gate_results'[e] # "passed"
      BY <1>0, <2>3
    <3>3. \A m \in extracted' : m.fields = NoResult => m \in extracted /\ m.doc \in Doc
      BY <1>0, <2>3, ResultsAssumption DEF ExtractedMsg, Extracted
    <3>4. EmptyIsGranted'
      BY <1>0, <2>3, <3>2, <3>3 DEF EmptyIsGranted
    <3> QED
      BY <1>1, <2>1, <3>1, <3>4 DEF AInv
  <2> QED
    BY <1>0, <1>2, <2>2, <2>3, WorkerSettles
<1>3. ASSUME LaneEffect \/ (\E d \in Doc : AcceptStep(d)) \/ SinkStep
      PROVE  NoneIncomplete' /\ NoneDuplicate'
  <2>1. UNCHANGED <<shards_total, artifactVars, extVars>>
    BY <1>3 DEF LaneEffect, AcceptStep, SinkStep, shardVars
  <2> QED
    BY <1>0, <2>1 DEF NoneIncomplete, NoneDuplicate, extVars, artifactVars
<1>4. CASE LaneEffect
  <2>1. SettledIsDecided'
    BY <1>0, <1>4 DEF LaneEffect, SettledIsDecided
  <2>2. EmptyIsGranted'
    BY <1>0, <1>4 DEF LaneEffect, EmptyIsGranted
  <2> QED
    BY <1>1, <1>3, <1>4, <2>1, <2>2 DEF AInv
<1>5. ASSUME NEW d \in Doc, AcceptStep(d)
      PROVE  AInv'
  <2>1. SettledIsDecided'
    BY <1>0, <1>5 DEF AcceptStep, SettledIsDecided
  <2>2. EmptyIsGranted'
    BY <1>0, <1>5 DEF AcceptStep, EmptyIsGranted, SettledIsDecided, ExtractedMsg, Extracted
  <2> QED
    BY <1>1, <1>3, <1>5, <2>1, <2>2 DEF AInv
<1>6. CASE SinkStep
  <2>1. \A m \in extracted : FieldsOf(m) = EmptyResult => m.fields = NoResult /\ m.doc \in Doc
    BY <1>0, ResultsAssumption DEF FieldsOf, Extracted
  <2>2. EmptyIsGranted'
    BY <1>0, <1>6, <2>1 DEF SinkStep, EmptyIsGranted
  <2>3. SettledIsDecided'
    BY <1>0, <1>6 DEF SinkStep, SettledIsDecided
  <2> QED
    BY <1>1, <1>3, <1>6, <2>2, <2>3 DEF AInv
<1> QED
  BY <1>0, <1>2, <1>4, <1>5, <1>6, StepKinds

\* A complete document is never moved again, by late workers, re-drives,
\* sweeps or operators (README.md:32-33), where no text lacks pages and no
\* invoice is scanned twice.
THEOREM CompleteIsFinalHolds == WholeTexts /\ KeysApart => (Spec => CompleteIsFinal)
<1> SUFFICES ASSUME WholeTexts, KeysApart PROVE Spec => CompleteIsFinal
  OBVIOUS
<1>1. Init => AInv
  BY AInvInit
<1>2. AInv /\ [Next]_vars => AInv'
  BY AInvNext
<1>3. ASSUME AInv, [Next]_vars
      PROVE  \A d \in Doc : state[d] = "complete" => state'[d] = "complete"
  <2>0. /\ TypeOK /\ PostingHasFields /\ OperationsCounted /\ SettledIsDecided
        /\ state \in [Doc -> States]
    BY <1>3 DEF AInv, KInv, GInv, EInv, TypeOK, LedgerTypeOK
  <2>1. ASSUME NEW w \in ExtractWorker, WorkerEffect(w), NEW d \in Doc, state[d] = "complete"
        PROVE  state'[d] = "complete"
    BY <1>3, <2>0, <2>1, WorkerSettles DEF SettledIsDecided
  <2>2. CASE LaneEffect
    BY <2>0, <2>2 DEF LaneEffect
  <2>3. CASE (\E d \in Doc : AcceptStep(d)) \/ SinkStep
    BY <2>0, <2>3 DEF AcceptStep, SinkStep
  <2> QED
    BY <1>3, <2>0, <2>1, <2>2, <2>3, StepKinds
<1> QED
  BY <1>1, <1>2, <1>3, PTL DEF Spec, CompleteIsFinal

\* A complete document says whether it earned that or was granted it, and if
\* it earned it, its row is what was extracted (accept_review's stamp), under
\* the same conditions: a rejected document that is accepted has no result,
\* and a late worker's overwrites the stamp.
THEOREM CompleteSaysWhyHolds == WholeTexts /\ KeysApart => (Spec => []CompleteSaysWhy)
<1> SUFFICES ASSUME WholeTexts, KeysApart PROVE Spec => []CompleteSaysWhy
  OBVIOUS
<1>1. Init => AInv
  BY AInvInit
<1>2. AInv /\ [Next]_vars => AInv'
  BY AInvNext
<1>3. AInv /\ CompleteIsEarned => CompleteSaysWhy
  BY DEF AInv, KInv, GInv, EInv, TypeOK, SinkTypeOK, Result, RowsTellResult, EmptyIsGranted,
     CompleteIsEarned, CompleteSaysWhy
<1> QED
  BY <1>1, <1>2, <1>3, CompleteIsEarnedHolds, PTL DEF Spec

-----------------------------------------------------------------------------
(***************************************************************************)
(* One live worker.  state_machine.sql:8-9 takes for granted that a        *)
(* re-drive does not produce two live workers on a document.  While that   *)
(* is so (Exclusive; nothing is assumed of texts, keys or answers) nobody  *)
(* is at work on a settled document, so nothing overwrites what it says.   *)
(***************************************************************************)

XInv == KInv /\ HeldIsUnsettled /\ PostedStands

LEMMA XInvInit == Init => XInv
<1> SUFFICES ASSUME Init PROVE XInv
  OBVIOUS
<1>1. HeldIsUnsettled
  BY DEF Init, ExtractionInit, HeldIsUnsettled, Holds
<1>2. PostedStands
  BY ResultsAssumption DEF Init, ResultsInit, SinkInit, PostedStands
<1> QED
  BY <1>1, <1>2, KInvInit DEF XInv

\* What a worker writes stands behind what it lets be posted, and is not
\* written over what was.
LEMMA StandsWorker ==
  ASSUME XInv, Exclusive, NEW w \in ExtractWorker, WorkerEffect(w)
  PROVE  HeldIsUnsettled' /\ PostedStands'
<1>0. /\ HeldIsUnsettled /\ PostedStands /\ UNCHANGED posted
      /\ state \in [Doc -> States] /\ extraction_result \in [Doc -> Result]
      /\ gate_results \in [Doc -> Verdicts] /\ posted \in [Doc -> Result]
      /\ invoice_key \in [Doc -> Keys] /\ extracted \subseteq Extracted
  BY DEF XInv, KInv, GInv, EInv, TypeOK, LedgerTypeOK, ResultsTypeOK, SinkTypeOK, WorkerEffect
<1>1. /\ HeldIsUnsettled'
      /\ \A d \in Doc : state[d] \in {"review", "complete"} => state'[d] = state[d]
  BY <1>0, WorkerUnsettled DEF WorkerEffect
<1>2. CASE UNCHANGED <<gate_results, extracted, invoice_key>>
  BY <1>0, <1>1, <1>2 DEF PostedStands, Extracted
<1>3. ASSUME NEW d \in Doc, Rejects(w, d) \/ Reviews(w, d) \/ Posts(w, d)
      PROVE  PostedStands'
  <2>1. state[d] # "complete"
    BY <1>0, <1>3 DEF Rejects, Reviews, Posts, Holds, At, NoJob, HeldIsUnsettled
  <2>2. \A e \in Doc \ {d} : /\ gate_results'[e] = gate_results[e]
                             /\ invoice_key'[e] = invoice_key[e]
    BY <1>0, <1>3 DEF Rejects, Reviews, Posts
  <2>3. \/ UNCHANGED extracted
        \/ \E f \in Fields : /\ state' = [state EXCEPT ![d] = "complete"]
                             /\ invoice_key' = [invoice_key EXCEPT ![d] = KeyOf[f]]
                             /\ extracted' = extracted \cup {ExtractedMsg(d, f)}
    BY <1>3 DEF Rejects, Reviews, Posts
  <2>4. ASSUME NEW m \in extracted
        PROVE  /\ m.doc \in Doc \ {d} /\ state'[m.doc] = "complete"
               /\ m.fields = NoResult => gate_results'[m.doc] = "accepted"
               /\ m.fields \in Fields => invoice_key'[m.doc] = KeyOf[m.fields]
    <3>1. m.doc \in Doc /\ state[m.doc] = "complete"
      BY <1>0 DEF PostedStands, Extracted
    <3> QED
      BY <1>0, <1>1, <2>1, <2>2, <3>1 DEF PostedStands
  <2>5. ASSUME NEW f \in Fields, NEW m, m = ExtractedMsg(d, f),
               state' = [state EXCEPT ![d] = "complete"],
               invoice_key' = [invoice_key EXCEPT ![d] = KeyOf[f]]
        PROVE  /\ state'[m.doc] = "complete"
               /\ m.fields = NoResult => gate_results'[m.doc] = "accepted"
               /\ m.fields \in Fields => invoice_key'[m.doc] = KeyOf[m.fields]
    BY <1>0, <2>5, ResultsAssumption DEF ExtractedMsg
  <2>6. \A e \in Doc : posted'[e] # NoResult =>
          /\ state'[e] = "complete"
          /\ posted'[e] = EmptyResult => gate_results'[e] = "accepted"
          /\ posted'[e] \in Fields => invoice_key'[e] = KeyOf[posted'[e]]
    BY <1>0, <1>1, <2>1, <2>2 DEF PostedStands
  <2> QED
    BY <2>3, <2>4, <2>5, <2>6 DEF PostedStands
<1> QED
  BY <1>1, <1>2, <1>3 DEF WorkerEffect, Begins

LEMMA XInvNext ==
  ASSUME XInv, Exclusive, [Next]_vars
  PROVE  XInv'
<1>0. /\ KInv /\ HeldIsUnsettled /\ PostedStands
      /\ TypeOK /\ PostingHasFields /\ OperationsCounted
      /\ state \in [Doc -> States] /\ gate_results \in [Doc -> Verdicts]
      /\ posted \in [Doc -> Result] /\ extracted \subseteq Extracted
  BY DEF XInv, KInv, GInv, EInv, TypeOK, LedgerTypeOK, ResultsTypeOK, SinkTypeOK
<1>1. KInv'
  BY <1>0, KInvNext
<1>2. ASSUME NEW w \in ExtractWorker, WorkerEffect(w)
      PROVE  XInv'
  BY <1>1, <1>2, StandsWorker DEF XInv
<1>3. CASE LaneEffect
  <2>1. \A d \in Doc : /\ state'[d] \in {"review", "complete"} => state'[d] = state[d]
                       /\ state[d] = "complete" => state'[d] = "complete"
    BY <1>0, <1>3 DEF LaneEffect
  <2>2. UNCHANGED <<ext_work, gate_results, invoice_key, extracted, posted>>
    BY <1>3 DEF LaneEffect, extVars
  <2>3. HeldIsUnsettled'
    BY <1>0, <2>1, <2>2 DEF HeldIsUnsettled, Holds
  <2>4. PostedStands'
    BY <1>0, <2>1, <2>2 DEF PostedStands, Extracted
  <2> QED
    BY <1>1, <2>3, <2>4 DEF XInv
<1>4. ASSUME NEW d \in Doc, AcceptStep(d)
      PROVE  XInv'
  <2>1. /\ \A e \in Doc \ {d} : state'[e] = state[e] /\ gate_results'[e] = gate_results[e]
        /\ state'[d] = "complete" /\ gate_results'[d] = "accepted"
        /\ state[d] \in {"review", "complete"}
        /\ extracted' = extracted \cup {ExtractedMsg(d, NoResult)}
        /\ UNCHANGED <<ext_work, invoice_key, posted>>
    BY <1>0, <1>4 DEF AcceptStep, extVars
  <2>2. HeldIsUnsettled'
    BY <1>0, <2>1 DEF HeldIsUnsettled, Holds
  <2>3. ASSUME NEW m \in extracted'
        PROVE  /\ state'[m.doc] = "complete"
               /\ m.fields = NoResult => gate_results'[m.doc] = "accepted"
               /\ m.fields \in Fields => invoice_key'[m.doc] = KeyOf[m.fields]
    <3>1. CASE m \in extracted
      BY <1>0, <2>1, <3>1 DEF PostedStands, Extracted
    <3>2. CASE m = ExtractedMsg(d, NoResult)
      BY <2>1, <3>2, ResultsAssumption DEF ExtractedMsg
    <3> QED
      BY <2>1, <3>1, <3>2
  <2>4. PostedStands'
    BY <1>0, <2>1, <2>3 DEF PostedStands
  <2> QED
    BY <1>1, <2>2, <2>4 DEF XInv
<1>5. CASE SinkStep
  <2>1. UNCHANGED <<state, ext_work, gate_results, invoice_key>> /\ extracted' \subseteq extracted
    BY <1>5 DEF SinkStep, extVars
  <2>2. \/ UNCHANGED posted
        \/ \E m \in extracted : posted' = [posted EXCEPT ![m.doc] = FieldsOf(m)]
    BY <1>5 DEF SinkStep
  <2>3. \A m \in extracted :
          /\ m.doc \in Doc
          /\ FieldsOf(m) = EmptyResult => m.fields = NoResult
          /\ FieldsOf(m) \in Fields => m.fields = FieldsOf(m)
    BY <1>0, ResultsAssumption DEF FieldsOf, Extracted
  <2>4. PostedStands'
    BY <1>0, <2>1, <2>2, <2>3 DEF PostedStands
  <2> QED
    BY <1>0, <1>1, <2>1, <2>4 DEF XInv, HeldIsUnsettled, Holds
<1> QED
  BY <1>0, <1>2, <1>3, <1>4, <1>5, StepKinds

\* "Only `complete` is truly final" (README.md:32-33): while no document is in
\* two workers' hands, whatever the texts, the answers and the operators do.
THEOREM CompleteIsFinalExclusive == Spec /\ []Exclusive => CompleteIsFinal
<1>1. ASSUME XInv, Exclusive, [Next]_vars
      PROVE  \A d \in Doc : state[d] = "complete" => state'[d] = "complete"
  <2>0. /\ TypeOK /\ PostingHasFields /\ OperationsCounted /\ HeldIsUnsettled
        /\ state \in [Doc -> States]
    BY <1>1 DEF XInv, KInv, GInv, EInv, TypeOK, LedgerTypeOK
  <2>1. ASSUME NEW w \in ExtractWorker, WorkerEffect(w), NEW d \in Doc, state[d] = "complete"
        PROVE  state'[d] = "complete"
    BY <1>1, <2>0, <2>1, WorkerUnsettled DEF WorkerEffect
  <2>2. CASE LaneEffect
    BY <2>0, <2>2 DEF LaneEffect
  <2>3. CASE (\E d \in Doc : AcceptStep(d)) \/ SinkStep
    BY <2>0, <2>3 DEF AcceptStep, SinkStep
  <2> QED
    BY <1>1, <2>0, <2>1, <2>2, <2>3, StepKinds
<1>2. XInv /\ Exclusive /\ [Next]_vars => XInv'
  BY XInvNext
<1> QED
  BY <1>1, <1>2, XInvInit, PTL DEF Spec, CompleteIsFinal

\* A complete document says why (accept_review's stamp), and its row is what
\* was extracted if it says it was earned, while no document is in two hands.
THEOREM CompleteSaysWhyExclusive == Spec /\ []Exclusive => []CompleteSaysWhy
<1>1. XInv /\ CompleteIsEarned => CompleteSaysWhy
  BY DEF XInv, KInv, GInv, EInv, TypeOK, SinkTypeOK, Result, RowsTellResult, PostedStands,
     CompleteIsEarned, CompleteSaysWhy
<1>2. XInv /\ Exclusive /\ [Next]_vars => XInv'
  BY XInvNext
<1> QED
  BY <1>1, <1>2, XInvInit, CompleteIsEarnedHolds, PTL DEF Spec

\* One invoice is posted once (business_dedupe and the unique index), also
\* when readings of a document differ in their key, while no document is in
\* two hands: the late worker is the only one who overwrites a posted key.
THEOREM NoDoubleInvoiceExclusive == Spec /\ []Exclusive => []NoDoubleInvoice
<1>1. XInv => NoDoubleInvoice
  BY ResultsAssumption DEF XInv, KInv, UniqueKeys, PostedStands, NoDoubleInvoice
<1>2. XInv /\ Exclusive /\ [Next]_vars => XInv'
  BY XInvNext
<1> QED
  BY <1>1, <1>2, XInvInit, PTL DEF Spec
=============================================================================
