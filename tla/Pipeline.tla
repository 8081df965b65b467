------------------------------ MODULE Pipeline ------------------------------
(***************************************************************************)
(* Everything that runs on the ledger once triage has written the row:     *)
(* text production, extraction, the sweeper, people, the replay job and    *)
(* the sink, until the document is posted.  What the stages are shown to   *)
(* do alone under assumptions about each other (TextProduction hands on    *)
(* whole texts, ExtractStage is given them) is checked here without them:  *)
(* a document may be re-driven to text production after extraction failed  *)
(* it, and a text that was handed on too early really is assembled.        *)
(***************************************************************************)
EXTENDS PdfWorker, OcrShard, Extraction, Sink, DlqReplay

CONSTANT HasLayer  \* documents triage saw a text layer in

ASSUME PipelineAssumption == HasLayer \in [Doc -> BOOLEAN]

textVars == <<pdf_work, ocr_work>>
laneVars == <<sweep_rows, opVars, replayVars>>
vars == <<ledgerVars, artifactVars, resultVars, textVars, extVars, laneVars, posted>>

Init ==
  /\ LedgerInit(HasLayer)
  /\ ArtifactsInit
  /\ ResultsInit
  /\ PdfWorkerInit /\ OcrShardInit /\ ExtractionInit
  /\ SweeperInit /\ OperatorInit /\ ReplayInit
  /\ SinkInit

\* stamp_build_info, in the commit that loads the document.
stamp_build_info(w) ==
  stamp' = IF ext_work[w].phase = "begun" /\ ext_work'[w].phase = "loaded"
           THEN [stamp EXCEPT ![ext_work[w].doc] = version] ELSE stamp

PdfSteps(w) == PdfWorkerStep(w) /\ UNCHANGED <<resultVars, ocr_work, extVars, laneVars, posted>>
OcrSteps(w) == OcrShardStep(w) /\ UNCHANGED <<resultVars, pdf_work, extVars, laneVars, posted>>
ExtractSteps(w) ==
  /\ ExtractStep(w) /\ stamp_build_info(w)
  /\ UNCHANGED <<textVars, sweep_rows, opVars, version, batch, runs, posted>>
SinkSteps ==
  handle_document_extracted /\ UNCHANGED <<artifactVars, textVars, extVars, laneVars>>
Claim(doc) ==
  /\ \E docs \in SUBSET Doc : doc \in docs /\ claim_batch(docs)
  /\ UNCHANGED <<artifactVars, resultVars, textVars, extVars, opVars, replayVars, posted>>
Redrive ==
  /\ redrive_document
  /\ UNCHANGED <<artifactVars, resultVars, textVars, extVars, opVars, replayVars, posted>>

Faults ==
  \/ \E w \in PdfWorker :
       PdfWorkerFault(w) /\ UNCHANGED <<resultVars, ocr_work, extVars, laneVars, posted>>
  \/ \E w \in OcrWorker :
       FailShard(w) /\ UNCHANGED <<resultVars, pdf_work, extVars, laneVars, posted>>
  \/ \E w \in ExtractWorker : FailExtract(w) /\ UNCHANGED <<textVars, laneVars, posted>>
  \/ /\ SkipUnbegun({"ocr.split", "ocr.shard", "ocr.completed"})
     /\ UNCHANGED <<artifactVars, resultVars, textVars, extVars, laneVars, posted>>
  \/ /\ FailSweep
     /\ UNCHANGED <<artifactVars, resultVars, textVars, extVars, opVars, replayVars, posted>>
  \/ FailPost /\ UNCHANGED <<artifactVars, textVars, extVars, laneVars>>

\* The operators' lane.  A person works on one batch at a time.
Operate(o) ==
  /\ \/ Idle(o) /\ (begin_redrive(o) \/ begin_accept(o)) /\ UNCHANGED replayVars
     \/ accept_review(o) /\ UNCHANGED replayVars
     \/ BulkStep(o) \/ batch_redrive(o)
  /\ UNCHANGED <<textVars, extVars, sweep_rows, posted>>
Switch(enabled) ==
  set_kill_switch(enabled) /\ UNCHANGED <<textVars, extVars, sweep_rows, replayVars, posted>>
Replay == ReplayStep /\ UNCHANGED <<textVars, extVars, sweep_rows, posted>>
Release ==
  /\ Deploy
  /\ UNCHANGED <<ledgerVars, artifactVars, resultVars, textVars, extVars, sweep_rows, opVars, posted>>

Next ==
  \/ \E w \in PdfWorker : PdfSteps(w)
  \/ \E w \in OcrWorker : OcrSteps(w)
  \/ \E w \in ExtractWorker : ExtractSteps(w)
  \/ SinkSteps
  \/ \E doc \in Doc : Claim(doc)
  \/ Redrive
  \/ Faults
  \/ \E o \in Operators \ {Cron} : Operate(o)
  \/ \E enabled \in BOOLEAN : Switch(enabled)
  \/ Replay
  \/ Release

Spec == Init /\ [][Next]_vars

\* As in the stages: consumers poll on, the sweeper ticks on and claims the
\* document that waited longest.  Nobody has to operate, deploy or replay.
Fairness ==
  /\ \A w \in PdfWorker : WF_vars(PdfSteps(w))
  /\ \A w \in OcrWorker : WF_vars(OcrSteps(w))
  /\ \A w \in ExtractWorker : WF_vars(ExtractSteps(w))
  /\ WF_vars(SinkSteps)
  /\ \A doc \in Doc : SF_vars(Claim(doc))
  /\ WF_vars(Redrive)

FairSpec == Spec /\ Fairness

-----------------------------------------------------------------------------
(* Properties. *)

TypeOK ==
  /\ LedgerTypeOK
  /\ assembled \subseteq Doc /\ split_out \subseteq Doc /\ shard_out \subseteq Doc \X Nat
  /\ ResultsTypeOK
  /\ PdfWorkerTypeOK /\ OcrShardTypeOK /\ ExtractionTypeOK
  /\ SweeperTypeOK /\ OperatorTypeOK /\ ReplayTypeOK
  /\ SinkTypeOK

IsTierZero(d) == HasLayer[d] /\ LayerSane[d]

\* All the outputs that make the text of d are in the object store.
Whole(d) == IsTierZero(d) \/ \A i \in AllShards(d) : <<d, i>> \in shard_out

\* End to end: what is posted with fields was extracted from the whole text,
\* also of a document whose join came too early (text_fall_through) or that
\* was re-driven in the middle of either stage.
PostedHasWholeText == \A d \in Doc : posted[d] \in Fields => Whole(d)

\* And the artifact it was extracted from is in the store, with every page
\* that OCR wrote, as long as nobody else assembles the document meanwhile.
PostedLacksNoPage ==
  \A d \in Doc : posted[d] \in Fields => IsTierZero(d) \/ d \in assembled \ partial

\* What is decided and what is posted, seen from outside, whatever happens to
\* the document between its dispatch and its row.
Abstract == INSTANCE ExactlyOnce WITH result <- extraction_result, row <- posted
ImplementsExactlyOnce == Abstract!EOSpec

\* No document is kept in flight forever, whoever re-drives it: it is posted,
\* reviewed or failed.
Settles == \A d \in Doc : state[d] \in InFlightStates ~> state[d] \notin InFlightStates

\* README.md:32-33: "Only `complete` is truly final".  A person, a batch and
\* the replay job decide on rows they read earlier, from different states, and
\* still none of them moves a document that was completed in the meantime.
CompleteIsFinal == [][\A d \in Doc : state[d] = "complete" => state'[d] = "complete"]_vars

\* terminal_report.py:10-12: a document leaves review by force_redrive "to
\* re-extract".  So whoever is about to commit a document that is in extraction
\* finds its result open.
RedrivenIsOpen ==
  \A w \in ExtractWorker : \A d \in Doc :
    At(w, "post", d) /\ state[d] = "extract_running" => extraction_result[d] = NoResult

-----------------------------------------------------------------------------
(***************************************************************************)
(* What makes the properties inductive.                                    *)
(***************************************************************************)

\* Only a document that triage saw a text layer in is handled as one that has
\* it, by whomever and from whatever row.
LayerInv ==
  /\ \A d \in Doc : has_text_layer[d] => HasLayer[d]
  /\ \A row \in sweep_rows : row.has_text_layer => HasLayer[row.doc]
  /\ \A o \in Operators : op_work[o] # NoOp =>
       (op_work[o].row.has_text_layer => HasLayer[op_work[o].row.doc])
  /\ \A m \in bus : m.topic = "text.embedded" => HasLayer[m.doc]

\* The completeness gate was passed: an artifact without holes is all of the
\* text, and so is what a worker goes on with and what it decided.
PastGate == {"attempt", "judged", "post", "hold", "duplicate"}
WholeInv ==
  /\ \A d \in assembled \ partial : Whole(d)
  /\ \A w \in ExtractWorker :
       /\ ext_work[w].phase = "read" /\ ext_work[w].whole => Whole(ext_work[w].doc)
       /\ ext_work[w].phase \in PastGate => Whole(ext_work[w].doc)
  /\ \A d \in Doc : extraction_result[d] \in Fields => Whole(d)

PInv ==
  /\ TypeOK /\ PostingHasFields /\ MessagesTellResult /\ RowsTellResult
  /\ LayerInv
  /\ WholeInv

\* While no document is in two hands, an artifact found absent stays so until
\* it is written, and one that was read stays as it was.
Kept(d) == IsTierZero(d) \/ d \in assembled \ partial
KeptInv ==
  /\ \A w \in ExtractWorker :
       /\ ext_work[w].phase = "absent" => IsTierZero(ext_work[w].doc) \/ ext_work[w].doc \notin assembled
       /\ ext_work[w].phase = "read" /\ ext_work[w].whole => Kept(ext_work[w].doc)
       /\ ext_work[w].phase \in PastGate => Kept(ext_work[w].doc)
  /\ \A d \in Doc : extraction_result[d] \in Fields => Kept(d)
=============================================================================
