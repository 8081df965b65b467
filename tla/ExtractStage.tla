---------------------------- MODULE ExtractStage ----------------------------
(***************************************************************************)
(* Extraction as a whole: extraction workers, the sweeper, the break-glass *)
(* lane and the sink on one ledger.  It starts with documents as text      *)
(* production hands them on; a document that is re-driven to text          *)
(* production leaves this module.                                          *)
(***************************************************************************)
EXTENDS Extraction, Sink, Operator

CONSTANTS
  HasLayer,  \* tier-0 documents: their artifact exists already
  Outputs    \* the shard outputs <<doc, idx>> that are in the object store

ASSUME ExtractStageAssumption ==
  /\ HasLayer \in [Doc -> BOOLEAN]
  /\ Outputs \subseteq Doc \X Nat

vars == <<ledgerVars, artifactVars, resultVars, extVars, sweep_rows, opVars, posted>>

Init ==
  /\ state = [d \in Doc |-> "extract_pending"]
  /\ shards_total = [d \in Doc |-> IF HasLayer[d] THEN 1 ELSE NumShards[d]]
  /\ document_shards = [d \in Doc |-> IF HasLayer[d] THEN {} ELSE AllShards(d)]
  /\ shards_done = [d \in Doc |-> IF HasLayer[d] THEN 0 ELSE NumShards[d]]
  /\ has_text_layer = HasLayer
  /\ text_attempts = [d \in Doc |-> 0]
  /\ extract_attempts = [d \in Doc |-> 0]
  /\ bus = {Msg("ocr.completed", d) : d \in Doc}
  /\ faults = 0
  /\ assembled = {d \in Doc : HasLayer[d]}
  /\ split_out = {d \in Doc : ~HasLayer[d]}
  /\ shard_out = Outputs
  /\ ResultsInit
  /\ ExtractionInit
  /\ SweeperInit
  /\ OperatorInit
  /\ SinkInit

Extract(w) == (ExtractStep(w) \/ FailExtract(w)) /\ UNCHANGED <<sweep_rows, opVars, posted>>
Claim(batch) ==
  claim_batch(batch) /\ UNCHANGED <<artifactVars, resultVars, extVars, opVars, posted>>
Redrive ==
  redrive_document /\ UNCHANGED <<artifactVars, resultVars, extVars, opVars, posted>>
SweepFault == FailSweep /\ UNCHANGED <<artifactVars, resultVars, extVars, opVars, posted>>
Skip ==
  /\ SkipUnbegun({"ocr.completed"})
  /\ UNCHANGED <<artifactVars, resultVars, extVars, sweep_rows, opVars, posted>>
Operate(o) == OperatorStep(o) /\ UNCHANGED <<extVars, sweep_rows, posted>>
Switch(enabled) == set_kill_switch(enabled) /\ UNCHANGED <<extVars, sweep_rows, posted>>
Sink == handle_document_extracted /\ UNCHANGED <<artifactVars, extVars, sweep_rows, opVars>>
SinkFault == FailPost /\ UNCHANGED <<artifactVars, extVars, sweep_rows, opVars>>

Next ==
  \/ \E w \in ExtractWorker : Extract(w)
  \/ \E batch \in SUBSET Doc : Claim(batch)
  \/ Redrive
  \/ SweepFault
  \/ Skip
  \/ \E o \in Operators : Operate(o)
  \/ \E enabled \in BOOLEAN : Switch(enabled)
  \/ Sink
  \/ SinkFault

Spec == Init /\ [][Next]_vars

\* As in TextProduction: consumers poll on, the sweeper ticks on and claims the
\* document that waited longest.  Nobody has to operate.
Fairness ==
  /\ \A w \in ExtractWorker :
       WF_vars(ExtractStep(w) /\ UNCHANGED <<sweep_rows, opVars, posted>>)
  /\ \A d \in Doc : SF_vars(\E batch \in SUBSET Doc : d \in batch /\ Claim(batch))
  /\ WF_vars(Redrive)
  /\ WF_vars(Sink)

FairSpec == Spec /\ Fairness

-----------------------------------------------------------------------------
(* Properties. *)

\* Every variable holds a value of its type.
TypeOK ==
  /\ LedgerTypeOK
  /\ assembled \subseteq Doc /\ split_out \subseteq Doc /\ shard_out \subseteq Doc \X Nat
  /\ ResultsTypeOK
  /\ ExtractionTypeOK
  /\ SweeperTypeOK
  /\ OperatorTypeOK
  /\ SinkTypeOK

\* commit_extraction_result and the sink, seen from outside: a result is
\* decided once, whoever else is still working on the document, and the one
\* row that is posted is that result (or an operator's empty one).
Abstract == INSTANCE ExactlyOnce WITH result <- extraction_result, row <- posted
ImplementsExactlyOnce == Abstract!EOSpec

\* While a document is in extraction its result is still open, so that the
\* work on it can succeed: a discarded result (extraction_4.py:244-252) is
\* always that of a document somebody else has finished.  That is so until an
\* operator re-drives a document from review, whose result stays decided.
InFlightIsOpen ==
  \A d \in Doc : op_count = 0 /\ state[d] \in ExtractStates => extraction_result[d] = NoResult

\* README.md:32-33: "Only `complete` is truly final".  No late worker and no
\* operator moves a complete document.
CompleteIsFinal == [][\A d \in Doc : state[d] = "complete" => state'[d] = "complete"]_vars

\* One invoice is posted once, however often it was scanned (business_dedupe
\* and the unique index behind it).
NoDoubleInvoice ==
  \A d, e \in Doc : d # e /\ posted[d] \in Fields /\ posted[e] \in Fields =>
    KeyOf[posted[d]] = NoKey \/ KeyOf[posted[d]] # KeyOf[posted[e]]

\* accept_review's stamp: a complete document says whether it earned that, and
\* then its row is what was extracted, or was granted it.
CompleteSaysWhy ==
  \A d \in Doc : state[d] = "complete" =>
    \/ gate_results[d] = "accepted"
    \/ /\ gate_results[d] = "passed"
       /\ extraction_result[d] \in Fields
       /\ posted[d] \in {NoResult, extraction_result[d]}

\* A complete document reaches posted_documents (sink_stub_5.py:49: "no offset
\* commit; will redeliver").
CompletePosts == \A d \in Doc : state[d] = "complete" ~> posted[d] # NoResult

-----------------------------------------------------------------------------
(***************************************************************************)
(* What makes the properties inductive.                                    *)
(***************************************************************************)

\* Whoever is in the middle of an operation has begun one.
OperationsCounted == \A o \in Operators : op_work[o] # NoOp => op_count > 0

\* The general invariant, with those of Extraction, Results and Sink.
EInv == TypeOK /\ PostingHasFields /\ MessagesTellResult /\ RowsTellResult

\* A complete document was granted it, or earned it.
CompleteIsEarned ==
  \A d \in Doc : state[d] = "complete" =>
    \/ gate_results[d] = "accepted"
    \/ gate_results[d] = "passed" /\ extraction_result[d] \in Fields

\* No text lacks pages, the artifacts of tier 0 being whole by themselves.
WholeTexts ==
  /\ ~MayLosePages
  /\ \A d \in Doc : ~HasLayer[d] => \A i \in AllShards(d) : <<d, i>> \in Outputs

\* No two documents are scans of one invoice.
KeysApart ==
  \A d, e \in Doc : d # e =>
    \A f \in Answers[d] \cap Fields, g \in Answers[e] \cap Fields :
      KeyOf[f] = NoKey \/ KeyOf[f] # KeyOf[g]

\* However often a document is read, it has one business key.
SteadyKeys ==
  \A d \in Doc : \A f, g \in Answers[d] \cap Fields : KeyOf[f] = KeyOf[g]

\* With whole texts nobody comes to route a document for its text.
NoneIncomplete ==
  /\ shards_total = [d \in Doc |-> IF HasLayer[d] THEN 1 ELSE NumShards[d]]
  /\ shard_out = Outputs
  /\ partial = {}
  /\ \A d \in Doc : HasLayer[d] => d \in assembled
  /\ \A w \in ExtractWorker :
       /\ ext_work[w].phase \in {"loaded", "absent"} =>
            ext_work[w].total = shards_total[ext_work[w].doc]
       /\ ext_work[w].phase = "absent" => ~HasLayer[ext_work[w].doc]
       /\ ext_work[w].phase = "read" => ext_work[w].whole
       /\ ext_work[w].phase # "incomplete"

\* A key is that of an answer for its document; the index keeps keys apart.
KeyIsOfAnswer ==
  \A d \in Doc : invoice_key[d] = NoKey \/ \E f \in Answers[d] \cap Fields : invoice_key[d] = KeyOf[f]
UniqueKeys ==
  \A d, e \in Doc : d # e => invoice_key[d] = NoKey \/ invoice_key[d] # invoice_key[e]

\* Where keys are apart nobody comes to route a duplicate.
NoneDuplicate == \A w \in ExtractWorker : ext_work[w].phase # "duplicate"

\* Then a document that left extraction upwards has its result, ...
SettledIsDecided ==
  \A d \in Doc : state[d] \in {"review", "complete"} => extraction_result[d] # NoResult

\* ... and an empty row, or a message that will make one, belongs to a document
\* whose gates will never say "passed" again.
EmptyIsGranted ==
  /\ \A d \in Doc : posted[d] = EmptyResult =>
       extraction_result[d] # NoResult /\ gate_results[d] # "passed"
  /\ \A m \in extracted : m.fields = NoResult =>
       extraction_result[m.doc] # NoResult /\ gate_results[m.doc] # "passed"

\* While keys are steady the key of what is to be posted, or was, stands.
KeyStands ==
  /\ \A m \in extracted : m.fields \in Fields =>
       m.fields \in Answers[m.doc] /\ invoice_key[m.doc] = KeyOf[m.fields]
  /\ \A d \in Doc : posted[d] \in Fields =>
       posted[d] \in Answers[d] /\ invoice_key[d] = KeyOf[posted[d]]

\* While no document is in two hands, what was posted or is about to be stays
\* explained: an empty row by the stamp, one with fields by the key.
PostedStands ==
  /\ \A m \in extracted :
       /\ state[m.doc] = "complete"
       /\ m.fields = NoResult => gate_results[m.doc] = "accepted"
       /\ m.fields \in Fields => invoice_key[m.doc] = KeyOf[m.fields]
  /\ \A d \in Doc : posted[d] # NoResult =>
       /\ state[d] = "complete"
       /\ posted[d] = EmptyResult => gate_results[d] = "accepted"
       /\ posted[d] \in Fields => invoice_key[d] = KeyOf[posted[d]]
=============================================================================
