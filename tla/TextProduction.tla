--------------------------- MODULE TextProduction ---------------------------
(***************************************************************************)
(* Text production as a whole: pdf-worker, ocr-shard and the sweeper on    *)
(* one ledger, one bus and one object store.  It starts with documents as  *)
(* triage leaves them and ends where extraction takes over: nothing here   *)
(* consumes ocr.completed.                                                 *)
(***************************************************************************)
EXTENDS PdfWorker, OcrShard, Sweeper

CONSTANT HasLayer  \* documents triage saw a text layer in

ASSUME TextAssumption == HasLayer \in [Doc -> BOOLEAN]

vars == <<ledgerVars, artifactVars, pdf_work, ocr_work, sweep_rows>>

Init ==
  /\ LedgerInit(HasLayer)
  /\ ArtifactsInit
  /\ PdfWorkerInit
  /\ OcrShardInit
  /\ SweeperInit

Pdf(w) == (PdfWorkerStep(w) \/ PdfWorkerFault(w)) /\ UNCHANGED <<ocr_work, sweep_rows>>
Ocr(w) == (OcrShardStep(w) \/ FailShard(w)) /\ UNCHANGED <<pdf_work, sweep_rows>>
Claim(batch) == claim_batch(batch) /\ UNCHANGED <<artifactVars, pdf_work, ocr_work>>
Redrive == redrive_document /\ UNCHANGED <<artifactVars, pdf_work, ocr_work>>
SweepFault == FailSweep /\ UNCHANGED <<artifactVars, pdf_work, ocr_work>>
Skip ==
  /\ SkipUnbegun({"ocr.split", "ocr.shard"})
  /\ UNCHANGED <<artifactVars, pdf_work, ocr_work, sweep_rows>>

Next ==
  \/ \E w \in PdfWorker : Pdf(w)
  \/ \E w \in OcrWorker : Ocr(w)
  \/ \E batch \in SUBSET Doc : Claim(batch)
  \/ Redrive
  \/ SweepFault
  \/ Skip

Spec == Init /\ [][Next]_vars

(***************************************************************************)
(* Fairness.  Consumers poll in an endless loop and the sweeper ticks      *)
(* forever, so a step that stays possible is taken.  The claim query takes *)
(* the document that was untouched longest first (among equal priorities), *)
(* so a document that is in flight again and again is claimed again and    *)
(* again: strong fairness, per document.  Faults are never forced.         *)
(***************************************************************************)
Fairness ==
  /\ \A w \in PdfWorker :
       WF_vars(PdfWorkerStep(w) /\ UNCHANGED <<ocr_work, sweep_rows>>)
  /\ \A w \in OcrWorker :
       WF_vars(OcrShardStep(w) /\ UNCHANGED <<pdf_work, sweep_rows>>)
  /\ \A d \in Doc : SF_vars(\E batch \in SUBSET Doc : d \in batch /\ Claim(batch))
  /\ WF_vars(Redrive)

FairSpec == Spec /\ Fairness

-----------------------------------------------------------------------------
(* Properties. *)

\* Every variable holds a value of its type (the columns of migrations/001,
\* the jobs of the consumers, the rows of the sweeper).
TypeOK ==
  /\ LedgerTypeOK
  /\ assembled \subseteq Doc
  /\ split_out \subseteq Doc
  /\ shard_out \subseteq Doc \X Nat
  /\ PdfWorkerTypeOK
  /\ OcrShardTypeOK
  /\ SweeperTypeOK

\* The documents that have embedded text that turns out unusable, and more
\* pages than one shard: for these a second text.embedded resets shards_total
\* while their shards are being recorded (run text_fall_through).
FallsThroughToSplit(d) == HasLayer[d] /\ ~LayerSane[d] /\ NumShards[d] > 1
Joinable == {d \in Doc : ~FallsThroughToSplit(d)}
IsTierZero(d) == HasLayer[d] /\ LayerSane[d]

\* Join bookkeeping (scatter_gather_join.sql): shards_done counts the rows of
\* document_shards, whatever is redelivered, re-driven or rolled back, and
\* every recorded shard has its output in the object store and is a real one.
ShardAccounting ==
  \A d \in Doc :
    /\ shards_done[d] = Cardinality(document_shards[d])
    /\ \A i \in document_shards[d] : i \in AllShards(d) /\ <<d, i>> \in shard_out

\* The text of d exists: as an artifact, or as the output of every shard.
TextExists(d) == d \in assembled \/ \A i \in AllShards(d) : <<d, i>> \in shard_out

\* No premature join: extraction is told of a document only when its whole
\* text exists and the ledger says how many shards to read it from.
HandedOnWithText ==
  \A d \in Joinable :
    (state[d] \in ExtractStates \/ Msg("ocr.completed", d) \in bus) =>
      /\ TextExists(d)
      /\ d \in assembled \/ shards_total[d] = NumShards[d]

\* No lost join: there is no document whose shards are all recorded and that
\* still waits for its text.  Nobody would ever join it: every further
\* delivery of a shard is a duplicate.
AllRecorded(d) == document_shards[d] = AllShards(d)
NotStranded(D) == \A d \in D : state[d] \in TextStates => ~AllRecorded(d)
NoLostJoin == NotStranded(Joinable)

\* The same of every document, as outbox.py:60-63 has it: "every consumer in
\* this pipeline is idempotent by construction", so a second text.embedded is
\* harmless.  It is not: it resets shards_total to 1 and the state to
\* text_pending while shards are being recorded.
NeverStranded == NotStranded(Doc)

\* A shard message names an object that can be downloaded: the source of a
\* one-shard document, or a sub-PDF that was uploaded before the message.
ShardInputExists ==
  \A d \in Doc : \A i \in AllShards(d) :
    ShardMsg(d, i) \in bus /\ NumShards[d] > 1 => d \in split_out

\* Once a document is handed on, text production leaves alone what extraction
\* reads and writes: its state and shards_total, whatever is still in flight
\* (a second split that has begun, a stale re-drive, a late shard).
HandedOnIsFinal ==
  [][\A d \in Joinable : state[d] = "extract_pending" =>
       /\ state'[d] = "extract_pending"
       /\ shards_total'[d] = shards_total[d]
       /\ document_shards'[d] = document_shards[d]]_vars

\* Every document leaves text production: its text is made, or it is failed
\* (there is nothing in between that the sweeper would not pick up).
TextSettles ==
  \A d \in Doc : state[d] \in TextStates ~> state[d] \notin TextStates

\* The abstract text stage: the document's state read as a stage, the rows of
\* document_shards as the pieces; the one piece of a tier-0 document is its
\* embedded text.
Pieces(d) == IF IsTierZero(d) THEN {0} ELSE AllShards(d)
StageOf(d) ==
  IF state[d] \in TextStates THEN "gathering"
  ELSE IF state[d] \in ExtractStates THEN "ready" ELSE "abandoned"
Gathered(d) ==
  IF IsTierZero(d) THEN IF state[d] \in ExtractStates THEN {0} ELSE {}
  ELSE document_shards[d]

Abstract == INSTANCE TextStage WITH
  Doc <- Joinable,
  Pieces <- Pieces,
  stage <- [d \in Joinable |-> StageOf(d)],
  gathered <- [d \in Joinable |-> Gathered(d)]

\* Text production implements the abstract text stage: pieces are gathered
\* once each, and the step that records the last one, and no other, hands the
\* document on.
ImplementsTextStage == Abstract!TSSpec
-----------------------------------------------------------------------------
(***************************************************************************)
(* The inductive invariant.  It says of every document where its messages, *)
(* jobs and claimed rows can have come from: a tier-0 document never meets *)
(* OCR, and nobody holds a shard of a document that was not split, so the  *)
(* provisional shards_total of 1 is never what a join compares with.       *)
(***************************************************************************)

\* The shards of d may be worked on: they are uploaded, and shards_total is
\* authoritative (for good, unless d falls through to a split).
IsSplit(d) ==
  NumShards[d] > 1 => d \in split_out /\ (d \in Joinable => shards_total[d] = NumShards[d])

BusInv ==
  \A m \in bus :
    /\ m.topic = "text.embedded" => HasLayer[m.doc]
    /\ m.topic \in {"ocr.split", "ocr.shard"} => ~IsTierZero(m.doc)
    /\ m.topic = "ocr.shard" => m.shard \in AllShards(m.doc) /\ IsSplit(m.doc)
    /\ m.topic = "ocr.completed" => state[m.doc] = "extract_pending"

PdfInv ==
  \A w \in PdfWorker : pdf_work[w].phase # "idle" =>
    /\ ~IsTierZero(pdf_work[w].doc)
    /\ pdf_work[w].phase = "uploaded" => pdf_work[w].doc \in split_out

OcrInv ==
  \A w \in OcrWorker : ocr_work[w].phase # "idle" =>
    /\ ~IsTierZero(ocr_work[w].doc)
    /\ ocr_work[w].shard \in AllShards(ocr_work[w].doc)
    /\ IsSplit(ocr_work[w].doc)
    /\ ocr_work[w].phase = "written" => <<ocr_work[w].doc, ocr_work[w].shard>> \in shard_out

RowInv ==
  \A row \in sweep_rows :
    /\ row.has_text_layer => HasLayer[row.doc]
    /\ IsTierZero(row.doc) => row.has_text_layer /\ row.shards_total = 1
    /\ row.shards_total \in {1, NumShards[row.doc]}
    /\ row.shards_total > 1 => IsSplit(row.doc)
    /\ row.state \in ExtractStates => state[row.doc] = "extract_pending"

DocInv ==
  \A d \in Doc :
    /\ state[d] \in TextStates \cup {"extract_pending", "failed"}
    /\ has_text_layer[d] => HasLayer[d]
    /\ IsTierZero(d) => has_text_layer[d] /\ shards_total[d] = 1 /\ document_shards[d] = {}
    /\ shards_total[d] \in {1, NumShards[d]}
    /\ shards_total[d] > 1 => d \in split_out

ShardInv ==
  \A d \in Doc :
    /\ document_shards[d] \subseteq AllShards(d)
    /\ shards_done[d] = Cardinality(document_shards[d])
    /\ \A i \in document_shards[d] : <<d, i>> \in shard_out
    /\ document_shards[d] # {} => IsSplit(d)

JoinInv ==
  \A d \in Joinable :
    /\ state[d] # "extract_pending" => ~AllRecorded(d)
    /\ state[d] = "extract_pending" =>
         \/ IsTierZero(d) /\ d \in assembled
         \/ ~IsTierZero(d) /\ AllRecorded(d) /\ shards_total[d] = NumShards[d]

IInv == TypeOK /\ BusInv /\ PdfInv /\ OcrInv /\ RowInv /\ DocInv /\ ShardInv /\ JoinInv
=============================================================================
