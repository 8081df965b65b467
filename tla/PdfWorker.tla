----------------------------- MODULE PdfWorker ------------------------------
(***************************************************************************)
(* stages/pdf_worker_2.py, the consumer of text.embedded and ocr.split.    *)
(*                                                                         *)
(* text.embedded is handled in one transaction.  ocr.split is handled in   *)
(* three commits: begin_split's transaction, the uploads of do_split, and  *)
(* commit_split_result's transaction, which checks no state.               *)
(***************************************************************************)
EXTENDS Ledger, Artifacts

CONSTANTS
  PdfWorker,  \* the consumer processes of the group pdf-worker
  LayerSane   \* documents whose embedded text passes pdf_utils.text_sanity

ASSUME PdfWorkerAssumption == LayerSane \in [Doc -> BOOLEAN]

VARIABLE pdf_work  \* what each consumer is in the middle of

NoSplit == [phase |-> "idle"]
SplitJob == [phase : {"begun", "uploaded"}, doc : Doc]
PdfWorkerTypeOK == pdf_work \in [PdfWorker -> SplitJob \cup {NoSplit}]
PdfWorkerInit == pdf_work = [w \in PdfWorker |-> NoSplit]

\* Mutant: the document is handed on and its artifact never written.
TierZeroUnwritten(d, rest) ==
  /\ LayerSane[d]
  /\ state' = [state EXCEPT ![d] = "extract_pending"]
  /\ bus' = rest \cup {Msg("ocr.completed", d)}
  /\ UNCHANGED <<shardVars, assembled>>

\* handle_text_embedded, first half of the check-then-fall-through: the text
\* layer is good, so the artifact is written and extraction is next.
TierZero(d, rest) ==
  /\ LayerSane[d]
  /\ write_assembled(d)
  /\ state' = [state EXCEPT ![d] = "extract_pending"]
  /\ bus' = rest \cup {Msg("ocr.completed", d)}
  /\ UNCHANGED shardVars

\* The text layer is unusable: dispatch the document to OCR instead.
FallThrough(d, rest) ==
  /\ ~LayerSane[d]
  /\ has_text_layer' = [has_text_layer EXCEPT ![d] = FALSE]
  /\ shards_total' = [shards_total EXCEPT ![d] = 1]
  /\ bus' = rest \cup {Msg(route_text_production(FALSE, d), d)}
  /\ state' = [state EXCEPT ![d] = "text_pending"]
  /\ UNCHANGED <<shards_done, document_shards, assembled>>

handle_text_embedded(w) ==
  /\ pdf_work[w] = NoSplit
  /\ \E m \in bus : \E rest \in {bus, bus \ {m}} :
       /\ m.topic = "text.embedded"
       /\ Take(m, rest)
       /\ \/ /\ MayTransition(m.doc, {"text_pending"}, "text_running")
             /\ TierZero(m.doc, rest) \/ FallThrough(m.doc, rest)
          \/ /\ ~MayTransition(m.doc, {"text_pending"}, "text_running")
             /\ bus' = rest
             /\ UNCHANGED <<state, shardVars, assembled>>
  /\ UNCHANGED <<attemptVars, split_out, shard_out, pdf_work>>

begin_split(w) ==
  /\ pdf_work[w] = NoSplit
  /\ \E m \in bus : \E rest \in {bus, bus \ {m}} :
       /\ m.topic = "ocr.split"
       /\ Take(m, rest)
       /\ bus' = rest
       /\ \/ /\ MayTransition(m.doc, {"text_pending"}, "text_running")
             /\ state' = [state EXCEPT ![m.doc] = "text_running"]
             /\ pdf_work' = [pdf_work EXCEPT ![w] = [phase |-> "begun", doc |-> m.doc]]
          \/ /\ ~MayTransition(m.doc, {"text_pending"}, "text_running")
             /\ UNCHANGED <<state, pdf_work>>
  /\ UNCHANGED <<shardVars, attemptVars, artifactVars>>

\* Every sub-PDF is uploaded before any transaction is opened.
do_split(w) ==
  /\ pdf_work[w].phase = "begun"
  /\ upload_split(pdf_work[w].doc)
  /\ pdf_work' = [pdf_work EXCEPT ![w].phase = "uploaded"]
  /\ UNCHANGED <<ledgerVars, assembled, shard_out>>

\* Mutant: the shards are enqueued before their sub-PDFs are uploaded.
CommitBeforeUpload(w) ==
  /\ pdf_work[w].phase = "begun"
  /\ LET d == pdf_work[w].doc IN
       /\ shards_total' = [shards_total EXCEPT ![d] = NumShards[d]]
       /\ bus' = bus \cup {ShardMsg(d, i) : i \in AllShards(d)}
  /\ pdf_work' = [pdf_work EXCEPT ![w] = NoSplit]
  /\ UNCHANGED <<state, shards_done, has_text_layer, document_shards, attemptVars,
                 faults, artifactVars>>

commit_split_result(w) ==
  /\ pdf_work[w].phase = "uploaded"
  /\ LET d == pdf_work[w].doc IN
       /\ shards_total' = [shards_total EXCEPT ![d] = NumShards[d]]
       /\ bus' = bus \cup {ShardMsg(d, i) : i \in AllShards(d)}
  /\ pdf_work' = [pdf_work EXCEPT ![w] = NoSplit]
  /\ UNCHANGED <<state, shards_done, has_text_layer, document_shards, attemptVars,
                 faults, artifactVars>>

\* A download, an upload or a commit raises, or the process dies.  The
\* artifact of a tier-0 attempt may have been written before the rollback.
FailTextEmbedded(w) ==
  /\ pdf_work[w] = NoSplit
  /\ \E m \in bus :
       /\ m.topic = "text.embedded"
       /\ FailHolding(m, bus \ {m})
       /\ \/ UNCHANGED assembled
          \/ /\ MayTransition(m.doc, {"text_pending"}, "text_running")
             /\ LayerSane[m.doc]
             /\ write_assembled(m.doc)
  /\ UNCHANGED <<state, shardVars, attemptVars, split_out, shard_out, pdf_work>>

FailSplit(w) ==
  /\ pdf_work[w] # NoSplit
  /\ FailHolding(Msg("ocr.split", pdf_work[w].doc), bus)
  /\ pdf_work' = [pdf_work EXCEPT ![w] = NoSplit]
  /\ UNCHANGED <<state, shardVars, attemptVars, artifactVars>>

PdfWorkerStep(w) ==
  \/ handle_text_embedded(w) \/ begin_split(w) \/ do_split(w) \/ commit_split_result(w)
PdfWorkerFault(w) == FailTextEmbedded(w) \/ FailSplit(w)
=============================================================================
