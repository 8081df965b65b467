------------------------------ MODULE OcrShard ------------------------------
(***************************************************************************)
(* stages/ocr_shard_3.py, the consumer of ocr.shard: two transactions with *)
(* the OCR and the upload of its output between them.                      *)
(***************************************************************************)
EXTENDS Ledger, Artifacts

CONSTANT OcrWorker  \* the consumer processes of the group ocr-shard

VARIABLE ocr_work   \* what each consumer is in the middle of

NoShard == [phase |-> "idle"]
ShardJob == [phase : {"ocr", "written"}, doc : Doc, shard : Nat]
OcrShardTypeOK == ocr_work \in [OcrWorker -> ShardJob \cup {NoShard}]
OcrShardInit == ocr_work = [w \in OcrWorker |-> NoShard]

\* handle_shard's first transaction: the state is advanced on receipt.
begin_shard(w) ==
  /\ ocr_work[w] = NoShard
  /\ \E m \in bus : \E rest \in {bus, bus \ {m}} :
       /\ m.topic = "ocr.shard"
       /\ Take(m, rest)
       /\ bus' = rest
       /\ \/ /\ MayTransition(m.doc, {"text_pending"}, "text_running")
             /\ state' = [state EXCEPT ![m.doc] = "text_running"]
             /\ ocr_work' = [ocr_work EXCEPT ![w] =
                               [phase |-> "ocr", doc |-> m.doc, shard |-> m.shard]]
          \/ /\ ~MayTransition(m.doc, {"text_pending"}, "text_running")
             /\ UNCHANGED <<state, ocr_work>>
  /\ UNCHANGED <<shardVars, attemptVars, artifactVars>>

\* Download, rasterise, OCR, upload: no ledger access.
ocr_pages(w) ==
  /\ ocr_work[w].phase = "ocr"
  /\ write_shard_output(ocr_work[w].doc, ocr_work[w].shard)
  /\ ocr_work' = [ocr_work EXCEPT ![w].phase = "written"]
  /\ UNCHANGED <<ledgerVars, assembled, split_out>>

\* The second transaction.  When the join's transition is illegal everything
\* is rolled back and the offset is committed all the same.
finish_shard(w) ==
  /\ ocr_work[w].phase = "written"
  /\ record_shard_and_maybe_join(ocr_work[w].doc, ocr_work[w].shard)
  /\ ocr_work' = [ocr_work EXCEPT ![w] = NoShard]
  /\ UNCHANGED <<shards_total, has_text_layer, attemptVars, faults, artifactVars>>

FailShard(w) ==
  /\ ocr_work[w] # NoShard
  /\ FailHolding(ShardMsg(ocr_work[w].doc, ocr_work[w].shard), bus)
  /\ ocr_work' = [ocr_work EXCEPT ![w] = NoShard]
  /\ UNCHANGED <<state, shardVars, attemptVars, artifactVars>>

OcrShardStep(w) == begin_shard(w) \/ ocr_pages(w) \/ finish_shard(w)
=============================================================================
