----------------------------- MODULE Artifacts ------------------------------
(***************************************************************************)
(* The object store (core/artifact.py over infra/gcs.py): which objects    *)
(* exist.  Every path is a function of doc_id and shard index, so a second *)
(* upload replaces an object by an equal one, and nothing is deleted.      *)
(* Uploads are not part of any SQL transaction: they survive its rollback. *)
(***************************************************************************)
VARIABLES
  assembled,  \* documents whose ocr/<doc>.json exists
  split_out,  \* documents whose sub-PDFs shards/<doc>/<idx>.pdf all exist
  shard_out   \* pairs <<doc, idx>> whose shards_out/<doc>/<idx>.json exists

artifactVars == <<assembled, split_out, shard_out>>

write_assembled(d) == assembled' = assembled \cup {d}
upload_split(d) == split_out' = split_out \cup {d}
write_shard_output(d, i) == shard_out' = shard_out \cup {<<d, i>>}

ArtifactsInit ==
  /\ assembled = {}
  /\ split_out = {}
  /\ shard_out = {}
=============================================================================
