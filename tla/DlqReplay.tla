----------------------------- MODULE DlqReplay ------------------------------
(***************************************************************************)
(* Batches of re-drives: reconciliation/dlq_replay.py, a daily job, and    *)
(* operator.bulk_redrive, a person.  Both select documents in one          *)
(* statement and then call force_redrive for one after the other: every    *)
(* document is read again, and committed, on its own.  A document that is  *)
(* no longer in review or failed is skipped (BreakGlassError); one that    *)
(* moves between the read and the update ends the whole batch, because     *)
(* nobody catches IllegalTransition.                                       *)
(*                                                                         *)
(* What gates the replay is the pairing of build_sha and prompt_version    *)
(* that a document was last extracted with: `stamp`, written by nobody but *)
(* extraction when it loads the document.  Pairings are numbered in the    *)
(* order of their deployment, and one is deployed everywhere at once.      *)
(***************************************************************************)
EXTENDS Operator

CONSTANTS
  Cron,               \* the replay job
  BlastRadiusCap,     \* config.BREAK_GLASS_BLAST_RADIUS_CAP
  MaxDeploys,         \* bound: deployments in one behaviour
  MaxReplays          \* bound: runs of the replay job

ASSUME DlqReplayAssumption ==
  /\ Cron \in Operators
  /\ BlastRadiusCap \in Nat /\ MaxDeploys \in Nat /\ MaxReplays \in Nat

VARIABLES
  version,   \* the pairing that is deployed
  stamp,     \* documents.(build_sha, prompt_version)
  batch,     \* documents that a batch has still to re-drive
  runs       \* replay runs begun so far

NoStamp == -1
Stamps == NoStamp .. MaxDeploys
replayVars == <<version, stamp, batch, runs>>

ReplayTypeOK ==
  /\ version \in 0 .. MaxDeploys
  /\ stamp \in [Doc -> Stamps]
  /\ batch \in [Operators -> SUBSET Doc]
  /\ runs \in 0 .. MaxReplays
ReplayInit ==
  /\ version = 0
  /\ stamp = [d \in Doc |-> NoStamp]
  /\ batch = [o \in Operators |-> {}]
  /\ runs = 0

Idle(o) == op_work[o] = NoOp /\ batch[o] = {}

\* A new build, or a new prompt.
Deploy ==
  /\ version < MaxDeploys
  /\ version' = version + 1
  /\ UNCHANGED <<stamp, batch, runs>>

\* `failed`, and not last extracted with what is deployed (IS DISTINCT FROM:
\* a document that never was is replayed).
FIND_REPLAYABLE(d) == state[d] = "failed" /\ stamp[d] # version

find_replayable ==
  /\ Idle(Cron)
  /\ runs < MaxReplays
  /\ runs' = runs + 1
  /\ batch' = [batch EXCEPT ![Cron] = {d \in Doc : FIND_REPLAYABLE(d)}]
  /\ UNCHANGED <<version, stamp, ledgerVars, artifactVars, resultVars, opVars>>

\* Any predicate; above the cap a second person has to approve.
bulk_redrive(o) ==
  /\ Idle(o)
  /\ op_count < MaxOperations
  /\ op_count' = op_count + 1
  /\ \E matched \in SUBSET Doc, approved \in BOOLEAN :
       /\ Cardinality(matched) <= BlastRadiusCap \/ approved
       /\ batch' = [batch EXCEPT ![o] = matched]
  /\ UNCHANGED <<version, stamp, runs, ledgerVars, artifactVars, resultVars, op_work>>

\* force_redrive of the next document: its row is read, and it is skipped if
\* its state says so.
batch_next(o) ==
  /\ op_work[o] = NoOp
  /\ \E d \in batch[o] :
       /\ batch' = [batch EXCEPT ![o] = @ \ {d}]
       /\ IF state[d] \in {"review", "failed"} THEN ReadRow(o, "redrive", d)
          ELSE UNCHANGED op_work
  /\ UNCHANGED <<version, stamp, runs, ledgerVars, artifactVars, resultVars, op_count>>

\* Its update, or the end of the batch.
batch_redrive(o) ==
  /\ op_work[o].kind = "redrive"
  /\ \E to \in redrive_target_states(op_work[o]) :
       \/ Redriven(o, to) /\ UNCHANGED batch
       \/ Refused(o, to) /\ batch' = [batch EXCEPT ![o] = {}]
  /\ op_work' = [op_work EXCEPT ![o] = NoOp]
  /\ UNCHANGED <<version, stamp, runs, shardVars, attemptVars, faults, artifactVars,
                 resultVars, op_count>>

ReplayStep == find_replayable \/ batch_next(Cron) \/ batch_redrive(Cron)
BulkStep(o) == bulk_redrive(o) \/ batch_next(o)
=============================================================================
