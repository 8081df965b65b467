------------------------------- MODULE Ledger -------------------------------
(***************************************************************************)
(* The document ledger (core/ledger.py and core/sql/): the columns of the  *)
(* Postgres table `documents` that text production and its recovery read   *)
(* and write, the table `document_shards`, and the transactional outbox.   *)
(*                                                                         *)
(* One SQL transaction is one step.  A handler of several transactions is  *)
(* several actions, because another process may run between two commits.   *)
(*                                                                         *)
(* The outbox row, the relay that publishes it and the Kafka record are    *)
(* one message in `bus`, the set of messages that a consumer may still be  *)
(* given.  Delivery is at-least-once: Take lets a message stay behind      *)
(* after it was handled (a relay that rolled back after the broker had it, *)
(* a consumer that died before its offset commit), as often as MaxFaults   *)
(* allows.  A set is enough because a second copy of a message that is     *)
(* already in `bus` is the same as one more redelivery of it.              *)
(***************************************************************************)
EXTENDS Integers, FiniteSets

CONSTANTS
  Doc,                \* the documents; a doc_id is the checksum of its bytes
  NumShards,          \* the shards the pages of a document really make
  MaxTextAttempts,    \* config.MAX_TEXT_ATTEMPTS
  MaxExtractAttempts, \* config.MAX_EXTRACT_ATTEMPTS
  MaxFaults           \* bound: redeliveries and failures in one behaviour

ASSUME LedgerAssumption ==
  /\ IsFiniteSet(Doc)
  /\ NumShards \in [Doc -> Nat \ {0}]
  /\ MaxTextAttempts \in Nat
  /\ MaxExtractAttempts \in Nat
  /\ MaxFaults \in Nat

VARIABLES
  state,            \* documents.state
  shards_total,     \* documents.shards_total
  shards_done,      \* documents.shards_done
  has_text_layer,   \* documents.has_text_layer
  text_attempts,    \* documents.text_attempts
  extract_attempts, \* documents.extract_attempts
  document_shards,  \* the rows of table document_shards, per document
  bus,              \* outbox and Kafka: messages still to be delivered
  faults            \* redeliveries and failures so far

shardVars == <<shards_total, shards_done, has_text_layer, document_shards>>
attemptVars == <<text_attempts, extract_attempts>>
ledgerVars == <<state, shardVars, attemptVars, bus, faults>>

TextStates == {"text_pending", "text_running"}
ExtractStates == {"extract_pending", "extract_running"}
InFlightStates == TextStates \cup ExtractStates
RunningStates == {"text_running", "extract_running"}
States == InFlightStates \cup {"complete", "review", "failed"}

Topics == {"text.embedded", "ocr.split", "ocr.shard", "ocr.completed"}

\* Every message has the same fields; only ocr.shard uses the shard index.
Message == [topic : Topics, doc : Doc, shard : Nat]
Msg(topic, d) == [topic |-> topic, doc |-> d, shard |-> 0]
ShardMsg(d, i) == [topic |-> "ocr.shard", doc |-> d, shard |-> i]

AllShards(d) == 0 .. (NumShards[d] - 1)

-----------------------------------------------------------------------------
(* The guarded state machine. *)

ALLOWED_TRANSITIONS ==
  { <<"text_pending", "text_running">>,
    <<"text_running", "extract_pending">>,
    <<"text_running", "text_pending">>,
    <<"text_running", "review">>,
    <<"text_running", "failed">>,
    <<"extract_pending", "extract_running">>,
    <<"extract_running", "complete">>,
    <<"extract_running", "review">>,
    <<"extract_running", "extract_pending">>,
    <<"extract_running", "failed">>,
    <<"review", "extract_pending">>,
    <<"failed", "text_pending">>,
    <<"failed", "extract_pending">>,
    <<"review", "complete">> }

\* The from_states a caller of transition gets when it names none.
Predecessors(to) == {s \in States : <<s, to>> \in ALLOWED_TRANSITIONS}

\* Mutant: the from_states of the UPDATE's WHERE clause are dropped.
MayAlwaysTransition(d, from, to) == TRUE

\* The guard of ledger.transition, whose callers all leave idempotent=True:
\* a row already in the target state is let through.  When it is FALSE the
\* code raises IllegalTransition and the caller's transaction is rolled back.
MayTransition(d, from, to) == state[d] \in from \cup {to}

-----------------------------------------------------------------------------
(* Messages. *)

\* The topic a document's text production is dispatched to.  page_count <=
\* SHARD_SIZE_PAGES says that the pages make one shard.
route_text_production(has_layer, d) ==
  IF has_layer THEN "text.embedded"
  ELSE IF NumShards[d] = 1 THEN "ocr.shard" ELSE "ocr.split"

\* A consumer is given m; `rest` is what stays deliverable after it.
Take(m, rest) ==
  /\ m \in bus
  /\ \/ rest = bus \ {m} /\ UNCHANGED faults
     \/ rest = bus /\ faults < MaxFaults /\ faults' = faults + 1

\* A handler that held m fails: its transaction is rolled back and no offset
\* is committed.  m comes back (restart, rebalance) or is skipped, because the
\* consumer's position has passed it and a later commit covers it.
FailHolding(m, others) ==
  /\ faults < MaxFaults
  /\ faults' = faults + 1
  /\ \E lost \in BOOLEAN : bus' = IF lost THEN others ELSE others \cup {m}

\* A handler fails before its first commit and its message is skipped.  (One
\* that fails there and comes back has changed nothing.)
SkipUnbegun(topics) ==
  /\ faults < MaxFaults
  /\ faults' = faults + 1
  /\ \E m \in bus : m.topic \in topics /\ bus' = bus \ {m}
  /\ UNCHANGED <<state, shardVars, attemptVars>>

-----------------------------------------------------------------------------
(* The scatter-gather join, run inside the caller's transaction. *)

\* Mutant: a redelivered shard is counted again.
ClaimShardTwice(d, i) == TRUE

\* Mutant: the winner is who leaves one shard to go.
WinsJoinEarly(d) == shards_done[d] + 2 = shards_total[d]

\* INSERT ... ON CONFLICT DO NOTHING RETURNING: does this delivery get the row?
ClaimShard(d, i) == i \notin document_shards[d]

\* The row lock makes the increment and the read-back one step; the caller
\* whose increment reaches shards_total is the winner.
WinsJoin(d) == shards_done[d] + 1 = shards_total[d]

missing_shards(d, total) == (0 .. (total - 1)) \ document_shards[d]

RecordShard(d, i) ==
  /\ document_shards' = [document_shards EXCEPT ![d] = @ \cup {i}]
  /\ shards_done' = [shards_done EXCEPT ![d] = @ + 1]

\* Mutant: the claim is committed before the join's transition is tried.
RecordThenJoin(d, i) ==
  \/ /\ ~ClaimShard(d, i)
     /\ UNCHANGED <<state, shards_done, document_shards, bus>>
  \/ /\ ClaimShard(d, i)
     /\ RecordShard(d, i)
     /\ IF WinsJoin(d) /\ MayTransition(d, {"text_running"}, "extract_pending")
        THEN /\ state' = [state EXCEPT ![d] = "extract_pending"]
             /\ bus' = bus \cup {Msg("ocr.completed", d)}
        ELSE UNCHANGED <<state, bus>>

record_shard_and_maybe_join(d, i) ==
  \/ /\ ~ClaimShard(d, i)                    \* duplicate delivery
     /\ UNCHANGED <<state, shards_done, document_shards, bus>>
  \/ /\ ClaimShard(d, i) /\ ~WinsJoin(d)
     /\ RecordShard(d, i)
     /\ UNCHANGED <<state, bus>>
  \/ /\ ClaimShard(d, i) /\ WinsJoin(d)
     /\ MayTransition(d, {"text_running"}, "extract_pending")
     /\ RecordShard(d, i)
     /\ state' = [state EXCEPT ![d] = "extract_pending"]
     /\ bus' = bus \cup {Msg("ocr.completed", d)}
  \/ /\ ClaimShard(d, i) /\ WinsJoin(d)        \* rolled back, the claim too
     /\ ~MayTransition(d, {"text_running"}, "extract_pending")
     /\ UNCHANGED <<state, shards_done, document_shards, bus>>

LedgerTypeOK ==
  /\ state \in [Doc -> States]
  /\ shards_total \in [Doc -> Nat]
  /\ shards_done \in [Doc -> Nat]
  /\ has_text_layer \in [Doc -> BOOLEAN]
  /\ text_attempts \in [Doc -> 0 .. MaxTextAttempts]
  /\ extract_attempts \in [Doc -> Nat]
  /\ document_shards \in [Doc -> SUBSET Nat]
  /\ bus \subseteq Message
  /\ faults \in 0 .. MaxFaults

\* A document as triage leaves it (triage_1.py): one provisional shard, no
\* work recorded, its dispatch message in the outbox.
LedgerInit(layer) ==
  /\ state = [d \in Doc |-> "text_pending"]
  /\ shards_total = [d \in Doc |-> 1]
  /\ shards_done = [d \in Doc |-> 0]
  /\ has_text_layer = layer
  /\ text_attempts = [d \in Doc |-> 0]
  /\ extract_attempts = [d \in Doc |-> 0]
  /\ document_shards = [d \in Doc |-> {}]
  /\ bus = {Msg(route_text_production(layer[d], d), d) : d \in Doc}
  /\ faults = 0
=============================================================================
