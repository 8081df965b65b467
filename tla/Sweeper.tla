------------------------------ MODULE Sweeper -------------------------------
(***************************************************************************)
(* reconciliation/sweeper.py: documents that sat too long in an in-flight  *)
(* state are claimed in one transaction and re-driven afterwards, each in  *)
(* a transaction of its own, from the row as it was when it was claimed.   *)
(*                                                                         *)
(* Time is abstracted: the sweeper may claim any in-flight document at any *)
(* moment, because a worker may take longer than any threshold.            *)
(***************************************************************************)
EXTENDS Ledger

CONSTANT SweeperBatchCap  \* config.SWEEPER_BATCH_CAP

ASSUME SweeperAssumption == SweeperBatchCap \in Nat \ {0}

VARIABLE sweep_rows  \* claimed rows that are still to be re-driven

\* The columns of the claimed row that redrive_document uses.
RowOf(d) == [doc |-> d, state |-> state[d], shards_total |-> shards_total[d],
             has_text_layer |-> has_text_layer[d]]
Row == [doc : Doc, state : States, shards_total : Nat, has_text_layer : BOOLEAN]

SweeperTypeOK == sweep_rows \subseteq Row
SweeperInit == sweep_rows = {}

Attempts(d) == IF state[d] \in TextStates THEN text_attempts[d] ELSE extract_attempts[d]
MaxAttempts(d) == IF state[d] \in TextStates THEN MaxTextAttempts ELSE MaxExtractAttempts

\* Mutant: the cap is passed before it is noticed.
GivesUpLate(d) == state[d] \in RunningStates /\ Attempts(d) > MaxAttempts(d)

\* Only a *_running document burns an attempt; at the cap it is given up.
GivesUp(d) == state[d] \in RunningStates /\ Attempts(d) >= MaxAttempts(d)

PendingOf(s) == IF s \in TextStates THEN "text_pending" ELSE "extract_pending"

claim_batch(batch) ==
  /\ sweep_rows = {}
  /\ Cardinality(batch) \in 1 .. SweeperBatchCap
  /\ \A d \in batch : state[d] \in InFlightStates
  /\ state' = [d \in Doc |->
       IF d \notin batch THEN state[d]
       ELSE IF GivesUp(d) THEN "failed" ELSE PendingOf(state[d])]
  /\ text_attempts' = [d \in Doc |->
       IF d \in batch /\ state[d] = "text_running" /\ ~GivesUp(d)
       THEN text_attempts[d] + 1 ELSE text_attempts[d]]
  /\ extract_attempts' = [d \in Doc |->
       IF d \in batch /\ state[d] = "extract_running" /\ ~GivesUp(d)
       THEN extract_attempts[d] + 1 ELSE extract_attempts[d]]
  /\ sweep_rows' = {RowOf(d) : d \in {e \in batch : ~GivesUp(e)}}
  /\ UNCHANGED <<shardVars, bus, faults>>

\* Mutant: no rule for a split that was lost after an earlier one committed.
RedriveNoSplit(row) ==
  LET d == row.doc
      text == row.state \in TextStates
  IN  CASE text /\ row.shards_total <= 1 ->
             {Msg(route_text_production(row.has_text_layer, d), d)}
        [] row.state = "text_running" /\ row.shards_total > 1 ->
             {ShardMsg(d, i) : i \in missing_shards(d, row.shards_total)}
        [] row.state \in ExtractStates -> {Msg("ocr.completed", d)}
        [] OTHER -> {}

\* Mutant: no rule for an ocr.completed that was lost.
RedriveNoPending(row) ==
  LET d == row.doc
      text == row.state \in TextStates
  IN  CASE text /\ row.shards_total <= 1 ->
             {Msg(route_text_production(row.has_text_layer, d), d)}
        [] row.state = "text_running" /\ row.shards_total > 1 ->
             {ShardMsg(d, i) : i \in missing_shards(d, row.shards_total)}
        [] row.state = "text_pending" /\ row.shards_total > 1 ->
             {Msg("ocr.split", d)}
        [] row.state = "extract_running" -> {Msg("ocr.completed", d)}
        [] OTHER -> {}

\* What a row is re-driven with.
RedriveMessages(row) ==
  LET d == row.doc
      text == row.state \in TextStates
  IN  CASE text /\ row.shards_total <= 1 ->
             {Msg(route_text_production(row.has_text_layer, d), d)}
        [] row.state = "text_running" /\ row.shards_total > 1 ->
             {ShardMsg(d, i) : i \in missing_shards(d, row.shards_total)}
        [] row.state = "text_pending" /\ row.shards_total > 1 ->
             {Msg("ocr.split", d)}
        [] row.state \in ExtractStates -> {Msg("ocr.completed", d)}
        [] OTHER -> {}

redrive_document ==
  \E row \in sweep_rows :
    /\ bus' = bus \cup RedriveMessages(row)
    /\ sweep_rows' = sweep_rows \ {row}
    /\ UNCHANGED <<state, shardVars, attemptVars, faults>>

\* The tick fails after its claim was committed: the rows left are forgotten.
FailSweep ==
  /\ sweep_rows # {}
  /\ faults < MaxFaults
  /\ faults' = faults + 1
  /\ sweep_rows' = {}
  /\ UNCHANGED <<state, shardVars, attemptVars, bus>>
=============================================================================
