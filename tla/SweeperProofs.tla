--------------------------- MODULE SweeperProofs ----------------------------
(***************************************************************************)
(* What the ledger's messages and the sweeper's steps do to the types, for *)
(* the proofs about the modules that compose the sweeper with others.      *)
(***************************************************************************)
EXTENDS Sweeper, TLAPS

USE DEF TextStates, ExtractStates, InFlightStates, RunningStates, States, Topics

\* A message built by Msg or ShardMsg is a message.
LEMMA MessageTypes ==
  ASSUME NEW d \in Doc, NEW i \in Nat, NEW t \in Topics
  PROVE  Msg(t, d) \in Message /\ ShardMsg(d, i) \in Message
BY DEF Msg, ShardMsg, Message

\* The dispatch topics are topics, whatever has_text_layer says.
LEMMA RouteType ==
  ASSUME NEW d, NEW l
  PROVE  route_text_production(l, d) \in Topics
BY DEF route_text_production

\* The shards of a document are numbers.
LEMMA ShardsAreNat ==
  ASSUME NEW d \in Doc PROVE AllShards(d) \subseteq Nat
BY LedgerAssumption DEF AllShards

\* The messages a row is re-driven with are messages.
LEMMA RedriveType ==
  ASSUME NEW row \in Row
  PROVE  RedriveMessages(row) \subseteq Message
<1>1. row.doc \in Doc
  BY DEF Row
<1>2. missing_shards(row.doc, row.shards_total) \subseteq Nat
  BY DEF missing_shards, Row
<1> QED
  BY <1>1, <1>2, MessageTypes, RouteType DEF RedriveMessages

\* A row is re-driven to text.embedded only if it says so.
LEMMA RedriveEmbedded ==
  ASSUME NEW row, NEW m \in RedriveMessages(row), m.topic = "text.embedded"
  PROVE  m.doc = row.doc /\ row.has_text_layer
BY DEF RedriveMessages, Msg, ShardMsg, route_text_production

\* A snapshot of a row is a row.
LEMMA RowType ==
  ASSUME LedgerTypeOK, NEW d \in Doc
  PROVE  RowOf(d) \in Row
BY DEF RowOf, Row, LedgerTypeOK

\* A claim keeps the ledger's types: no attempt is counted past its cap.
LEMMA ClaimTypes ==
  ASSUME LedgerTypeOK, SweeperTypeOK, NEW batch \in SUBSET Doc, claim_batch(batch)
  PROVE  LedgerTypeOK' /\ SweeperTypeOK'
<1> USE LedgerAssumption DEF LedgerTypeOK, shardVars
<1>1. state' \in [Doc -> States]
  BY DEF claim_batch, PendingOf
<1>2. text_attempts' \in [Doc -> 0 .. MaxTextAttempts]
  BY DEF claim_batch, GivesUp, Attempts, MaxAttempts
<1>3. extract_attempts' \in [Doc -> Nat]
  BY DEF claim_batch
<1>4. SweeperTypeOK'
  BY RowType DEF claim_batch, SweeperTypeOK
<1> QED
  BY <1>1, <1>2, <1>3, <1>4 DEF claim_batch

\* A re-drive adds messages and nothing else.
LEMMA RedriveTypes ==
  ASSUME LedgerTypeOK, SweeperTypeOK, redrive_document
  PROVE  LedgerTypeOK' /\ SweeperTypeOK'
<1>1. PICK row \in sweep_rows :
        /\ bus' = bus \cup RedriveMessages(row)
        /\ sweep_rows' = sweep_rows \ {row}
        /\ UNCHANGED <<state, shardVars, attemptVars, faults>>
  BY DEF redrive_document
<1>2. bus' \subseteq Message
  BY <1>1, RedriveType DEF SweeperTypeOK, LedgerTypeOK
<1> QED
  BY <1>1, <1>2 DEF LedgerTypeOK, SweeperTypeOK, shardVars, attemptVars

\* A tick that dies and a message that is skipped only take away.
LEMMA ForgetTypes ==
  ASSUME LedgerTypeOK, SweeperTypeOK,
         FailSweep \/ \E topics : SkipUnbegun(topics) /\ UNCHANGED sweep_rows
  PROVE  LedgerTypeOK' /\ SweeperTypeOK'
BY LedgerAssumption
DEF FailSweep, SkipUnbegun, LedgerTypeOK, SweeperTypeOK, shardVars, attemptVars
=============================================================================
