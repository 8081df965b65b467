------------------------------- MODULE Funnel -------------------------------
(***************************************************************************)
(* One ocr.completed message in an extraction worker, in time: the reads   *)
(* of the object store, run_funnel (two model tiers, each with repairs and *)
(* retries, and the gates), and the scores that are pushed afterwards.     *)
(* Extraction has the same handler's commits, without time and with the    *)
(* funnel's answer as one choice.                                          *)
(*                                                                         *)
(* Each external operation has a timeout and local work takes no time, so  *)
(* that time passes (Tick) only within those bounds.  `busy` is the time   *)
(* since the message was polled, `silent` the time since heartbeat.touch.  *)
(***************************************************************************)
EXTENDS Gates

CONSTANTS
  Candidates,           \* the extractions a model may reply with
  MAX_REPAIR_ATTEMPTS,
  Reads,                \* object-store reads for one document
  ReadTimeout,          \* config.GCS_TIMEOUT_SECONDS
  CallTimeout,          \* config.LITELLM_TIMEOUT_SECONDS
  ScoresTimeout,        \* push_gate_scores, all gates together
  BudgetMargin,         \* config._BUDGET_MARGIN_SECONDS
  StaleSeconds          \* the livenessProbe's, in values.yaml

ASSUME FunnelAssumption ==
  /\ DocTypes \subseteq {"invoice", "receipt", "credit_memo"}
  /\ Candidates \subseteq Extraction
  /\ MAX_REPAIR_ATTEMPTS \in Nat
  /\ Reads \in Nat \ {0} /\ ReadTimeout \in Nat /\ CallTimeout \in Nat
  /\ ScoresTimeout \in Nat /\ BudgetMargin \in Nat /\ StaleSeconds \in Nat

Calls == MAX_REPAIR_ATTEMPTS + 1  \* per tier
EXTRACTION_BUDGET_SECONDS == 2 * (Calls * CallTimeout)
KAFKA_MAX_POLL_INTERVAL == EXTRACTION_BUDGET_SECONDS + BudgetMargin

VARIABLES
  phase,         \* what the worker is waiting for, or "idle" or "between" calls
  reads,         \* object-store reads that are left
  tier, tries,   \* 1: cheap, 2: strong; calls made to it
  schema,        \* schema_result_json of this tier
  gate_results,  \* its "schema" entry, and whether the last gates run blocked
  doc_type,      \* the document's, read before
  fields,        \* what run_funnel returns
  replied,       \* history: has a model answered at all?
  busy, silent, wait

funnelVars == <<phase, reads, tier, tries, schema, gate_results, doc_type, fields, replied>>
clocks == <<busy, silent, wait>>

Phases == {"idle", "reading", "between", "calling", "scoring"}
Schemas == {"none", "refusal", "overflow", "unparseable", "invalid", "pass"}
NoFields == [invoice_no |-> "none"]

FunnelTypeOK ==
  /\ phase \in Phases
  /\ reads \in 0 .. Reads
  /\ tier \in {1, 2} /\ tries \in 0 .. Calls
  /\ schema \in Schemas
  /\ gate_results \in [schema : Schemas, gates : {"none", "pass", "blocked"}]
  /\ doc_type \in DocTypes /\ fields \in Candidates \cup {NoFields}
  /\ replied \in BOOLEAN
  /\ busy \in Nat /\ silent \in Nat /\ wait \in Nat

FunnelInit ==
  /\ phase = "idle"
  /\ reads = 0 /\ tier = 1 /\ tries = 0 /\ schema = "none"
  /\ gate_results = [schema |-> "none", gates |-> "none"]
  /\ doc_type \in DocTypes /\ fields = NoFields /\ replied = FALSE
  /\ busy = 0 /\ silent = 0 /\ wait = 0

Timeout ==
  [reading |-> ReadTimeout, calling |-> CallTimeout, scoring |-> ScoresTimeout,
   between |-> 0]

\* The end of the handler: the worker polls, and touches, again.
Done ==
  /\ phase' = "idle"
  /\ reads' = 0 /\ tier' = 1 /\ tries' = 0 /\ schema' = "none"
  /\ gate_results' = [schema |-> "none", gates |-> "none"]
  /\ doc_type' = doc_type /\ fields' = NoFields /\ replied' = FALSE
  /\ busy' = 0 /\ silent' = 0 /\ wait' = 0

poll ==
  /\ phase = "idle"
  /\ phase' = "reading" /\ reads' = Reads
  /\ doc_type' \in DocTypes
  /\ UNCHANGED <<tier, tries, schema, gate_results, fields, replied, clocks>>

\* ensure_assembled, one object after the other, and then run_funnel.
read ==
  /\ phase = "reading"
  /\ reads' = reads - 1 /\ wait' = 0
  /\ phase' = IF reads = 1 THEN "between" ELSE "reading"
  /\ UNCHANGED <<tier, tries, schema, gate_results, doc_type, fields, replied, busy, silent>>

\* Mutant: only an answered call counts, as a heartbeat touched after it did.
CallUntouched ==
  /\ phase = "between" /\ tries < Calls
  /\ phase' = "calling" /\ tries' = tries + 1
  /\ wait' = 0
  /\ UNCHANGED <<reads, tier, schema, gate_results, doc_type, fields, replied, busy, silent>>

\* Mutant: one call more.
CallOnceMore ==
  /\ phase = "between" /\ tries <= Calls
  /\ phase' = "calling" /\ tries' = tries + 1
  /\ silent' = 0 /\ wait' = 0
  /\ UNCHANGED <<reads, tier, schema, gate_results, doc_type, fields, replied, busy>>

\* _call_model, with heartbeat.touch before it.
call_model ==
  /\ phase = "between" /\ tries < Calls
  /\ phase' = "calling" /\ tries' = tries + 1
  /\ silent' = 0 /\ wait' = 0
  /\ UNCHANGED <<reads, tier, schema, gate_results, doc_type, fields, replied, busy>>

\* Mutant: a tier's schema result is not carried over.
EscalateSilently(said, gr) ==
  /\ gate_results' = gr
  /\ tries' = 0 /\ schema' = "none" /\ wait' = 0
  /\ IF tier = 1 THEN tier' = 2 /\ phase' = "between" ELSE tier' = tier /\ phase' = "scoring"
  /\ UNCHANGED <<reads, doc_type, fields, busy>>

\* The tier is left without a result: its schema result, if it has one,
\* replaces an earlier reason.  After the second one the funnel is exhausted.
Escalate(said, gr) ==
  /\ gate_results' = IF said = "none" THEN gr ELSE [gr EXCEPT !.schema = said]
  /\ tries' = 0 /\ schema' = "none" /\ wait' = 0
  /\ IF tier = 1 THEN tier' = 2 /\ phase' = "between" ELSE tier' = tier /\ phase' = "scoring"
  /\ UNCHANGED <<reads, doc_type, fields, busy>>

\* The calls of the tier are used up.
tier_exhausted ==
  /\ phase = "between" /\ tries >= Calls
  /\ Escalate(schema, gate_results)
  /\ UNCHANGED <<replied, silent>>

\* Straight to review.
refusal ==
  /\ gate_results' = [gate_results EXCEPT !.schema = "refusal"]
  /\ phase' = "scoring" /\ wait' = 0 /\ replied' = TRUE
  /\ UNCHANGED <<reads, tier, tries, schema, doc_type, fields, busy, silent>>

\* Never retried on this tier.
context_overflow ==
  /\ Escalate(schema, [gate_results EXCEPT !.schema = "overflow"])
  /\ replied' = TRUE
  /\ UNCHANGED silent

Again(said) ==
  /\ phase' = "between" /\ wait' = 0
  /\ schema' = said
  /\ UNCHANGED <<reads, tier, tries, gate_results, doc_type, fields, busy>>

unparseable == Again("unparseable") /\ replied' = TRUE /\ UNCHANGED silent
transient == Again(schema) /\ UNCHANGED <<replied, silent>>
schema_invalid == Again("invalid") /\ replied' = TRUE /\ silent' = 0

\* An answer that passes the schema: the gates decide.
gated(x, taken) ==
  /\ replied' = TRUE /\ silent' = 0
  /\ \/ /\ Blocked(run_all(doc_type, x, taken))
        /\ Escalate("pass", [gate_results EXCEPT !.gates = "blocked"])
     \/ /\ ~Blocked(run_all(doc_type, x, taken))
        /\ gate_results' = [schema |-> "pass", gates |-> "pass"]
        /\ fields' = x
        /\ phase' = "scoring" /\ wait' = 0
        /\ UNCHANGED <<reads, tier, tries, schema, doc_type, busy>>

Answered ==
  \/ refusal \/ context_overflow \/ unparseable \/ schema_invalid
  \/ \E x \in Candidates, taken \in BOOLEAN : gated(x, taken)

\* The commits, and the scores, best-effort.
finish == phase = "scoring" /\ Done

\* A read, or a call, raises what nobody catches: another status, a broken
\* connection.  The sweeper brings the document back.
fail == phase \in {"reading", "calling"} /\ Done

\* Time passes.
Pass ==
  \/ phase = "idle" /\ UNCHANGED clocks
  \/ /\ phase # "idle" /\ wait < Timeout[phase]
     /\ busy' = busy + 1 /\ silent' = silent + 1 /\ wait' = wait + 1
=============================================================================
