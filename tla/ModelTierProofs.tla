-------------------------- MODULE ModelTierProofs ---------------------------
(***************************************************************************)
(* Proofs about ModelTier, for every document type, extraction, number of  *)
(* repairs and timeout.  That a message stays within its time is proved by *)
(* an account: what has passed since it was polled is at most one timeout  *)
(* for every operation that ended, plus the wait for the present one.      *)
(***************************************************************************)
EXTENDS ModelTier, TLAPS

\* What config.py and values.yaml leave to the documents: the reads of one
\* document, and the scores, fit into the margin and under the probe.
FitsPoll == Reads * ReadTimeout + ScoresTimeout <= BudgetMargin
FitsProbe == Reads * ReadTimeout < StaleSeconds /\ CallTimeout + ScoresTimeout < StaleSeconds

Working == {"between", "calling"}

\* Where the worker is says what it has read, called and found.
Place ==
  /\ phase = "idle" => busy = 0 /\ silent = 0 /\ wait = 0
  /\ phase \in {"idle", "reading"} => tier = 1 /\ tries = 0 /\ ~replied
  /\ phase = "reading" => reads > 0
  /\ phase = "calling" => tries > 0
  /\ phase # "scoring" => fields = NoFields
  /\ phase # "idle" => wait <= Timeout[phase]
  /\ schema \in {"none", "unparseable", "invalid"}

\* The time of the calls that were made.
CallTime == (IF tier = 1 THEN 0 ELSE Calls * CallTimeout) + tries * CallTimeout

Account ==
  /\ phase = "reading" => /\ busy <= (Reads - reads) * ReadTimeout + wait
                          /\ silent <= (Reads - reads) * ReadTimeout + wait
  /\ phase = "between" => /\ busy <= Reads * ReadTimeout + CallTime
                          /\ silent <= Reads * ReadTimeout \/ silent <= CallTimeout
                          /\ tries > 0 => silent <= CallTimeout
  /\ phase = "calling" => /\ busy + CallTimeout <= Reads * ReadTimeout + CallTime + wait
                          /\ silent <= wait
  /\ phase = "scoring" => /\ busy <= Reads * ReadTimeout + EXTRACTION_BUDGET_SECONDS + wait
                          /\ silent <= CallTimeout + wait

\* What has been answered has left a reason, here or in gate_results.
Reason ==
  \/ gate_results.schema \notin {"none", "pass"}
  \/ gate_results.gates = "blocked"
Reasons ==
  /\ phase \in Working /\ replied => Reason \/ schema # "none"
  /\ phase = "scoring" /\ replied /\ fields = NoFields => Reason

MInv == TypeOK /\ Place /\ Account /\ Reasons /\ EligibleIsVerified

-----------------------------------------------------------------------------
(* Arithmetic the account needs. *)

\* Products of naturals: one operation more costs one timeout more.
LEMMA Product ==
  ASSUME NEW a \in Nat, NEW c \in Nat
  PROVE  a * c \in Nat /\ (a + 1) * c = a * c + c
  BY SMT

\* Fewer operations cost less.
LEMMA ProductMono ==
  ASSUME NEW a \in Nat, NEW b \in Nat, NEW c \in Nat, a <= b
  PROVE  a * c <= b * c
  <1>1. (b - a) * c >= 0
    BY SMT
  <1>2. b * c = a * c + (b - a) * c
    BY SMT
  <1> QED BY <1>1, <1>2, Product, SMT

\* An extraction that no gate blocks is verified: grounding, arithmetic and
\* business_dedupe are enough, and an inconclusive arithmetic blocks.
LEMMA UnblockedIsVerified ==
  ASSUME NEW x \in Extraction, NEW d \in DocTypes, NEW taken \in BOOLEAN,
         ~Blocked(run_all(d, x, taken))
  PROVE  /\ "made_up" \notin {x.seller, x.invoice_no}
         /\ x.total \in InSource \cup {Missing}
         /\ d = "invoice" => x.items # Missing /\ x.total = x.items + Tax(x)
  <1> DEFINE g == run_all(d, x, taken)
  <1>1. grounding(x) # "fail" /\ arithmetic(d, x) \notin {"fail", "inconclusive"}
    <2>1. g.grounding = grounding(x) /\ g.arithmetic = arithmetic(d, x)
      BY DEF run_all
    <2>2. \A n \in {"grounding", "arithmetic", "business_dedupe"} :
            g[n] # "fail" /\ g[n] # "inconclusive"
      BY DEF Blocked, BLOCKING_GATES, BlocksInconclusive
    <2> QED BY <2>1, <2>2
  <1>2. "made_up" \notin {x.seller, x.invoice_no} /\ x.total \in InSource \cup {Missing}
    BY <1>1 DEF grounding
  <1>3. d = "invoice" => x.items # Missing /\ x.total = x.items + Tax(x)
    BY <1>1 DEF arithmetic
  <1> QED BY <1>2, <1>3

-----------------------------------------------------------------------------
(* The steps. *)

\* What a step does to the worker, whatever happens to Ollama in it.
WorkerStep ==
  \/ poll \/ read \/ tier_exhausted \/ finish \/ call_model \/ fail
  \/ phase = "calling" /\ (refusal \/ context_overflow \/ unparseable \/ schema_invalid)
  \/ phase = "calling" /\ transient
  \/ phase = "calling" /\ \E x \in Candidates, taken \in BOOLEAN : gated(x, taken)
  \/ Pass /\ UNCHANGED funnelVars
  \/ UNCHANGED <<funnelVars, clocks>>

\* Every step is one of these.
LEMMA StepsOfWorker ==
  ASSUME [Next]_vars
  PROVE  WorkerStep
  <1>1. CASE Work
    BY <1>1 DEF Work, Call, Reply, Answered, WorkerStep
  <1>2. CASE WorkFails
    BY <1>2 DEF WorkFails, WorkerStep
  <1>3. CASE Loop \/ Others \/ Reschedule
    BY <1>3 DEF Loop, Others, Reschedule, WorkerStep
  <1>4. CASE Tick
    BY <1>4 DEF Tick, WorkerStep
  <1>5. CASE UNCHANGED vars
    BY <1>5 DEF vars, WorkerStep
  <1> QED BY <1>1, <1>2, <1>3, <1>4, <1>5 DEF Next

\* The watchdog's side is well typed after every step.
LEMMA WatchTyped ==
  ASSUME WatchTypeOK, [Next]_vars
  PROVE  WatchTypeOK'
  <1> USE ModelTierAssumption, WatchdogAssumption
  <1> USE DEF WatchTypeOK
  <1>1. \A m : Request(m) => /\ resident' \in [Models -> {"gpu", "cpu", "absent"}]
                              /\ mishaps' \in 0 .. MaxMishaps
    BY DEF Request, ColdLoad, Mishap
  <1>2. PodGone => up' \in BOOLEAN /\ resident' \in [Models -> {"gpu", "cpu", "absent"}]
    BY DEF PodGone
  <1>3. Mishap => mishaps' \in 0 .. MaxMishaps
    BY DEF Mishap
  <1>4. ASSUME NEW c \in Checks, look(c)
        PROVE  /\ up' \in BOOLEAN /\ resident' \in [Models -> {"gpu", "cpu", "absent"}]
               /\ check' \in [Checks -> Acts] /\ since' \in 0 .. Cooldown
    <2>1. Restart \in Acts /\ [act |-> "pin", missing |-> Models \ classify("gpu")] \in Acts
      BY DEF Acts
    <2> QED BY <1>4, <2>1 DEF look
  <1>5. ASSUME NEW c \in Checks, restart_ollama(c) \/ restart_fails(c)
        PROVE  WatchTypeOK'
    BY <1>2, <1>3, <1>5 DEF restart_ollama, restart_fails, Acts
  <1>6. ASSUME NEW c \in Checks, pin(c)
        PROVE  WatchTypeOK'
    <2>1. check[c].act = "pin" /\ check[c] \in Acts
      BY <1>6 DEF pin
    <2>2. check[c].missing \subseteq Models /\ check[c] = [act |-> "pin", missing |-> check[c].missing]
      BY <2>1 DEF Acts, Idle, Restart
    <2>3. \A m : [check[c] EXCEPT !.missing = @ \ {m}] \in Acts
      BY <2>2 DEF Acts
    <2>4. CASE check[c].missing = {}
      BY <1>6, <2>4 DEF pin, Acts
    <2>5. CASE check[c].missing # {}
      BY <1>1, <1>6, <2>2, <2>3, <2>5 DEF pin
    <2> QED BY <2>4, <2>5
  <1>7. CASE UNCHANGED watchVars
    BY <1>7 DEF watchVars
  <1>8. CASE Call
    BY <1>1, <1>8 DEF Call
  <1>9. CASE WorkFails
    BY <1>3, <1>9 DEF WorkFails
  <1>10. CASE Loop
    BY <1>4, <1>5, <1>6, <1>10 DEF Loop, loop, Checks
  <1>11. CASE Others
    <2>1. CASE loop_fails
      BY <1>3, <1>5, <2>1 DEF loop_fails, Checks, Acts
    <2>2. CASE check_once
      BY <1>3, <1>4, <1>5, <1>6, <2>2 DEF check_once, Checks
    <2>3. CASE \E m \in Models : unload(m)
      BY <1>3, <2>3 DEF unload
    <2> QED BY <1>11, <2>1, <2>2, <2>3 DEF Others
  <1>12. CASE Reschedule
    BY <1>12 DEF Reschedule, reschedule
  <1>13. CASE Tick
    BY <1>13 DEF Tick, Age
  <1>14. CASE UNCHANGED vars
    BY <1>7, <1>14 DEF vars
  <1> QED BY <1>7, <1>8, <1>9, <1>10, <1>11, <1>12, <1>13, <1>14 DEF Next, Work, Reply

\* No reply is the mark for none.
LEMMA NoReply == NoFields \notin Candidates
  <1>1. \A x \in Extraction : DOMAIN x # DOMAIN NoFields
    <2>1. \A x \in Extraction : "total" \in DOMAIN x
      BY DEF Extraction
    <2>2. "total" \notin DOMAIN NoFields
      BY DEF NoFields
    <2> QED BY <2>1, <2>2
  <1> QED BY <1>1, FunnelAssumption

\* The constants of the account.
LEMMA Constants ==
  /\ Reads * ReadTimeout \in Nat
  /\ Calls \in Nat \ {0} /\ Calls * CallTimeout \in Nat
  /\ EXTRACTION_BUDGET_SECONDS \in Nat
  <1>1. Calls \in Nat \ {0}
    BY FunnelAssumption, SMT DEF Calls
  <1>2. Reads * ReadTimeout \in Nat /\ Calls * CallTimeout \in Nat
    BY <1>1, FunnelAssumption, Product
  <1> QED BY <1>1, <1>2, SMT DEF EXTRACTION_BUDGET_SECONDS

\* One read less costs one timeout more, and none left has cost them all.
LEMMA ReadTime ==
  ASSUME NEW n \in 1 .. Reads
  PROVE  /\ (Reads - n) * ReadTimeout \in Nat
         /\ (Reads - (n - 1)) * ReadTimeout = (Reads - n) * ReadTimeout + ReadTimeout
         /\ (Reads - Reads) * ReadTimeout = 0
         /\ n = 1 => (Reads - n) * ReadTimeout + ReadTimeout = Reads * ReadTimeout
  <1>1. Reads \in Nat /\ ReadTimeout \in Nat /\ Reads - n \in Nat
    BY FunnelAssumption, SMT
  <1>2. (Reads - n) + 1 = Reads - (n - 1) /\ Reads - Reads = 0
    BY <1>1, SMT
  <1>3. 0 * ReadTimeout = 0
    BY <1>1, SMT
  <1>4. n = 1 => Reads - (n - 1) = Reads
    BY <1>1, SMT
  <1> QED BY <1>1, <1>2, <1>3, <1>4, Product

\* The calls of both tiers fit into the budget.
LEMMA CallTimes ==
  ASSUME TypeOK
  PROVE  /\ CallTime \in Nat
         /\ tier = 1 => CallTime <= Calls * CallTimeout
         /\ CallTime <= EXTRACTION_BUDGET_SECONDS
         /\ tier = 1 /\ tries = 0 => CallTime = 0
  <1>1. tries \in Nat /\ tries <= Calls /\ tier \in {1, 2}
    BY Constants, SMT DEF TypeOK, FunnelTypeOK
  <1>2. tries * CallTimeout \in Nat /\ tries * CallTimeout <= Calls * CallTimeout
    BY <1>1, Constants, FunnelAssumption, Product, ProductMono
  <1>3. 0 * CallTimeout = 0
    BY FunnelAssumption, SMT
  <1>4. Calls * CallTimeout \in Nat
    BY Constants
  <1> DEFINE all == Calls * CallTimeout
             these == tries * CallTimeout
  <1>5. CallTime = (IF tier = 1 THEN 0 ELSE all) + these
    BY DEF CallTime
  <1>6. EXTRACTION_BUDGET_SECONDS = 2 * all
    BY DEF EXTRACTION_BUDGET_SECONDS
  <1>7. all \in Nat /\ these \in Nat /\ these <= all /\ (tries = 0 => these = 0)
    BY <1>2, <1>3, <1>4
  <1> HIDE DEF all, these
  <1>8. /\ CallTime \in Nat
        /\ tier = 1 => CallTime <= all
        /\ CallTime <= EXTRACTION_BUDGET_SECONDS
        /\ tier = 1 /\ tries = 0 => CallTime = 0
    BY <1>1, <1>5, <1>6, <1>7, SMT
  <1> QED BY <1>8 DEF all

-----------------------------------------------------------------------------
(* The invariant. *)

\* It holds of an idle worker.
LEMMA Begins == Init => MInv
  <1> SUFFICES ASSUME Init PROVE MInv
    OBVIOUS
  <1> USE FunnelAssumption, WatchdogAssumption, Constants DEF Init, FunnelInit, WatchInit
  <1>1. TypeOK
    <2>1. FunnelTypeOK
      <3>1. phase \in Phases /\ schema \in Schemas
            /\ gate_results \in [schema : Schemas, gates : {"none", "pass", "blocked"}]
        BY DEF Phases, Schemas
      <3>2. 0 \in 0 .. Reads /\ 0 \in 0 .. Calls /\ tier \in {1, 2}
        BY SMT
      <3> QED BY <3>1, <3>2 DEF FunnelTypeOK
    <2>2. WatchTypeOK
      BY DEF WatchTypeOK, Acts
    <2> QED BY <2>1, <2>2 DEF TypeOK
  <1>2. Place
    BY DEF Place
  <1>3. Account /\ Reasons /\ EligibleIsVerified
    BY DEF Account, Reasons, EligibleIsVerified, Working
  <1> QED BY <1>1, <1>2, <1>3 DEF MInv

\* The timeouts, one by one.
LEMMA Timeouts ==
  /\ Timeout["reading"] = ReadTimeout /\ Timeout["calling"] = CallTimeout
  /\ Timeout["scoring"] = ScoresTimeout /\ Timeout["between"] = 0
  BY DEF Timeout

\* Where a tier is left, and what is written then.
LEMMA Escalates ==
  ASSUME FunnelTypeOK, NEW said \in Schemas,
         NEW gr \in [schema : Schemas, gates : {"none", "pass", "blocked"}],
         Escalate(said, gr), replied' \in BOOLEAN, silent' \in Nat, fields = NoFields
  PROVE  FunnelTypeOK' /\ wait' = 0 /\ fields' = NoFields /\ phase' \in {"between", "scoring"}
  <1>1. gate_results' \in [schema : Schemas, gates : {"none", "pass", "blocked"}]
    <2>1. [gr EXCEPT !.schema = said] \in [schema : Schemas, gates : {"none", "pass", "blocked"}]
      OBVIOUS
    <2> QED BY <2>1 DEF Escalate
  <1> QED BY <1>1, Constants DEF Escalate, FunnelTypeOK, Phases, Schemas

\* A worker's variables keep their types, and what its place says of them.
LEMMA PlaceKept ==
  ASSUME FunnelTypeOK, Place, WorkerStep
  PROVE  FunnelTypeOK' /\ Place'
  <1> DEFINE Results == [schema : Schemas, gates : {"none", "pass", "blocked"}]
  <1> USE FunnelAssumption, Constants, Timeouts
  <1>1. CASE poll
    BY <1>1 DEF poll, clocks, FunnelTypeOK, Place, Phases
  <1>2. CASE read
    BY <1>2 DEF read, FunnelTypeOK, Place, Phases
  <1>3. CASE tier_exhausted
    <2>1. FunnelTypeOK' /\ wait' = 0 /\ fields' = NoFields /\ phase' \in {"between", "scoring"}
      BY <1>3, Escalates DEF tier_exhausted, FunnelTypeOK, Place
    <2> QED BY <1>3, <2>1 DEF tier_exhausted, Escalate, Place
  <1>4. CASE finish \/ fail
    <2>1. gate_results' \in Results
      BY <1>4 DEF finish, fail, Done, Schemas
    <2>2. FunnelTypeOK'
      <3>1. "idle" \in Phases /\ "none" \in Schemas /\ 0 \in 0 .. Reads /\ 0 \in 0 .. Calls
        BY DEF Phases, Schemas
      <3>2. doc_type' = doc_type /\ tier' = 1 /\ replied' = FALSE
        BY <1>4 DEF finish, fail, Done
      <3>3. phase' = "idle" /\ schema' = "none" /\ fields' = NoFields
        BY <1>4 DEF finish, fail, Done
      <3>4. reads' = 0 /\ tries' = 0 /\ busy' = 0 /\ silent' = 0 /\ wait' = 0
        BY <1>4 DEF finish, fail, Done
      <3> QED BY <2>1, <3>1, <3>2, <3>3, <3>4 DEF FunnelTypeOK
    <2>3. Place'
      BY <1>4 DEF finish, fail, Done, Place
    <2> QED BY <2>2, <2>3
  <1>5. CASE call_model
    BY <1>5 DEF call_model, FunnelTypeOK, Place, Phases
  <1>6. CASE phase = "calling" /\ refusal
    <2>1. gate_results' \in Results
      BY <1>6 DEF refusal, FunnelTypeOK, Schemas
    <2> QED BY <1>6, <2>1 DEF refusal, FunnelTypeOK, Place, Phases
  <1>7. CASE phase = "calling" /\ context_overflow
    <2>1. [gate_results EXCEPT !.schema = "overflow"] \in Results
      BY DEF FunnelTypeOK, Schemas
    <2>2. schema \in Schemas /\ silent \in Nat /\ fields = NoFields
      BY <1>7 DEF FunnelTypeOK, Place
    <2>3. FunnelTypeOK' /\ wait' = 0 /\ fields' = NoFields /\ phase' \in {"between", "scoring"}
      BY <1>7, <2>1, <2>2, Escalates DEF context_overflow
    <2> QED BY <1>7, <2>3 DEF context_overflow, Escalate, Place
  <1>8. CASE phase = "calling" /\ (unparseable \/ schema_invalid \/ transient)
    <2>1. FunnelTypeOK'
      <3>1. "between" \in Phases /\ "unparseable" \in Schemas /\ "invalid" \in Schemas
        BY DEF Phases, Schemas
      <3>2. phase' = "between" /\ schema' \in Schemas
        BY <1>8, <3>1 DEF unparseable, schema_invalid, transient, Again, FunnelTypeOK
      <3>3. UNCHANGED <<reads, tier, tries, gate_results, doc_type, fields, busy>>
        BY <1>8 DEF unparseable, schema_invalid, transient, Again
      <3>4. wait' = 0 /\ (replied' = TRUE \/ replied' = replied)
        BY <1>8 DEF unparseable, schema_invalid, transient, Again
      <3>5. silent' = 0 \/ silent' = silent
        BY <1>8 DEF unparseable, schema_invalid, transient, Again
      <3>6. wait' \in Nat /\ silent' \in Nat
        BY <3>4, <3>5, SMT DEF FunnelTypeOK
      <3>7. replied' \in BOOLEAN
        BY <3>4 DEF FunnelTypeOK
      <3> QED BY <3>1, <3>2, <3>3, <3>6, <3>7 DEF FunnelTypeOK
    <2>2. Place'
      BY <1>8 DEF unparseable, schema_invalid, transient, Again, Place
    <2> QED BY <2>1, <2>2
  <1>9. CASE phase = "calling" /\ \E x \in Candidates, taken \in BOOLEAN : gated(x, taken)
    <2>1. PICK x \in Candidates, taken \in BOOLEAN : gated(x, taken)
      BY <1>9
    <2>2. CASE Escalate("pass", [gate_results EXCEPT !.gates = "blocked"])
      <3>1. [gate_results EXCEPT !.gates = "blocked"] \in Results /\ "pass" \in Schemas
        BY DEF FunnelTypeOK, Schemas
      <3>2. silent' \in Nat /\ replied' \in BOOLEAN /\ fields = NoFields
        BY <1>9, <2>1 DEF gated, Place
      <3>3. FunnelTypeOK' /\ wait' = 0 /\ fields' = NoFields /\ phase' \in {"between", "scoring"}
        BY <2>2, <3>1, <3>2, Escalates
      <3> QED BY <1>9, <2>1, <2>2, <3>3 DEF gated, Escalate, Place
    <2>3. CASE /\ gate_results' = [schema |-> "pass", gates |-> "pass"]
               /\ fields' = x
               /\ phase' = "scoring" /\ wait' = 0
               /\ UNCHANGED <<reads, tier, tries, schema, doc_type, busy>>
      <3>1. gate_results' \in Results
        BY <2>3 DEF Schemas
      <3> QED BY <1>9, <2>1, <2>3, <3>1 DEF gated, FunnelTypeOK, Place, Phases
    <2> QED BY <2>1, <2>2, <2>3 DEF gated
  <1>10. CASE Pass /\ UNCHANGED funnelVars
    BY <1>10 DEF Pass, funnelVars, clocks, FunnelTypeOK, Place, Phases
  <1>11. CASE UNCHANGED <<funnelVars, clocks>>
    BY <1>11 DEF funnelVars, clocks, FunnelTypeOK, Place
  <1> QED BY <1>1, <1>2, <1>3, <1>4, <1>5, <1>6, <1>7, <1>8, <1>9, <1>10, <1>11
          DEF WorkerStep

\* What an answer was leaves its reason behind: the tier's schema result is
\* carried over, the gates' stays.
LEMMA ReasonsKept ==
  ASSUME FunnelTypeOK, Place, Reasons, WorkerStep
  PROVE  Reasons'
  <1> USE FunnelAssumption, Constants
  <1> USE DEF FunnelTypeOK, Place, Reasons, Reason, Working, Phases, Schemas
  <1>1. CASE poll
    BY <1>1 DEF poll
  <1>2. CASE read
    BY <1>2 DEF read
  <1>3. CASE tier_exhausted
    BY <1>3 DEF tier_exhausted, Escalate
  <1>4. CASE finish \/ fail
    BY <1>4 DEF finish, fail, Done
  <1>5. CASE call_model
    BY <1>5 DEF call_model
  <1>6. CASE phase = "calling" /\ refusal
    BY <1>6 DEF refusal
  <1>7. CASE phase = "calling" /\ context_overflow
    BY <1>7 DEF context_overflow, Escalate
  <1>8. CASE phase = "calling" /\ (unparseable \/ schema_invalid \/ transient)
    BY <1>8 DEF unparseable, schema_invalid, transient, Again
  <1>9. CASE phase = "calling" /\ \E x \in Candidates, taken \in BOOLEAN : gated(x, taken)
    <2>1. PICK x \in Candidates, taken \in BOOLEAN : gated(x, taken)
      BY <1>9
    <2>2. CASE Escalate("pass", [gate_results EXCEPT !.gates = "blocked"])
      BY <1>9, <2>1, <2>2 DEF gated, Escalate
    <2>3. CASE fields' = x /\ phase' = "scoring"
      BY <2>1, <2>3, NoReply
    <2> QED BY <2>1, <2>2, <2>3 DEF gated
  <1>10. CASE Pass /\ UNCHANGED funnelVars
    BY <1>10 DEF funnelVars
  <1>11. CASE UNCHANGED <<funnelVars, clocks>>
    BY <1>11 DEF funnelVars
  <1> QED BY <1>1, <1>2, <1>3, <1>4, <1>5, <1>6, <1>7, <1>8, <1>9, <1>10, <1>11
          DEF WorkerStep

\* What is eligible passed the gates, on the document it belongs to.
LEMMA EligibleKept ==
  ASSUME FunnelTypeOK, Place, EligibleIsVerified, WorkerStep
  PROVE  EligibleIsVerified'
  <1>1. CASE fields' = fields /\ doc_type' = doc_type
    BY <1>1 DEF EligibleIsVerified, Tax
  <1>2. CASE fields' = NoFields
    BY <1>2 DEF EligibleIsVerified
  <1>3. CASE phase = "calling" /\ \E x \in Candidates, taken \in BOOLEAN : gated(x, taken)
    <2>1. PICK x \in Candidates, taken \in BOOLEAN : gated(x, taken)
      BY <1>3
    <2>2. CASE fields' = fields /\ doc_type' = doc_type
      BY <1>1, <2>2
    <2>3. CASE ~Blocked(run_all(doc_type, x, taken)) /\ fields' = x /\ doc_type' = doc_type
      <3>1. x \in Extraction /\ doc_type \in DocTypes
        BY FunnelAssumption DEF FunnelTypeOK
      <3> QED BY <2>3, <3>1, UnblockedIsVerified DEF EligibleIsVerified, Tax
    <2> QED BY <2>1, <2>2, <2>3 DEF gated, Escalate
  <1>4. CASE poll
    BY <1>2, <1>4 DEF poll, Place
  <1>5. CASE finish \/ fail
    BY <1>2, <1>5 DEF finish, fail, Done
  <1>6. CASE read \/ tier_exhausted \/ call_model
    BY <1>1, <1>6 DEF read, tier_exhausted, Escalate, call_model
  <1>7. CASE refusal \/ context_overflow \/ unparseable \/ schema_invalid \/ transient
    BY <1>1, <1>7 DEF refusal, context_overflow, Escalate, unparseable, schema_invalid,
                      transient, Again
  <1>8. CASE UNCHANGED funnelVars
    BY <1>1, <1>8 DEF funnelVars
  <1> QED BY <1>3, <1>4, <1>5, <1>6, <1>7, <1>8 DEF WorkerStep

\* The account is kept: an operation that ends took at most its timeout.
LEMMA AccountKept ==
  ASSUME TypeOK, TypeOK', Place, Account, WorkerStep
  PROVE  Account'
  <1> DEFINE R == Reads * ReadTimeout
             left == (Reads - reads) * ReadTimeout
  <1>1. /\ R \in Nat /\ CallTimeout \in Nat /\ ReadTimeout \in Nat /\ ScoresTimeout \in Nat
        /\ EXTRACTION_BUDGET_SECONDS \in Nat
    BY Constants, FunnelAssumption
  <1>2. /\ busy \in Nat /\ silent \in Nat /\ wait \in Nat /\ phase \in Phases
        /\ tries \in 0 .. Calls /\ tier \in {1, 2}
    BY DEF TypeOK, FunnelTypeOK
  <1>3. CallTime \in Nat /\ CallTime <= EXTRACTION_BUDGET_SECONDS
    BY CallTimes
  <1>4. CASE poll
    <2>1. (Reads - Reads) * ReadTimeout = 0
      BY FunnelAssumption, ReadTime, SMT
    <2> QED BY <1>2, <1>4, <2>1, SMT DEF poll, clocks, Account, Place
  <1>5. CASE read
    <2>1. reads \in 1 .. Reads /\ wait <= ReadTimeout
      BY <1>2, <1>5, Timeouts, FunnelAssumption, SMT DEF read, Place, TypeOK, FunnelTypeOK
    <2>2. busy <= left + ReadTimeout /\ silent <= left + ReadTimeout /\ left \in Nat
      <3>1. left \in Nat
        BY <2>1, ReadTime
      <3>2. busy <= left + wait /\ silent <= left + wait
        BY <1>5 DEF read, Account
      <3> HIDE DEF left
      <3> QED BY <1>1, <1>2, <2>1, <3>1, <3>2, SMT
    <2>3. CASE reads = 1
      <3>1. left + ReadTimeout = R
        BY <2>1, <2>3, ReadTime
      <3>2. phase' = "between" /\ busy' = busy /\ silent' = silent /\ tries' = 0 /\ tier' = 1
        BY <1>5, <2>3 DEF read, Place
      <3>3. CallTime' = 0
        <4>1. 0 * CallTimeout = 0
          BY <1>1, SMT
        <4> QED BY <3>2, <4>1 DEF CallTime
      <3> HIDE DEF R, left
      <3>4. busy' <= R + CallTime' /\ silent' <= R
        BY <1>1, <1>2, <2>2, <3>1, <3>2, <3>3, SMT
      <3> QED BY <3>2, <3>4, SMT DEF Account, R
    <2>4. CASE reads # 1
      <3>1. phase' = "reading" /\ reads' = reads - 1 /\ busy' = busy /\ silent' = silent
            /\ wait' = 0
        BY <1>5, <2>4 DEF read
      <3>2. (Reads - reads') * ReadTimeout = left + ReadTimeout
        BY <2>1, <3>1, ReadTime
      <3>3. /\ busy' <= (Reads - reads') * ReadTimeout + wait'
            /\ silent' <= (Reads - reads') * ReadTimeout + wait'
        <4> HIDE DEF left
        <4> QED BY <1>1, <1>2, <2>2, <3>1, <3>2, SMT
      <3> QED BY <3>1, <3>3 DEF Account
    <2> QED BY <2>3, <2>4
  \* A call that ends, and the last one of a tier.
  <1>6. phase = "calling" \/ tier_exhausted =>
          tries > 0 /\ silent <= CallTimeout /\ busy <= R + CallTime
    <2>1. CASE phase = "calling"
      <3>1. busy + CallTimeout <= R + CallTime + wait /\ silent <= wait
        BY <2>1 DEF Account
      <3>2. wait <= CallTimeout /\ tries > 0
        BY <2>1, Timeouts DEF Place
      <3> HIDE DEF R
      <3> QED BY <1>1, <1>2, <1>3, <3>1, <3>2, SMT
    <2>2. CASE tier_exhausted
      <3>1. phase = "between" /\ tries > 0
        BY <1>2, <2>2, Constants, SMT DEF tier_exhausted
      <3> QED BY <3>1 DEF Account
    <2> QED BY <2>1, <2>2
  <1>7. ASSUME phase = "calling" \/ tier_exhausted, tries' = 0, wait' = 0,
               busy' = busy, silent' \in {silent, 0},
               IF tier = 1 THEN tier' = 2 /\ phase' = "between"
               ELSE tier' = tier /\ phase' = "scoring"
        PROVE  Account'
    <2>1. tier = 1 => CallTime <= CallTime' /\ CallTime' \in Nat
      <3>1. tier = 1 => CallTime <= Calls * CallTimeout
        BY CallTimes
      <3>2. tier = 1 => CallTime' = Calls * CallTimeout + 0 * CallTimeout
        BY <1>7 DEF CallTime
      <3>3. 0 * CallTimeout = 0 /\ Calls * CallTimeout \in Nat
        BY <1>1, Constants, SMT
      <3> DEFINE all == Calls * CallTimeout
                 none == 0 * CallTimeout
      <3> HIDE DEF all, none
      <3>4. (tier = 1 => CallTime <= all) /\ (tier = 1 => CallTime' = all + none)
            /\ none = 0 /\ all \in Nat
        BY <3>1, <3>2, <3>3 DEF all, none
      <3> QED BY <3>4, SMT
    <2>2. silent' <= CallTimeout
      BY <1>1, <1>2, <1>6, <1>7, SMT
    <2>3. phase' = "between" => busy' <= R + CallTime'
      <3> HIDE DEF R
      <3> QED BY <1>1, <1>2, <1>3, <1>6, <1>7, <2>1, SMT
    <2>4. phase' = "scoring" => busy' <= R + EXTRACTION_BUDGET_SECONDS + wait'
      <3> HIDE DEF R
      <3> QED BY <1>1, <1>2, <1>3, <1>6, <1>7, SMT
    <2>5. phase' \in {"between", "scoring"} /\ ~(tries' > 0)
      BY <1>7, SMT
    <2>6. silent' <= CallTimeout + wait'
      BY <1>1, <1>7, <2>2, SMT
    <2> QED BY <2>2, <2>3, <2>4, <2>5, <2>6 DEF Account, R
  <1>8. CASE tier_exhausted
    BY <1>7, <1>8 DEF tier_exhausted, Escalate
  <1>9. CASE phase = "calling" /\ context_overflow
    BY <1>7, <1>9 DEF context_overflow, Escalate
  <1>10. ASSUME phase = "calling", phase' = "scoring", wait' = 0, busy' = busy,
                silent' \in {silent, 0}
         PROVE  Account'
    <2>1. busy' <= R + EXTRACTION_BUDGET_SECONDS + wait'
      <3> HIDE DEF R
      <3> QED BY <1>1, <1>2, <1>3, <1>6, <1>10, SMT
    <2>2. silent' <= CallTimeout + wait'
      BY <1>1, <1>2, <1>6, <1>10, SMT
    <2> QED BY <1>10, <2>1, <2>2 DEF Account, R
  <1>11. CASE phase = "calling" /\ refusal
    BY <1>10, <1>11 DEF refusal
  <1>12. CASE phase = "calling" /\ \E x \in Candidates, taken \in BOOLEAN : gated(x, taken)
    <2>1. PICK x \in Candidates, taken \in BOOLEAN : gated(x, taken)
      BY <1>12
    <2>2. CASE Escalate("pass", [gate_results EXCEPT !.gates = "blocked"])
      BY <1>7, <1>12, <2>1, <2>2 DEF gated, Escalate
    <2>3. CASE phase' = "scoring" /\ wait' = 0 /\ busy' = busy
      BY <1>10, <1>12, <2>1, <2>3 DEF gated
    <2> QED BY <2>1, <2>2, <2>3 DEF gated
  <1>13. CASE phase = "calling" /\ (unparseable \/ schema_invalid \/ transient)
    <2>1. /\ phase' = "between" /\ busy' = busy /\ tier' = tier /\ tries' = tries
          /\ silent' \in {silent, 0}
      BY <1>13 DEF unparseable, schema_invalid, transient, Again
    <2>2. CallTime' = CallTime
      BY <2>1 DEF CallTime
    <2>3. busy' <= R + CallTime' /\ silent' <= CallTimeout
      <3> HIDE DEF R
      <3> QED BY <1>1, <1>2, <1>6, <1>13, <2>1, <2>2, SMT
    <2> QED BY <2>1, <2>3 DEF Account, R
  <1>14. CASE call_model
    <2>1. /\ phase = "between" /\ phase' = "calling" /\ tries' = tries + 1 /\ tier' = tier
          /\ silent' = 0 /\ wait' = 0 /\ busy' = busy
      BY <1>14 DEF call_model
    <2>2. busy <= R + CallTime
      BY <2>1 DEF Account
    <2>3. CallTime' = CallTime + CallTimeout
      <3> DEFINE before == IF tier = 1 THEN 0 ELSE Calls * CallTimeout
                 these == tries * CallTimeout
      <3>1. (tries + 1) * CallTimeout = these + CallTimeout /\ these \in Nat
        BY <1>1, <1>2, Constants, Product
      <3>2. CallTime = before + these /\ CallTime' = before + (tries + 1) * CallTimeout
        BY <2>1 DEF CallTime
      <3>3. before \in Nat
        BY Constants
      <3> DEFINE then == (tries + 1) * CallTimeout
      <3>4. then = these + CallTimeout /\ CallTime' = before + then
        BY <3>1, <3>2
      <3> HIDE DEF before, these, then
      <3> QED BY <1>1, <3>1, <3>2, <3>3, <3>4, SMT
    <2>4. busy' + CallTimeout <= R + CallTime' + wait'
      <3> HIDE DEF R
      <3> QED BY <1>1, <1>2, <1>3, <2>1, <2>2, <2>3, SMT
    <2>5. silent' <= wait'
      BY <2>1, SMT
    <2> QED BY <2>1, <2>4, <2>5 DEF Account, R
  <1>15. CASE phase' = "idle"
    BY <1>15 DEF Account
  <1>16. CASE Pass /\ UNCHANGED funnelVars
    <2>1. UNCHANGED <<phase, reads, tier, tries>>
      BY <1>16 DEF funnelVars
    <2>2. CASE phase = "idle"
      BY <1>15, <2>1, <2>2
    <2>3. CASE busy' = busy + 1 /\ silent' = silent + 1 /\ wait' = wait + 1
      <3>1. left' = left /\ CallTime' = CallTime
        BY <2>1 DEF CallTime
      <3>2. ~(phase = "between")
        BY <1>2, <1>16, Timeouts, <2>3, SMT DEF Pass
      <3>3. CASE phase = "reading"
        <4>1. busy <= left + wait /\ silent <= left + wait /\ left \in Nat
          <5>1. reads \in 1 .. Reads
            BY <3>3, FunnelAssumption, SMT DEF Place, TypeOK, FunnelTypeOK
          <5> QED BY <3>3, <5>1, ReadTime DEF Account
        <4>2. busy' <= left' + wait' /\ silent' <= left' + wait'
          <5> HIDE DEF left
          <5> QED BY <1>2, <2>3, <3>1, <4>1, SMT
        <4> QED BY <2>1, <3>3, <4>2 DEF Account
      <3>4. CASE phase = "calling"
        <4>1. busy + CallTimeout <= R + CallTime + wait /\ silent <= wait
          BY <3>4 DEF Account
        <4>2. busy' + CallTimeout <= R + CallTime' + wait' /\ silent' <= wait'
          <5> HIDE DEF R
          <5> QED BY <1>1, <1>2, <1>3, <2>3, <3>1, <4>1, SMT
        <4> QED BY <2>1, <3>4, <4>2 DEF Account, R
      <3>5. CASE phase = "scoring"
        <4>1. busy <= R + EXTRACTION_BUDGET_SECONDS + wait /\ silent <= CallTimeout + wait
          BY <3>5 DEF Account
        <4>2. busy' <= R + EXTRACTION_BUDGET_SECONDS + wait' /\ silent' <= CallTimeout + wait'
          <5> HIDE DEF R
          <5> QED BY <1>1, <1>2, <2>3, <4>1, SMT
        <4> QED BY <2>1, <3>5, <4>2 DEF Account, R
      <3> QED BY <1>2, <2>1, <2>2, <3>2, <3>3, <3>4, <3>5 DEF Phases, Account
    <2> QED BY <1>16, <2>2, <2>3 DEF Pass
  <1>17. CASE UNCHANGED <<funnelVars, clocks>>
    BY <1>17 DEF funnelVars, clocks, Account, CallTime
  <1>18. CASE finish \/ fail
    BY <1>15, <1>18 DEF finish, fail, Done
  <1> QED BY <1>4, <1>5, <1>8, <1>9, <1>11, <1>12, <1>13, <1>14, <1>16, <1>17, <1>18
          DEF WorkerStep

\* Every step keeps all of it.
LEMMA Kept == MInv /\ [Next]_vars => MInv'
  <1> SUFFICES ASSUME MInv, [Next]_vars PROVE MInv'
    OBVIOUS
  <1>1. WorkerStep
    BY StepsOfWorker
  <1>2. FunnelTypeOK /\ WatchTypeOK /\ Place /\ Account /\ Reasons /\ EligibleIsVerified
    BY DEF MInv, TypeOK
  <1>3. FunnelTypeOK' /\ Place'
    BY <1>1, <1>2, PlaceKept
  <1>4. WatchTypeOK'
    BY <1>2, WatchTyped
  <1>5. TypeOK /\ TypeOK'
    BY <1>2, <1>3, <1>4 DEF TypeOK
  <1>6. Account'
    BY <1>1, <1>2, <1>5, AccountKept
  <1>7. Reasons' /\ EligibleIsVerified'
    BY <1>1, <1>2, ReasonsKept, EligibleKept
  <1> QED BY <1>3, <1>5, <1>6, <1>7 DEF MInv

\* It holds in every state.
LEMMA Always == Spec => []MInv
  BY Begins, Kept, PTL DEF Spec

\* While it reads, one read is under way and counted in what is left.
LEMMA Reading ==
  ASSUME TypeOK, Place, phase = "reading"
  PROVE  /\ wait <= ReadTimeout
         /\ (Reads - reads) * ReadTimeout + ReadTimeout <= Reads * ReadTimeout
         /\ (Reads - reads) * ReadTimeout \in Nat
  <1>1. reads \in 1 .. Reads /\ wait <= ReadTimeout
    BY Timeouts, FunnelAssumption, SMT DEF Place, TypeOK, FunnelTypeOK
  <1>2. reads - 1 \in Nat /\ Reads - (reads - 1) \in Nat
        /\ Reads - (reads - 1) <= Reads /\ Reads \in Nat
    BY <1>1, FunnelAssumption, SMT
  <1>3. (Reads - (reads - 1)) * ReadTimeout <= Reads * ReadTimeout
    BY <1>2, FunnelAssumption, ProductMono
  <1>4. /\ (Reads - (reads - 1)) * ReadTimeout = (Reads - reads) * ReadTimeout + ReadTimeout
        /\ (Reads - reads) * ReadTimeout \in Nat
    BY <1>1, ReadTime
  <1> QED BY <1>1, <1>3, <1>4

-----------------------------------------------------------------------------
(* The theorems. *)

\* Type correctness: no handler, model or watchdog step leaves a variable
\* with a value it may not have; no tier is called more than Calls times.
THEOREM ModelTierTypeCorrect == Spec => []TypeOK
  <1>1. MInv => TypeOK
    BY DEF MInv
  <1> QED BY <1>1, Always, PTL

\* gates.py: whatever the models reply, what an invoice is posted with is
\* complete and adds up, and nothing of it is made up.
THEOREM EligibleVerified == Spec => []EligibleIsVerified
  <1>1. MInv => EligibleIsVerified
    BY DEF MInv
  <1> QED BY <1>1, Always, PTL

\* run_funnel: a document that goes to review says why, for any number of
\* repairs, unless no model ever answered.
THEOREM ReviewExplained == Spec => []ReviewSaysWhy
  <1>1. MInv => ReviewSaysWhy
    BY DEF MInv, Reasons, Reason, ReviewSaysWhy
  <1> QED BY <1>1, Always, PTL

\* config.py:159-178: if a document's reads and the scores fit into the
\* margin, the consumer polls in time, for every timeout and every number of
\* repairs: the budget really is the sum of the calls.
THEOREM PollInTime == FitsPoll => (Spec => []WithinPoll)
  <1> SUFFICES ASSUME FitsPoll PROVE Spec => []WithinPoll
    OBVIOUS
  <1>1. ASSUME MInv PROVE WithinPoll
    <2> DEFINE R == Reads * ReadTimeout
               left == (Reads - reads) * ReadTimeout
    <2>1. /\ R \in Nat /\ EXTRACTION_BUDGET_SECONDS \in Nat
          /\ CallTimeout \in Nat /\ ReadTimeout \in Nat
          /\ ScoresTimeout \in Nat /\ BudgetMargin \in Nat
      BY Constants, FunnelAssumption
    <2>2. R + ScoresTimeout <= BudgetMargin
      BY DEF FitsPoll
    <2>3. TypeOK /\ Place /\ Account
      BY <1>1 DEF MInv
    <2>4. busy \in Nat /\ wait \in Nat /\ phase \in Phases
      BY <2>3 DEF TypeOK, FunnelTypeOK
    <2>5. CallTime \in Nat /\ CallTime <= EXTRACTION_BUDGET_SECONDS
      BY <2>3, CallTimes
    <2>6. CASE phase = "idle"
      <3>1. busy = 0
        BY <2>3, <2>6 DEF Place
      <3> QED BY <2>1, <3>1, SMT DEF WithinPoll, KAFKA_MAX_POLL_INTERVAL
    <2>7. CASE phase = "reading"
      <3>1. wait <= ReadTimeout /\ left + ReadTimeout <= R /\ left \in Nat
        BY <2>3, <2>7, Reading
      <3>2. busy <= left + wait
        BY <2>3, <2>7 DEF Account
      <3> HIDE DEF R, left
      <3> QED BY <2>1, <2>2, <2>4, <3>1, <3>2, SMT
              DEF WithinPoll, KAFKA_MAX_POLL_INTERVAL
    <2>8. CASE phase = "between"
      <3>1. busy <= R + CallTime
        BY <2>3, <2>8 DEF Account
      <3> HIDE DEF R
      <3> QED BY <2>1, <2>2, <2>4, <2>5, <3>1, SMT DEF WithinPoll, KAFKA_MAX_POLL_INTERVAL
    <2>9. CASE phase = "calling"
      <3>1. busy + CallTimeout <= R + CallTime + wait /\ wait <= CallTimeout
        BY <2>3, <2>9, Timeouts DEF Account, Place
      <3> HIDE DEF R
      <3> QED BY <2>1, <2>2, <2>4, <2>5, <3>1, SMT DEF WithinPoll, KAFKA_MAX_POLL_INTERVAL
    <2>10. CASE phase = "scoring"
      <3>1. busy <= R + EXTRACTION_BUDGET_SECONDS + wait /\ wait <= ScoresTimeout
        BY <2>3, <2>10, Timeouts DEF Account, Place
      <3> HIDE DEF R
      <3> QED BY <2>1, <2>2, <2>4, <3>1, SMT DEF WithinPoll, KAFKA_MAX_POLL_INTERVAL
    <2> QED BY <2>4, <2>6, <2>7, <2>8, <2>9, <2>10 DEF Phases
  <1> QED BY <1>1, Always, PTL

\* values.yaml:125-130: if one document's reads, and one call with the scores,
\* stay under the probe, no healthy worker is killed, for every number of
\* calls: each of them touches the heartbeat.
THEOREM ProbeFindsFresh == FitsProbe => (Spec => []HeartbeatFresh)
  <1> SUFFICES ASSUME FitsProbe PROVE Spec => []HeartbeatFresh
    OBVIOUS
  <1>1. ASSUME MInv PROVE HeartbeatFresh
    <2> DEFINE R == Reads * ReadTimeout
               left == (Reads - reads) * ReadTimeout
    <2>1. /\ R \in Nat /\ CallTimeout \in Nat /\ ReadTimeout \in Nat
          /\ ScoresTimeout \in Nat /\ StaleSeconds \in Nat
      BY Constants, FunnelAssumption
    <2>2. R < StaleSeconds /\ CallTimeout + ScoresTimeout < StaleSeconds
      BY DEF FitsProbe
    <2>3. TypeOK /\ Place /\ Account
      BY <1>1 DEF MInv
    <2>4. silent \in Nat /\ wait \in Nat /\ phase \in Phases
      BY <2>3 DEF TypeOK, FunnelTypeOK
    <2>5. CASE phase = "idle"
      BY <2>5 DEF HeartbeatFresh
    <2>6. CASE phase = "reading"
      <3>1. wait <= ReadTimeout /\ left + ReadTimeout <= R /\ left \in Nat
        BY <2>3, <2>6, Reading
      <3>2. silent <= left + wait
        BY <2>3, <2>6 DEF Account
      <3> HIDE DEF R, left
      <3> QED BY <2>1, <2>2, <2>4, <3>1, <3>2, SMT DEF HeartbeatFresh
    <2>7. CASE phase = "between"
      <3>1. silent <= R \/ silent <= CallTimeout
        BY <2>3, <2>7 DEF Account
      <3> HIDE DEF R
      <3> QED BY <2>1, <2>2, <2>4, <3>1, SMT DEF HeartbeatFresh
    <2>8. CASE phase = "calling"
      <3>1. silent <= wait /\ wait <= CallTimeout
        BY <2>3, <2>8, Timeouts DEF Account, Place
      <3> HIDE DEF R
      <3> QED BY <2>1, <2>2, <2>4, <3>1, SMT DEF HeartbeatFresh
    <2>9. CASE phase = "scoring"
      <3>1. silent <= CallTimeout + wait /\ wait <= ScoresTimeout
        BY <2>3, <2>9, Timeouts DEF Account, Place
      <3> HIDE DEF R
      <3> QED BY <2>1, <2>2, <2>4, <3>1, SMT DEF HeartbeatFresh
    <2> QED BY <2>4, <2>5, <2>6, <2>7, <2>8, <2>9 DEF Phases
  <1> QED BY <1>1, Always, PTL
=============================================================================
