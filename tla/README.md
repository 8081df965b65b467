# A model of the document pipeline

TLA+ modules, model-checking runs and machine-checked proofs for the document-extraction pipeline
of this repository (`docpipeline/`, its SQL and its schema). Paths below are relative to the
repository root.

The pipeline takes a PDF or an image from a bucket, produces its text (embedded, or by OCR in
shards that are joined), extracts invoice fields from the text with models and quality gates, and
posts the result once. All state is one Postgres ledger and one object store; the stages talk through
a transactional outbox, a relay and Kafka; a reconciliation tier re-drives what got stuck.

## 1. Inventory

| Component | State | Operations | Interacts with | Hard part |
|---|---|---|---|---|
| Ledger (`core/ledger.py`, `core/sql/`, `migrations/001_init.sql`) | `documents`, `document_shards`, `outbox`, `feature_flags` | guarded transition, shard join, first-writer-wins commit, enqueue, attempts | everybody, through SQL transactions | which steps are one transaction; writes without a state guard |
| Outbox relay and bus (`core/outbox.py`, `infra/kafka_utils.py`) | outbox rows, consumer positions | relay batch, publish, poll, commit offset | all stages | redelivery, reordering, skipped messages |
| Object store (`core/artifact.py`, `infra/gcs.py`) | objects by path | upload, exists, download | triage, text production, extraction | uploads survive a rollback |
| Triage (`stages/triage_1.py`) | the initial row, one per checksum | describe, download, classify, insert and dispatch, commit offset | inbox, ledger, bus | dies or loses its partition between its commits; a raised request is passed over |
| Orphan detector (`reconciliation/orphan_detector_0.py`) | none | list, drop the known, drop the pending, enqueue | inbox, ledger, bus | three reads at three times, several passes at once |
| PDF worker (`stages/pdf_worker_2.py`) | what a consumer is in the middle of | tier-0 text, fall-through, split in three commits | ledger, store, bus | unguarded commit, falling through twice |
| OCR shard worker (`stages/ocr_shard_3.py`) | same | begin, OCR, record and maybe join | same | exactly one winner of the join, rolled-back join |
| Extraction worker (`stages/extraction_4.py`) | same | begin, load, assemble, attempt, funnel, commit | same, and the models | two workers on one document, late answers, business key, partial artifacts |
| Funnel, gates, model client (`extraction_4.py`, `core/gates.py`, `stages/llm_client.py`) | `gate_results`, the tier and its calls | read, call, repair, escalate, judge, push scores | models, heartbeat | evasion by omission, reasons overwritten by later tiers, the account of time |
| Sink (`stages/sink_stub_5.py`) | `posted_documents` | insert the first row | bus | redelivery, skipped message |
| Sweeper (`reconciliation/sweeper.py`) | claimed rows | claim, give up, re-drive | ledger, bus | stale rows, dying between claim and re-drive |
| Operator lane, DLQ replay (`reconciliation/operator.py`, `dlq_replay.py`) | what a batch still has to do | force re-drive, accept, kill switch, batches | ledger, bus | decides on an unlocked read; re-drives to a stage that is already done |
| GPU watchdog (`reconciliation/gpu_watchdog.py`) | time of its last restart | look, restart, pin | models, Kubernetes | acts on an old reading, twice at once, with answers lost |
| Heartbeats, budgets (`infra/heartbeat.py`, `config.py`) | a file's age | touch | kubelet, consumer group, sweeper | a probe, a poll interval or a threshold shorter than a slow message |
| Prune, canary, dead man's switch, reports | their own | delete, alert | ledger | watermarks |
| Drain and local scripts | none | wait, summarise | ledger, bus | a quiet period is not an empty queue |

What makes each correct:

* **Ledger, text production**: shards are counted once each; the last one, and only it, hands the
  document on, with its whole text; a join is never lost; after the hand-over text production
  leaves the document alone; every document leaves text production.
* **Extraction, sink, operators**: a result is decided once and posted at most once, unchanged;
  `complete` is final and says why; an invoice is posted once however often it was scanned; nothing
  is posted from an incomplete text; every document settles.
* **Relay, triage, detector**: delivery at least once; one row and one dispatch per checksum; a
  dispatch is never lost; no object stays without a row.
* **Sweeper, DLQ**: every in-flight situation, whoever brought a document there, has a re-drive that
  gets it moving, or a cap that ends it.
* **Funnel, gates**: only a verified extraction is eligible, whatever the models leave out; a document
  in review says why. **Watchdog, budgets**: models end up on the GPU; a slow worker is neither
  killed, nor expelled from its group, nor overtaken by the sweeper.

`PROJECT.json` lists every component with its status and every hazard at its line.

## 2. Modules

```
Ledger ──┬── PdfWorker ──┐
         ├── OcrShard ───┼── TextProduction ─── MCTextProduction
         ├── Sweeper ────┤        │  implements TextStage
         │               │        └── TextProductionProofs (with TextStepProofs)
         │               └──────────┐
         └── Results ──┬─ Extraction ┼── ExtractStage ─── MCExtractStage
                       ├─ Operator ──┤        │  implements ExactlyOnce
Artifacts ─────────────┴─ Sink ──────┘        └── ExtractStageProofs (with ExtractionProofs)

PdfWorker, OcrShard, Extraction, Sink, Operator ── DlqReplay ── Pipeline ─── MCPipeline
                                                                   │  implements ExactlyOnce
                                                                   └── PipelineProofs

SweeperProofs ──┬── TextStepProofs ───┬── TextProductionProofs
                └── ExtractionProofs ─┴── PipelineProofs

Partitions ── OutboxRelay ── Triage ── OrphanDetector ── Ingest ─── MCIngest
                                                           └── IngestProofs

Gates ── Funnel ──┬── ModelTier ─── MCModelTier
    GpuWatchdog ──┘        └── ModelTierProofs
```

(`PdfWorker`, `OcrShard`, `Extraction` and `Operator` also extend `Artifacts`; `Operator` extends `Sweeper`.)

* **Ledger**: the columns text production and recovery use, the rows of `document_shards`, the move
  table, `MayTransition` (the `WHERE state = ANY(...)` of `ledger.transition`, whose callers all
  leave `idempotent=True`), `record_shard_and_maybe_join`, and messages. *One SQL transaction is
  one action*: another process may run between two commits and never inside one. A transaction that
  raises `IllegalTransition` is rolled back, and its action is a disjunct that changes nothing but
  the message.
* **Bus**: an outbox row, its relay and the Kafka record are one element of `bus`, the set of
  messages that may still be delivered. `Take` may leave the message behind (redelivery), `FailHolding`
  is a handler that dies after a commit (the message comes back or is skipped), `SkipUnbegun` one
  that dies before its first commit and is skipped. Order is not kept: the relays run with two
  replicas and `SKIP LOCKED`, and consumers are several.
* **Artifacts**: which objects exist. Uploads are not undone by a rollback.
* **PdfWorker**, **OcrShard**, **Extraction**: one variable per stage (`pdf_work`, `ocr_work`,
  `ext_work`) says where in its handler each consumer process is and what it remembers. Extraction
  goes `begun → loaded → (absent →) read → attempt → judged → post/hold`, with `incomplete` and
  `duplicate` for the routes to review; each arrow is a commit or a read or write of the store, the
  flag or the row. The artifact is written before the completeness gate looks at it and is never
  assembled again: `partial` says which artifacts lack pages, because fewer outputs than there are
  shards were joined or because OCR lost some (`MayLosePages`). What the models and the gates that
  look at one document only come to is the choice of a member of `Answers[d]`; `business_dedupe` is
  explicit, because it reads other documents.
* **Results**: `extraction_result`, the key `(vendor, invoice_no)` with its partial unique index, the
  verdict in `gate_results`, the kill switch, and `document.extracted` messages.
  `commit_extraction_result` is first-writer-wins; neither it nor `route_without_writing` looks at the
  state.
* **Sweeper**: `claim_batch` (one transaction for the batch, with the attempt cap) and
  `redrive_document`, one transaction per row *as it was claimed*; a tick may die in between.
* **Operator**: the unlocked read of `force_redrive` and `accept_review` is one action, their update
  another.
* **DlqReplay**: `bulk_redrive` with its cap and the daily replay job. A batch is selected in one
  statement and re-driven document by document, each read again and committed on its own; one that
  moved between its read and its update ends the batch. `stamp` is the build and prompt a document was
  last extracted with, which alone lets the job replay it.
* **Sink**: `ON CONFLICT DO NOTHING`, redelivery, and an insert that raises and is passed over.
* **TextProduction** and **ExtractStage** compose them. The first starts with documents as triage
  leaves them and nothing in it consumes `ocr.completed`; the second starts with documents as the
  first hands them on (`HandedOnWithText`), and a document that is re-driven to text production leaves it.
* **Pipeline** composes all of them without those assumptions about each other: `ocr.completed` of the
  text stage is what extraction consumes, failed documents do go back to text production, and a text
  that was handed on too early really is assembled.
* **TextStage** and **ExactlyOnce** are the abstract specifications.

The ingest modules each extend the one before and compose into **Ingest**:

* **Partitions**: the topic `triage.requests`. `log` holds the records from the committed offset on,
  `position` says how many of them the owner was given, which runs ahead of what is committed; a
  crash or a rebalance sets it back. A commit covers everything before it, so a record whose handler
  raised is skipped by the next commit; a member that lost the partition commits nothing,
  and goes on. The commit of `confluent_kafka` is asynchronous and `triage_1.py:118` does not look at
  its outcome; one that never arrives is a crash before it.
* **OutboxRelay**: `claim_outbox_batch` locks rows, `deliver` publishes one, `delete_on_ack` deletes
  the batch, `FailRelay` rolls back whatever the broker has by then. Which rows a batch has is left
  open (the query orders by id and skips what is locked, and two relays overtake each other). A
  record that the broker gets after the rollback is taken as delivered before it. `copy` stands for
  the row's id. Dispatches to text production only need to arrive (`arrived`).
* **Triage**: `poll`, `object_info`, `download_and_classify`, `insert_and_dispatch`, `commit_offset`,
  one action for each call that reads or commits. The object is read twice and may have been
  overwritten or deleted in between. `FailTriage` is the loop's `except`: rolled back and passed over.
* **OrphanDetector**: three reads and a commit. A pass in the model starts only while fewer than
  `MaxBacklog` requests are in the outbox or undelivered, which stands for the interval of the real
  one; without it the same request could be enqueued without end (section 5).

The model tier is on a clock of its own:

* **Gates**: `run_all` and the decision `run_funnel` makes of it, over an extraction as the gates see it:
  each field is what the text says, made up, missing, or an amount. Early returns, `inconclusive` and
  `not_applicable` are as in the code.
* **Funnel**: the same message as in `Extraction`, in time and with the funnel written out: the reads of
  the object store, calls with retries and repairs, escalation, the entries of `gate_results` as each
  branch overwrites them, and the scores pushed afterwards. `busy` is the time since the poll,
  `silent` the time since `heartbeat.touch`. Every external operation has the timeout the code gives
  it; local work takes no time. What a model replies is any class of reply, and any of `Candidates`.
* **GpuWatchdog**: `check_once` reads `/api/ps` in one action and acts on that reading in later ones.
  There are the loop, which remembers its last restart until its process starts anew, and
  `--check-once` beside it, which remembers nothing. Where a model loads, idle unloads, lost answers
  to a DELETE and rescheduling are Ollama's and Kubernetes', and external.
* **ModelTier** puts them on one clock: the worker's call loads a model, the watchdog may delete the pod it
  is calling, a model on the CPU answers when the time is up or not at all.

Operators whose comment starts with `Mutant:` are plausible bugs; they are used only to check that
a property can fail (see `PROJECT.json`, "mutants").

## 3. Runs

Passing runs:

| Run | Instance | Shows |
|---|---|---|
| `ingest` | a readable document and a rejected one, 2 paths, 2 partitions, 2 consumers, 2 relays, 1 detector, 2 changes of the inbox, 1 fault, fair; 780 thousand states | `DispatchNotLost`, `TriagedOnce`, `NoOrphanForever`, types |
| `text_join` | a scan of 2 shards beside a tier-0 document, 2 OCR workers, 1 splitter, sweeper with batches of up to 2, 1 fault, 1 attempt, fair; 240 thousand states | `ShardAccounting`, `HandedOnWithText`, `NoLostJoin`, `ShardInputExists`, `HandedOnIsFinal`, implements `TextStage`, `TextSettles` (both leave text production), types with the attempt cap |
| `extract_operator` | one document, 2 workers, any answer of the model each time, 3 operations, 2 faults; 840 thousand states | implements `ExactlyOnce`, `CompleteIsFinal`, `CompleteSaysWhy`, `InFlightIsOpen` |
| `extract_duplicates` | 2 scans of one invoice, 2 workers, the same reading each time, 1 operation, 1 fault; 1.9 million states | `NoDoubleInvoice` |
| `pipeline` | a scan of 2 shards, one consumer of each group, a person (1 operation or batch), the replay job (1 run), 1 deployment, a funnel that may be exhausted, fair; 250 thousand states | `Settles`, `CompleteIsFinal`, implements `ExactlyOnce`, types: whoever re-drives the document, from wherever it failed, it does not stay in flight |
| `pipeline_fall_through` | a document that falls through to a split of 2, an OCR that may lose pages, 1 fault, fair; 180 thousand states | `PostedHasWholeText`, `PostedLacksNoPage`, `Settles`: the join may come too early (see `text_fall_through`), and the completeness gate behind it holds |
| `model_tier` | both tiers, a model each, 2 calls per tier, ten wrong extractions and a right one, the watchdog's loop, 2 mishaps, fair; 870 thousand states | `WithinPoll`, `HeartbeatFresh`, `EligibleIsVerified`, `ReviewSaysWhy`, `Heals`, types |

Runs that exhibit a disagreement between the code and what the repository says of it (the
"findings" of `PROJECT.json` quote both sides):

| Run | Property violated | How |
|---|---|---|
| `text_fall_through` | `NeverStranded` | a second `text.embedded` after a fall-through resets `shards_total` to 1 while the shards of the split are recorded: no one wins the join, and no shard is missing for the sweeper to re-drive |
| `extract_final` | `CompleteIsFinal` | two workers with different readings; the late one meets the unique index and routes the completed document to review |
| `extract_double_invoice` | `NoDoubleInvoice` | the loser's key is committed over the winner's, and another scan of the winner's invoice is posted |
| `extract_unposted` | `CompletePosts` | the sink passes over a message whose insert raised; nothing re-drives a complete document |
| `redrive_review` | `RedrivenIsOpen` | a document re-driven from review still has its first result; the new extraction is discarded and the document runs out of attempts |

That `CompleteIsFinal` and `NoDoubleInvoice` each hold in one run and fail in another is the point:
they hold for one document with any answers, and for many documents when every worker reads the
same, and need both different readings and a key collision to fail. The theorems of section 4 say which
hypothesis each one needs, and they hold for every instance that satisfies it.

Seven more observations of the kind have no run of their own:

* An override "enqueues `document.extracted` exactly as the normal path does" (`operator.py:118-123`),
  but without the fields, so the row downstream is empty.
* Two live workers can hold one document when a model call outlasts the sweeper's threshold, which
  `state_machine.sql:8-9` excludes. The extraction runs contain this.
* The replay job may re-drive a document again with the pairing it had (`dlq_replay.py:7-8`): one that
  fails again before extraction loads it keeps its old stamp.
* A failed document is re-driven to text production if its artifact is absent, which `operator.py:57-58` takes for
  text production not having finished. The artifact is assembled by extraction, so a scan whose
  shards are all there goes back, too; `pipeline` shows that it still settles.
* "A `complete` document always states whether it earned that or was granted it" (`operator.py:115-117`),
  but not always truly. A document goes to review without a result when its text was incomplete or its
  invoice a duplicate; an operator accepts it, which posts an empty row; a second worker, still at
  its extraction, then commits the first result, and its "passed" replaces the operator's stamp.
  `CompleteSaysWhy` fails so as soon as a text may lack pages (`MayLosePages`), and is proved for whole ones,
  and for any as long as nobody else holds the document.
* With two extraction workers on one document the artifact may be replaced by one that lacks pages, after
  the result was posted: the second found it absent too, and lost pages when it assembled.
  `PostedLacksNoPage` fails so, and is proved where no two hold a document; what was posted is right either way
  (`PostedHasWholeText`).
* "One delete per interval" (`config.py:202-203`) holds within one incarnation of the watchdog, and not
  after a DELETE whose answer was lost.

**Bounds.** `MaxFaults` counts redeliveries, failures and skips; one is enough for each of them,
two for a loss during the recovery from another. `MaxOperations` counts what operators do.
Attempts are bounded by the code's own caps, taken small (1; 5 in `config.py`); the
sweeper alone can use them up. A
second shard is what a join needs, and a second consumer what a race for it needs; two documents
are what a key collision needs, and what the detector needs to find one known and one not. In
`ingest`, `MaxChanges` counts uploads and deletions (two: an object and its replacement), and one
fault is enough for a lost request, a redelivery or a moved partition, each of which the detector or
the next owner must make up for; the proofs carry the safety part to any number of all of these.
The pipeline runs have one consumer of each group, because races within a group are the stages'
own runs; what they add is the way back from one stage to an earlier one, so one document will do.
In `model_tier`, `MaxMishaps` counts loads that fall back to the CPU, unloads, lost answers of
Kubernetes, restarts of the watchdog, checks from outside, and calls that raise; two make one happen during
the recovery from another. One repair stands for two (the proof has any number), one read for a few.

Deadlock is off where the system may really come to rest: a document that is failed, posted or in
review and no message left (all runs on the ledger), the inbox triaged (`ingest`). In `model_tier`
time goes on, so there it is a formality.

**Time.** On the ledger the sweeper may claim any in-flight document at any moment. The thresholds in
`config.py` make that rare, not impossible: a consumer that was descheduled is not bounded by them.
`model_tier` has a clock, in units of 100 seconds: a call takes up to 2 (`LITELLM_TIMEOUT_SECONDS` is 200), the
margin is 3 and the probe 3 (300 each), the cooldown 3; the 30 seconds of a read are rounded up to
1 and the 35 of the scores down to 0. Time passes only while the operation under way is within its
timeout, so the properties say what the account is worth if timeouts are kept: httpx bounds connecting and each read of a response
separately, so a model that answers drop by drop may exceed them.

**Fairness.** Consumers poll in endless loops and the sweeper ticks forever, so weak fairness on
their steps; the claim query orders by the time of the last state change, so that a document that
is in flight again and again is claimed again and again: strong fairness on claiming each document.
In ingest each relay,
consumer and detector is weakly fair in its own steps, as each is an endless loop. `Pipeline` is fair as its stages
are: nobody has to operate, deploy or replay. In `ModelTier` the worker, the watchdog's loop and
Kubernetes' rescheduling are weakly fair; time is strongly fair, because without it the worker could
do endless many operations in no time, and `Tick` is disabled again and again while an operation's time is up. Faults, users,
operators and the kill switch are never forced. Nobody is fair *per message*: a message can
be passed over by other messages only finitely often, as the bus is a finite set.

## 4. Proofs

TLAPS checks these for every number of documents, shards, workers, operators, attempts and faults.

**Text production** (`TextProductionProofs`). The invariant is `IInv` (at the end of
`TextProduction`). The safety properties are not inductive: that a shard's increment is compared
with the real `shards_total` depends on where the message came from. So `IInv` says of every message,
every job and every claimed row what must have happened before it existed: a tier-0 document never
meets OCR (`BusInv`, `PdfInv`, `OcrInv`, `RowInv`), whoever holds a shard of a document with several
has its split uploaded and committed (`IsSplit`), and an `ocr.completed` exists only for a document
handed on. `JoinInv` then gives `NoLostJoin`: every shard recorded iff handed on. From it follow
`TypeCorrect`, `ShardAccountingHolds`, `HandedOnWithTextHolds`, `NoLostJoinHolds`,
`ShardInputExistsHolds`, the action property `HandedOnIsFinalHolds`, and the refinement
`TextProductionRefines` (every step is a `Gather`, a `Complete`, an `Abandon` or a stutter of
`TextStage`). Properties that speak of the join are restricted to `Joinable`, the documents that do
not fall through to a split of several shards; `text_fall_through` shows why.

**What a worker's step does** (`ExtractionProofs`, `TextStepProofs`, `SweeperProofs`). The same handlers run in
the stages and in the pipeline, so what one step of theirs does is stated once, about the module of the
handler. `WorkerMoves` says how a worker's memory may change (`JobMove`), `WorkerCommits` that a commit
begins a document, rejects it, puts it in review with a result or posts it, and `WorkerWrites` what it does to
the artifact; `RedriveEffect`, `AcceptEffect` and `SinkEffect` do so for the operators and the sink. The invariants
below are proved from these, never from the handlers.

**Extraction** (`ExtractStageProofs`). `GInv` is the general invariant: types; a worker about to post or hold
an extraction has one (`PostingHasFields`, without which the types are not inductive, since what is
committed comes from a worker's memory); messages and rows with fields tell the decided result
(`MessagesTellResult`, `RowsTellResult`), which stay true because a decided result is never overwritten.
From it follow `ExtractTypeCorrect`, the refinement `ExtractionRefines` (each step is a `Decide`, `Post` or
`Grant` of `ExactlyOnce`, or a stutter), `InFlightIsOpenHolds`, and `CompleteIsEarnedHolds`: a complete document was
granted that, or its gates passed and its result has fields. These need no hypothesis.

`KInv` adds that what a worker holds was answered for its document, that keys come from such answers, and
that the index keeps them apart. Then `NoDoubleInvoiceHolds`, if every reading of a document has the same key
(`SteadyKeys`): a late worker overwrites the key of a posted document, and with steady keys it writes the same.
The run `extract_double_invoice` is a counterexample without it.

`AInv` adds what holds where no worker comes to reject a document: texts are whole (`WholeTexts`), and no two
documents are scans of one invoice (`KeysApart`). `route_without_writing` looks at no state, so a rejection is
what moves a complete document; without rejections a settled document has its result, which closes it to late
workers, and an empty row belongs to a document whose stamp will stay "accepted". Hence `CompleteIsFinalHolds` and
`CompleteSaysWhyHolds`. The run `extract_final` is a counterexample without `KeysApart`; a late worker that
finds an incomplete text is one without `WholeTexts`.

Every counterexample has a document in two workers' hands, which `state_machine.sql:8-9` holds impossible and the
sweeper's threshold makes rare. `Exclusive` says that there is none now. For behaviours of which it is always true
(those of one worker, or of a sweeper that never claims a document somebody is at work on) the same three
properties are proved without any hypothesis on texts, keys or answers: `CompleteIsFinalExclusive`, `CompleteSaysWhyExclusive`,
`NoDoubleInvoiceExclusive`. `XInv` adds to `KInv` that what is held is not settled (`HeldIsUnsettled`): a worker that
settles a document lets go of it in the same commit, operators never bring a document into a worker's hands
but by a message, and a message is begun only in extraction. So nothing is written over what a posted row or a
message stands on (`PostedStands`). Thus whatever can go wrong with a complete document needs two live workers,
and that hypothesis, or the ones on texts and keys, is all it needs to go right.

**Pipeline** (`PipelineProofs`). The whole system after triage; the number of documents, shards, workers,
people, batches, replays and deployments is open, and nothing is assumed of fall-throughs or lost
pages. `StepKinds` splits `Next` into text production, an extraction worker, the sweeper, the sink, the
operators' lane and a change of settings. `PInv` has the types and `Tells` (as in `GInv`); `LayerInv`: a message
`text.embedded`, or a row with `has_text_layer`, exists only of a document in which triage saw a layer; and
`WholeInv`: an artifact without holes was made when every output was there, outputs are never
deleted, and whoever is past the completeness gate, or has decided, read such an artifact. From it follow
`PipelineTypeCorrect`, `PostedHasWholeTextHolds` and the refinement `PipelineRefines`. With `Exclusive` (above) there
are two more. `PostedLacksNoPageHolds` rests on `KeptInv`: what a worker found absent is absent until it writes it.
`PipelineCompleteIsFinal` rests on `HeldIsUnsettled`, and on what the others do to a state (`Spares`): text production moves
documents in flight only (`PdfMoves`, `OcrMoves`), and so does the sweeper; of people, batches and the replay job,
whatever they read, none moves a complete document, and only an acceptance makes one.

**Ingest** (`IngestProofs`). `DispatchNotLost` is not inductive: a relay deletes rows, and what it
deletes must already be with the broker. `IngestInv` adds `SentArrived` (a dispatch that a relay
holds as sent has arrived; `delete_on_ack` asks that all are sent) and, for the types,
`CommitsWhatItWasGiven`: a consumer that still owns the partition of its job was given everything
up to that job, so a commit never puts `position` below zero or beyond the log. From it follow
`IngestTypeCorrect`, `DispatchNotLostHolds` and the action property `TriagedOnceHolds`, which counts: relays only
relabel and delete rows (the rows after are an image of the rows before, `NoMoreDispatches`), the detector adds
requests, and the one step that adds a dispatch does so for a document that had no row.

**Model tier** (`ModelTierProofs`). That a message keeps its time is no invariant by itself: `busy`
says how much has passed and nothing of what made it. `MInv` adds `Place` (where the worker is
determines which reads and calls are behind it) and `Account`: `busy` is at most one timeout for every
operation that ended plus the wait for the present one, and `silent` the same since the last touch.
Products of unknown factors are what SMT does badly, so `Product` and `ProductMono` state the two facts
about them that are needed, and `CallTimes` that the calls of both tiers are the budget. Then
`PollInTime` holds if one document's reads and the scores fit into the margin (`FitsPoll`), and
`ProbeFindsFresh` if they, and one call with the scores, stay under the probe (`FitsProbe`). These two
hypotheses are what the code leaves to its documents. With the defaults (30 s a read, 35 s for seven
scores, a margin and a probe of 300 s) they hold for eight and for nine reads. A document of n
shards takes n + 4, so one of more than four or five shards, every read of which takes its whole
timeout, exceeds them. `Reasons` makes
`ReviewExplained` inductive: what a model has answered left a reason in `schema` or in `gate_results`,
whatever overwrote it. (Where no model ever answered, a document goes to review without a reason; the
code has none to give.) `EligibleVerified` rests on `UnblockedIsVerified`, a lemma about the gates
alone: grounding, arithmetic and business_dedupe suffice, because an inconclusive arithmetic blocks.
`ModelTierTypeCorrect` includes that no tier is called more often than it may be.

Assumptions are the named ones on the constants: `Doc` is finite (the cardinality of a batch, and of
the recorded shards), a document has at least one shard, caps are numbers, an extraction is neither
NULL nor the empty object; paths are finite, there is a consumer, a partition for every key, and a batch has
at least one row; a document is read from at least one object, and each tier has a model.

**Model-checked only**: liveness (`TextSettles`, `Settles`, `NoOrphanForever`, `Heals`), which is out
of TLAPS' reach here. TLC checks no property of `Gates` alone: `model_tier` and
`UnblockedIsVerified` do.

## 5. Not modelled, and the plan

Left out for good: the contents of text and the regular expressions and models that read it
(`classify_doc_type`, the digits of an IBAN, the dates in `plausibility`), OCR, metrics and logs,
deployment files, reports and alerts that read only (canary, dead man's switch, terminal report),
`attempt_log` and `repair_attempts`, which nothing modelled reads.

Left out so far, in the order in which they are to be added:

1. **Bus**: `Partitions` and `OutboxRelay` shown to implement the at-least-once set of `Ledger`.
2. **Repeated requests**: the relay deletes a request once the broker has it, so a detector in front of a
   slow triage consumer enqueues it again on every pass, which `orphan_detector.sql:6-8` says it does
   not; and an object whose text sampling always raises is requested for ever.
3. **Row locks**: a repair is counted in a transaction that spans the model calls that follow, so the
   sweeper passes over a document whose worker is slow. Here the sweeper may claim it, which allows more than the code does.
4. **Prune**: `prune.py` takes its watermark from `started_at` and `ended_at`, which no caller of
   `log_attempt` sets, so it is always NULL and nothing is ever deleted; there is little to model.
5. **Page ranges** of a split, as operators against a reference definition; **drain**, whose quiet
   period is not an empty queue.

Two plain faults were met on the way and need no model: `operator.replay_documents` uses
`ExtractionError` without importing it (`operator.py:245`), and a document whose calls all fail
transiently is parked in review without a reason (`extraction_4.py`, after both tiers).

Proofs to be added: `CompleteIsFinal` of `Pipeline` without `Exclusive`, for documents that do not fall through, whole
texts and keys that are apart (a message `ocr.completed` must then mean that every output is there, also of a
document that failed and came back); the at-least-once refinement of the bus.
