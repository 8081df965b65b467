----------------------------- MODULE Extraction -----------------------------
(***************************************************************************)
(* stages/extraction_4.py, the consumer of ocr.completed.  One message is  *)
(* handled in six commits or fewer, with reads of the object store and of  *)
(* the flag between them; every action below is one of those steps.        *)
(*                                                                         *)
(* The model tiers, their repair loop and the gates that depend on nothing *)
(* but the document and its extraction are one choice: Answers[d] holds    *)
(* the extractions that can come out of them with a clean pass, and        *)
(* NoResult if they can be exhausted.  In deterministic mode a document    *)
(* has one answer, with a real model it may have several.                  *)
(***************************************************************************)
EXTENDS Results, Artifacts

CONSTANTS
  ExtractWorker,  \* the consumer processes of the group extraction
  Answers,        \* what the funnel can return for a document
  MayLosePages    \* may OCR record a shard and have written only some of its pages?

ASSUME ExtractionAssumption ==
  /\ \A d \in Doc : Answers[d] \subseteq Fields \cup {NoResult}
  /\ MayLosePages \in BOOLEAN

VARIABLES
  ext_work,  \* what each consumer is in the middle of
  partial    \* documents whose artifact lacks pages

extVars == <<ext_work, partial>>

NoJob == [phase |-> "idle"]
Phases == {"begun", "loaded", "absent", "read", "incomplete", "attempt", "judged",
           "post", "hold", "duplicate"}
ExtractJob == [phase : Phases, doc : Doc, total : Nat, whole : BOOLEAN,
               fields : Fields \cup {NoResult}]
ExtractionTypeOK ==
  /\ ext_work \in [ExtractWorker -> ExtractJob \cup {NoJob}]
  /\ partial \subseteq Doc
ExtractionInit == ext_work = [w \in ExtractWorker |-> NoJob] /\ partial = {}

\* The worker is at `phase`, holding document d.
At(w, phase, d) == ext_work[w].phase = phase /\ ext_work[w].doc = d
Goto(w, phase) == ext_work' = [ext_work EXCEPT ![w].phase = phase]
Finish(w) == ext_work' = [ext_work EXCEPT ![w] = NoJob]
Read(w, whole) == ext_work' = [ext_work EXCEPT ![w].phase = "read", ![w].whole = whole]

\* First commit: the state is advanced on receipt, or the message is stale.
begin_extract(w) ==
  /\ ext_work[w] = NoJob
  /\ \E m \in bus : \E rest \in {bus, bus \ {m}} :
       /\ m.topic = "ocr.completed"
       /\ Take(m, rest)
       /\ bus' = rest
       /\ \/ /\ MayTransition(m.doc, {"extract_pending"}, "extract_running")
             /\ state' = [state EXCEPT ![m.doc] = "extract_running"]
             /\ ext_work' = [ext_work EXCEPT ![w] =
                  [phase |-> "begun", doc |-> m.doc, total |-> 0, whole |-> FALSE,
                   fields |-> NoResult]]
          \/ /\ ~MayTransition(m.doc, {"extract_pending"}, "extract_running")
             /\ UNCHANGED <<state, ext_work>>
  /\ UNCHANGED <<shardVars, attemptVars, artifactVars, partial, resultVars>>

\* Second commit: the row is read, and from here on remembered.
load_document(w) ==
  \E d \in Doc :
    /\ At(w, "begun", d)
    /\ ext_work' = [ext_work EXCEPT ![w].phase = "loaded", ![w].total = shards_total[d]]
    /\ UNCHANGED <<ledgerVars, artifactVars, partial, resultVars>>

\* Check-then-skip on the object store: what is there is never assembled again.
ensure_assembled(w) ==
  \E d \in Doc :
    /\ At(w, "loaded", d)
    /\ \/ d \in assembled /\ Read(w, d \notin partial)
       \/ d \notin assembled /\ Goto(w, "absent")
    /\ UNCHANGED <<ledgerVars, artifactVars, partial, resultVars>>

\* The artifact made of the first `total` outputs.
WriteArtifact(w, d) ==
  /\ write_assembled(d)
  /\ \E holes \in {FALSE, MayLosePages} :
       partial' = IF holes \/ ext_work[w].total < NumShards[d] THEN partial \cup {d}
                  ELSE partial \ {d}
  /\ Read(w, d \notin partial')

\* The rest of ensure_assembled: a missing output is no retry, and the artifact
\* is written before the completeness gate has looked at it.
assemble(w) ==
  \E d \in Doc :
    /\ At(w, "absent", d)
    /\ \/ /\ \A i \in 0 .. (ext_work[w].total - 1) : <<d, i>> \in shard_out
          /\ WriteArtifact(w, d)
       \/ /\ \E i \in 0 .. (ext_work[w].total - 1) : <<d, i>> \notin shard_out
          /\ Goto(w, "incomplete")
          /\ UNCHANGED <<assembled, partial>>
    /\ UNCHANGED <<ledgerVars, split_out, shard_out, resultVars>>

\* Mutant: no completeness gate.
StartUnchecked(w) ==
  \E d \in Doc :
    /\ At(w, "read", d)
    /\ extract_attempts' = [extract_attempts EXCEPT ![d] = @ + 1]
    /\ Goto(w, "attempt")
    /\ UNCHANGED <<state, shardVars, text_attempts, bus, faults, artifactVars, partial,
                   resultVars>>

\* The completeness gate, and the commit that opens an attempt.
start_attempt(w) ==
  \E d \in Doc :
    /\ At(w, "read", d)
    /\ \/ /\ ext_work[w].whole
          /\ extract_attempts' = [extract_attempts EXCEPT ![d] = @ + 1]
          /\ Goto(w, "attempt")
       \/ /\ ~ext_work[w].whole
          /\ Goto(w, "incomplete")
          /\ UNCHANGED extract_attempts
    /\ UNCHANGED <<state, shardVars, text_attempts, bus, faults, artifactVars, partial, resultVars>>

route_incomplete(w) ==
  \E d \in Doc :
    /\ At(w, "incomplete", d)
    /\ route_without_writing(d, "review")
    /\ Finish(w)
    /\ UNCHANGED <<shardVars, attemptVars, bus, faults, artifactVars, partial,
                   invoice_key, auto_post_enabled>>

\* Mutant: the funnel runs without the business_dedupe gate and the unique
\* index behind it.
KeyNeverTaken(w) ==
  \E d \in Doc :
    /\ At(w, "post", d)
    /\ LET f == ext_work[w].fields IN
         /\ invoice_key' = [invoice_key EXCEPT ![d] = KeyOf[f]]
         /\ commit_extraction_result(d, f, "passed", "complete", {ExtractedMsg(d, f)})
         /\ Finish(w)
    /\ UNCHANGED <<shardVars, attemptVars, bus, faults, artifactVars, partial, auto_post_enabled>>

\* The tiers and the gates.  A duplicate of a complete document is a gate
\* failure like any other: the funnel goes on and may be exhausted.
run_funnel(w) ==
  \E d \in Doc :
    /\ At(w, "attempt", d)
    /\ \E f \in Fields \cup {NoResult} :
         /\ \/ f \in Answers[d] \cap Fields /\ DedupePasses(d, f)
            \/ f = NoResult /\ NoResult \in Answers[d]
            \/ f = NoResult /\ \E g \in Answers[d] \cap Fields : ~DedupePasses(d, g)
         /\ ext_work' = [ext_work EXCEPT ![w].phase = "judged", ![w].fields = f]
    /\ UNCHANGED <<ledgerVars, artifactVars, partial, resultVars>>

commit_exhausted(w) ==
  \E d \in Doc :
    /\ At(w, "judged", d)
    /\ ext_work[w].fields = NoResult
    /\ commit_extraction_result(d, EmptyResult, "failed", "review", {})
    /\ Finish(w)
    /\ UNCHANGED <<shardVars, attemptVars, bus, faults, artifactVars, partial,
                   invoice_key, auto_post_enabled>>

\* The kill switch is read in a statement of its own.
read_flag(w) ==
  \E d \in Doc :
    /\ At(w, "judged", d)
    /\ ext_work[w].fields # NoResult
    /\ Goto(w, IF auto_post_enabled THEN "post" ELSE "hold")
    /\ UNCHANGED <<ledgerVars, artifactVars, partial, resultVars>>

commit_held(w) ==
  \E d \in Doc :
    /\ At(w, "hold", d)
    /\ commit_extraction_result(d, ext_work[w].fields, "failed", "review", {})
    /\ Finish(w)
    /\ UNCHANGED <<shardVars, attemptVars, bus, faults, artifactVars, partial,
                   invoice_key, auto_post_enabled>>

\* The key is written before it is known who is first, and stays written when
\* the result is discarded.
commit_post(w) ==
  \E d \in Doc :
    /\ At(w, "post", d)
    /\ LET f == ext_work[w].fields IN
       \/ /\ ~KeyTaken(d, KeyOf[f])
          /\ invoice_key' = [invoice_key EXCEPT ![d] = KeyOf[f]]
          /\ commit_extraction_result(d, f, "passed", "complete", {ExtractedMsg(d, f)})
          /\ Finish(w)
       \/ /\ KeyTaken(d, KeyOf[f])                     \* UniqueViolation, rolled back
          /\ Goto(w, "duplicate")
          /\ UNCHANGED <<state, extraction_result, gate_results, extracted, invoice_key>>
    /\ UNCHANGED <<shardVars, attemptVars, bus, faults, artifactVars, partial, auto_post_enabled>>

route_duplicate(w) ==
  \E d \in Doc :
    /\ At(w, "duplicate", d)
    /\ route_without_writing(d, "review")
    /\ Finish(w)
    /\ UNCHANGED <<shardVars, attemptVars, bus, faults, artifactVars, partial,
                   invoice_key, auto_post_enabled>>

\* A read of the object store, a model call or a commit raises, or the
\* process dies: what was committed stays.
FailExtract(w) ==
  /\ ext_work[w] # NoJob
  /\ FailHolding(Msg("ocr.completed", ext_work[w].doc), bus)
  /\ Finish(w)
  /\ UNCHANGED <<state, shardVars, attemptVars, artifactVars, partial, resultVars>>

ExtractStep(w) ==
  \/ begin_extract(w) \/ load_document(w) \/ ensure_assembled(w) \/ assemble(w) \/ start_attempt(w)
  \/ route_incomplete(w) \/ run_funnel(w) \/ commit_exhausted(w) \/ read_flag(w)
  \/ commit_held(w) \/ commit_post(w) \/ route_duplicate(w)

-----------------------------------------------------------------------------
(* What a worker remembers. *)

\* A worker about to post or hold an extraction has one.
PostingHasFields ==
  \A w \in ExtractWorker :
    ext_work[w].phase \in {"post", "hold"} => ext_work[w].fields \in Fields

\* What a worker holds is an answer for its document.
HeldIsAnswer ==
  \A w \in ExtractWorker :
    ext_work[w] # NoJob => ext_work[w].fields \in Answers[ext_work[w].doc] \cup {NoResult}

Holds(w, d) == ext_work[w] # NoJob /\ ext_work[w].doc = d

\* What state_machine.sql:8-9 takes for granted: a re-drive does not produce
\* two live workers.  (It does when a worker outlasts the sweeper's threshold.)
Exclusive ==
  \A v, w \in ExtractWorker : \A d \in Doc : Holds(v, d) /\ Holds(w, d) => v = w

\* Then nobody is at work on a document that has been settled.
HeldIsUnsettled ==
  \A w \in ExtractWorker : \A d \in Doc : Holds(w, d) => state[d] \notin {"review", "complete"}
=============================================================================
