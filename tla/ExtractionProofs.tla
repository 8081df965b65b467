-------------------------- MODULE ExtractionProofs --------------------------
(***************************************************************************)
(* What a step of an extraction worker, of an operator and of the sink     *)
(* does: to the types, and to the columns a later proof asks about.  Both  *)
(* modules that compose them, ExtractStage and Pipeline, rest on this one. *)
(***************************************************************************)
EXTENDS Extraction, Sink, Operator, SweeperProofs

USE DEF TextStates, ExtractStates, InFlightStates, RunningStates, States, Topics

(***************************************************************************)
(* Extraction workers.                                                     *)
(***************************************************************************)

\* The types of what a worker reads and writes.
WorkerTypeOK ==
  /\ LedgerTypeOK
  /\ assembled \subseteq Doc /\ split_out \subseteq Doc /\ shard_out \subseteq Doc \X Nat
  /\ ResultsTypeOK
  /\ ExtractionTypeOK


AllOutputsExist(d, total) == \A i \in 0 .. (total - 1) : <<d, i>> \in shard_out

NewJob(d) ==
  [phase |-> "begun", doc |-> d, total |-> 0, whole |-> FALSE, fields |-> NoResult]

\* How the memory of a worker goes on within one document.
JobMove(old, job) ==
  LET d == old.doc IN
  \/ old.phase = "begun" /\ job = [old EXCEPT !.phase = "loaded", !.total = shards_total[d]]
  \/ /\ old.phase = "loaded" /\ d \in assembled
     /\ job = [old EXCEPT !.phase = "read", !.whole = d \notin partial]
  \/ old.phase = "loaded" /\ d \notin assembled /\ job = [old EXCEPT !.phase = "absent"]
  \/ /\ old.phase = "absent" /\ AllOutputsExist(d, old.total) /\ d \in assembled'
     /\ job = [old EXCEPT !.phase = "read", !.whole = d \notin partial']
  \/ /\ old.phase = "absent" /\ ~AllOutputsExist(d, old.total)
     /\ job = [old EXCEPT !.phase = "incomplete"]
  \/ old.phase = "read" /\ old.whole /\ job = [old EXCEPT !.phase = "attempt"]
  \/ old.phase = "read" /\ ~old.whole /\ job = [old EXCEPT !.phase = "incomplete"]
  \/ /\ old.phase = "attempt"
     /\ \E f \in (Answers[d] \cap Fields) \cup {NoResult} :
          job = [old EXCEPT !.phase = "judged", !.fields = f]
  \/ /\ old.phase = "judged" /\ old.fields # NoResult
     /\ \E to \in {"post", "hold"} : job = [old EXCEPT !.phase = to]
  \/ /\ old.phase = "post" /\ KeyTaken(d, KeyOf[old.fields])
     /\ job = [old EXCEPT !.phase = "duplicate"]

\* What the commits of a worker write.  Taking a message advances the state;
\* a rejection writes no result; a review decides one, if there is none yet;
\* and so does a post, which writes the key all the same.
Begins(d) ==
  /\ state[d] \in ExtractStates
  /\ state' = [state EXCEPT ![d] = "extract_running"]
  /\ UNCHANGED <<extraction_result, gate_results, extracted, invoice_key>>

Rejects(w, d) ==
  /\ At(w, "incomplete", d) \/ At(w, "duplicate", d)
  /\ gate_results' = [gate_results EXCEPT ![d] = "failed"]
  /\ state' = [state EXCEPT ![d] = "review"]
  /\ UNCHANGED <<extraction_result, extracted, invoice_key>>

Reviews(w, d) ==
  /\ Holds(w, d)
  /\ extraction_result[d] = NoResult
  /\ \E r \in Fields \cup {EmptyResult} :
       /\ r \in Fields => At(w, "hold", d) /\ r = ext_work[w].fields
       /\ extraction_result' = [extraction_result EXCEPT ![d] = r]
  /\ gate_results' = [gate_results EXCEPT ![d] = "failed"]
  /\ state' = [state EXCEPT ![d] = "review"]
  /\ UNCHANGED <<extracted, invoice_key>>

Posts(w, d) ==
  /\ At(w, "post", d)
  /\ \E f \in Fields :
       /\ f = ext_work[w].fields
       /\ ~KeyTaken(d, KeyOf[f])
       /\ invoice_key' = [invoice_key EXCEPT ![d] = KeyOf[f]]
       /\ \/ /\ extraction_result[d] = NoResult
             /\ extraction_result' = [extraction_result EXCEPT ![d] = f]
             /\ gate_results' = [gate_results EXCEPT ![d] = "passed"]
             /\ state' = [state EXCEPT ![d] = "complete"]
             /\ extracted' = extracted \cup {ExtractedMsg(d, f)}
          \/ /\ extraction_result[d] # NoResult
             /\ UNCHANGED <<extraction_result, gate_results, state, extracted>>

\* A phase other than "idle" is that of a job.
LEMMA AtJob ==
  ASSUME ExtractionTypeOK, NEW w \in ExtractWorker, NEW d, NEW phase \in Phases,
         At(w, phase, d)
  PROVE  /\ ext_work[w] \in ExtractJob
         /\ ext_work[w].doc = d /\ d \in Doc
         /\ ext_work[w].phase = phase
BY DEF At, NoJob, Phases, ExtractionTypeOK, ExtractJob

\* Assigning phases and fields is assigning the job.
LEMMA JobUpdates ==
  ASSUME ExtractionTypeOK, NEW w \in ExtractWorker
  PROVE  /\ \A phase : Goto(w, phase) =>
              ext_work' = [ext_work EXCEPT ![w] = [ext_work[w] EXCEPT !.phase = phase]]
         /\ \A whole : Read(w, whole) =>
              ext_work' = [ext_work EXCEPT ![w] =
                [ext_work[w] EXCEPT !.phase = "read", !.whole = whole]]
BY DEF Goto, Read, ExtractionTypeOK

\* A worker takes a new job, drops the one it has, or goes on with it.
LEMMA WorkerMoves ==
  ASSUME ExtractionTypeOK, bus \subseteq Message, NEW w \in ExtractWorker,
         ExtractStep(w) \/ FailExtract(w)
  PROVE  \E job :
           /\ ext_work' = [ext_work EXCEPT ![w] = job]
           /\ \/ job \in {NoJob, ext_work[w]}
              \/ \E d \in Doc : job = NewJob(d)
              \/ ext_work[w] \in ExtractJob /\ JobMove(ext_work[w], job)
<1> DEFINE Goal(job) ==
       /\ ext_work' = [ext_work EXCEPT ![w] = job]
       /\ \/ job \in {NoJob, ext_work[w]}
          \/ \E d \in Doc : job = NewJob(d)
          \/ ext_work[w] \in ExtractJob /\ JobMove(ext_work[w], job)
<1>0. ext_work = [ext_work EXCEPT ![w] = ext_work[w]]
  BY DEF ExtractionTypeOK
<1>1. CASE Finish(w)
  BY <1>1 DEF Finish
<1>2. CASE UNCHANGED ext_work
  BY <1>0, <1>2
<1>3. CASE begin_extract(w)
  <2>1. PICK m \in bus :
          \/ ext_work' = [ext_work EXCEPT ![w] = NewJob(m.doc)]
          \/ UNCHANGED ext_work
    BY <1>3 DEF begin_extract, NewJob
  <2>2. m.doc \in Doc
    BY DEF Message
  <2> QED
    BY <1>2, <2>1, <2>2
<1>4. CASE load_document(w)
  <2>1. PICK d \in Doc :
          /\ At(w, "begun", d)
          /\ ext_work' = [ext_work EXCEPT ![w].phase = "loaded", ![w].total = shards_total[d]]
    BY <1>4 DEF load_document
  <2>2. ext_work' = [ext_work EXCEPT ![w] =
          [ext_work[w] EXCEPT !.phase = "loaded", !.total = shards_total[d]]]
    BY <2>1 DEF ExtractionTypeOK
  <2>3. ext_work[w] \in ExtractJob /\ ext_work[w].doc = d /\ ext_work[w].phase = "begun"
    BY <2>1, AtJob DEF Phases
  <2>4. Goal([ext_work[w] EXCEPT !.phase = "loaded", !.total = shards_total[d]])
    BY <2>2, <2>3 DEF JobMove
  <2> QED
    BY <2>4
<1>5. CASE ensure_assembled(w)
  <2>1. PICK d \in Doc :
          /\ At(w, "loaded", d)
          /\ \/ d \in assembled /\ Read(w, d \notin partial)
             \/ d \notin assembled /\ Goto(w, "absent")
    BY <1>5 DEF ensure_assembled
  <2>2. ext_work[w] \in ExtractJob /\ ext_work[w].doc = d /\ ext_work[w].phase = "loaded"
    BY <2>1, AtJob DEF Phases
  <2>3. CASE d \in assembled /\ Read(w, d \notin partial)
    <3>1. Goal([ext_work[w] EXCEPT !.phase = "read", !.whole = d \notin partial])
      BY <2>2, <2>3, JobUpdates DEF JobMove
    <3> QED
      BY <3>1
  <2>4. CASE d \notin assembled /\ Goto(w, "absent")
    <3>1. Goal([ext_work[w] EXCEPT !.phase = "absent"])
      BY <2>2, <2>4, JobUpdates DEF JobMove
    <3> QED
      BY <3>1
  <2> QED
    BY <2>1, <2>3, <2>4
<1>6. CASE assemble(w)
  <2>1. PICK d \in Doc :
          /\ At(w, "absent", d)
          /\ \/ /\ AllOutputsExist(d, ext_work[w].total) /\ d \in assembled'
                /\ Read(w, d \notin partial')
             \/ ~AllOutputsExist(d, ext_work[w].total) /\ Goto(w, "incomplete")
    BY <1>6 DEF assemble, WriteArtifact, write_assembled, AllOutputsExist
  <2>2. ext_work[w] \in ExtractJob /\ ext_work[w].doc = d /\ ext_work[w].phase = "absent"
    BY <2>1, AtJob DEF Phases
  <2>3. CASE /\ AllOutputsExist(d, ext_work[w].total) /\ d \in assembled'
             /\ Read(w, d \notin partial')
    <3>1. Goal([ext_work[w] EXCEPT !.phase = "read", !.whole = d \notin partial'])
      BY <2>2, <2>3, JobUpdates DEF JobMove
    <3> QED
      BY <3>1
  <2>4. CASE ~AllOutputsExist(d, ext_work[w].total) /\ Goto(w, "incomplete")
    <3>1. Goal([ext_work[w] EXCEPT !.phase = "incomplete"])
      BY <2>2, <2>4, JobUpdates DEF JobMove
    <3> QED
      BY <3>1
  <2> QED
    BY <2>1, <2>3, <2>4
<1>7. CASE start_attempt(w)
  <2>1. PICK d \in Doc, to \in {"attempt", "incomplete"} :
          At(w, "read", d) /\ Goto(w, to) /\ (to = "attempt" <=> ext_work[w].whole)
    BY <1>7 DEF start_attempt
  <2>2. ext_work[w] \in ExtractJob /\ ext_work[w].phase = "read"
    BY <2>1, AtJob DEF Phases
  <2>3. Goal([ext_work[w] EXCEPT !.phase = to])
    BY <2>1, <2>2, JobUpdates DEF JobMove
  <2> QED
    BY <2>3
<1>8. CASE run_funnel(w)
  <2>0. PICK d \in Doc :
          /\ At(w, "attempt", d)
          /\ \E f \in (Answers[d] \cap Fields) \cup {NoResult} :
               ext_work' = [ext_work EXCEPT ![w].phase = "judged", ![w].fields = f]
    BY <1>8 DEF run_funnel
  <2>1. PICK f \in (Answers[d] \cap Fields) \cup {NoResult} :
          ext_work' = [ext_work EXCEPT ![w].phase = "judged", ![w].fields = f]
    BY <2>0
  <2>2. ext_work' = [ext_work EXCEPT ![w] =
                       [ext_work[w] EXCEPT !.phase = "judged", !.fields = f]]
    BY <2>1 DEF ExtractionTypeOK
  <2>3. ext_work[w] \in ExtractJob /\ ext_work[w].doc = d /\ ext_work[w].phase = "attempt"
    BY <2>0, AtJob DEF Phases
  <2>4. Goal([ext_work[w] EXCEPT !.phase = "judged", !.fields = f])
    BY <2>2, <2>3 DEF JobMove
  <2> QED
    BY <2>4
<1>9. CASE read_flag(w)
  <2>1. PICK d \in Doc, to \in {"post", "hold"} :
          At(w, "judged", d) /\ ext_work[w].fields # NoResult /\ Goto(w, to)
    BY <1>9 DEF read_flag
  <2>2. ext_work[w] \in ExtractJob /\ ext_work[w].phase = "judged"
    BY <2>1, AtJob DEF Phases
  <2>3. Goal([ext_work[w] EXCEPT !.phase = to])
    BY <2>1, <2>2, JobUpdates DEF JobMove
  <2> QED
    BY <2>3
<1>10. CASE commit_post(w)
  <2>1. PICK d \in Doc :
          /\ At(w, "post", d)
          /\ \/ Finish(w)
             \/ KeyTaken(d, KeyOf[ext_work[w].fields]) /\ Goto(w, "duplicate")
    BY <1>10 DEF commit_post
  <2>2. ext_work[w] \in ExtractJob /\ ext_work[w].doc = d /\ ext_work[w].phase = "post"
    BY <2>1, AtJob DEF Phases
  <2>3. ASSUME KeyTaken(d, KeyOf[ext_work[w].fields]), Goto(w, "duplicate")
        PROVE  Goal([ext_work[w] EXCEPT !.phase = "duplicate"])
    BY <2>2, <2>3, JobUpdates DEF JobMove
  <2> QED
    BY <1>1, <2>1, <2>3
<1>11. CASE route_incomplete(w) \/ commit_exhausted(w) \/ commit_held(w)
            \/ route_duplicate(w) \/ FailExtract(w)
  BY <1>1, <1>11 DEF route_incomplete, commit_exhausted, commit_held, route_duplicate, FailExtract
<1> QED
  BY <1>3, <1>4, <1>5, <1>6, <1>7, <1>8, <1>9, <1>10, <1>11 DEF ExtractStep

\* The artifact is left alone, or written by a worker that found every output
\* it asked for.
LEMMA WorkerWrites ==
  ASSUME NEW w \in ExtractWorker, ExtractStep(w) \/ FailExtract(w)
  PROVE  /\ UNCHANGED <<split_out, shard_out>>
         /\ \/ UNCHANGED <<assembled, partial>>
            \/ \E d \in Doc :
                 /\ At(w, "absent", d)
                 /\ AllOutputsExist(d, ext_work[w].total)
                 /\ WriteArtifact(w, d)
<1>1. CASE assemble(w)
  BY <1>1 DEF assemble, AllOutputsExist
<1>2. CASE begin_extract(w) \/ load_document(w) \/ ensure_assembled(w) \/ start_attempt(w)
           \/ run_funnel(w) \/ read_flag(w)
  BY <1>2 DEF begin_extract, load_document, ensure_assembled, start_attempt, run_funnel, read_flag,
     artifactVars
<1>3. CASE route_incomplete(w) \/ commit_exhausted(w) \/ commit_held(w) \/ commit_post(w)
           \/ route_duplicate(w) \/ FailExtract(w)
  BY <1>3 DEF route_incomplete, commit_exhausted, commit_held, commit_post, route_duplicate,
     FailExtract, artifactVars
<1> QED
  BY <1>1, <1>2, <1>3 DEF ExtractStep

\* The columns that only a commit of a worker writes.
LEMMA WorkerCommits ==
  ASSUME PostingHasFields, NEW w \in ExtractWorker, ExtractStep(w) \/ FailExtract(w),
         bus \subseteq Message
  PROVE  /\ UNCHANGED <<shardVars, text_attempts, auto_post_enabled>>
         /\ \/ UNCHANGED <<state, extraction_result, gate_results, extracted, invoice_key>>
            \/ \E d \in Doc : Begins(d) \/ Rejects(w, d) \/ Reviews(w, d) \/ Posts(w, d)
<1> USE DEF ledgerVars, attemptVars, resultVars
<1>1. CASE begin_extract(w)
  <2>1. PICK m \in bus :
          \/ /\ MayTransition(m.doc, {"extract_pending"}, "extract_running")
             /\ state' = [state EXCEPT ![m.doc] = "extract_running"]
          \/ UNCHANGED state
    BY <1>1 DEF begin_extract
  <2>2. UNCHANGED <<shardVars, attemptVars, resultVars>>
    BY <1>1 DEF begin_extract
  <2>3. m.doc \in Doc
    BY DEF Message
  <2> QED
    BY <2>1, <2>2, <2>3 DEF Begins, MayTransition
<1>2. CASE load_document(w) \/ ensure_assembled(w) \/ assemble(w) \/ run_funnel(w) \/ read_flag(w)
  BY <1>2 DEF load_document, ensure_assembled, assemble, run_funnel, read_flag
<1>3. CASE start_attempt(w) \/ FailExtract(w)
  BY <1>3 DEF start_attempt, FailExtract
<1>4. CASE route_incomplete(w) \/ route_duplicate(w)
  BY <1>4 DEF route_incomplete, route_duplicate, route_without_writing, Rejects
<1>5. CASE commit_exhausted(w) \/ commit_held(w)
  <2>1. PICK d \in Doc, r \in Fields \cup {EmptyResult} :
          /\ Holds(w, d)
          /\ r \in Fields => At(w, "hold", d) /\ r = ext_work[w].fields
          /\ commit_extraction_result(d, r, "failed", "review", {})
    <3>1. CASE commit_exhausted(w)
      BY <3>1, ResultsAssumption DEF commit_exhausted, At, Holds, NoJob
    <3>2. CASE commit_held(w)
      BY <3>2 DEF commit_held, At, PostingHasFields, Holds, NoJob
    <3> QED
      BY <1>5, <3>1, <3>2
  <2>2. UNCHANGED <<shardVars, attemptVars, invoice_key, auto_post_enabled>>
    BY <1>5 DEF commit_exhausted, commit_held
  <2> QED
    BY <2>1, <2>2 DEF commit_extraction_result, Reviews
<1>6. CASE commit_post(w)
  <2>1. PICK d \in Doc :
          /\ At(w, "post", d)
          /\ LET f == ext_work[w].fields IN
             \/ /\ ~KeyTaken(d, KeyOf[f])
                /\ invoice_key' = [invoice_key EXCEPT ![d] = KeyOf[f]]
                /\ commit_extraction_result(d, f, "passed", "complete", {ExtractedMsg(d, f)})
             \/ UNCHANGED <<state, extraction_result, gate_results, extracted, invoice_key>>
    BY <1>6 DEF commit_post
  <2>2. UNCHANGED <<shardVars, attemptVars, auto_post_enabled>>
    BY <1>6 DEF commit_post
  <2>3. ext_work[w].fields \in Fields
    BY <2>1 DEF At, PostingHasFields
  <2> QED
    BY <2>1, <2>2, <2>3 DEF commit_extraction_result, Posts
<1> QED
  BY <1>1, <1>2, <1>3, <1>4, <1>5, <1>6 DEF ExtractStep

\* A worker goes on holding a document as long as it leaves the states alone;
\* what it takes up is in extraction from then on.
HoldsOn(w) ==
  \A v \in ExtractWorker : \A d \in Doc : Holds(v, d)' =>
    \/ Holds(v, d) /\ (v # w \/ UNCHANGED state)
    \/ v = w /\ state' = [state EXCEPT ![d] = "extract_running"]

LEMMA WorkerHolds ==
  ASSUME ExtractionTypeOK, bus \subseteq Message, NEW w \in ExtractWorker,
         ExtractStep(w) \/ FailExtract(w)
  PROVE  HoldsOn(w)
<1> DEFINE KeepsDoc(job) ==
       /\ ext_work[w] \in ExtractJob
       /\ ext_work' = [ext_work EXCEPT ![w] = job]
       /\ job.doc = ext_work[w].doc
<1> USE DEF ledgerVars, attemptVars, Holds, HoldsOn
<1>1. CASE Finish(w)
  BY <1>1 DEF Finish, ExtractionTypeOK
<1>2. CASE UNCHANGED <<state, ext_work>>
  BY <1>2
<1>3. ASSUME NEW job, KeepsDoc(job), UNCHANGED state
      PROVE  \A v \in ExtractWorker : \A d \in Doc :
               Holds(v, d)' => Holds(v, d) /\ UNCHANGED state
  <2>1. ext_work[w] # NoJob
    BY <1>3 DEF ExtractJob, NoJob, Phases
  <2> QED
    BY <1>3, <2>1 DEF ExtractionTypeOK
<1>4. ASSUME NEW d \in Doc, NEW from \in Phases, At(w, from, d), UNCHANGED state,
             \/ \E to : Goto(w, to)
             \/ \E whole : Read(w, whole)
             \/ \E total : ext_work' = [ext_work EXCEPT ![w].phase = "loaded", ![w].total = total]
             \/ \E f : ext_work' = [ext_work EXCEPT ![w].phase = "judged", ![w].fields = f]
      PROVE  \E job : KeepsDoc(job)
  <2>1. ext_work[w] \in ExtractJob
    BY <1>4, AtJob
  <2>2. ASSUME NEW to, Goto(w, to) PROVE KeepsDoc([ext_work[w] EXCEPT !.phase = to])
    BY <2>1, <2>2, JobUpdates DEF ExtractJob
  <2>3. ASSUME NEW whole, Read(w, whole)
        PROVE  KeepsDoc([ext_work[w] EXCEPT !.phase = "read", !.whole = whole])
    BY <2>1, <2>3, JobUpdates DEF ExtractJob
  <2>4. ASSUME NEW total,
               ext_work' = [ext_work EXCEPT ![w].phase = "loaded", ![w].total = total]
        PROVE  KeepsDoc([ext_work[w] EXCEPT !.phase = "loaded", !.total = total])
    BY <2>1, <2>4 DEF ExtractJob
  <2>5. ASSUME NEW f,
               ext_work' = [ext_work EXCEPT ![w].phase = "judged", ![w].fields = f]
        PROVE  KeepsDoc([ext_work[w] EXCEPT !.phase = "judged", !.fields = f])
    BY <2>1, <2>5 DEF ExtractJob
  <2> QED
    BY <1>4, <2>2, <2>3, <2>4, <2>5
<1>5. CASE begin_extract(w)
  <2>1. PICK m \in bus :
          \/ /\ state' = [state EXCEPT ![m.doc] = "extract_running"]
             /\ ext_work' = [ext_work EXCEPT ![w] = NewJob(m.doc)]
          \/ UNCHANGED <<state, ext_work>>
    BY <1>5 DEF begin_extract, NewJob
  <2>2. CASE /\ state' = [state EXCEPT ![m.doc] = "extract_running"]
             /\ ext_work' = [ext_work EXCEPT ![w] = NewJob(m.doc)]
    <3>1. ASSUME NEW v \in ExtractWorker, NEW d \in Doc, Holds(v, d)', v = w PROVE d = m.doc
      BY <2>2, <3>1 DEF ExtractionTypeOK, NewJob
    <3>2. ASSUME NEW v \in ExtractWorker, NEW d \in Doc, Holds(v, d)', v # w PROVE Holds(v, d)
      BY <2>2, <3>2 DEF ExtractionTypeOK
    <3> QED
      BY <2>2, <3>1, <3>2
  <2> QED
    BY <1>2, <2>1, <2>2
<1>6. CASE load_document(w) \/ ensure_assembled(w) \/ assemble(w) \/ start_attempt(w)
           \/ run_funnel(w) \/ read_flag(w)
  <2>1. UNCHANGED state
    BY <1>6 DEF load_document, ensure_assembled, assemble, start_attempt, run_funnel, read_flag
  <2>2. \E d \in Doc : \E from \in Phases :
          /\ At(w, from, d)
          /\ \/ \E to : Goto(w, to)
             \/ \E whole : Read(w, whole)
             \/ \E total : ext_work' = [ext_work EXCEPT ![w].phase = "loaded", ![w].total = total]
             \/ \E f : ext_work' = [ext_work EXCEPT ![w].phase = "judged", ![w].fields = f]
    <3>1. CASE load_document(w)
      BY <3>1 DEF load_document, Phases
    <3>2. CASE ensure_assembled(w) \/ assemble(w)
      BY <3>2 DEF ensure_assembled, assemble, WriteArtifact, Phases
    <3>3. CASE start_attempt(w) \/ read_flag(w)
      BY <3>3 DEF start_attempt, read_flag, Phases
    <3>4. CASE run_funnel(w)
      BY <3>4 DEF run_funnel, Phases
    <3> QED
      BY <1>6, <3>1, <3>2, <3>3, <3>4
  <2>3. PICK job : KeepsDoc(job)
    BY <1>4, <2>1, <2>2
  <2> HIDE DEF KeepsDoc
  <2> QED
    BY <1>3, <2>1, <2>3
<1>7. CASE commit_post(w)
  <2>1. PICK d \in Doc :
          /\ At(w, "post", d)
          /\ Finish(w) \/ (Goto(w, "duplicate") /\ UNCHANGED state)
    BY <1>7 DEF commit_post
  <2>2. CASE Goto(w, "duplicate") /\ UNCHANGED state
    <3>1. \E job : KeepsDoc(job)
      BY <1>4, <2>1, <2>2 DEF Phases
    <3> HIDE DEF KeepsDoc
    <3> QED
      BY <1>3, <2>2, <3>1
  <2> QED
    BY <1>1, <2>1, <2>2
<1>8. CASE route_incomplete(w) \/ commit_exhausted(w) \/ commit_held(w)
           \/ route_duplicate(w) \/ FailExtract(w)
  BY <1>1, <1>8 DEF route_incomplete, commit_exhausted, commit_held, route_duplicate, FailExtract
<1> QED
  BY <1>5, <1>6, <1>7, <1>8 DEF ExtractStep

\* Nobody else holds what a worker settles, and nothing else settles what is held.
LEMMA WorkerUnsettled ==
  ASSUME state \in [Doc -> States], Exclusive, HeldIsUnsettled, NEW w \in ExtractWorker, HoldsOn(w),
         \/ UNCHANGED state
         \/ \E d \in Doc : Begins(d) \/ Rejects(w, d) \/ Reviews(w, d) \/ Posts(w, d)
  PROVE  /\ HeldIsUnsettled'
         /\ \A d \in Doc : state[d] \in {"review", "complete"} => state'[d] = state[d]
<1>1. CASE UNCHANGED state
  <2>1. ASSUME NEW v \in ExtractWorker, NEW d \in Doc, Holds(v, d)'
        PROVE  state'[d] \notin {"review", "complete"}
    BY <1>1, <2>1 DEF HoldsOn, HeldIsUnsettled
  <2> QED
    BY <1>1, <2>1 DEF HeldIsUnsettled
<1>2. ASSUME NEW d \in Doc, Begins(d)
      PROVE  /\ HeldIsUnsettled'
             /\ \A e \in Doc : state[e] \in {"review", "complete"} => state'[e] = state[e]
  <2>1. state[d] \in ExtractStates /\ state' = [state EXCEPT ![d] = "extract_running"]
    BY <1>2 DEF Begins
  <2>2. ASSUME NEW v \in ExtractWorker, NEW e \in Doc, Holds(v, e)'
        PROVE  state'[e] \notin {"review", "complete"}
    BY <2>1, <2>2 DEF HoldsOn, HeldIsUnsettled
  <2> QED
    BY <2>1, <2>2 DEF HeldIsUnsettled
<1>3. ASSUME NEW d \in Doc, Rejects(w, d) \/ Reviews(w, d) \/ Posts(w, d), ~UNCHANGED state
      PROVE  /\ HeldIsUnsettled'
             /\ \A e \in Doc : state[e] \in {"review", "complete"} => state'[e] = state[e]
  <2>1. /\ Holds(w, d)
        /\ state' \in {[state EXCEPT ![d] = "review"], [state EXCEPT ![d] = "complete"]}
    BY <1>3 DEF Rejects, Reviews, Posts, Holds, At, NoJob
  <2>2. ASSUME NEW v \in ExtractWorker, NEW e \in Doc, Holds(v, e)'
        PROVE  state'[e] \notin {"review", "complete"}
    <3>1. CASE v = w
      BY <2>1, <2>2, <3>1, <1>3 DEF HoldsOn
    <3>2. CASE v # w
      BY <2>1, <2>2, <3>2 DEF HoldsOn, HeldIsUnsettled, Exclusive
    <3> QED
      BY <3>1, <3>2
  <2>3. state[d] \notin {"review", "complete"}
    BY <2>1 DEF HeldIsUnsettled
  <2> QED
    BY <2>1, <2>2, <2>3 DEF HeldIsUnsettled
<1> QED
  BY <1>1, <1>2, <1>3

\* The ledger's columns of faults, attempts and messages keep their types.
LEMMA WorkerLedgerTypes ==
  ASSUME LedgerTypeOK, ExtractionTypeOK, NEW w \in ExtractWorker,
         ExtractStep(w) \/ FailExtract(w)
  PROVE  /\ extract_attempts' \in [Doc -> Nat]
         /\ bus' \subseteq Message
         /\ faults' \in 0 .. MaxFaults
<1> USE LedgerAssumption DEF LedgerTypeOK, ledgerVars, attemptVars
<1>1. CASE begin_extract(w)
  <2>1. PICK m \in bus, rest \in SUBSET bus : Take(m, rest) /\ bus' = rest
    BY <1>1 DEF begin_extract
  <2> QED
    BY <1>1, <2>1 DEF begin_extract, Take
<1>2. CASE load_document(w) \/ ensure_assembled(w) \/ assemble(w) \/ run_funnel(w) \/ read_flag(w)
  BY <1>2 DEF load_document, ensure_assembled, assemble, run_funnel, read_flag
<1>3. CASE start_attempt(w)
  <2>1. PICK d \in Doc :
          /\ \/ extract_attempts' = [extract_attempts EXCEPT ![d] = @ + 1]
             \/ UNCHANGED extract_attempts
          /\ UNCHANGED <<bus, faults>>
    BY <1>3 DEF start_attempt
  <2> QED
    BY <2>1
<1>4. CASE FailExtract(w)
  <2>1. /\ ext_work[w] # NoJob
        /\ FailHolding(Msg("ocr.completed", ext_work[w].doc), bus)
        /\ UNCHANGED attemptVars
    BY <1>4 DEF FailExtract
  <2>2. ext_work[w].doc \in Doc
    BY <2>1 DEF ExtractionTypeOK, ExtractJob
  <2> QED
    BY <2>1, <2>2, MessageTypes DEF FailHolding
<1>5. CASE route_incomplete(w) \/ commit_exhausted(w) \/ commit_held(w) \/ commit_post(w)
           \/ route_duplicate(w)
  BY <1>5 DEF route_incomplete, commit_exhausted, commit_held, commit_post, route_duplicate
<1> QED
  BY <1>1, <1>2, <1>3, <1>4, <1>5 DEF ExtractStep

\* A worker sends nothing back to text production.
LEMMA WorkerSends ==
  ASSUME NEW w, ExtractStep(w) \/ FailExtract(w)
  PROVE  \A m \in bus' : m \in bus \/ m.topic = "ocr.completed"
<1> USE DEF ledgerVars
<1>1. CASE FailExtract(w)
  BY <1>1 DEF FailExtract, FailHolding, Msg
<1>2. CASE begin_extract(w)
  BY <1>2 DEF begin_extract
<1>3. CASE load_document(w) \/ ensure_assembled(w) \/ assemble(w) \/ start_attempt(w)
           \/ run_funnel(w) \/ read_flag(w)
  BY <1>3 DEF load_document, ensure_assembled, assemble, start_attempt, run_funnel, read_flag
<1>4. CASE route_incomplete(w) \/ commit_exhausted(w) \/ commit_held(w) \/ commit_post(w)
           \/ route_duplicate(w)
  BY <1>4 DEF route_incomplete, commit_exhausted, commit_held, commit_post, route_duplicate
<1> QED
  BY <1>1, <1>2, <1>3, <1>4 DEF ExtractStep

\* A worker's memory keeps its type.
LEMMA JobTypes ==
  ASSUME LedgerTypeOK, ExtractionTypeOK, NEW w \in ExtractWorker,
         ExtractStep(w) \/ FailExtract(w)
  PROVE  ext_work' \in [ExtractWorker -> ExtractJob \cup {NoJob}]
<1>1. PICK job :
        /\ ext_work' = [ext_work EXCEPT ![w] = job]
        /\ \/ job \in {NoJob, ext_work[w]}
           \/ \E d \in Doc : job = NewJob(d)
           \/ ext_work[w] \in ExtractJob /\ JobMove(ext_work[w], job)
  BY WorkerMoves DEF LedgerTypeOK
<1>2. ASSUME NEW d \in Doc, job = NewJob(d) PROVE job \in ExtractJob
  BY <1>2 DEF NewJob, ExtractJob, Phases
<1>3. ASSUME ext_work[w] \in ExtractJob, JobMove(ext_work[w], job) PROVE job \in ExtractJob
  <2> DEFINE old == ext_work[w]
  <2>1. old \in ExtractJob /\ shards_total[old.doc] \in Nat
    BY <1>3 DEF LedgerTypeOK, ExtractJob
  <2>2. \/ job = [old EXCEPT !.phase = "loaded", !.total = shards_total[old.doc]]
        \/ \E whole \in BOOLEAN : job = [old EXCEPT !.phase = "read", !.whole = whole]
        \/ \E phase \in Phases : job = [old EXCEPT !.phase = phase]
        \/ \E f \in Fields \cup {NoResult} : job = [old EXCEPT !.phase = "judged", !.fields = f]
    BY <1>3 DEF JobMove, Phases
  <2> HIDE DEF old
  <2> QED
    BY <2>1, <2>2 DEF ExtractJob, Phases
<1> QED
  BY <1>1, <1>2, <1>3 DEF ExtractionTypeOK

\* Every step of a worker keeps the types of what it writes.
LEMMA WorkerTypes ==
  ASSUME WorkerTypeOK, PostingHasFields, NEW w \in ExtractWorker,
         ExtractStep(w) \/ FailExtract(w)
  PROVE  WorkerTypeOK'
<1> USE DEF WorkerTypeOK
<1>1. ExtractionTypeOK'
  BY JobTypes, WorkerWrites DEF ExtractionTypeOK, WriteArtifact
<1>2. /\ assembled' \subseteq Doc /\ split_out' \subseteq Doc /\ shard_out' \subseteq Doc \X Nat
  BY WorkerWrites DEF WriteArtifact, write_assembled
<1>3. /\ UNCHANGED <<shardVars, text_attempts, auto_post_enabled>>
      /\ \/ UNCHANGED <<state, extraction_result, gate_results, extracted, invoice_key>>
         \/ \E d \in Doc : Begins(d) \/ Rejects(w, d) \/ Reviews(w, d) \/ Posts(w, d)
  BY WorkerCommits DEF LedgerTypeOK
<1>4. state' \in [Doc -> States] /\ ResultsTypeOK'
  <2>1. CASE UNCHANGED <<state, extraction_result, gate_results, extracted, invoice_key>>
    BY <1>3, <2>1 DEF LedgerTypeOK, ResultsTypeOK
  <2>2. ASSUME NEW d \in Doc, Begins(d) \/ Rejects(w, d) \/ Reviews(w, d)
        PROVE  state' \in [Doc -> States] /\ ResultsTypeOK'
    BY <1>3, <2>2 DEF LedgerTypeOK, ResultsTypeOK, Begins, Rejects, Reviews, Result, Verdicts
  <2>3. ASSUME NEW d \in Doc, Posts(w, d)
        PROVE  state' \in [Doc -> States] /\ ResultsTypeOK'
    <3>1. PICK f \in Fields :
            /\ invoice_key' = [invoice_key EXCEPT ![d] = KeyOf[f]]
            /\ \/ /\ extraction_result' = [extraction_result EXCEPT ![d] = f]
                  /\ gate_results' = [gate_results EXCEPT ![d] = "passed"]
                  /\ state' = [state EXCEPT ![d] = "complete"]
                  /\ extracted' = extracted \cup {ExtractedMsg(d, f)}
               \/ UNCHANGED <<extraction_result, gate_results, state, extracted>>
      BY <2>3 DEF Posts
    <3>2. f \in Result /\ ExtractedMsg(d, f) \in Extracted /\ KeyOf[f] \in Keys
      BY DEF Result, ExtractedMsg, Extracted, Keys
    <3> QED
      BY <1>3, <3>1, <3>2 DEF LedgerTypeOK, ResultsTypeOK, Verdicts
  <2> QED
    BY <1>3, <2>1, <2>2, <2>3
<1> QED
  BY <1>1, <1>2, <1>3, <1>4, WorkerLedgerTypes DEF LedgerTypeOK, shardVars

\* Only the funnel gives a worker fields, and only one with fields goes on to
\* a commit that needs them.
LEMMA JobHasFields ==
  ASSUME PostingHasFields, NEW w \in ExtractWorker, NEW job,
         \/ job \in {NoJob, ext_work[w]}
         \/ \E d \in Doc : job = NewJob(d)
         \/ ext_work[w] \in ExtractJob /\ JobMove(ext_work[w], job)
  PROVE  job.phase \in {"post", "hold"} => job.fields \in Fields
<1>1. CASE job \in {NoJob, ext_work[w]}
  BY <1>1 DEF NoJob, PostingHasFields
<1>2. CASE \E d \in Doc : job = NewJob(d)
  BY <1>2 DEF NewJob
<1>3. CASE ext_work[w] \in ExtractJob /\ JobMove(ext_work[w], job)
  BY <1>3 DEF JobMove, ExtractJob
<1> QED
  BY <1>1, <1>2, <1>3

LEMMA PostingStep ==
  ASSUME WorkerTypeOK, PostingHasFields, NEW w \in ExtractWorker,
         ExtractStep(w) \/ FailExtract(w)
  PROVE  PostingHasFields'
<1>1. ExtractionTypeOK /\ bus \subseteq Message
  BY DEF WorkerTypeOK, LedgerTypeOK
<1>2. PICK job :
        /\ ext_work' = [ext_work EXCEPT ![w] = job]
        /\ \/ job \in {NoJob, ext_work[w]}
           \/ \E d \in Doc : job = NewJob(d)
           \/ ext_work[w] \in ExtractJob /\ JobMove(ext_work[w], job)
  BY <1>1, WorkerMoves
<1> QED
  BY <1>1, <1>2, JobHasFields DEF PostingHasFields, ExtractionTypeOK

-----------------------------------------------------------------------------
(***************************************************************************)
(* Operators.                                                              *)
(***************************************************************************)

OpWorkTypeOK == op_work \in [Operators -> Operation \cup {NoOp}]

\* A row that was read is a row.
LEMMA LookTypes ==
  ASSUME LedgerTypeOK, OpWorkTypeOK, NEW o \in Operators, NEW d \in Doc,
         NEW kind \in {"redrive", "accept"}, ReadRow(o, kind, d)
  PROVE  /\ OpWorkTypeOK'
         /\ [kind |-> kind, row |-> RowOf(d), had_text |-> d \in assembled] \in Operation
<1>1. [kind |-> kind, row |-> RowOf(d), had_text |-> d \in assembled] \in Operation
  BY RowType DEF Operation
<1> QED
  BY <1>1 DEF ReadRow, OpWorkTypeOK

\* An operator that has come to the end of an operation.
LEMMA PutDown ==
  ASSUME OpWorkTypeOK, NEW o \in Operators, op_work' = [op_work EXCEPT ![o] = NoOp]
  PROVE  OpWorkTypeOK'
BY DEF OpWorkTypeOK

\* A re-drive moves no document that is complete, and sends what the row that
\* was read calls for.
LEMMA RedriveEffect ==
  ASSUME LedgerTypeOK, OpWorkTypeOK, NEW o \in Operators, op_work[o].kind = "redrive",
         NEW to \in redrive_target_states(op_work[o]), Redriven(o, to) \/ Refused(o, to)
  PROVE  /\ op_work[o] \in Operation
         /\ state' \in [Doc -> States] /\ bus' \subseteq Message
         /\ \/ UNCHANGED <<state, bus>>
            \/ \E d \in Doc, row \in Row :
                 /\ op_work[o].row.doc = d /\ row = [op_work[o].row EXCEPT !.state = to]
                 /\ state[d] # "complete" /\ to \in {"extract_pending", "text_pending"}
                 /\ state' = [state EXCEPT ![d] = to]
                 /\ bus' = bus \cup RedriveMessages(row)
<1>1. op_work[o] \in Operation
  BY DEF OpWorkTypeOK, NoOp
<1>2. op_work[o].row \in Row /\ op_work[o].row.doc \in Doc
  BY <1>1 DEF Operation, Row
<1>3. to \in {"extract_pending", "text_pending"}
  BY DEF redrive_target_states
<1>4. [op_work[o].row EXCEPT !.state = to] \in Row
  BY <1>2, <1>3 DEF Row
<1>5. CASE Redriven(o, to)
  <2>1. "complete" \notin Predecessors(to) \cup {to}
    BY <1>3 DEF Predecessors, ALLOWED_TRANSITIONS
  <2>2. state[op_work[o].row.doc] # "complete"
    BY <1>5, <2>1 DEF Redriven, MayTransition
  <2>3. /\ state' = [state EXCEPT ![op_work[o].row.doc] = to]
        /\ bus' = bus \cup RedriveMessages([op_work[o].row EXCEPT !.state = to])
    BY <1>5 DEF Redriven
  <2>4. bus' \subseteq Message
    BY <1>4, <2>3, RedriveType DEF LedgerTypeOK
  <2> QED
    BY <1>1, <1>2, <1>3, <1>4, <2>2, <2>3, <2>4 DEF LedgerTypeOK
<1>6. CASE Refused(o, to)
  BY <1>1, <1>6 DEF Refused, LedgerTypeOK
<1> QED
  BY <1>5, <1>6

\* An acceptance completes a document in review, or one that is complete.
LEMMA AcceptEffect ==
  ASSUME ResultsTypeOK, OpWorkTypeOK, NEW o \in Operators, accept_review(o)
  PROVE  /\ op_work[o] \in Operation
         /\ UNCHANGED <<shardVars, attemptVars, bus, faults, artifactVars, extraction_result,
                        invoice_key, auto_post_enabled, op_count>>
         /\ op_work' = [op_work EXCEPT ![o] = NoOp]
         /\ \/ UNCHANGED <<state, gate_results, extracted>>
            \/ \E d \in Doc :
                 /\ state[d] \in {"review", "complete"}
                 /\ gate_results' = [gate_results EXCEPT ![d] = "accepted"]
                 /\ state' = [state EXCEPT ![d] = "complete"]
                 /\ extracted' = extracted \cup {ExtractedMsg(d, NoResult)}
                 /\ ExtractedMsg(d, NoResult) \in Extracted
<1>1. op_work[o] \in Operation
  BY DEF OpWorkTypeOK, NoOp, accept_review
<1>2. op_work[o].row.doc \in Doc
  BY <1>1 DEF Operation, Row
<1> QED
  BY <1>1, <1>2 DEF accept_review, MayTransition, ExtractedMsg, Extracted

-----------------------------------------------------------------------------
(***************************************************************************)
(* The sink.                                                               *)
(***************************************************************************)

\* The sink posts what a message says, if the document has no row yet; when
\* its insert raises the message is gone and nothing posted.
LEMMA SinkEffect ==
  ASSUME handle_document_extracted \/ FailPost
  PROVE  /\ UNCHANGED <<state, shardVars, attemptVars, bus, extraction_result, invoice_key,
                        gate_results, auto_post_enabled>>
         /\ extracted' \in SUBSET extracted
         /\ UNCHANGED faults \/ (faults < MaxFaults /\ faults' = faults + 1)
         /\ \/ UNCHANGED posted
            \/ \E m \in extracted :
                 posted[m.doc] = NoResult /\ posted' = [posted EXCEPT ![m.doc] = FieldsOf(m)]
<1>1. CASE handle_document_extracted
  <2>1. PICK m \in extracted :
          /\ PostDocument(m.doc, FieldsOf(m))
          /\ \/ extracted' = extracted \ {m} /\ UNCHANGED faults
             \/ extracted' = extracted /\ faults < MaxFaults /\ faults' = faults + 1
    BY <1>1 DEF handle_document_extracted
  <2> QED
    BY <1>1, <2>1 DEF handle_document_extracted, PostDocument
<1>2. CASE FailPost
  BY <1>2 DEF FailPost
<1> QED
  BY <1>1, <1>2

\* A step of the sink keeps the types.
LEMMA SinkTypes ==
  ASSUME LedgerTypeOK, ResultsTypeOK, SinkTypeOK, handle_document_extracted \/ FailPost
  PROVE  LedgerTypeOK' /\ ResultsTypeOK' /\ SinkTypeOK'
<1>1. faults' \in 0 .. MaxFaults
  BY SinkEffect, LedgerAssumption DEF LedgerTypeOK
<1>2. \A m \in extracted : m.doc \in Doc /\ FieldsOf(m) \in Result
  BY DEF ResultsTypeOK, Extracted, FieldsOf, Result
<1>3. SinkTypeOK'
  BY <1>2, SinkEffect DEF SinkTypeOK
<1> QED
  BY <1>1, <1>3, SinkEffect DEF LedgerTypeOK, ResultsTypeOK, shardVars, attemptVars
=============================================================================
