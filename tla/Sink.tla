-------------------------------- MODULE Sink --------------------------------
(***************************************************************************)
(* stages/sink_stub_5.py, the consumer of document.extracted, and its      *)
(* table posted_documents.  The route is always "auto_post": an operator's *)
(* message names none and the sink's default is that one.                  *)
(***************************************************************************)
EXTENDS Results

VARIABLE posted  \* posted_documents.fields per doc_id; NoResult: no row

SinkTypeOK == posted \in [Doc -> Result]
SinkInit == posted = [d \in Doc |-> NoResult]

\* payload.get("fields", {})
FieldsOf(m) == IF m.fields = NoResult THEN EmptyResult ELSE m.fields

\* INSERT ... ON CONFLICT (doc_id) DO NOTHING
PostDocument(d, f) ==
  posted' = IF posted[d] = NoResult THEN [posted EXCEPT ![d] = f] ELSE posted

\* One transaction; the message may be delivered again.
handle_document_extracted ==
  \E m \in extracted :
    /\ PostDocument(m.doc, FieldsOf(m))
    /\ \/ extracted' = extracted \ {m} /\ UNCHANGED faults
       \/ extracted' = extracted /\ faults < MaxFaults /\ faults' = faults + 1
    /\ UNCHANGED <<state, shardVars, attemptVars, bus, extraction_result, invoice_key,
                   gate_results, auto_post_enabled>>

\* The insert raises and the loop polls on: the consumer's position has passed
\* the message, and the commit of a later one covers it.
FailPost ==
  /\ faults < MaxFaults
  /\ faults' = faults + 1
  /\ \E m \in extracted : extracted' = extracted \ {m}
  /\ UNCHANGED <<state, shardVars, attemptVars, bus, extraction_result, invoice_key,
                 gate_results, auto_post_enabled, posted>>

\* A row with fields tells the result that was decided.
RowsTellResult == \A d \in Doc : posted[d] \in Fields => extraction_result[d] = posted[d]
=============================================================================
