------------------------------ MODULE Results -------------------------------
(***************************************************************************)
(* What extraction writes: the columns of `documents` behind the state,    *)
(* the auto-post flag, and the messages of document.extracted.             *)
(*                                                                         *)
(* An extraction is a member of Fields; of its contents only the business  *)
(* key matters, the pair (seller, invoice_no), which is NoKey when either  *)
(* is missing.  Of gate_results the verdict that is read back is kept.     *)
(***************************************************************************)
EXTENDS Ledger

CONSTANTS
  Fields,       \* the extractions there are
  KeyOf,        \* the business key of an extraction, or NoKey
  NoKey,        \* vendor or invoice_no is NULL
  NoResult,     \* SQL NULL, Python None: there is no extraction
  EmptyResult   \* the empty object: an extraction without a field

ASSUME ResultsAssumption ==
  /\ NoResult \notin Fields
  /\ EmptyResult \notin Fields \cup {NoResult}

VARIABLES
  extraction_result,  \* documents.extraction_result
  invoice_key,        \* documents.(vendor, invoice_no)
  gate_results,       \* documents.gate_results: the verdict in it
  auto_post_enabled,  \* feature_flags, the kill switch
  extracted           \* messages of document.extracted still to be delivered

resultVars == <<extraction_result, invoice_key, gate_results, auto_post_enabled, extracted>>

Result == Fields \cup {NoResult, EmptyResult}
Verdicts == {"none", "failed", "passed", "accepted"}
Keys == {KeyOf[f] : f \in Fields} \cup {NoKey}

\* An operator's message carries no fields.
Extracted == [doc : Doc, fields : Fields \cup {NoResult}]
ExtractedMsg(d, f) == [doc |-> d, fields |-> f]

-----------------------------------------------------------------------------
\* The partial unique index on (vendor, invoice_no): it does not look at state.
KeyTaken(d, k) == k # NoKey /\ \E e \in Doc \ {d} : invoice_key[e] = k

\* gates.business_dedupe, which does.
DedupePasses(d, f) ==
  KeyOf[f] = NoKey \/
  ~\E e \in Doc \ {d} : invoice_key[e] = KeyOf[f] /\ state[e] = "complete"

\* Mutant: the WHERE clause forgets extraction_result IS NULL.
LastWriterWins(d, result, verdict, final, messages) ==
  /\ extraction_result' = [extraction_result EXCEPT ![d] = result]
  /\ gate_results' = [gate_results EXCEPT ![d] = verdict]
  /\ state' = [state EXCEPT ![d] = final]
  /\ extracted' = extracted \cup messages

\* The first writer wins; whoever comes later changes nothing.  The state is
\* written without looking at the one there is.
commit_extraction_result(d, result, verdict, final, messages) ==
  \/ /\ extraction_result[d] = NoResult
     /\ extraction_result' = [extraction_result EXCEPT ![d] = result]
     /\ gate_results' = [gate_results EXCEPT ![d] = verdict]
     /\ state' = [state EXCEPT ![d] = final]
     /\ extracted' = extracted \cup messages
  \/ /\ extraction_result[d] # NoResult
     /\ UNCHANGED <<extraction_result, gate_results, state, extracted>>

route_without_writing(d, final) ==
  /\ gate_results' = [gate_results EXCEPT ![d] = "failed"]
  /\ state' = [state EXCEPT ![d] = final]
  /\ UNCHANGED <<extraction_result, extracted>>

ResultsTypeOK ==
  /\ extraction_result \in [Doc -> Result]
  /\ invoice_key \in [Doc -> Keys]
  /\ gate_results \in [Doc -> Verdicts]
  /\ auto_post_enabled \in BOOLEAN
  /\ extracted \subseteq Extracted

\* As the migration's defaults have it.
ResultsInit ==
  /\ extraction_result = [d \in Doc |-> NoResult]
  /\ invoice_key = [d \in Doc |-> NoKey]
  /\ gate_results = [d \in Doc |-> "none"]
  /\ auto_post_enabled = TRUE
  /\ extracted = {}

\* A message with fields tells the result that was decided.
MessagesTellResult ==
  \A m \in extracted : m.fields \in Fields => extraction_result[m.doc] = m.fields
=============================================================================
