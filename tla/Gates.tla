-------------------------------- MODULE Gates -------------------------------
(***************************************************************************)
(* core/gates.py: what run_all says of an extraction that passed the       *)
(* schema.  An amount is a number of cents or missing; a name is the one   *)
(* in the source text, made up, or missing; the line items are the sum of  *)
(* their amounts, or missing.  What the gates see of the document is its   *)
(* type, set by triage, and the amounts that are written in its text.      *)
(***************************************************************************)
EXTENDS Integers

CONSTANTS
  Missing,    \* None, or a key the model left out
  DocTypes,   \* the types documents have here: invoice, receipt, credit_memo
  InSource,   \* the amounts that the source text contains
  Ceiling     \* config.PLAUSIBLE_TOTAL_CEILING_CENTS

ASSUME GatesAssumption ==
  /\ Missing \notin Int
  /\ InSource \subseteq Int

Amount == Int \cup {Missing}
Name == {"true", "made_up", Missing}
Extraction == [invoice_no : Name, seller : Name, items : Amount, subtotal : Amount,
               tax : Amount, total : Amount, iban : {"valid", "invalid", Missing}]

\* Every value appears in the source text; one that is missing is passed over.
grounding(x) ==
  IF x.invoice_no = "made_up" \/ x.seller = "made_up"
     \/ (x.total # Missing /\ x.total \notin InSource)
  THEN "fail" ELSE "pass"

Tax(x) == IF x.tax = Missing THEN 0 ELSE x.tax

\* Mutant: a missing total has nothing to be compared with, and passes.
ArithmeticOfWhatThereIs(doc_type, x) ==
  IF doc_type # "invoice" THEN "not_applicable"
  ELSE IF x.items = Missing THEN "inconclusive"
  ELSE IF x.subtotal \notin {Missing, x.items} THEN "fail"
  ELSE IF x.total \in {Missing, x.items + Tax(x)} THEN "pass" ELSE "fail"

\* The early returns in their order.
arithmetic(doc_type, x) ==
  IF doc_type # "invoice" THEN "not_applicable"
  ELSE IF x.items = Missing THEN "inconclusive"
  ELSE IF x.subtotal \notin {Missing, x.items} THEN "fail"
  ELSE IF x.total = Missing THEN "inconclusive"
  ELSE IF x.total = x.items + Tax(x) THEN "pass" ELSE "fail"

iban_mod97(x) ==
  CASE x.iban = Missing -> "not_applicable"
    [] x.iban = "valid" -> "pass"
    [] x.iban = "invalid" -> "fail"

\* Only a credit memo may have a negative total.
plausibility(doc_type, x) ==
  IF x.total # Missing /\ x.total <= Ceiling
     /\ (x.total > 0 \/ (doc_type = "credit_memo" /\ x.total < 0 /\ x.total >= -Ceiling))
  THEN "pass" ELSE "fail"

\* `taken`: another complete document has this seller and invoice number.
business_dedupe(x, taken) ==
  IF x.seller = Missing \/ x.invoice_no = Missing THEN "not_applicable"
  ELSE IF taken THEN "fail" ELSE "pass"

run_all(doc_type, x, taken) ==
  [grounding |-> grounding(x), arithmetic |-> arithmetic(doc_type, x),
   iban_mod97 |-> iban_mod97(x), plausibility |-> plausibility(doc_type, x),
   business_dedupe |-> business_dedupe(x, taken)]

BLOCKING_GATES == {"grounding", "arithmetic", "business_dedupe"}
\* ON_INCONCLUSIVE: the gates that block when they cannot tell.
BlocksInconclusive == {"grounding", "arithmetic", "business_dedupe"}

\* run_funnel's decision: is this extraction not eligible for auto-post?
Blocked(outcomes) ==
  \/ \E g \in BLOCKING_GATES : outcomes[g] = "fail"
  \/ \E g \in BlocksInconclusive : outcomes[g] = "inconclusive"
=============================================================================
