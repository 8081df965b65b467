---------------------------- MODULE MCModelTier -----------------------------
(***************************************************************************)
(* A small instance of ModelTier, in units of 100 seconds: a call takes at *)
(* most 2, the heartbeat is stale after 3, the margin is 3, the cooldown   *)
(* 3.  An extraction gets one of the fields that the gates look at wrong.  *)
(***************************************************************************)
EXTENDS ModelTier

CONSTANTS m1, m2

Right == [invoice_no |-> "true", seller |-> "true", items |-> 2, subtotal |-> 2, tax |-> 1,
          total |-> 3, iban |-> "valid"]
Wrong == {[Right EXCEPT !.seller = "made_up"], [Right EXCEPT !.items = Missing],
          [Right EXCEPT !.subtotal = 1], [Right EXCEPT !.total = Missing],
          [Right EXCEPT !.total = 2], [Right EXCEPT !.tax = Missing],
          [Right EXCEPT !.invoice_no = Missing], [Right EXCEPT !.items = 1, !.subtotal = Missing],
          [Right EXCEPT !.iban = "invalid"], [Right EXCEPT !.total = -3, !.iban = Missing]}
SomeAnswers == {Right} \cup Wrong
Written == {1, 2, 3}
OneEach == [t \in {1, 2} |-> IF t = 1 THEN m1 ELSE m2]
=============================================================================
