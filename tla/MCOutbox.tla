----------------------------- MODULE MCOutbox ------------------------------
(* Instances of Outbox for TLC. *)
EXTENDS Outbox

CONSTANTS e1, e2, d1, d2, bad

TwoAndOneBad == {e1, e2, bad}
TwoDispatchers == {d1, d2}
OnePoison == {bad}
=============================================================================
