----------------------------- MODULE MCSession -----------------------------
(* Instances of Session for TLC. *)
EXTENDS Session

CONSTANTS a1, a2, w1, w2

TwoAdmins == {a1, a2}
OneAdmin == {a1}
TwoWriters == {w1, w2}
OneWriter == {w1}
=============================================================================
