---------------------------- MODULE MCSettlement ----------------------------
(***************************************************************************)
(* Instances of Settlement for TLC: a corridor with one provider, and one  *)
(* whose bindings ops edit, with the sandbox adapter among them.           *)
(***************************************************************************)
EXTENDS Settlement, TLC

CONSTANTS h1, h2

OneProvider == {<<"hyparrow">>}

\* Bindings edited between attempts: none, one, or a failover to the sandbox.
EditedBindings == {<<>>, <<"hyparrow">>, <<"hyparrow", "sandbox">>}

OneHandler == {h1}
TwoHandlers == {h1, h2}
HandlerSymmetry == Permutations(TwoHandlers)
=============================================================================
