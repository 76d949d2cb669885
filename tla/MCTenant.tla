------------------------------ MODULE MCTenant ------------------------------
(* An instance: two requests at a time, two links (one login before and one *)
(* after a deletion), a key, and a corridor whose currency not every KYB     *)
(* form declares, or declares with all that its jurisdiction requires.       *)
EXTENDS Tenant, TLC

CONSTANTS kes, onlyNGN, both, thin

MCFiatOf == (kes :> "KES")
MCDeclares == (onlyNGN :> {"NGN"}) @@ (both :> {"NGN", "KES"}) @@ (thin :> {"KES"})
MCProvides == (onlyNGN :> {}) @@ (both :> {"pin"}) @@ (thin :> {})
MCRequired == ("KES" :> {"pin"})
SandboxOrYouverify == {<<TRUE, TRUE>>, <<FALSE, TRUE>>}
Symmetry == Permutations(Handlers) \cup Permutations(Links)
=============================================================================
