----------------------------- MODULE MCCatalog -----------------------------
(* An instance: two admins, two sessions and two corridor ids over one asset *)
(* on two networks, of whose providers an admin binds one, among them an     *)
(* adapter this server does not have.                                        *)
EXTENDS Catalog, TLC

OneEach == {{p} : p \in Providers}
Symmetry == Permutations(Admins) \cup Permutations(Sessions) \cup Permutations(Registered)
              \cup Permutations(Corridors)
=============================================================================
