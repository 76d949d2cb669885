--------------------------- MODULE MCSessionQuote ---------------------------
(* Three sessions of one tenant that reach the threshold together: s3 clears *)
(* after s1 or s2, while s1 and s2 are held after any other.  One provider,  *)
(* fed by ratefetcher, quotes below the ceiling.                             *)
EXTENDS SessionQuote, TLC

CONSTANTS s1, s2, s3

MCSessions == {s1, s2, s3}
MCAmount == s1 :> 2 @@ s2 :> 2 @@ s3 :> 1
MCSymmetry == Permutations({s1, s2})
MCCached == {"coinmarketcap"}
=============================================================================
