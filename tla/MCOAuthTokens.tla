--------------------------- MODULE MCOAuthTokens ---------------------------
(* Two sends and two sign-ins; the commands of a kind are interchangeable. *)
EXTENDS OAuthTokens, TLC

CONSTANTS s1, s2, a1, a2

TwoSends == {s1, s2}
TwoSignIns == {a1, a2}

Symmetry == Permutations(TwoSends) \union Permutations(TwoSignIns)
=============================================================================
