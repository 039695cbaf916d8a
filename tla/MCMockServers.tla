--------------------------- MODULE MCMockServers ---------------------------
(* Instances of MockServers.                                               *)
EXTENDS MockServers, TLC

CONSTANTS s1, s2, k1, k2, k3, p1

TwoServers == {s1, s2}
ThreeStarts == {k1, k2, k3}

(* Starts are interchangeable; so are servers, except for the one Init     *)
(* picks for starts not yet made.                                          *)
Symmetry == Permutations(ThreeStarts)

=============================================================================
