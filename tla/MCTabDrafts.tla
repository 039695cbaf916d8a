---------------------------- MODULE MCTabDrafts ----------------------------
(* Two workspaces: one of two tabs, so that one can be left for the other, *)
(* and one of a single tab, which the bootstrap or the user creates.       *)
EXTENDS TabDrafts, TLC

CONSTANTS w1, w2, t1, t2, t3, t4

HomeOf == (t1 :> w1) @@ (t2 :> w1) @@ (t3 :> w2) @@ (t4 :> w2)
=============================================================================
