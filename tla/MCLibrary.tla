----------------------------- MODULE MCLibrary -----------------------------
(* Instances of Library.                                                   *)
EXTENDS Library, TLC

CONSTANTS i1, i2, i3, i4

Node(kind, parent, name, secret) ==
    [kind |-> kind, parent |-> parent, name |-> name, secret |-> secret]

(* A collection with a request, masked; an environment with a variable     *)
(* and a variable of the workspace, in the clear.                          *)
SomeFiles ==
    { "f" :> Node("coll", Root, "a", "mask") @@ "r" :> Node("req", "f", "a", "mask"),
      "e" :> Node("env", Root, "a", "none") @@ "v" :> Node("var", "e", "a", "pass")
          @@ "w" :> Node("var", Root, "a", "mask") }

Symmetry == Permutations(Ids)
=============================================================================
