-------------------------------- MODULE Trees --------------------------------
(***************************************************************************)
(* What the store, the exports and the imports all work on: collections    *)
(* that nest, requests in them, environments, and variables of any of      *)
(* these or of the workspace.  A tree is a function from the ids of its    *)
(* nodes to records with a kind, a parent, a name and a secret.            *)
(***************************************************************************)
EXTENDS FiniteSets, Functions

Root == "root"      \* the workspace, or the top of a file

(* t with another tree beside it, and a tree of one node. *)
Beside(t, u) ==
    [x \in DOMAIN t \union DOMAIN u |-> IF x \in DOMAIN t THEN t[x] ELSE u[x]]
One(x, node) == [y \in {x} |-> node]

Kinds == {"coll", "req", "env", "var"}

OfKind(t, kind) == {x \in DOMAIN t : t[x].kind = kind}

(* The foreign keys of requests, environments and variables, and of the    *)
(* parent of a collection.                                                 *)
Accepts(t, kind, p) ==
    \/ p = Root /\ kind # "req"
    \/ /\ p \in DOMAIN t
       /\ \/ t[p].kind = "coll"
          \/ t[p].kind = "env" /\ kind = "var"

(* x and everything below it: in every set that has x and, with a node,    *)
(* its children.                                                           *)
Within(t, x) ==
    {y \in DOMAIN t : \A S \in SUBSET DOMAIN t :
        (x \in S /\ \A z \in DOMAIN t : t[z].parent \in S => z \in S) => y \in S}

(* Parents exist, and no chain of them is a cycle: any set of nodes has    *)
(* one whose parent is outside.                                            *)
Rooted(t) == \A x \in DOMAIN t : Accepts(t, t[x].kind, t[x].parent)
Acyclic(t) == \A S \in SUBSET DOMAIN t :
                 S # {} => \E x \in S : t[x].parent \notin S
IsForest(t) == Rooted(t) /\ Acyclic(t)
=============================================================================
