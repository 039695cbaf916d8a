----------------------------- MODULE SecretTree -----------------------------
(***************************************************************************)
(* What the store promises of collections, requests, environments and      *)
(* variables: a tree of nodes, each with its own secret in the clear.      *)
(* Masks and a keychain are of no concern here; Library is shown to        *)
(* implement this.                                                         *)
(***************************************************************************)
EXTENDS Trees

CONSTANTS Ids, Names, Secrets

VARIABLE tree

Plain == {"none", "empty"} \union Secrets

Node == [kind : Kinds, parent : Ids \union {Root}, name : Names, secret : Plain]

Init == tree = <<>>

Others(x) == \A y \in DOMAIN tree \ {x} : tree'[y] = tree[y]

Add(x) ==
    /\ x \notin DOMAIN tree
    /\ DOMAIN tree' = DOMAIN tree \union {x}
    /\ Others(x)
    /\ tree'[x] \in Node
    /\ Accepts(tree, tree'[x].kind, tree'[x].parent)

(* One node gets another name or secret; no other node is touched. *)
Alter(x) ==
    /\ DOMAIN tree' = DOMAIN tree
    /\ Others(x)
    /\ tree'[x] \in Node
    /\ tree'[x].kind = tree[x].kind /\ tree'[x].parent = tree[x].parent

Relocate(x) ==
    /\ DOMAIN tree' = DOMAIN tree
    /\ Others(x)
    /\ tree'[x] = [tree[x] EXCEPT !.parent = tree'[x].parent]
    /\ Accepts(tree, tree[x].kind, tree'[x].parent)
    /\ tree'[x].parent \notin Within(tree, x)

(* A node goes with all that is below it and nothing else does.  Cut       *)
(* short, a part of that stays, but never a node without its parent.       *)
Prune(x) ==
    /\ DOMAIN tree' \subseteq DOMAIN tree
    /\ DOMAIN tree \ DOMAIN tree' \subseteq Within(tree, x)
    /\ tree' = Restrict(tree, DOMAIN tree')
    /\ Rooted(tree')

PruneAll == tree' = <<>>

(* copy: the new ids of collections and requests of a subtree.  A copy has *)
(* its original's secret, or none yet when it was cut short, and shares    *)
(* nothing with it afterwards.                                             *)
Copy(x, copy) ==
    /\ x \in DOMAIN copy
    /\ DOMAIN tree' = DOMAIN tree \union Range(copy)
    /\ \A y \in DOMAIN tree : tree'[y] = tree[y]
    /\ \A y \in DOMAIN copy :
         LET c == tree'[copy[y]]
         IN  /\ c.kind = tree[y].kind
             /\ c.secret \in {tree[y].secret, "none"}
             /\ IF y = x THEN c.parent = tree[x].parent /\ c.name \in Names
                ELSE /\ c.name = tree[y].name
                     /\ tree[y].parent \in DOMAIN copy
                     /\ c.parent = copy[tree[y].parent]

Next ==
    \/ \E x \in Ids : Add(x)
    \/ \E x \in DOMAIN tree :
         \/ Alter(x) \/ Relocate(x) \/ Prune(x)
         \/ \E part \in SUBSET Within(tree, x) :
              \E copy \in Injection(part, DOMAIN tree' \ DOMAIN tree) : Copy(x, copy)
    \/ PruneAll

Spec == Init /\ [][Next]_tree
=============================================================================
