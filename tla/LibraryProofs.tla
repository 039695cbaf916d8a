---------------------------- MODULE LibraryProofs ----------------------------
(***************************************************************************)
(* However collections are made, moved, copied, imported and deleted, for  *)
(* any ids, files and names, what the store has is a forest; a library     *)
(* with masks in its rows and secrets in a keychain implements a tree      *)
(* whose nodes have their secrets in the clear; imports that do not        *)
(* overwrite leave what there is; and only accidents part a row from its   *)
(* entry in the keychain.                                                  *)
(***************************************************************************)
EXTENDS Library, TLAPS

-----------------------------------------------------------------------------
(* Trees.                                                                  *)

(* A tree is a forest by its kinds and parents alone. *)
LEMMA SameShape ==
    ASSUME NEW t, IsForest(t), NEW u, DOMAIN u = DOMAIN t,
           \A x \in DOMAIN t : u[x].kind = t[x].kind /\ u[x].parent = t[x].parent
    PROVE  IsForest(u)
<1>1. Rooted(u)
  BY DEF IsForest, Rooted, Accepts
<1>2. Acyclic(u)
  BY DEF IsForest, Acyclic
<1> QED
  BY <1>1, <1>2 DEF IsForest

(* A new node has an old parent, or none. *)
LEMMA GrowsByOne ==
    ASSUME NEW t, IsForest(t), Root \notin DOMAIN t, NEW x, x \notin DOMAIN t, x # Root,
           NEW u, DOMAIN u = DOMAIN t \union {x}, \A y \in DOMAIN t : u[y] = t[y],
           Accepts(t, u[x].kind, u[x].parent)
    PROVE  IsForest(u)
<1>1. Rooted(u)
  BY DEF IsForest, Rooted, Accepts
<1>2. \A y \in DOMAIN u : u[y].parent \in DOMAIN t \union {Root}
  BY DEF IsForest, Rooted, Accepts
<1>3. ASSUME NEW S \in SUBSET DOMAIN u, S # {}
      PROVE  \E y \in S : u[y].parent \notin S
  <2>1. CASE S \ {x} = {}
    BY <1>2, <1>3, <2>1
  <2>2. CASE S \ {x} # {}
    <3>1. S \ {x} \in SUBSET DOMAIN t
      OBVIOUS
    <3>2. PICK y \in S \ {x} : t[y].parent \notin S \ {x}
      BY <2>2, <3>1 DEF IsForest, Acyclic
    <3> QED
      BY <1>2, <3>1, <3>2
  <2> QED
    BY <2>1, <2>2
<1> QED
  BY <1>1, <1>3 DEF IsForest, Acyclic

(* What is left when no node loses its parent. *)
LEMMA Shrinks ==
    ASSUME NEW t, IsForest(t), Root \notin DOMAIN t, NEW D \in SUBSET DOMAIN t,
           \A y \in D : t[y].parent \in D \union {Root}
    PROVE  IsForest(Restrict(t, D))
<1>1. DOMAIN Restrict(t, D) = D /\ \A y \in D : Restrict(t, D)[y] = t[y]
  BY DEF Restrict
<1>2. Rooted(Restrict(t, D))
  BY <1>1 DEF IsForest, Rooted, Accepts
<1>3. Acyclic(Restrict(t, D))
  <2>1. ASSUME NEW S \in SUBSET D, S # {} PROVE \E y \in S : t[y].parent \notin S
    BY <2>1 DEF IsForest, Acyclic
  <2> QED
    BY <1>1, <2>1 DEF Acyclic
<1> QED
  BY <1>2, <1>3 DEF IsForest

LEMMA WithinIsClosed ==
    ASSUME NEW t, NEW x, NEW y \in DOMAIN t, t[y].parent \in Within(t, x)
    PROVE  y \in Within(t, x)
BY DEF Within

LEMMA WithinStartsAtTop ==
    ASSUME NEW t, NEW x \in DOMAIN t
    PROVE  x \in Within(t, x) /\ Within(t, x) \subseteq DOMAIN t
BY DEF Within

(* Nothing is within x but x and what is below something within x. *)
LEMMA WithinHasParents ==
    ASSUME NEW t, NEW x \in DOMAIN t, NEW y \in Within(t, x), y # x
    PROVE  t[y].parent \in Within(t, x)
<1> SUFFICES ASSUME t[y].parent \notin Within(t, x) PROVE FALSE
  OBVIOUS
<1> DEFINE S == Within(t, x) \ {y}
<1>1. S \in SUBSET DOMAIN t /\ x \in S
  BY WithinStartsAtTop
<1>2. ASSUME NEW z \in DOMAIN t, t[z].parent \in S PROVE z \in S
  BY <1>2, WithinIsClosed
<1>3. y \in S
  BY <1>1, <1>2 DEF Within
<1> QED
  BY <1>3

(* A node that goes below one which is not within it. *)
LEMMA MovesAside ==
    ASSUME NEW t, IsForest(t), Root \notin DOMAIN t, NEW x \in DOMAIN t,
           NEW u, DOMAIN u = DOMAIN t, \A y \in DOMAIN t : u[y].kind = t[y].kind,
           \A y \in DOMAIN t \ {x} : u[y].parent = t[y].parent,
           Accepts(t, t[x].kind, u[x].parent), u[x].parent \notin Within(t, x)
    PROVE  IsForest(u)
<1>1. Rooted(u)
  BY DEF IsForest, Rooted, Accepts
<1>2. ASSUME NEW S \in SUBSET DOMAIN t, S # {}, \A y \in S : u[y].parent \in S
      PROVE  FALSE
  <2>1. CASE x \notin S
    BY <1>2, <2>1 DEF IsForest, Acyclic
  <2>2. CASE x \in S
    <3> DEFINE R == S \ Within(t, x)
    <3>1. R \in SUBSET DOMAIN t /\ u[x].parent \in R
      BY <1>2, <2>2
    <3>2. PICK y \in R : t[y].parent \notin R
      BY <3>1 DEF IsForest, Acyclic
    <3>3. y # x /\ t[y].parent \in S
      BY <1>2, <3>2, WithinStartsAtTop
    <3>4. t[y].parent \in Within(t, x)
      BY <3>2, <3>3
    <3> QED
      BY <3>1, <3>2, <3>4, WithinIsClosed
  <2> QED
    BY <2>1, <2>2
<1>3. Acyclic(u)
  BY <1>2 DEF Acyclic
<1> QED
  BY <1>1, <1>3 DEF IsForest

(* A request has nothing below it. *)
LEMMA WithinLeaf ==
    ASSUME NEW t, Rooted(t), Root \notin DOMAIN t, NEW x \in DOMAIN t,
           t[x].kind \in {"req", "var"}
    PROVE  Within(t, x) = {x}
<1>1. \A y \in DOMAIN t : t[y].parent # x
  BY DEF Rooted, Accepts
<1>2. ASSUME NEW y \in Within(t, x) PROVE y = x
  <2>1. {x} \in SUBSET DOMAIN t /\ \A z \in DOMAIN t : t[z].parent \in {x} => z \in {x}
    BY <1>1
  <2> QED
    BY <2>1 DEF Within
<1> QED
  BY <1>2, WithinStartsAtTop

(* u is t and a copy of a part that hangs together, under new ids, beside  *)
(* its top.                                                                *)
Grafted(t, u, copy, x) ==
    /\ DOMAIN copy \subseteq DOMAIN t /\ x \in DOMAIN copy
    /\ \A y, z \in DOMAIN copy : copy[y] = copy[z] => y = z
    /\ Range(copy) \intersect (DOMAIN t \union {Root}) = {}
    /\ DOMAIN u = DOMAIN t \union Range(copy)
    /\ \A y \in DOMAIN t : u[y] = t[y]
    /\ \A y \in DOMAIN copy : u[copy[y]].kind = t[y].kind
    /\ u[copy[x]].parent = t[x].parent
    /\ \A y \in DOMAIN copy \ {x} : /\ t[y].parent \in DOMAIN copy
                                    /\ u[copy[y]].parent = copy[t[y].parent]

LEMMA Grafts ==
    ASSUME NEW t, IsForest(t), Root \notin DOMAIN t,
           NEW u, NEW copy, NEW x, Grafted(t, u, copy, x)
    PROVE  IsForest(u)
<1> USE DEF Grafted
<1>1. \A z \in DOMAIN u : z \in DOMAIN t \/ \E y \in DOMAIN copy : z = copy[y]
  BY DEF Range
<1>2. \A y \in DOMAIN copy : copy[y] \in DOMAIN u /\ copy[y] \notin DOMAIN t
  BY DEF Range
<1>3. \A y \in DOMAIN t : Accepts(t, t[y].kind, t[y].parent)
  BY DEF IsForest, Rooted
<1>4. Rooted(u)
  <2>1. ASSUME NEW y \in DOMAIN t PROVE Accepts(u, u[y].kind, u[y].parent)
    BY <1>3 DEF Accepts
  <2>2. Accepts(u, u[copy[x]].kind, u[copy[x]].parent)
    BY <1>3 DEF Accepts
  <2>3. ASSUME NEW y \in DOMAIN copy \ {x}
        PROVE  Accepts(u, u[copy[y]].kind, u[copy[y]].parent)
    BY <1>2, <1>3 DEF Accepts
  <2> QED
    BY <1>1, <2>1, <2>2, <2>3 DEF Rooted
<1>5. ASSUME NEW S \in SUBSET DOMAIN u, S # {}, \A z \in S : u[z].parent \in S
      PROVE  FALSE
  <2>1. CASE S \intersect DOMAIN t # {}
    <3>1. PICK y \in S \intersect DOMAIN t : t[y].parent \notin S \intersect DOMAIN t
      BY <2>1 DEF IsForest, Acyclic
    <3>2. t[y].parent \in S /\ t[y].parent \in DOMAIN t \union {Root}
      BY <1>3, <1>5, <3>1 DEF Accepts
    <3>3. Root \notin S
      BY DEF Range
    <3> QED
      BY <3>1, <3>2, <3>3
  <2>2. CASE S \intersect DOMAIN t = {}
    <3> DEFINE P == {y \in DOMAIN copy : copy[y] \in S}
    <3>1. P \in SUBSET DOMAIN t /\ P # {}
      BY <1>1, <1>5, <2>2
    <3>2. PICK y \in P : t[y].parent \notin P
      BY <3>1 DEF IsForest, Acyclic
    <3>3. CASE y = x
      <4>1. t[x].parent \in S /\ t[x].parent \in DOMAIN t \union {Root}
        BY <1>3, <1>5, <3>2, <3>3 DEF Accepts
      <4> QED
        BY <2>2, <4>1 DEF Range
    <3>4. CASE y # x
      BY <1>5, <3>2, <3>4
    <3> QED
      BY <3>3, <3>4
  <2> QED
    BY <2>1, <2>2
<1> QED
  BY <1>4, <1>5 DEF IsForest, Acyclic

LEMMA InverseOfCopy ==
    ASSUME NEW copy, \A y, z \in DOMAIN copy : copy[y] = copy[z] => y = z,
           NEW y \in DOMAIN copy
    PROVE  Inverse(copy, DOMAIN copy, Range(copy))[copy[y]] = y
BY DEF Inverse, Range

-----------------------------------------------------------------------------
(* The invariant.                                                          *)

Shaped(t) == \A x \in DOMAIN t : {"kind", "parent"} \subseteq DOMAIN t[x]

RowsInv == DOMAIN rows \subseteq Ids /\ Shaped(rows) /\ IsForest(rows)

(* An import has a tree that came from a file, and what it put rows for.   *)
Placed(place, placement) ==
    /\ place = Root \/ place \in OfKind(rows, "coll")
    /\ placement = "into" => place # Root

JobInv ==
    \/ Quiet
    \/ /\ {"file", "place", "placement", "at", "left", "new"} \subseteq DOMAIN job
       /\ Root \notin DOMAIN job.file /\ Rooted(job.file)
       /\ Placed(job.place, job.placement)
       /\ job.left \subseteq DOMAIN job.file
       /\ DOMAIN job.at \subseteq DOMAIN job.file
       /\ \A f \in DOMAIN job.at : job.at[f] \in OfKind(rows, job.file[f].kind)

LibraryInv == RowsInv /\ JobInv

LEMMA RootIsNoRow == RowsInv => Root \notin DOMAIN rows
BY LibraryAssumption DEF RowsInv

LEMMA InitLibrary == Init => LibraryInv
<1> SUFFICES ASSUME Init PROVE LibraryInv
  OBVIOUS
<1>1. DOMAIN rows = {}
  BY DEF Init
<1>2. RowsInv
  BY <1>1 DEF RowsInv, Shaped, IsForest, Rooted, Acyclic
<1> QED
  BY <1>2 DEF Init, LibraryInv, JobInv, Quiet

(* Rows get other names and secrets. *)
LEMMA RewrittenKeep ==
    ASSUME RowsInv, NEW x, NEW name, NEW secret,
           rows' = [rows EXCEPT ![x].name = name, ![x].secret = secret]
    PROVE  /\ RowsInv' /\ DOMAIN rows' = DOMAIN rows
           /\ \A y \in DOMAIN rows : rows'[y].kind = rows[y].kind
<1>1. /\ DOMAIN rows' = DOMAIN rows
      /\ \A y \in DOMAIN rows : /\ rows'[y].kind = rows[y].kind
                                /\ rows'[y].parent = rows[y].parent
                                /\ DOMAIN rows'[y] = DOMAIN rows[y]
  BY DEF RowsInv, Shaped
<1>2. IsForest(rows')
  BY <1>1, SameShape DEF RowsInv
<1> QED
  BY <1>1, <1>2 DEF RowsInv, Shaped

LEMMA WriteKeeps ==
    ASSUME RowsInv, NEW x, NEW name, NEW v, NEW up, Write(x, name, v, up)
    PROVE  /\ RowsInv' /\ DOMAIN rows' = DOMAIN rows
           /\ \A y \in DOMAIN rows : rows'[y].kind = rows[y].kind
BY RewrittenKeep DEF Write

LEMMA InsertKeeps ==
    ASSUME RowsInv, NEW x \in Fresh, NEW kind, NEW p, NEW name, NEW v,
           Accepts(rows, kind, p), Insert(x, kind, p, name, v)
    PROVE  /\ RowsInv' /\ DOMAIN rows' = DOMAIN rows \union {x}
           /\ rows'[x] = [kind |-> kind, parent |-> p, name |-> name, secret |-> Masked(kind, v)]
           /\ rows'[x].kind = kind
           /\ \A y \in DOMAIN rows : rows'[y] = rows[y]
<1> DEFINE node == [kind |-> kind, parent |-> p, name |-> name, secret |-> Masked(kind, v)]
<1>1. x \in Ids /\ x \notin DOMAIN rows /\ x # Root
  BY LibraryAssumption DEF Fresh
<1>a. rows' = Beside(rows, One(x, node))
  BY DEF Insert
<1>b. node.kind = kind /\ node.parent = p /\ {"kind", "parent"} \subseteq DOMAIN node
  OBVIOUS
<1> HIDE DEF node
<1>c. /\ DOMAIN Beside(rows, One(x, node)) = DOMAIN rows \union {x}
      /\ Beside(rows, One(x, node))[x] = node
      /\ \A y \in DOMAIN rows : Beside(rows, One(x, node))[y] = rows[y]
  BY <1>1 DEF Beside, One
<1>2. /\ DOMAIN rows' = DOMAIN rows \union {x}
      /\ rows'[x] = node
      /\ \A y \in DOMAIN rows : rows'[y] = rows[y]
  BY <1>a, <1>c
<1>3. rows'[x].kind = kind /\ rows'[x].parent = p /\ {"kind", "parent"} \subseteq DOMAIN rows'[x]
  BY <1>2, <1>b
<1>4. IsForest(rows')
  BY <1>1, <1>2, <1>3, GrowsByOne, RootIsNoRow DEF RowsInv
<1>5. RowsInv'
  BY <1>1, <1>2, <1>3, <1>4 DEF RowsInv, Shaped
<1> QED
  BY <1>2, <1>3, <1>5 DEF node

LEMMA RestrictKeeps ==
    ASSUME RowsInv, NEW gone, rows' = Restrict(rows, DOMAIN rows \ gone),
           \A y \in DOMAIN rows : rows[y].parent \in gone => y \in gone
    PROVE  RowsInv'
<1> DEFINE D == DOMAIN rows \ gone
<1>1. \A y \in D : rows[y].parent \in D \union {Root}
  BY DEF RowsInv, IsForest, Rooted, Accepts
<1>2. IsForest(rows')
  BY <1>1, Shrinks, RootIsNoRow DEF RowsInv
<1>3. DOMAIN rows' = D /\ \A y \in D : rows'[y] = rows[y]
  BY DEF Restrict
<1> QED
  BY <1>2, <1>3 DEF RowsInv, Shaped

LEMMA QuietKeeps ==
    ASSUME Quiet, RowsInv', UNCHANGED job
    PROVE  LibraryInv'
BY DEF LibraryInv, JobInv, Quiet

(* What is gone is closed: nothing is left below it. *)
LEMMA LeavesKeep ==
    ASSUME RowsInv, NEW gone, rows' = Restrict(rows, DOMAIN rows \ gone),
           gone \subseteq DOMAIN rows, \A y \in gone : rows[y].kind \in {"req", "var"}
    PROVE  RowsInv'
<1>1. Root \notin DOMAIN rows /\ Rooted(rows)
  BY RootIsNoRow DEF RowsInv, IsForest
<1>2. ASSUME NEW y \in DOMAIN rows, rows[y].parent \in gone PROVE FALSE
  <2>1. CASE rows[y].parent = Root
    BY <1>1, <1>2, <2>1
  <2>2. CASE rows[y].parent \in DOMAIN rows
    BY <1>1, <1>2, <2>2 DEF Rooted, Accepts
  <2> QED
    BY <1>1, <2>1, <2>2 DEF Rooted, Accepts
<1> QED
  BY <1>2, RestrictKeeps

LEMMA BranchKeeps ==
    ASSUME RowsInv, NEW x, rows' = Restrict(rows, DOMAIN rows \ Within(rows, x))
    PROVE  RowsInv'
BY RestrictKeeps, WithinIsClosed

LEMMA DeletesKeep ==
    ASSUME RowsInv, NEW x \in DOMAIN rows, Delete(x)
    PROVE  RowsInv'
<1>1. ASSUME NEW up, DeleteCollection(x, up) PROVE RowsInv'
  BY <1>1, BranchKeeps DEF DeleteCollection
<1>2. ASSUME NEW up, DeleteRequest(x, up) \/ DeleteVariable(x, up) PROVE RowsInv'
  BY <1>2, LeavesKeep DEF DeleteRequest, DeleteVariable, OfKind
<1>3. CASE DeleteEnvironment(x)
  BY <1>3, BranchKeeps DEF DeleteEnvironment
<1>4. CASE DeleteCollectionLost(x)
  <2> DEFINE gone == Within(rows, x) \intersect OfKind(rows, "req")
  <2>1. gone \subseteq DOMAIN rows /\ \A y \in gone : rows[y].kind \in {"req", "var"}
    BY DEF OfKind
  <2> QED
    BY <1>4, <2>1, LeavesKeep DEF DeleteCollectionLost
<1> QED
  BY <1>1, <1>2, <1>3, <1>4 DEF Delete

(* A move goes to a place that is not within what is moved.                *)
LEMMA MoveRows ==
    ASSUME RowsInv, NEW x \in DOMAIN rows, Move(x)
    PROVE  \E p : /\ rows' = [rows EXCEPT ![x].parent = p]
                  /\ Accepts(rows, rows[x].kind, p) /\ p \notin Within(rows, x)
<1>1. PICK p \in {Root} \union DOMAIN rows : MoveCollection(x, p) \/ MoveRequest(x, p)
  BY DEF Move
<1>2. rows' = [rows EXCEPT ![x].parent = p] /\ Accepts(rows, rows[x].kind, p)
  BY <1>1 DEF MoveCollection, MoveRequest, OfKind
<1>3. CASE MoveCollection(x, p)
  BY <1>2, <1>3 DEF MoveCollection
<1>4. CASE MoveRequest(x, p)
  <2>1. rows[x].kind = "req" /\ p # x
    BY <1>4, RootIsNoRow DEF MoveRequest, OfKind, Accepts
  <2>2. p \notin Within(rows, x)
    BY <2>1, WithinLeaf, RootIsNoRow DEF RowsInv, IsForest
  <2> QED
    BY <1>2, <2>2
<1> QED
  BY <1>1, <1>3, <1>4

LEMMA MovesKeep ==
    ASSUME RowsInv, NEW x \in DOMAIN rows, Move(x)
    PROVE  RowsInv'
<1>1. PICK p : /\ rows' = [rows EXCEPT ![x].parent = p]
               /\ Accepts(rows, rows[x].kind, p) /\ p \notin Within(rows, x)
  BY MoveRows
<1>2. /\ DOMAIN rows' = DOMAIN rows
      /\ \A y \in DOMAIN rows : rows'[y].kind = rows[y].kind /\ DOMAIN rows'[y] = DOMAIN rows[y]
      /\ \A y \in DOMAIN rows \ {x} : rows'[y].parent = rows[y].parent
      /\ rows'[x].parent = p
  BY <1>1 DEF RowsInv, Shaped
<1>3. /\ IsForest(rows) /\ Root \notin DOMAIN rows
      /\ Accepts(rows, rows[x].kind, rows'[x].parent)
      /\ rows'[x].parent \notin Within(rows, x)
      /\ \A y \in DOMAIN rows : rows'[y].kind = rows[y].kind
  BY <1>1, <1>2, RootIsNoRow DEF RowsInv
<1>4. IsForest(rows')
  BY <1>2, <1>3, MovesAside
<1> QED
  BY <1>2, <1>4 DEF RowsInv, Shaped

(* What duplicate leaves of the copies and their secrets.                  *)
Given(bare, y) == IF y \in bare THEN "none" ELSE Hydrated(y)

CopyOf(x, copy, bare, name, y) ==
    [kind   |-> rows[y].kind,
     parent |-> IF y = x THEN rows[x].parent ELSE copy[rows[y].parent],
     name   |-> IF y = x THEN name ELSE rows[y].name,
     secret |-> Masked(rows[y].kind, Given(bare, y))]

Copied(x, part, copy, bare, name) ==
    /\ DOMAIN copy = part /\ x \in part
    /\ \A y, z \in part : copy[y] = copy[z] => y = z
    /\ Range(copy) \subseteq Fresh
    /\ \A y \in part \ {x} : rows[y].parent \in part
    /\ DOMAIN rows' = DOMAIN rows \union Range(copy)
    /\ \A y \in DOMAIN rows : rows'[y] = rows[y]
    /\ \A y \in part : rows'[copy[y]] = CopyOf(x, copy, bare, name, y)
    /\ DOMAIN keychain' = Ids
    /\ \A z \in Ids \ Range(copy) : keychain'[z] = keychain[z]
    /\ \A y \in part : keychain'[copy[y]] = KeptKey(copy[y], Given(bare, y), TRUE)

LEMMA CopyRows ==
    ASSUME NEW x, NEW part, NEW copy, copy \in Injection(part, Fresh), NEW bare,
           NEW name, Duplicate(x, copy, bare, name)
    PROVE  Copied(x, part, copy, bare, name)
<1> DEFINE original == Inverse(copy, DOMAIN copy, Range(copy))
           secret(y) == IF y \in bare THEN "none" ELSE [z \in DOMAIN copy |-> Hydrated(z)][y]
           copies == [z \in Range(copy) |->
              [kind   |-> rows[original[z]].kind,
               parent |-> IF original[z] = x THEN rows[x].parent
                          ELSE copy[rows[original[z]].parent],
               name   |-> IF original[z] = x THEN name ELSE rows[original[z]].name,
               secret |-> Masked(rows[original[z]].kind, secret(original[z]))]]
<1>1. /\ DOMAIN copy = part
      /\ \A y, z \in DOMAIN copy : copy[y] = copy[z] => y = z
      /\ Range(copy) \subseteq Fresh
  BY DEF Injection, IsInjective, Range
<1>2. /\ x \in part
      /\ \A y \in part \ {x} : rows[y].parent \in part
      /\ rows' = Beside(rows, copies)
      /\ keychain' = [z \in Ids |->
            IF z \in Range(copy) THEN KeptKey(z, secret(original[z]), TRUE) ELSE keychain[z]]
  BY <1>1 DEF Duplicate, CopyAs
<1>3. \A y \in DOMAIN copy : original[copy[y]] = y /\ copy[y] \in Range(copy)
  BY <1>1, InverseOfCopy DEF Range
<1> HIDE DEF original
<1>4. \A y \in part : secret(y) = Given(bare, y)
  BY <1>1 DEF Given
<1> HIDE DEF secret
<1>5. /\ DOMAIN copies = Range(copy)
      /\ \A y \in part : copies[copy[y]] = CopyOf(x, copy, bare, name, y)
  BY <1>1, <1>3, <1>4 DEF CopyOf
<1> HIDE DEF copies
<1>6. Range(copy) \subseteq Ids /\ Range(copy) \intersect DOMAIN rows = {}
  BY <1>1 DEF Fresh
<1>7. /\ DOMAIN rows' = DOMAIN rows \union Range(copy)
      /\ \A y \in DOMAIN rows : rows'[y] = rows[y]
      /\ \A y \in part : rows'[copy[y]] = CopyOf(x, copy, bare, name, y)
  BY <1>1, <1>2, <1>3, <1>5, <1>6 DEF Beside
<1>8. /\ DOMAIN keychain' = Ids
      /\ \A z \in Ids \ Range(copy) : keychain'[z] = keychain[z]
      /\ \A y \in part : keychain'[copy[y]] = KeptKey(copy[y], Given(bare, y), TRUE)
  BY <1>1, <1>2, <1>3, <1>4, <1>6
<1> QED
  BY <1>1, <1>2, <1>7, <1>8 DEF Copied

LEMMA CopiesKeep ==
    ASSUME RowsInv, NEW x \in DOMAIN rows, Copies(x)
    PROVE  RowsInv'
<1>1. PICK part \in SUBSET (Within(rows, x) \intersect Owners(rows)) :
        \E copy \in Injection(part, Fresh), bare \in SUBSET part, name \in FormNames :
            Duplicate(x, copy, bare, name)
  BY DEF Copies
<1>2. PICK copy \in Injection(part, Fresh), bare \in SUBSET part, name \in FormNames :
        Duplicate(x, copy, bare, name)
  BY <1>1
<1>3. Copied(x, part, copy, bare, name)
  BY <1>2, CopyRows
<1>4. ASSUME NEW y \in part
      PROVE  /\ rows'[copy[y]].kind = rows[y].kind
             /\ rows'[copy[y]].parent = IF y = x THEN rows[x].parent ELSE copy[rows[y].parent]
             /\ {"kind", "parent"} \subseteq DOMAIN rows'[copy[y]]
  <2>1. rows'[copy[y]] = CopyOf(x, copy, bare, name, y)
    BY <1>3 DEF Copied
  <2> QED
    BY <2>1 DEF CopyOf
<1>5. /\ Range(copy) \subseteq Ids
      /\ Range(copy) \intersect (DOMAIN rows \union {Root}) = {}
  BY <1>3, LibraryAssumption DEF Copied, Fresh
<1>6. part \subseteq DOMAIN rows /\ IsForest(rows) /\ Root \notin DOMAIN rows
  BY RootIsNoRow DEF RowsInv, Within
<1>7. Grafted(rows, rows', copy, x)
  BY <1>3, <1>4, <1>5, <1>6 DEF Copied, Grafted
<1>8. IsForest(rows')
  BY <1>6, <1>7, Grafts
<1>9. Shaped(rows')
  BY <1>3, <1>4 DEF Copied, RowsInv, Shaped, Range
<1> QED
  BY <1>3, <1>5, <1>8, <1>9 DEF Copied, RowsInv

(* Commands that find no import running.                                   *)
LEMMA CommandsKeep ==
    ASSUME LibraryInv, NEW x,
           \/ x \in Ids /\ (Create(x) \/ Lost(x))
           \/ x \in DOMAIN rows /\ (Update(x) \/ Move(x) \/ Delete(x) \/ Copies(x))
           \/ DeleteWorkspace
    PROVE  LibraryInv'
<1> USE DEF LibraryInv
<1>1. ASSUME UNCHANGED rows PROVE RowsInv'
  BY <1>1 DEF RowsInv, Shaped, IsForest, Rooted, Acyclic, Accepts
<1>2. CASE x \in Ids /\ Create(x)
  <2>1. PICK name \in FormNames, p \in {Root} \union DOMAIN rows :
           \/ CreateCollection(x, p, name) \/ CreateEnvironment(x, p, name)
           \/ \E v \in Plain : CreateRequest(x, p, name, v) \/ CreateVariable(x, p, name, v)
    BY <1>2 DEF Create
  <2>2. /\ Quiet /\ UNCHANGED job /\ x \in Fresh
        /\ \E kind, v : Accepts(rows, kind, p) /\ Insert(x, kind, p, name, v)
    BY <2>1 DEF CreateCollection, CreateEnvironment, CreateRequest, CreateVariable
  <2>3. RowsInv'
    BY <2>2, InsertKeeps
  <2> QED
    BY <2>2, <2>3, QuietKeeps
<1>3. CASE Lost(x)
  <2>1. Quiet /\ UNCHANGED <<rows, job>>
    BY <1>3 DEF Lost, CreateLost, UpdateLost
  <2> QED
    BY <1>1, <2>1, QuietKeeps
<1>4. CASE x \in DOMAIN rows /\ Update(x)
  <2>1. PICK name \in FormNames, v \in Sendable, up \in BOOLEAN :
           \/ Rename(x, name) \/ UpdateCollectionAuth(x, v, up)
           \/ UpdateRequest(x, name, v, up) \/ UpdateVariable(x, name, v, up)
    BY <1>4 DEF Update
  <2>2. Quiet /\ UNCHANGED job
    BY <2>1 DEF Rename, UpdateCollectionAuth, UpdateRequest, UpdateVariable
  <2>3. CASE Rename(x, name)
    <3>1. rows' = [rows EXCEPT ![x].name = name]
      BY <2>3 DEF Rename
    <3>2. /\ DOMAIN rows' = DOMAIN rows
          /\ \A y \in DOMAIN rows : /\ rows'[y].kind = rows[y].kind
                                    /\ rows'[y].parent = rows[y].parent
                                    /\ DOMAIN rows'[y] = DOMAIN rows[y]
      BY <3>1 DEF RowsInv, Shaped
    <3>3. IsForest(rows')
      BY <3>2, SameShape DEF RowsInv
    <3>4. RowsInv'
      BY <3>2, <3>3 DEF RowsInv, Shaped
    <3> QED
      BY <2>2, <3>4, QuietKeeps
  <2>4. CASE \E new : Write(x, new, v, up)
    <3>1. RowsInv'
      BY <2>4, WriteKeeps
    <3> QED
      BY <2>2, <3>1, QuietKeeps
  <2> QED
    BY <2>1, <2>3, <2>4 DEF UpdateCollectionAuth, UpdateRequest, UpdateVariable
<1>5. CASE x \in DOMAIN rows /\ (Move(x) \/ Delete(x) \/ Copies(x))
  <2>1. Quiet /\ UNCHANGED job
    BY <1>5 DEF Move, Delete, Copies, MoveCollection, MoveRequest, DeleteCollection,
                DeleteRequest, DeleteVariable, DeleteEnvironment, DeleteCollectionLost,
                Duplicate, CopyAs
  <2>2. RowsInv'
    BY <1>5, MovesKeep, DeletesKeep, CopiesKeep
  <2> QED
    BY <2>1, <2>2, QuietKeeps
<1>6. CASE DeleteWorkspace
  <2>1. Quiet /\ UNCHANGED job /\ DOMAIN rows' = {}
    BY <1>6 DEF DeleteWorkspace
  <2>2. RowsInv'
    BY <2>1 DEF RowsInv, Shaped, IsForest, Rooted, Acyclic
  <2> QED
    BY <2>1, <2>2, QuietKeeps
<1> QED
  BY <1>2, <1>3, <1>4, <1>5, <1>6

(* Every file is a tree whose nodes have their parents.                    *)
LEMMA ExportedIsRooted ==
    ASSUME RowsInv, NEW h
    PROVE  Rooted(Exported(h)) /\ DOMAIN Exported(h) \subseteq DOMAIN rows
<1> DEFINE D == {z \in DOMAIN rows : rows[z].kind = "var" =>
                                        rows[z].parent \notin OfKind(rows, "coll")}
           file == Exported(h)
<1>1. /\ DOMAIN file = D
      /\ \A y \in D : /\ file[y].kind = rows[y].kind
                      /\ file[y].parent = IF rows[y].kind = "env" THEN Root ELSE rows[y].parent
  BY DEF Exported, RowsInv, Shaped
<1>2. \A y \in DOMAIN rows : Accepts(rows, rows[y].kind, rows[y].parent)
  BY DEF RowsInv, IsForest, Rooted
<1> HIDE DEF file
<1>3. ASSUME NEW y \in D PROVE Accepts(file, file[y].kind, file[y].parent)
  BY <1>1, <1>2 DEF Accepts, OfKind
<1>4. Rooted(file)
  BY <1>1, <1>3 DEF Rooted
<1> QED
  BY <1>1, <1>4 DEF file

LEMMA SyncedIsRooted ==
    ASSUME RowsInv
    PROVE  Rooted(Synced) /\ DOMAIN Synced \subseteq DOMAIN rows
<1> DEFINE all == Exported(FALSE)
           D == {y \in DOMAIN all : all[y].kind = "var" => all[y].parent # Root}
           file == Synced
<1>1. DOMAIN file = D /\ \A y \in D : file[y] = all[y]
  BY DEF Synced, Restrict
<1>2. Rooted(all) /\ DOMAIN all \subseteq DOMAIN rows /\ Root \notin DOMAIN rows
  BY ExportedIsRooted, RootIsNoRow
<1> HIDE DEF all, file
<1>3. ASSUME NEW y \in D PROVE Accepts(file, file[y].kind, file[y].parent)
  BY <1>1, <1>2 DEF Accepts, Rooted
<1>4. Rooted(file)
  BY <1>1, <1>3 DEF Rooted
<1> QED
  BY <1>1, <1>2, <1>4 DEF file

LEMMA CollectedIsRooted ==
    ASSUME RowsInv, NEW x \in OfKind(rows, "coll"), NEW h
    PROVE  Rooted(Collected(x, h)) /\ DOMAIN Collected(x, h) \subseteq DOMAIN rows
<1> DEFINE D == Within(rows, x) \intersect Owners(rows)
           file == Collected(x, h)
<1>1. /\ DOMAIN file = D
      /\ \A y \in D : /\ file[y].kind = rows[y].kind
                      /\ file[y].parent = IF y = x THEN Root ELSE rows[y].parent
  BY DEF Collected, RowsInv, Shaped, Within
<1>2. /\ \A y \in DOMAIN rows : Accepts(rows, rows[y].kind, rows[y].parent)
      /\ Root \notin DOMAIN rows
  BY RootIsNoRow DEF RowsInv, IsForest, Rooted
<1>3. x \in DOMAIN rows /\ rows[x].kind = "coll"
  BY DEF OfKind
<1> HIDE DEF file
<1>4. ASSUME NEW y \in D PROVE Accepts(file, file[y].kind, file[y].parent)
  <2>1. CASE y = x
    BY <1>1, <1>3, <2>1 DEF Accepts
  <2>2. CASE y # x
    <3>1. rows[y].parent \in Within(rows, x)
      BY <1>3, <2>2, WithinHasParents
    <3>2. rows[y].parent \in DOMAIN rows /\ rows[y].kind \in {"coll", "req"}
      BY <3>1 DEF Within, Owners, OfKind
    <3>3. rows[rows[y].parent].kind = "coll"
      BY <1>2, <3>2 DEF Accepts, Within
    <3>4. rows[y].parent \in D
      BY <3>1, <3>2, <3>3 DEF Owners, OfKind
    <3> QED
      BY <1>1, <2>2, <3>2, <3>3, <3>4, <1>3 DEF Accepts
  <2> QED
    BY <2>1, <2>2
<1>5. Rooted(file)
  BY <1>1, <1>4 DEF Rooted
<1> QED
  BY <1>1, <1>5 DEF file, Within

LEMMA StartKeeps == LibraryInv /\ Start => LibraryInv'
<1> SUFFICES ASSUME LibraryInv, Start PROVE LibraryInv'
  OBVIOUS
<1>1. PICK place \in {Root} \union OfKind(rows, "coll"),
           placement \in {"into", "under", "fresh"}, mode \in {"skip", "overwrite", "merge"},
           file \in Files \union {Synced} \union {Exported(h) : h \in BOOLEAN}
                      \union {Collected(x, FALSE) : x \in OfKind(rows, "coll")} :
        StartImport(file, place, placement, mode)
  BY DEF Start
<1>2. Root \notin DOMAIN file /\ Rooted(file)
  <2>1. CASE file \in Files
    BY <2>1, LibraryAssumption
  <2>2. CASE file = Synced
    BY <2>2, SyncedIsRooted, RootIsNoRow DEF LibraryInv
  <2>3. CASE \E h \in BOOLEAN : file = Exported(h)
    BY <2>3, ExportedIsRooted, RootIsNoRow DEF LibraryInv
  <2>4. CASE \E x \in OfKind(rows, "coll") : file = Collected(x, FALSE)
    BY <2>4, CollectedIsRooted, RootIsNoRow DEF LibraryInv
  <2> QED
    BY <1>1, <2>1, <2>2, <2>3, <2>4
<1>3. RowsInv'
  BY <1>1 DEF StartImport, LibraryInv, RowsInv, Shaped, IsForest, Rooted, Acyclic, Accepts
<1>4. /\ {"file", "place", "placement", "at", "left", "new"} \subseteq DOMAIN job'
      /\ job'.file = file /\ job'.place = place /\ job'.placement = placement
      /\ job'.left = DOMAIN file /\ DOMAIN job'.at = {}
  BY <1>1 DEF StartImport
<1>5. Placed(place, placement)'
  BY <1>1 DEF StartImport, Fits, Placed, OfKind
<1>6. JobInv'
  BY <1>2, <1>4, <1>5 DEF JobInv, Placed
<1> QED
  BY <1>3, <1>6 DEF LibraryInv

-----------------------------------------------------------------------------
(* Imports, during which no row goes.                                      *)

KindsStay ==
    \A y \in DOMAIN rows : y \in DOMAIN rows' /\ rows'[y].kind = rows[y].kind

LEMMA UntouchedKeep ==
    ASSUME RowsInv, UNCHANGED rows
    PROVE  RowsInv' /\ KindsStay
BY DEF KindsStay, RowsInv, Shaped, IsForest, Rooted, Acyclic, Accepts

LEMMA WrittenKeep ==
    ASSUME RowsInv, NEW x, NEW name, NEW v, NEW up, Write(x, name, v, up)
    PROVE  RowsInv' /\ KindsStay
BY WriteKeeps DEF KindsStay

(* A node goes to what stands for its parent.                              *)
LEMMA TargetAccepts ==
    ASSUME LibraryInv, ~Quiet, NEW n \in job.left,
           job.file[n].parent \in {Root} \union DOMAIN job.at
    PROVE  Accepts(rows, job.file[n].kind, Target(job.file[n].parent))
<1> DEFINE kind == job.file[n].kind
           p == job.file[n].parent
<1>1. /\ n \in DOMAIN job.file /\ Root \notin DOMAIN job.file
      /\ Accepts(job.file, kind, p)
      /\ job.place = Root \/ job.place \in OfKind(rows, "coll")
      /\ \A f \in DOMAIN job.at : f \in DOMAIN job.file
                                  /\ job.at[f] \in OfKind(rows, job.file[f].kind)
  BY DEF LibraryInv, JobInv, Placed, Rooted
<1>2. CASE p = Root
  BY <1>1, <1>2 DEF Target, Accepts, OfKind
<1>3. CASE p # Root
  BY <1>1, <1>3 DEF Target, Accepts, OfKind
<1> QED
  BY <1>2, <1>3

LEMMA PutKeeps ==
    ASSUME LibraryInv, ~Quiet, NEW n \in job.left,
           job.file[n].parent \in {Root} \union DOMAIN job.at,
           NEW x, NEW name, NEW v, Put(n, x, name, v)
    PROVE  /\ RowsInv' /\ KindsStay
           /\ x \in DOMAIN rows' /\ rows'[x].kind = job.file[n].kind
<1> DEFINE kind == job.file[n].kind
           p == job.file[n].parent
<1>1. x \in Fresh /\ Insert(x, kind, Target(p), name, v)
  BY DEF Put
<1>2. /\ RowsInv' /\ DOMAIN rows' = DOMAIN rows \union {x}
      /\ rows'[x].kind = kind
      /\ \A y \in DOMAIN rows : rows'[y] = rows[y]
  BY <1>1, TargetAccepts, InsertKeeps DEF LibraryInv
<1> QED
  BY <1>2 DEF KindsStay

LEMMA HandledKeeps ==
    ASSUME JobInv, ~Quiet, KindsStay, NEW done, NEW at, NEW new, Handled(done, at, new),
           \A f \in DOMAIN at : /\ f \in DOMAIN job.file
                                /\ at[f] \in DOMAIN rows'
                                /\ rows'[at[f]].kind = job.file[f].kind
    PROVE  JobInv'
<1>1. CASE job.left = done
  BY <1>1 DEF Handled, JobInv, Quiet
<1>2. CASE job.left # done
  <2>1. job' = [job EXCEPT !.at = Beside(job.at, at), !.left = @ \ done, !.new = new]
    BY <1>2 DEF Handled
  <2>2. /\ {"file", "place", "placement", "at", "left", "new"} \subseteq DOMAIN job
        /\ Root \notin DOMAIN job.file /\ Rooted(job.file)
        /\ Placed(job.place, job.placement)
        /\ job.left \subseteq DOMAIN job.file
        /\ DOMAIN job.at \subseteq DOMAIN job.file
        /\ \A f \in DOMAIN job.at : job.at[f] \in OfKind(rows, job.file[f].kind)
    BY DEF JobInv
  <2>3. /\ DOMAIN job' = DOMAIN job
        /\ job'.file = job.file /\ job'.place = job.place /\ job'.placement = job.placement
        /\ job'.left \subseteq job.left /\ job'.at = Beside(job.at, at)
    BY <2>1, <2>2
  <2>4. /\ DOMAIN job'.at \subseteq DOMAIN job.file
        /\ \A f \in DOMAIN job'.at : /\ job'.at[f] \in DOMAIN rows'
                                      /\ rows'[job'.at[f]].kind = job.file[f].kind
    BY <2>2, <2>3 DEF Beside, KindsStay, OfKind
  <2>5. Placed(job.place, job.placement)'
    BY <2>2, <2>3 DEF Placed, KindsStay, OfKind
  <2> QED
    BY <2>2, <2>3, <2>4, <2>5 DEF JobInv, OfKind
<1> QED
  BY <1>1, <1>2

LEMMA NothingHandledKeeps ==
    ASSUME JobInv, ~Quiet, KindsStay, NEW done, NEW new, Handled(done, <<>>, new)
    PROVE  JobInv'
BY HandledKeeps

LEMMA OneHandledKeeps ==
    ASSUME JobInv, ~Quiet, KindsStay, NEW n \in job.left, NEW x, NEW done, NEW new,
           Handled(done, One(n, x), new), x \in DOMAIN rows', rows'[x].kind = job.file[n].kind
    PROVE  JobInv'
<1>1. n \in DOMAIN job.file
  BY DEF JobInv
<1>2. DOMAIN One(n, x) = {n} /\ One(n, x)[n] = x
  BY DEF One
<1> QED
  BY <1>1, <1>2, HandledKeeps

LEMMA ImportsKeep ==
    ASSUME LibraryInv, NEW n \in job.left, Import(n)
    PROVE  LibraryInv'
<1> USE DEF LibraryInv
<1>1. ~Quiet
  BY DEF Quiet, Idle
<1>2. ASSUME NextContainer(n, "coll") \/ NextContainer(n, "env") \/ NextItem(n, "req")
             \/ NextItem(n, "var")
      PROVE  job.file[n].parent \in {Root} \union DOMAIN job.at
  BY <1>2 DEF NextContainer, NextItem
<1>3. ASSUME job' = Idle, RowsInv' PROVE LibraryInv'
  BY <1>3 DEF JobInv, Quiet, Idle
<1>4. ASSUME NEW done, NEW new, Handled(done, <<>>, new), RowsInv', KindsStay
      PROVE  LibraryInv'
  BY <1>1, <1>4, NothingHandledKeeps
<1>5. CASE EnterTarget(n)
  <2>1. RowsInv' /\ KindsStay
    <3>1. CASE UNCHANGED rows
      BY <3>1, UntouchedKeep
    <3>2. CASE \E name, v : Write(job.place, name, v, TRUE)
      BY <3>2, WrittenKeep
    <3> QED
      BY <1>5, <3>1, <3>2 DEF EnterTarget
  <2>2. job.place \in DOMAIN rows' /\ rows'[job.place].kind = job.file[n].kind
    BY <1>1, <1>5, <2>1
       DEF EnterTarget, NextContainer, LeftOf, JobInv, Placed, OfKind, KindsStay
  <2> QED
    BY <1>1, <1>5, <2>1, <2>2, OneHandledKeeps DEF EnterTarget
<1>6. ASSUME NEW c \in DOMAIN rows, EnterFolder(n, c) PROVE LibraryInv'
  <2>1. RowsInv' /\ KindsStay
    BY <1>6, UntouchedKeep DEF EnterFolder
  <2>2. c \in DOMAIN rows' /\ rows'[c].kind = job.file[n].kind
    BY <1>6, <2>1 DEF EnterFolder, Namesakes, OfKind, KindsStay
  <2> QED
    BY <1>1, <1>6, <2>1, <2>2, OneHandledKeeps DEF EnterFolder
<1>7. ASSUME NEW x, NEW up, ImportFolder(n, x, up) PROVE LibraryInv'
  <2>1. \E name, v : Put(n, x, name, v)
    BY <1>7 DEF ImportFolder
  <2>2. /\ RowsInv' /\ KindsStay
        /\ x \in DOMAIN rows' /\ rows'[x].kind = job.file[n].kind
    BY <1>1, <1>2, <1>7, <2>1, PutKeeps DEF ImportFolder
  <2>3. job' = Idle \/ Handled({n}, One(n, x), {})
    BY <1>7 DEF ImportFolder
  <2> QED
    BY <1>1, <1>3, <2>2, <2>3, OneHandledKeeps
<1>8. ASSUME NEW x, ImportRequest(n, x) \/ ImportVariable(n, x) PROVE LibraryInv'
  <2>1. \/ UNCHANGED rows
        \/ \E name, v : Put(n, x, name, v)
        \/ \E name, v : Write(x, name, v, TRUE)
    BY <1>8 DEF ImportRequest, ImportVariable
  <2>2. RowsInv' /\ KindsStay
    BY <1>1, <1>2, <1>8, <2>1, UntouchedKeep, PutKeeps, WrittenKeep
       DEF ImportRequest, ImportVariable
  <2>3. \E new : Handled({n}, <<>>, new)
    BY <1>8 DEF ImportRequest, ImportVariable
  <2> QED
    BY <1>4, <2>2, <2>3
<1>9. ASSUME NEW x, ImportEnvironment(n, x) PROVE LibraryInv'
  <2>1. CASE Put(n, x, job.file[n].name, "none") /\ Handled({n}, One(n, x), {})
    <3>1. /\ RowsInv' /\ KindsStay
          /\ x \in DOMAIN rows' /\ rows'[x].kind = job.file[n].kind
      BY <1>1, <1>2, <1>9, <2>1, PutKeeps DEF ImportEnvironment
    <3> QED
      BY <1>1, <2>1, <3>1, OneHandledKeeps
  <2>2. CASE UNCHANGED rows /\ \E done : Handled(done, <<>>, {})
    BY <1>4, <2>2, UntouchedKeep
  <2>3. CASE UNCHANGED rows /\ x \in Namesakes(n) /\ Handled({n}, One(n, x), {})
    <3>1. RowsInv' /\ KindsStay
      BY <2>3, UntouchedKeep
    <3>2. x \in DOMAIN rows' /\ rows'[x].kind = job.file[n].kind
      BY <2>3, <3>1 DEF Namesakes, OfKind, KindsStay
    <3> QED
      BY <1>1, <2>3, <3>1, <3>2, OneHandledKeeps
  <2> QED
    BY <1>9, <2>1, <2>2, <2>3 DEF ImportEnvironment
<1>10. ASSUME NEW x, ImportLost(n, x) PROVE LibraryInv'
  BY <1>3, <1>10, UntouchedKeep DEF ImportLost
<1> QED
  BY <1>5, <1>6, <1>7, <1>8, <1>9, <1>10 DEF Import

LEMMA FailKeeps == LibraryInv /\ FailImport => LibraryInv'
BY UntouchedKeep DEF FailImport, LibraryInv, JobInv, Quiet, Idle

LEMMA LibraryStep == LibraryInv /\ [Next]_vars => LibraryInv'
<1>1. ASSUME LibraryInv, Next PROVE LibraryInv'
  <2>1. CASE \/ \E x \in Ids : Create(x) \/ Lost(x)
             \/ \E x \in DOMAIN rows : Update(x) \/ Move(x) \/ Delete(x) \/ Copies(x)
             \/ DeleteWorkspace
    BY <1>1, <2>1, CommandsKeep
  <2>2. CASE Start
    BY <1>1, <2>2, StartKeeps
  <2>3. CASE \E n \in job.left : Import(n)
    BY <1>1, <2>3, ImportsKeep
  <2>4. CASE FailImport
    BY <1>1, <2>4, FailKeeps
  <2> QED
    BY <1>1, <2>1, <2>2, <2>3, <2>4 DEF Next
<1>2. ASSUME LibraryInv, UNCHANGED vars PROVE LibraryInv'
  <2>1. RowsInv'
    BY <1>2, UntouchedKeep DEF vars, LibraryInv
  <2>2. JobInv'
    BY <1>2 DEF vars, LibraryInv, JobInv, Quiet, Placed, OfKind
  <2> QED
    BY <2>1, <2>2 DEF LibraryInv
<1> QED
  BY <1>1, <1>2

-----------------------------------------------------------------------------
(* Collections are a forest and everything has its parent, whatever is     *)
(* created, moved, copied, deleted or imported, and wherever a delete or   *)
(* an import stops: the walks of self_and_descendants and collect_node     *)
(* end, for any number of rows and any files (store/collections.rs,        *)
(* interop/mod.rs).                                                        *)
THEOREM RowsAreAForest == Spec => []Forest
<1>1. LibraryInv => Forest
  BY DEF LibraryInv, RowsInv, Forest
<1> QED
  BY InitLibrary, LibraryStep, <1>1, PTL DEF Spec

-----------------------------------------------------------------------------
(* The tree that a library stands for.                                     *)
Clear == [x \in DOMAIN rows |-> [rows[x] EXCEPT !.secret = Hydrated(x)]]

-----------------------------------------------------------------------------
(* What each kind of step is in terms of that tree.                        *)

LEMMA TreeNames ==
    /\ Tree!Root = Root /\ Tree!Kinds = Kinds /\ Tree!Plain = Plain
    /\ \A t, x : Tree!Within(t, x) = Within(t, x)
    /\ \A t, kind, p : Tree!Accepts(t, kind, p) = Accepts(t, kind, p)
    /\ \A t : Tree!Rooted(t) = Rooted(t)
    /\ \A t, D : Tree!Restrict(t, D) = Restrict(t, D)
    /\ \A f : Tree!Range(f) = Range(f)
<1>1. Tree!Root = Root /\ Tree!Kinds = Kinds /\ Tree!Plain = Plain
  BY DEF Tree!Root, Root, Tree!Kinds, Kinds, Tree!Plain, Plain
<1>2. \A t, x : Tree!Within(t, x) = Within(t, x)
  BY DEF Tree!Within, Within
<1>3. \A t, kind, p : Tree!Accepts(t, kind, p) = Accepts(t, kind, p)
  BY <1>1 DEF Tree!Accepts, Accepts
<1>4. \A t : Tree!Rooted(t) = Rooted(t)
  BY <1>3 DEF Tree!Rooted, Rooted
<1>5. \A t, D : Tree!Restrict(t, D) = Restrict(t, D)
  BY DEF Tree!Restrict, Restrict
<1>6. \A f : Tree!Range(f) = Range(f)
  BY DEF Tree!Range, Range
<1> QED
  BY <1>1, <1>2, <1>3, <1>4, <1>5, <1>6

LEMMA IsAlter ==
    ASSUME NEW x, DOMAIN Clear' = DOMAIN Clear,
           \A y \in DOMAIN Clear \ {x} : Clear'[y] = Clear[y],
           Clear'[x] \in Tree!Node,
           Clear'[x].kind = Clear[x].kind, Clear'[x].parent = Clear[x].parent
    PROVE  Tree!Alter(x)
BY DEF Tree!Alter, Tree!Others, Clear

LEMMA IsAdd ==
    ASSUME NEW x, x \notin DOMAIN Clear, DOMAIN Clear' = DOMAIN Clear \union {x},
           \A y \in DOMAIN Clear : Clear'[y] = Clear[y],
           Clear'[x] \in Tree!Node, Accepts(Clear, Clear'[x].kind, Clear'[x].parent)
    PROVE  Tree!Add(x)
BY TreeNames DEF Tree!Add, Tree!Others, Clear

LEMMA IsRelocate ==
    ASSUME NEW x, DOMAIN Clear' = DOMAIN Clear,
           \A y \in DOMAIN Clear \ {x} : Clear'[y] = Clear[y],
           Clear'[x] = [Clear[x] EXCEPT !.parent = Clear'[x].parent],
           Accepts(Clear, Clear[x].kind, Clear'[x].parent),
           Clear'[x].parent \notin Within(Clear, x)
    PROVE  Tree!Relocate(x)
BY TreeNames DEF Tree!Relocate, Tree!Others, Clear

LEMMA IsPrune ==
    ASSUME NEW x, DOMAIN Clear' \subseteq DOMAIN Clear,
           DOMAIN Clear \ DOMAIN Clear' \subseteq Within(Clear, x),
           \A y \in DOMAIN Clear' : Clear'[y] = Clear[y],
           Rooted(Clear')
    PROVE  Tree!Prune(x)
<1>1. Clear' = Restrict(Clear, DOMAIN Clear')
  BY DEF Restrict, Clear
<1> QED
  BY <1>1, TreeNames DEF Tree!Prune, Clear

LEMMA IsCopy ==
    ASSUME NEW x, NEW copy, x \in DOMAIN copy,
           DOMAIN Clear' = DOMAIN Clear \union Range(copy),
           \A y \in DOMAIN Clear : Clear'[y] = Clear[y],
           \A y \in DOMAIN copy :
              /\ Clear'[copy[y]].kind = Clear[y].kind
              /\ Clear'[copy[y]].secret \in {Clear[y].secret, "none"}
              /\ y # x => /\ Clear'[copy[y]].name = Clear[y].name
                          /\ Clear[y].parent \in DOMAIN copy
                          /\ Clear'[copy[y]].parent = copy[Clear[y].parent],
           Clear'[copy[x]].parent = Clear[x].parent, Clear'[copy[x]].name \in Names
    PROVE  Tree!Copy(x, copy)
BY TreeNames DEF Tree!Copy, Clear

LEMMA IsEmpty == DOMAIN rows = {} => Clear = <<>>
BY DEF Clear

-----------------------------------------------------------------------------
(* Types.                                                                  *)

RowsTyped == \A x \in DOMAIN rows : rows[x] \in Row
KeychainTyped == keychain \in [Ids -> {"absent"} \union Secrets]
FileTyped == ~Quiet => \A n \in DOMAIN job.file : job.file[n] \in FileNode

TreeInv == LibraryInv /\ RowsTyped /\ KeychainTyped /\ FileTyped

LEMMA HydratedIsPlain ==
    ASSUME RowsTyped, NEW x \in DOMAIN rows
    PROVE  Hydrated(x) \in Plain
BY DEF RowsTyped, Row, Stored, Plain, Hydrated

LEMMA ClearIs ==
    ASSUME RowsTyped, NEW x \in DOMAIN rows
    PROVE  /\ Clear[x] = [kind |-> rows[x].kind, parent |-> rows[x].parent,
                          name |-> rows[x].name, secret |-> Hydrated(x)]
           /\ Clear[x] \in Tree!Node
<1>1. rows[x] \in [kind : Kinds, parent : Ids \union {Root}, name : Names, secret : Stored]
  BY DEF RowsTyped, Row
<1>2. Clear[x] = [kind |-> rows[x].kind, parent |-> rows[x].parent,
                  name |-> rows[x].name, secret |-> Hydrated(x)]
  BY <1>1 DEF Clear
<1> QED
  BY <1>1, <1>2, HydratedIsPlain, TreeNames DEF Tree!Node

LEMMA ClearDomain == DOMAIN Clear = DOMAIN rows
BY DEF Clear

(* The tree has the shape of the rows.                                     *)
LEMMA ClearShape ==
    ASSUME RowsTyped
    PROVE  /\ \A kind, p : Accepts(Clear, kind, p) <=> Accepts(rows, kind, p)
           /\ \A x : Within(Clear, x) = Within(rows, x)
           /\ Rooted(rows) => Rooted(Clear)
<1>1. ASSUME NEW y \in DOMAIN rows
      PROVE  Clear[y].kind = rows[y].kind /\ Clear[y].parent = rows[y].parent
  <2>1. Clear[y] = [kind |-> rows[y].kind, parent |-> rows[y].parent,
                    name |-> rows[y].name, secret |-> Hydrated(y)]
    BY ClearIs
  <2> QED
    BY <2>1
<1>2. \A kind, p : Accepts(Clear, kind, p) <=> Accepts(rows, kind, p)
  BY <1>1, ClearDomain DEF Accepts
<1>3. ASSUME NEW x PROVE Within(Clear, x) = Within(rows, x)
  <2>1. \A S : (\A z \in DOMAIN Clear : Clear[z].parent \in S => z \in S)
             = (\A z \in DOMAIN rows : rows[z].parent \in S => z \in S)
    BY <1>1, ClearDomain
  <2> HIDE DEF Clear
  <2> QED
    BY <2>1, ClearDomain DEF Within
<1>4. Rooted(rows) => Rooted(Clear)
  BY <1>1, <1>2, ClearDomain DEF Rooted
<1> QED
  BY <1>2, <1>3, <1>4

(* A node that no step touches.                                            *)
LEMMA Untouched ==
    ASSUME RowsTyped, NEW y \in DOMAIN rows, y \in DOMAIN rows', rows'[y] = rows[y],
           keychain'[y] = keychain[y]
    PROVE  Clear'[y] = Clear[y]
<1>1. Hydrated(y)' = Hydrated(y)
  BY DEF Hydrated
<1> QED
  BY <1>1 DEF Clear

ClearFacts ==
    \A x \in DOMAIN rows :
        /\ Clear[x] = [kind |-> rows[x].kind, parent |-> rows[x].parent,
                       name |-> rows[x].name, secret |-> Hydrated(x)]
        /\ Clear[x].kind = rows[x].kind /\ Clear[x].parent = rows[x].parent
        /\ Clear[x].name = rows[x].name /\ Clear[x].secret = Hydrated(x)
        /\ Clear[x] \in Tree!Node

LEMMA ClearHolds == RowsTyped => ClearFacts
<1> SUFFICES ASSUME RowsTyped, NEW x \in DOMAIN rows
             PROVE  /\ Clear[x] = [kind |-> rows[x].kind, parent |-> rows[x].parent,
                                   name |-> rows[x].name, secret |-> Hydrated(x)]
                    /\ Clear[x] \in Tree!Node
  BY DEF ClearFacts
<1> QED
  BY ClearIs

LEMMA ClearHoldsNext == RowsTyped' => ClearFacts'
BY ClearHolds, PTL

LEMMA ClearDomainNext == DOMAIN Clear' = DOMAIN rows'
BY DEF Clear

-----------------------------------------------------------------------------
(* Steps.                                                                  *)

TreeStep == Tree!Next \/ Clear' = Clear

LEMMA InsertAdds ==
    ASSUME TreeInv, NEW x \in Fresh, NEW kind \in Kinds, NEW p, NEW name \in Names,
           NEW v \in Plain, Accepts(rows, kind, p), Insert(x, kind, p, name, v)
    PROVE  RowsTyped' /\ KeychainTyped' /\ TreeStep
<1>1. x \in Ids /\ x \notin DOMAIN rows /\ DOMAIN rows \subseteq Ids
  BY DEF Fresh, TreeInv, LibraryInv, RowsInv
<1>2. /\ DOMAIN rows' = DOMAIN rows \union {x}
      /\ rows'[x] = [kind |-> kind, parent |-> p, name |-> name, secret |-> Masked(kind, v)]
      /\ \A y \in DOMAIN rows : rows'[y] = rows[y]
  BY InsertKeeps DEF TreeInv, LibraryInv
<1>3. Masked(kind, v) \in Stored /\ KeptKey(x, v, TRUE) \in {"absent"} \union Secrets
  BY LibraryAssumption DEF Masked, Stored, Plain, KeptKey
<1>4. p \in Ids \union {Root}
  BY <1>1 DEF Accepts
<1>5. rows'[x] \in Row
  BY <1>2, <1>3, <1>4 DEF Row
<1>6. RowsTyped'
  BY <1>2, <1>5 DEF RowsTyped, TreeInv, Row
<1>7. KeychainTyped' /\ \A y \in DOMAIN rows : keychain'[y] = keychain[y]
  BY <1>1, <1>3 DEF KeychainTyped, TreeInv, Insert
<1>8. ClearFacts'
  BY <1>6, ClearHoldsNext
<1>9. /\ x \notin DOMAIN Clear /\ DOMAIN Clear' = DOMAIN Clear \union {x}
      /\ \A y \in DOMAIN Clear : Clear'[y] = Clear[y]
  BY <1>1, <1>2, <1>7, Untouched, ClearDomain, ClearDomainNext DEF TreeInv
<1>a. x \in DOMAIN rows' /\ rows'[x].kind = kind /\ rows'[x].parent = p
  BY <1>2
<1>10. Clear'[x] \in Tree!Node /\ Clear'[x].kind = kind /\ Clear'[x].parent = p
  <2>1. /\ Clear'[x].kind = rows'[x].kind /\ Clear'[x].parent = rows'[x].parent
        /\ Clear'[x] \in Tree!Node
    BY <1>8, <1>a DEF ClearFacts
  <2> QED
    BY <1>a, <2>1
<1>11. Accepts(Clear, Clear'[x].kind, Clear'[x].parent)
  BY <1>10, ClearShape DEF TreeInv
<1>12. Tree!Add(x)
  BY <1>9, <1>10, <1>11, IsAdd
<1> QED
  BY <1>1, <1>6, <1>7, <1>12 DEF TreeStep, Tree!Next

(* One row and its entry are given other values.                           *)
LEMMA ChangeAlters ==
    ASSUME TreeInv, NEW x \in DOMAIN rows, DOMAIN rows' = DOMAIN rows,
           \A y \in DOMAIN rows \ {x} : rows'[y] = rows[y],
           rows'[x] \in Row, rows'[x].kind = rows[x].kind, rows'[x].parent = rows[x].parent,
           NEW k \in {"absent"} \union Secrets, keychain' = [keychain EXCEPT ![x] = k]
    PROVE  RowsTyped' /\ KeychainTyped' /\ TreeStep
<1>1. RowsTyped'
  BY DEF RowsTyped, TreeInv, Row
<1>2. KeychainTyped' /\ \A y \in DOMAIN rows \ {x} : keychain'[y] = keychain[y]
  BY DEF KeychainTyped, TreeInv, LibraryInv, RowsInv
<1>3. ClearFacts /\ ClearFacts'
  BY <1>1, ClearHolds, ClearHoldsNext DEF TreeInv
<1>4. DOMAIN Clear = DOMAIN rows /\ DOMAIN Clear' = DOMAIN Clear
  BY ClearDomain, ClearDomainNext
<1>5. \A y \in DOMAIN Clear \ {x} : Clear'[y] = Clear[y]
  BY <1>2, <1>4, Untouched DEF TreeInv
<1>6. /\ Clear'[x] \in Tree!Node
      /\ Clear'[x].kind = Clear[x].kind /\ Clear'[x].parent = Clear[x].parent
  BY <1>3, <1>4 DEF ClearFacts
<1>7. Tree!Alter(x)
  BY <1>4, <1>5, <1>6, IsAlter
<1> QED
  BY <1>1, <1>2, <1>4, <1>7 DEF TreeStep, Tree!Next, Clear

LEMMA WriteAlters ==
    ASSUME TreeInv, NEW x \in DOMAIN rows, NEW name \in Names,
           NEW v \in Plain \union {"mask"}, NEW up, Write(x, name, v, up)
    PROVE  RowsTyped' /\ KeychainTyped' /\ TreeStep
<1> DEFINE secret == IF v = "mask" THEN v ELSE Masked(rows[x].kind, v)
           k == KeptKey(x, v, up)
<1>1. rows' = [rows EXCEPT ![x].name = name, ![x].secret = secret]
      /\ keychain' = [keychain EXCEPT ![x] = k]
  BY DEF Write
<1>2. secret \in Stored
  BY LibraryAssumption DEF Masked, Stored, Plain
<1>3. k \in {"absent"} \union Secrets
  BY LibraryAssumption DEF KeptKey, Plain, TreeInv, LibraryInv, RowsInv, KeychainTyped
<1> HIDE DEF secret, k
<1>4. rows[x] \in [kind : Kinds, parent : Ids \union {Root}, name : Names, secret : Stored]
  BY DEF TreeInv, RowsTyped, Row
<1>5. /\ DOMAIN rows' = DOMAIN rows
      /\ \A y \in DOMAIN rows \ {x} : rows'[y] = rows[y]
      /\ rows'[x] = [rows[x] EXCEPT !.name = name, !.secret = secret]
  BY <1>1
<1>6. /\ rows'[x] \in Row
      /\ rows'[x].kind = rows[x].kind /\ rows'[x].parent = rows[x].parent
  BY <1>2, <1>4, <1>5 DEF Row
<1> QED
  BY <1>1, <1>3, <1>5, <1>6, ChangeAlters

(* A secret is stored, or removed, and nothing else.                       *)
LEMMA EntryAlters ==
    ASSUME TreeInv, NEW x \in Ids, NEW k \in {"absent"} \union Secrets,
           UNCHANGED rows, keychain' = [keychain EXCEPT ![x] = k]
    PROVE  RowsTyped' /\ KeychainTyped' /\ TreeStep
<1>1. CASE x \in DOMAIN rows
  BY <1>1, ChangeAlters DEF TreeInv, RowsTyped
<1>2. CASE x \notin DOMAIN rows
  <2>1. RowsTyped'
    BY DEF TreeInv, RowsTyped, Row
  <2>2. KeychainTyped' /\ \A y \in DOMAIN rows : keychain'[y] = keychain[y]
    BY <1>2 DEF KeychainTyped, TreeInv, LibraryInv, RowsInv
  <2>3. \A y \in DOMAIN rows : Hydrated(y)' = Hydrated(y)
    BY <2>2 DEF Hydrated
  <2>4. Clear' = Clear
    BY <2>3 DEF Clear
  <2> QED
    BY <2>1, <2>2, <2>4 DEF TreeStep
<1> QED
  BY <1>1, <1>2

LEMMA MoveRelocates ==
    ASSUME TreeInv, NEW x \in DOMAIN rows, Move(x)
    PROVE  RowsTyped' /\ KeychainTyped' /\ TreeStep
<1>1. PICK p : /\ rows' = [rows EXCEPT ![x].parent = p]
               /\ Accepts(rows, rows[x].kind, p) /\ p \notin Within(rows, x)
  BY MoveRows DEF TreeInv, LibraryInv
<1>2. UNCHANGED keychain
  BY DEF Move, MoveCollection, MoveRequest
<1>3. p \in Ids \union {Root}
  BY <1>1 DEF Accepts, TreeInv, LibraryInv, RowsInv
<1>4. rows[x] \in [kind : Kinds, parent : Ids \union {Root}, name : Names, secret : Stored]
  BY DEF TreeInv, RowsTyped, Row
<1>5. /\ DOMAIN rows' = DOMAIN rows
      /\ \A y \in DOMAIN rows \ {x} : rows'[y] = rows[y]
      /\ rows'[x] = [rows[x] EXCEPT !.parent = p]
  BY <1>1
<1>6. rows'[x] \in Row
  BY <1>3, <1>4, <1>5 DEF Row
<1>7. RowsTyped' /\ KeychainTyped'
  BY <1>2, <1>5, <1>6 DEF TreeInv, RowsTyped, KeychainTyped, Row
<1>8. ClearFacts /\ ClearFacts'
  BY <1>7, ClearHolds, ClearHoldsNext DEF TreeInv
<1>9. DOMAIN Clear = DOMAIN rows /\ DOMAIN Clear' = DOMAIN Clear
  BY <1>5, ClearDomain, ClearDomainNext
<1>10. \A y \in DOMAIN Clear \ {x} : Clear'[y] = Clear[y]
  BY <1>2, <1>5, <1>9, Untouched DEF TreeInv
<1>11. /\ rows'[x].kind = rows[x].kind /\ rows'[x].name = rows[x].name
       /\ rows'[x].parent = p /\ rows'[x].secret = rows[x].secret
  BY <1>4, <1>5
<1>12. Hydrated(x)' = Hydrated(x)
  BY <1>2, <1>11 DEF Hydrated
<1>13. /\ Clear'[x] = [kind |-> rows[x].kind, parent |-> p, name |-> rows[x].name,
                       secret |-> Hydrated(x)]
       /\ Clear[x] = [kind |-> rows[x].kind, parent |-> rows[x].parent, name |-> rows[x].name,
                      secret |-> Hydrated(x)]
  <2>1. Clear'[x] = [kind |-> rows'[x].kind, parent |-> rows'[x].parent,
                     name |-> rows'[x].name, secret |-> Hydrated(x)']
    BY <1>5, <1>8 DEF ClearFacts
  <2> QED
    BY <1>8, <1>11, <1>12, <2>1 DEF ClearFacts
<1>14. /\ Clear'[x].parent = p /\ Clear[x].kind = rows[x].kind
       /\ Clear'[x] = [Clear[x] EXCEPT !.parent = Clear'[x].parent]
  BY <1>13
<1>15. Accepts(Clear, Clear[x].kind, Clear'[x].parent) /\ Clear'[x].parent \notin Within(Clear, x)
  BY <1>1, <1>14, ClearShape DEF TreeInv
<1>16. Tree!Relocate(x)
  BY <1>9, <1>10, <1>14, <1>15, IsRelocate
<1> QED
  BY <1>7, <1>9, <1>16 DEF TreeStep, Tree!Next, Clear

LEMMA RenameAlters ==
    ASSUME TreeInv, NEW x \in DOMAIN rows, NEW name \in Names,
           rows' = [rows EXCEPT ![x].name = name], UNCHANGED keychain
    PROVE  RowsTyped' /\ KeychainTyped' /\ TreeStep
<1>1. rows[x] \in [kind : Kinds, parent : Ids \union {Root}, name : Names, secret : Stored]
  BY DEF TreeInv, RowsTyped, Row
<1>2. /\ DOMAIN rows' = DOMAIN rows
      /\ \A y \in DOMAIN rows \ {x} : rows'[y] = rows[y]
      /\ rows'[x] = [rows[x] EXCEPT !.name = name]
  OBVIOUS
<1>3. rows'[x] \in Row /\ rows'[x].kind = rows[x].kind /\ rows'[x].parent = rows[x].parent
  BY <1>1, <1>2 DEF Row
<1>4. /\ keychain[x] \in {"absent"} \union Secrets
      /\ keychain' = [keychain EXCEPT ![x] = keychain[x]]
  BY DEF TreeInv, LibraryInv, RowsInv, KeychainTyped
<1> QED
  BY <1>2, <1>3, <1>4, ChangeAlters

(* Rows within one go, with their entries or without.                      *)
LEMMA GonePrunes ==
    ASSUME TreeInv, RowsInv', NEW x \in DOMAIN rows, NEW gone, gone \subseteq Within(rows, x),
           rows' = Restrict(rows, DOMAIN rows \ gone),
           KeychainTyped', \A y \in DOMAIN rows \ gone : keychain'[y] = keychain[y]
    PROVE  RowsTyped' /\ KeychainTyped' /\ TreeStep
<1>1. /\ DOMAIN rows' = DOMAIN rows \ gone
      /\ \A y \in DOMAIN rows \ gone : rows'[y] = rows[y]
  BY DEF Restrict
<1>2. RowsTyped'
  BY <1>1 DEF TreeInv, RowsTyped, Row
<1>3. DOMAIN Clear = DOMAIN rows /\ DOMAIN Clear' = DOMAIN rows'
  BY ClearDomain, ClearDomainNext
<1>4. \A y \in DOMAIN Clear' : Clear'[y] = Clear[y]
  BY <1>1, <1>3, Untouched DEF TreeInv
<1>5. \A y \in DOMAIN Clear' :
          /\ Clear'[y].kind = rows'[y].kind /\ Clear'[y].parent = rows'[y].parent
  BY <1>2, <1>3, ClearHoldsNext DEF ClearFacts
<1>6. Rooted(Clear')
  <2>1. IsForest(rows')
    BY DEF RowsInv
  <2>2. IsForest(Clear')
    BY <1>3, <1>5, <2>1, SameShape
  <2> QED
    BY <2>2 DEF IsForest
<1>7. Within(Clear, x) = Within(rows, x)
  BY ClearShape DEF TreeInv
<1>8. Tree!Prune(x)
  BY <1>1, <1>3, <1>4, <1>6, <1>7, IsPrune
<1> QED
  BY <1>2, <1>3, <1>8 DEF TreeStep, Tree!Next, Clear

LEMMA SweptTyped ==
    ASSUME TreeInv, NEW gone, NEW up, keychain' = Swept(gone, up)
    PROVE  KeychainTyped' /\ \A y \in DOMAIN rows \ gone : keychain'[y] = keychain[y]
BY DEF Swept, TreeInv, LibraryInv, RowsInv, KeychainTyped

LEMMA DeletePrunes ==
    ASSUME TreeInv, NEW x \in DOMAIN rows, Delete(x)
    PROVE  RowsTyped' /\ KeychainTyped' /\ TreeStep
<1>1. RowsInv'
  BY DeletesKeep DEF TreeInv, LibraryInv
<1>2. ASSUME NEW up, DeleteCollection(x, up) PROVE RowsTyped' /\ KeychainTyped' /\ TreeStep
  <2> DEFINE gone == Within(rows, x)
  <2>1. /\ rows' = Restrict(rows, DOMAIN rows \ gone)
        /\ keychain' = Swept(gone \intersect Owners(rows), up)
    BY <1>2 DEF DeleteCollection
  <2>2. KeychainTyped' /\ \A y \in DOMAIN rows \ gone : keychain'[y] = keychain[y]
    BY <2>1, SweptTyped
  <2> QED
    BY <1>1, <2>1, <2>2, GonePrunes
<1>3. ASSUME NEW up, DeleteRequest(x, up) \/ DeleteVariable(x, up)
      PROVE  RowsTyped' /\ KeychainTyped' /\ TreeStep
  <2>1. rows' = Restrict(rows, DOMAIN rows \ {x}) /\ keychain' = Swept({x}, up)
    BY <1>3 DEF DeleteRequest, DeleteVariable
  <2>2. KeychainTyped' /\ \A y \in DOMAIN rows \ {x} : keychain'[y] = keychain[y]
    BY <2>1, SweptTyped
  <2>3. {x} \subseteq Within(rows, x)
    BY WithinStartsAtTop
  <2> QED
    BY <1>1, <2>1, <2>2, <2>3, GonePrunes
<1>4. CASE DeleteEnvironment(x) \/ DeleteCollectionLost(x)
  <2>1. PICK gone \in SUBSET Within(rows, x) :
          rows' = Restrict(rows, DOMAIN rows \ gone) /\ UNCHANGED keychain
    BY <1>4 DEF DeleteEnvironment, DeleteCollectionLost
  <2>2. KeychainTyped'
    BY <2>1 DEF TreeInv, KeychainTyped
  <2> QED
    BY <1>1, <2>1, <2>2, GonePrunes
<1> QED
  BY <1>2, <1>3, <1>4 DEF Delete

(* Copies are where their originals are, each with its original's secret.  *)
LEMMA CopiesCopy ==
    ASSUME TreeInv, NEW x \in DOMAIN rows, Copies(x)
    PROVE  RowsTyped' /\ KeychainTyped' /\ TreeStep
<1>1. PICK part \in SUBSET (Within(rows, x) \intersect Owners(rows)) :
        \E copy \in Injection(part, Fresh), bare \in SUBSET part, name \in FormNames :
            Duplicate(x, copy, bare, name)
  BY DEF Copies
<1>2. PICK copy \in Injection(part, Fresh), bare \in SUBSET part, name \in FormNames :
        Duplicate(x, copy, bare, name)
  BY <1>1
<1>3. Copied(x, part, copy, bare, name)
  BY <1>2, CopyRows
<1>4. /\ Fresh \subseteq Ids /\ Fresh \intersect DOMAIN rows = {}
      /\ part \subseteq DOMAIN rows /\ part \subseteq Within(rows, x)
      /\ DOMAIN rows \subseteq Ids
      /\ name \in Names
  BY LibraryAssumption DEF Fresh, Within, TreeInv, LibraryInv, RowsInv
<1>5. ASSUME NEW y \in part
      PROVE  /\ rows'[copy[y]] \in Row
             /\ rows'[copy[y]] = CopyOf(x, copy, bare, name, y)
             /\ keychain'[copy[y]] \in {"absent"} \union Secrets
             /\ Hydrated(copy[y])' = Given(bare, y)
             /\ copy[y] \in DOMAIN rows'
  <2>1. rows[y] \in [kind : Kinds, parent : Ids \union {Root}, name : Names, secret : Stored]
    BY <1>4 DEF TreeInv, RowsTyped, Row
  <2>2. rows[y].kind # "var"
    BY <1>1 DEF Owners, OfKind
  <2>3. Given(bare, y) \in Plain
    BY <1>4, HydratedIsPlain DEF Given, Plain, TreeInv
  <2> DEFINE v == Given(bare, y)
             c == copy[y]
  <2>4. Masked(rows[y].kind, v) \in Stored /\ KeptKey(c, v, TRUE) \in {"absent"} \union Secrets
    BY <2>3, LibraryAssumption DEF Masked, Stored, Plain, KeptKey
  <2>5. rows'[c] = CopyOf(x, copy, bare, name, y) /\ keychain'[c] = KeptKey(c, v, TRUE)
    BY <1>3 DEF Copied
  <2>6. c \in DOMAIN rows' /\ c \in Ids
    BY <1>3, <1>4 DEF Copied, Range
  <2>7. (IF y = x THEN rows[x].parent ELSE copy[rows[y].parent]) \in Ids \union {Root}
    <3>1. CASE y = x
      BY <2>1, <3>1
    <3>2. CASE y # x
      BY <1>3, <1>4, <3>2 DEF Copied, Range
    <3> QED
      BY <3>1, <3>2
  <2>8. rows'[c] \in Row
    BY <1>4, <2>1, <2>4, <2>5, <2>7 DEF CopyOf, Row
  <2>9. Hydrated(c)' = v
    <3>1. rows'[c].secret = Masked(rows[y].kind, v)
      BY <2>5 DEF CopyOf
    <3> QED
      BY <2>2, <2>3, <2>5, <3>1, LibraryAssumption DEF Hydrated, Masked, KeptKey, Plain
  <2> QED
    BY <2>4, <2>5, <2>6, <2>8, <2>9
<1>6. \A z \in Range(copy) : \E y \in part : z = copy[y]
  BY <1>3 DEF Copied, Range
<1>7. RowsTyped'
  BY <1>3, <1>5, <1>6 DEF Copied, RowsTyped, TreeInv, Row
<1>8. KeychainTyped'
  <2>1. \A z \in Ids : keychain'[z] \in {"absent"} \union Secrets
    BY <1>3, <1>5, <1>6 DEF Copied, KeychainTyped, TreeInv
  <2>2. keychain' = [z \in Ids |-> keychain'[z]]
    BY <1>2 DEF Duplicate, CopyAs
  <2> QED
    BY <2>1, <2>2 DEF KeychainTyped
<1>9. DOMAIN Clear = DOMAIN rows /\ DOMAIN Clear' = DOMAIN rows'
  BY ClearDomain, ClearDomainNext
<1>10. \A y \in DOMAIN Clear : Clear'[y] = Clear[y]
  <2>1. ASSUME NEW y \in DOMAIN rows PROVE Clear'[y] = Clear[y]
    <3>1. y \in Ids \ Range(copy)
      BY <1>3, <1>4 DEF Copied
    <3> QED
      BY <1>3, <3>1, Untouched DEF Copied, TreeInv
  <2> QED
    BY <1>9, <2>1
<1>11. ClearFacts /\ ClearFacts'
  BY <1>7, ClearHolds, ClearHoldsNext DEF TreeInv
<1>12. ASSUME NEW y \in part
       PROVE  /\ Clear'[copy[y]].kind = Clear[y].kind
              /\ Clear'[copy[y]].secret \in {Clear[y].secret, "none"}
              /\ Clear'[copy[y]].name = IF y = x THEN name ELSE Clear[y].name
              /\ Clear'[copy[y]].parent = IF y = x THEN Clear[x].parent
                                          ELSE copy[Clear[y].parent]
              /\ y # x => Clear[y].parent \in part
  <2>1. /\ rows'[copy[y]].kind = rows[y].kind
        /\ rows'[copy[y]].parent = IF y = x THEN rows[x].parent ELSE copy[rows[y].parent]
        /\ rows'[copy[y]].name = IF y = x THEN name ELSE rows[y].name
    <3>1. rows'[copy[y]] = CopyOf(x, copy, bare, name, y)
      BY <1>5
    <3> QED
      BY <3>1 DEF CopyOf
  <2>2. /\ Clear'[copy[y]].kind = rows'[copy[y]].kind
        /\ Clear'[copy[y]].parent = rows'[copy[y]].parent
        /\ Clear'[copy[y]].name = rows'[copy[y]].name
        /\ Clear'[copy[y]].secret = Hydrated(copy[y])'
    BY <1>5, <1>11 DEF ClearFacts
  <2>3. /\ Clear[y].kind = rows[y].kind /\ Clear[y].name = rows[y].name
        /\ Clear[y].parent = rows[y].parent /\ Clear[y].secret = Hydrated(y)
        /\ Clear[x].parent = rows[x].parent
    BY <1>4, <1>11 DEF ClearFacts
  <2>4. Clear'[copy[y]].secret \in {Clear[y].secret, "none"}
    BY <1>5, <2>2, <2>3 DEF Given
  <2>5. y # x => rows[y].parent \in part
    BY <1>3 DEF Copied
  <2> QED
    BY <2>1, <2>2, <2>3, <2>4, <2>5
<1>13. DOMAIN copy = part /\ x \in part
  BY <1>3 DEF Copied
<1>14. Tree!Copy(x, copy)
  <2>1. DOMAIN Clear' = DOMAIN Clear \union Range(copy)
    BY <1>3, <1>9 DEF Copied
  <2>2. Clear'[copy[x]].parent = Clear[x].parent /\ Clear'[copy[x]].name \in Names
    BY <1>4, <1>12, <1>13
  <2>3. \A y \in DOMAIN copy :
           /\ Clear'[copy[y]].kind = Clear[y].kind
           /\ Clear'[copy[y]].secret \in {Clear[y].secret, "none"}
           /\ y # x => /\ Clear'[copy[y]].name = Clear[y].name
                       /\ Clear[y].parent \in DOMAIN copy
                       /\ Clear'[copy[y]].parent = copy[Clear[y].parent]
    BY <1>12, <1>13
  <2> QED
    BY <1>10, <1>13, <2>1, <2>2, <2>3, IsCopy
<1>15. copy \in Tree!Injection(part, DOMAIN Clear' \ DOMAIN Clear)
  <2>1. copy \in [part -> DOMAIN Clear' \ DOMAIN Clear]
    BY <1>2, <1>3, <1>4, <1>9 DEF Injection, Copied, Range
  <2> QED
    BY <1>3, <1>13, <2>1 DEF Copied, Tree!Injection, Tree!IsInjective
<1>16. part \in SUBSET Tree!Within(Clear, x)
  BY <1>4, TreeNames, ClearShape DEF TreeInv
<1>17. x \in DOMAIN Clear
  BY <1>9
<1>18. Tree!Next
  BY <1>14, <1>15, <1>16, <1>17 DEF Tree!Next, Clear
<1> QED
  BY <1>7, <1>8, <1>18 DEF TreeStep

LEMMA SameTree ==
    ASSUME TreeInv, UNCHANGED <<rows, keychain>>
    PROVE  RowsTyped' /\ KeychainTyped' /\ TreeStep
<1>1. \A x \in DOMAIN rows : Hydrated(x)' = Hydrated(x)
  BY DEF Hydrated
<1>2. Clear' = Clear
  BY <1>1 DEF Clear
<1> QED
  BY <1>2 DEF TreeStep, TreeInv, RowsTyped, KeychainTyped, Row

LEMMA CreateAdds ==
    ASSUME TreeInv, NEW x \in Ids, Create(x)
    PROVE  RowsTyped' /\ KeychainTyped' /\ TreeStep
<1>1. PICK name \in FormNames, p \in {Root} \union DOMAIN rows :
         \/ CreateCollection(x, p, name) \/ CreateEnvironment(x, p, name)
         \/ \E v \in Plain : CreateRequest(x, p, name, v) \/ CreateVariable(x, p, name, v)
  BY DEF Create
<1>2. name \in Names
  BY LibraryAssumption
<1>3. x \in Fresh /\ \E kind \in Kinds, v \in Plain :
         Accepts(rows, kind, p) /\ Insert(x, kind, p, name, v)
  BY <1>1 DEF CreateCollection, CreateEnvironment, CreateRequest, CreateVariable, Kinds, Plain
<1> QED
  BY <1>2, <1>3, InsertAdds

LEMMA LostAlters ==
    ASSUME TreeInv, NEW x \in Ids, Lost(x)
    PROVE  RowsTyped' /\ KeychainTyped' /\ TreeStep
<1>1. PICK v \in Plain : CreateLost(x, v) \/ UpdateLost(x, v)
  BY DEF Lost
<1>2. CASE CreateLost(x, v)
  BY <1>2, EntryAlters DEF CreateLost
<1>3. CASE UpdateLost(x, v)
  <2>1. KeptKey(x, v, TRUE) \in {"absent"} \union Secrets
    BY LibraryAssumption DEF KeptKey, Plain
  <2> QED
    BY <1>3, <2>1, EntryAlters DEF UpdateLost
<1> QED
  BY <1>1, <1>2, <1>3

LEMMA UpdateAlters ==
    ASSUME TreeInv, NEW x \in DOMAIN rows, Update(x)
    PROVE  RowsTyped' /\ KeychainTyped' /\ TreeStep
<1>1. PICK name \in FormNames, v \in Sendable, up \in BOOLEAN :
         \/ Rename(x, name) \/ UpdateCollectionAuth(x, v, up)
         \/ UpdateRequest(x, name, v, up) \/ UpdateVariable(x, name, v, up)
  BY DEF Update
<1>2. name \in Names /\ v \in Plain \union {"mask"} /\ rows[x].name \in Names
  BY LibraryAssumption DEF Sendable, TreeInv, RowsTyped, Row
<1>3. CASE Rename(x, name)
  BY <1>2, <1>3, RenameAlters DEF Rename
<1>4. CASE \E new \in Names : Write(x, new, v, up)
  BY <1>2, <1>4, WriteAlters
<1> QED
  BY <1>1, <1>2, <1>3, <1>4 DEF UpdateCollectionAuth, UpdateRequest, UpdateVariable

LEMMA DeleteAll ==
    ASSUME TreeInv, DeleteWorkspace
    PROVE  RowsTyped' /\ KeychainTyped' /\ TreeStep
<1>1. DOMAIN rows' = {} /\ UNCHANGED keychain
  BY DEF DeleteWorkspace
<1>2. Clear' = <<>>
  BY <1>1 DEF Clear
<1>3. Tree!PruneAll
  BY <1>2 DEF Tree!PruneAll, Clear
<1> QED
  BY <1>1, <1>3 DEF TreeStep, Tree!Next, RowsTyped, KeychainTyped, TreeInv

-----------------------------------------------------------------------------
(* Files and imports.                                                      *)

LEMMA NodeOfRow ==
    ASSUME RowsTyped, NEW y \in DOMAIN rows, NEW p \in Ids \union {Root},
           NEW v \in Plain \union {"mask"}
    PROVE  [rows[y] EXCEPT !.parent = p, !.secret = v] \in FileNode
<1>1. rows[y] \in [kind : Kinds, parent : Ids \union {Root}, name : Names, secret : Stored]
  BY DEF RowsTyped, Row
<1> QED
  BY <1>1 DEF FileNode

LEMMA SecretInFile ==
    ASSUME RowsTyped, NEW y \in DOMAIN rows, NEW h \in BOOLEAN
    PROVE  /\ (IF h THEN Hydrated(y) ELSE rows[y].secret) \in Plain \union {"mask"}
           /\ rows[y].parent \in Ids \union {Root}
<1>1. rows[y].secret \in Stored /\ rows[y].parent \in Ids \union {Root}
  BY DEF RowsTyped, Row
<1> QED
  BY <1>1, HydratedIsPlain DEF Stored, Plain

LEMMA ExportedTyped ==
    ASSUME RowsTyped, NEW h \in BOOLEAN
    PROVE  \A y \in DOMAIN Exported(h) : Exported(h)[y] \in FileNode
<1> SUFFICES ASSUME NEW y \in DOMAIN Exported(h) PROVE Exported(h)[y] \in FileNode
  OBVIOUS
<1> DEFINE p == IF rows[y].kind = "env" THEN Root ELSE rows[y].parent
           v == IF h THEN Hydrated(y) ELSE rows[y].secret
<1>1. y \in DOMAIN rows /\ Exported(h)[y] = [rows[y] EXCEPT !.parent = p, !.secret = v]
  BY DEF Exported
<1>2. p \in Ids \union {Root} /\ v \in Plain \union {"mask"}
  BY <1>1, SecretInFile
<1> HIDE DEF p, v
<1>3. [rows[y] EXCEPT !.parent = p, !.secret = v] \in FileNode
  BY <1>1, <1>2, NodeOfRow
<1> QED
  BY <1>1, <1>3

LEMMA SyncedTyped ==
    ASSUME RowsTyped
    PROVE  \A y \in DOMAIN Synced : Synced[y] \in FileNode
<1>1. \A y \in DOMAIN Synced : y \in DOMAIN Exported(FALSE) /\ Synced[y] = Exported(FALSE)[y]
  BY DEF Synced, Restrict
<1> QED
  BY <1>1, ExportedTyped

LEMMA CollectedTyped ==
    ASSUME RowsTyped, NEW x
    PROVE  \A y \in DOMAIN Collected(x, FALSE) : Collected(x, FALSE)[y] \in FileNode
<1> SUFFICES ASSUME NEW y \in DOMAIN Collected(x, FALSE)
             PROVE  Collected(x, FALSE)[y] \in FileNode
  OBVIOUS
<1> DEFINE p == IF y = x THEN Root ELSE rows[y].parent
           v == IF FALSE THEN Hydrated(y) ELSE rows[y].secret
<1>1. y \in DOMAIN rows
      /\ Collected(x, FALSE)[y] = [rows[y] EXCEPT !.parent = p, !.secret = v]
  BY DEF Collected, Within
<1>2. p \in Ids \union {Root} /\ v \in Plain \union {"mask"}
  BY <1>1, SecretInFile
<1> HIDE DEF p, v
<1>3. [rows[y] EXCEPT !.parent = p, !.secret = v] \in FileNode
  BY <1>1, <1>2, NodeOfRow
<1> QED
  BY <1>1, <1>3

LEMMA StartTyped == TreeInv /\ Start => FileTyped' /\ UNCHANGED <<rows, keychain>>
<1> SUFFICES ASSUME TreeInv, Start PROVE FileTyped' /\ UNCHANGED <<rows, keychain>>
  OBVIOUS
<1>1. PICK place \in {Root} \union OfKind(rows, "coll"),
           placement \in {"into", "under", "fresh"}, mode \in {"skip", "overwrite", "merge"},
           file \in Files \union {Synced} \union {Exported(h) : h \in BOOLEAN}
                      \union {Collected(x, FALSE) : x \in OfKind(rows, "coll")} :
        StartImport(file, place, placement, mode)
  BY DEF Start
<1>2. \A n \in DOMAIN file : file[n] \in FileNode
  <2>1. CASE file \in Files
    BY <2>1, LibraryAssumption
  <2>2. CASE file = Synced
    BY <2>2, SyncedTyped DEF TreeInv
  <2>3. CASE \E h \in BOOLEAN : file = Exported(h)
    BY <2>3, ExportedTyped DEF TreeInv
  <2>4. CASE \E x \in OfKind(rows, "coll") : file = Collected(x, FALSE)
    BY <2>4, CollectedTyped DEF TreeInv
  <2> QED
    BY <1>1, <2>1, <2>2, <2>3, <2>4
<1>3. job'.file = file /\ UNCHANGED <<rows, keychain>>
  BY <1>1 DEF StartImport
<1> QED
  BY <1>2, <1>3 DEF FileTyped, FileNode

(* A file stays as it was read until its import ends.                      *)
LEMMA FileStays ==
    ASSUME TreeInv, \/ job' = Idle \/ job' = job
                    \/ \E done, at, new : Handled(done, at, new) /\ ~Quiet
    PROVE  FileTyped'
<1>1. CASE job' = Idle
  BY <1>1 DEF FileTyped, Quiet
<1>2. CASE job' = job
  BY <1>2 DEF FileTyped, Quiet, TreeInv, FileNode
<1>3. ASSUME ~Quiet, job'.file = job.file PROVE FileTyped'
  BY <1>3 DEF FileTyped, TreeInv, FileNode
<1>4. CASE \E done, at, new : Handled(done, at, new) /\ ~Quiet
  <2>1. ~Quiet => "file" \in DOMAIN job
    BY DEF TreeInv, LibraryInv, JobInv
  <2>2. job' = Idle \/ job'.file = job.file
    BY <1>4, <2>1 DEF Handled
  <2> QED
    BY <1>1, <1>3, <1>4, <2>2
<1> QED
  BY <1>1, <1>2, <1>4

LEMMA PutAdds ==
    ASSUME TreeInv, ~Quiet, NEW n \in job.left,
           job.file[n].parent \in {Root} \union DOMAIN job.at,
           NEW x, NEW name \in Names, NEW v \in Plain, Put(n, x, name, v)
    PROVE  RowsTyped' /\ KeychainTyped' /\ TreeStep
<1> DEFINE kind == job.file[n].kind
           p == Target(job.file[n].parent)
<1>1. x \in Fresh /\ Insert(x, kind, p, name, v)
  BY DEF Put
<1>2. Accepts(rows, kind, p)
  BY TargetAccepts DEF TreeInv
<1>3. kind \in Kinds
  BY DEF TreeInv, LibraryInv, JobInv, FileTyped, FileNode
<1> HIDE DEF kind, p
<1> QED
  BY <1>1, <1>2, <1>3, InsertAdds

LEMMA ImportSteps ==
    ASSUME TreeInv, NEW n \in job.left, Import(n)
    PROVE  RowsTyped' /\ KeychainTyped' /\ FileTyped' /\ TreeStep
<1>1. ~Quiet
  BY DEF Quiet, Idle
<1>2. /\ n \in DOMAIN job.file
      /\ job.file[n].name \in Names /\ job.file[n].secret \in Plain \union {"mask"}
      /\ Stripped(job.file[n].secret) \in Plain /\ "none" \in Plain
  <2>1. n \in DOMAIN job.file /\ job.file[n] \in FileNode
    BY <1>1 DEF TreeInv, LibraryInv, JobInv, FileTyped
  <2> QED
    BY <2>1 DEF FileNode, Stripped, Plain
<1>3. ASSUME NextContainer(n, "coll") \/ NextContainer(n, "env") \/ NextItem(n, "req")
             \/ NextItem(n, "var")
      PROVE  job.file[n].parent \in {Root} \union DOMAIN job.at
  BY <1>3 DEF NextContainer, NextItem
<1>4. FileTyped'
  <2>1. job' = Idle \/ \E done, at, new : Handled(done, at, new)
    BY DEF Import, EnterTarget, EnterFolder, ImportFolder, ImportRequest, ImportEnvironment,
           ImportVariable, ImportLost
  <2> QED
    BY <1>1, <2>1, FileStays
<1>5. CASE UNCHANGED <<rows, keychain>>
  BY <1>4, <1>5, SameTree
<1>6. ASSUME job.file[n].parent \in {Root} \union DOMAIN job.at,
             NEW x, NEW name \in Names, NEW v \in Plain, Put(n, x, name, v)
      PROVE  RowsTyped' /\ KeychainTyped' /\ TreeStep
  BY <1>1, <1>6, PutAdds
<1>7. ASSUME NEW x \in DOMAIN rows, NEW v \in Plain, Write(x, rows[x].name, v, TRUE)
      PROVE  RowsTyped' /\ KeychainTyped' /\ TreeStep
  <2>1. rows[x].name \in Names
    BY DEF TreeInv, RowsTyped, Row
  <2> QED
    BY <1>7, <2>1, WriteAlters
<1>8. Clashing(n) \subseteq DOMAIN rows
  BY DEF Clashing, Namesakes, OfKind
<1>9. CASE EnterTarget(n)
  <2>1. job.place \in DOMAIN rows
    BY <1>1, <1>9 DEF EnterTarget, TreeInv, LibraryInv, JobInv, Placed, OfKind
  <2>2. CASE Write(job.place, rows[job.place].name, Stripped(job.file[n].secret), TRUE)
    BY <1>2, <1>4, <1>7, <2>1, <2>2
  <2> QED
    BY <1>5, <1>9, <2>2 DEF EnterTarget
<1>10. ASSUME NEW c, EnterFolder(n, c)
       PROVE  RowsTyped' /\ KeychainTyped' /\ FileTyped' /\ TreeStep
  BY <1>5, <1>10 DEF EnterFolder
<1>11. ASSUME NEW x, NEW up, ImportFolder(n, x, up)
       PROVE  RowsTyped' /\ KeychainTyped' /\ FileTyped' /\ TreeStep
  <2>1. Put(n, x, job.file[n].name, IF up THEN Stripped(job.file[n].secret) ELSE "none")
    BY <1>11 DEF ImportFolder
  <2>2. (IF up THEN Stripped(job.file[n].secret) ELSE "none") \in Plain
    BY <1>2
  <2>3. job.file[n].parent \in {Root} \union DOMAIN job.at
    BY <1>3, <1>11 DEF ImportFolder
  <2> QED
    BY <1>2, <1>4, <1>6, <2>1, <2>2, <2>3
<1>12. ASSUME NEW x, ImportRequest(n, x)
       PROVE  RowsTyped' /\ KeychainTyped' /\ FileTyped' /\ TreeStep
  <2>1. job.file[n].parent \in {Root} \union DOMAIN job.at
    BY <1>3, <1>12 DEF ImportRequest
  <2>2. CASE \E name \in Names : Put(n, x, name, Stripped(job.file[n].secret))
    BY <1>2, <1>4, <1>6, <2>1, <2>2
  <2>3. CASE x \in Clashing(n) /\ Write(x, rows[x].name, Stripped(job.file[n].secret), TRUE)
    BY <1>2, <1>4, <1>7, <1>8, <2>3
  <2> QED
    BY <1>2, <1>5, <1>12, <2>2, <2>3 DEF ImportRequest
<1>13. ASSUME NEW x, ImportEnvironment(n, x)
       PROVE  RowsTyped' /\ KeychainTyped' /\ FileTyped' /\ TreeStep
  <2>1. job.file[n].parent \in {Root} \union DOMAIN job.at
    BY <1>3, <1>13 DEF ImportEnvironment
  <2>2. CASE Put(n, x, job.file[n].name, "none")
    BY <1>2, <1>4, <1>6, <2>1, <2>2
  <2> QED
    BY <1>5, <1>13, <2>2 DEF ImportEnvironment
<1>14. ASSUME NEW x, ImportVariable(n, x)
       PROVE  RowsTyped' /\ KeychainTyped' /\ FileTyped' /\ TreeStep
  <2>1. job.file[n].parent \in {Root} \union DOMAIN job.at
    BY <1>3, <1>14 DEF ImportVariable
  <2>2. CASE Put(n, x, job.file[n].name, Stripped(job.file[n].secret))
    BY <1>2, <1>4, <1>6, <2>1, <2>2
  <2>3. CASE /\ x \in Clashing(n) /\ job.file[n].secret # "mask"
             /\ Write(x, rows[x].name, job.file[n].secret, TRUE)
    BY <1>2, <1>4, <1>7, <1>8, <2>3
  <2> QED
    BY <1>5, <1>14, <2>2, <2>3 DEF ImportVariable
<1>15. ASSUME NEW x, ImportLost(n, x)
       PROVE  RowsTyped' /\ KeychainTyped' /\ FileTyped' /\ TreeStep
  <2> DEFINE k == KeptKey(x, Stripped(job.file[n].secret), TRUE)
  <2>1. x \in Ids
    BY <1>8, <1>15 DEF ImportLost, Fresh, TreeInv, LibraryInv, RowsInv
  <2>2. k \in {"absent"} \union Secrets
    BY <1>2, LibraryAssumption DEF KeptKey, Plain
  <2>3. UNCHANGED rows /\ keychain' = [keychain EXCEPT ![x] = k]
    BY <1>15 DEF ImportLost
  <2> HIDE DEF k
  <2> QED
    BY <1>4, <2>1, <2>2, <2>3, EntryAlters
<1> QED
  BY <1>9, <1>10, <1>11, <1>12, <1>13, <1>14, <1>15 DEF Import

LEMMA TreeInit == Init => TreeInv /\ Tree!Init
<1> SUFFICES ASSUME Init PROVE TreeInv /\ Tree!Init
  OBVIOUS
<1>1. DOMAIN rows = {} /\ Quiet
  BY DEF Init, Quiet
<1>2. Tree!Init
  BY <1>1, IsEmpty DEF Tree!Init, Clear
<1> QED
  BY <1>1, <1>2, InitLibrary DEF Init, TreeInv, RowsTyped, KeychainTyped, FileTyped

LEMMA TreeNext == TreeInv /\ [Next]_vars => TreeInv' /\ TreeStep
<1> SUFFICES ASSUME TreeInv, [Next]_vars PROVE TreeInv' /\ TreeStep
  OBVIOUS
<1>1. LibraryInv'
  BY LibraryStep DEF TreeInv
<1>2. CASE \E x \in Ids : Create(x) \/ Lost(x)
  <2>1. Quiet /\ job' = job
    BY <1>2 DEF Create, Lost, CreateCollection, CreateRequest, CreateEnvironment,
                CreateVariable, CreateLost, UpdateLost
  <2> QED
    BY <1>1, <1>2, <2>1, CreateAdds, LostAlters, FileStays DEF TreeInv
<1>3. CASE \E x \in DOMAIN rows : Update(x) \/ Move(x) \/ Delete(x) \/ Copies(x)
  <2>1. ASSUME NEW x, Update(x) \/ Move(x) PROVE job' = job
    BY <2>1 DEF Update, Rename, UpdateCollectionAuth, UpdateRequest, UpdateVariable,
                Move, MoveCollection, MoveRequest
  <2>2. ASSUME NEW x, Delete(x) PROVE job' = job
    BY <2>2 DEF Delete, DeleteCollection, DeleteRequest, DeleteVariable, DeleteEnvironment,
                DeleteCollectionLost
  <2>3. ASSUME NEW x, Copies(x) PROVE job' = job
    <3>1. \E copy, bare, name : Duplicate(x, copy, bare, name)
      BY <2>3 DEF Copies
    <3> QED
      BY <3>1 DEF Duplicate, CopyAs
  <2>4. job' = job
    BY <1>3, <2>1, <2>2, <2>3
  <2> QED
    BY <1>1, <1>3, <2>4, UpdateAlters, MoveRelocates, DeletePrunes, CopiesCopy, FileStays
       DEF TreeInv
<1>4. CASE DeleteWorkspace
  <2>1. job' = job
    BY <1>4 DEF DeleteWorkspace
  <2> QED
    BY <1>1, <1>4, <2>1, DeleteAll, FileStays DEF TreeInv
<1>5. CASE Start
  BY <1>1, <1>5, StartTyped, SameTree DEF TreeInv
<1>6. CASE \E n \in job.left : Import(n)
  BY <1>1, <1>6, ImportSteps DEF TreeInv
<1>7. CASE FailImport
  <2>1. job' = Idle /\ UNCHANGED <<rows, keychain>>
    BY <1>7 DEF FailImport
  <2> QED
    BY <1>1, <2>1, SameTree, FileStays DEF TreeInv
<1>8. CASE UNCHANGED vars
  <2>1. job' = job /\ UNCHANGED <<rows, keychain>>
    BY <1>8 DEF vars
  <2> QED
    BY <1>1, <2>1, SameTree, FileStays DEF TreeInv
<1> QED
  BY <1>2, <1>3, <1>4, <1>5, <1>6, <1>7, <1>8 DEF Next

-----------------------------------------------------------------------------
(* Types: no row ever has a secret in the clear, and an import only goes   *)
(* to rows that are there (auth::persist, interop/mod.rs).                 *)
THEOREM TypeCorrect == Spec => []TypeOK
<1>1. TreeInv => TypeOK
  BY DEF TreeInv, TypeOK, LibraryInv, RowsInv, JobInv, RowsTyped, KeychainTyped, FileTyped,
         Placed
<1>2. Init => TreeInv
  BY TreeInit
<1>3. TreeInv /\ [Next]_vars => TreeInv'
  BY TreeNext
<1> QED
  BY <1>1, <1>2, <1>3, PTL DEF Spec

(* Rows with masks and a keychain implement a tree of nodes with secrets   *)
(* of their own: whatever locks, crashes and imports come between, no      *)
(* command gives a node a secret that is not its own, takes another's, or  *)
(* leaves a copy that shares one with its original (store/, auth/mod.rs).  *)
THEOREM LibraryImplementsTree == Spec => ImplementsTree
<1>1. Init => TreeInv /\ Tree!Init
  BY TreeInit
<1>2. TreeInv /\ [Next]_vars => TreeInv' /\ [Tree!Next]_Clear
  BY TreeNext DEF TreeStep
<1> QED
  BY <1>1, <1>2, PTL DEF Spec, ImplementsTree, Tree!Spec, Clear

-----------------------------------------------------------------------------
(* What imports leave alone, and how a row and its entry part.             *)

(* Everything that was there stays as it was.                              *)
Kept(x) == x \in DOMAIN rows' /\ rows'[x] = rows[x] /\ keychain'[x] = keychain[x]

(* An insert adds a row and, with it, what the keychain holds of it.       *)
LEMMA InsertEffect ==
    ASSUME TreeInv, NEW x \in Fresh, NEW kind, NEW p, NEW name, NEW v,
           Insert(x, kind, p, name, v)
    PROVE  /\ x \in Ids \ DOMAIN rows /\ DOMAIN rows' = DOMAIN rows \union {x}
           /\ rows'[x].kind = kind /\ rows'[x].secret = Masked(kind, v)
           /\ keychain'[x] = KeptKey(x, v, TRUE)
           /\ \A y \in DOMAIN rows : rows'[y] = rows[y]
           /\ \A y \in Ids \ {x} : keychain'[y] = keychain[y]
<1> DEFINE node == [kind |-> kind, parent |-> p, name |-> name, secret |-> Masked(kind, v)]
<1>1. x \in Ids \ DOMAIN rows /\ DOMAIN rows \subseteq Ids
  BY DEF Fresh, TreeInv, LibraryInv, RowsInv
<1>2. rows' = Beside(rows, One(x, node))
  BY DEF Insert
<1>3. node.kind = kind /\ node.secret = Masked(kind, v)
  OBVIOUS
<1> HIDE DEF node
<1>4. /\ DOMAIN rows' = DOMAIN rows \union {x} /\ rows'[x] = node
      /\ \A y \in DOMAIN rows : rows'[y] = rows[y]
  BY <1>1, <1>2 DEF Beside, One
<1>5. /\ keychain'[x] = KeptKey(x, v, TRUE)
      /\ \A y \in Ids \ {x} : keychain'[y] = keychain[y]
  BY <1>1 DEF Insert, TreeInv, KeychainTyped
<1> QED
  BY <1>1, <1>3, <1>4, <1>5

(* A write is of one row and its entry.                                    *)
LEMMA WriteEffect ==
    ASSUME TreeInv, NEW x \in DOMAIN rows, NEW name, NEW v, NEW up, Write(x, name, v, up)
    PROVE  /\ DOMAIN rows' = DOMAIN rows /\ x \in Ids
           /\ rows'[x].kind = rows[x].kind
           /\ rows'[x].secret = IF v = "mask" THEN v ELSE Masked(rows[x].kind, v)
           /\ keychain'[x] = KeptKey(x, v, up)
           /\ \A y \in DOMAIN rows \ {x} : rows'[y] = rows[y]
           /\ \A y \in Ids \ {x} : keychain'[y] = keychain[y]
<1> DEFINE secret == IF v = "mask" THEN v ELSE Masked(rows[x].kind, v)
<1>1. x \in Ids
  BY DEF TreeInv, LibraryInv, RowsInv
<1>2. rows[x] \in [kind : Kinds, parent : Ids \union {Root}, name : Names, secret : Stored]
  BY DEF TreeInv, RowsTyped, Row
<1>3. rows' = [rows EXCEPT ![x].name = name, ![x].secret = secret]
  BY DEF Write
<1> HIDE DEF secret
<1>4. /\ DOMAIN rows' = DOMAIN rows
      /\ rows'[x].kind = rows[x].kind /\ rows'[x].secret = secret
      /\ \A y \in DOMAIN rows \ {x} : rows'[y] = rows[y]
  BY <1>2, <1>3
<1>5. /\ keychain'[x] = KeptKey(x, v, up)
      /\ \A y \in Ids \ {x} : keychain'[y] = keychain[y]
  BY <1>1 DEF Write, TreeInv, KeychainTyped
<1> QED
  BY <1>1, <1>4, <1>5 DEF secret

(* The steps of an import: nothing, a row made, a row written (in mode     *)
(* Overwrite, or the folder that is imported into), or a secret stored and *)
(* its row not.                                                            *)
ImportWrites(x) ==
    job.mode = "overwrite" \/ (job.placement = "into" /\ x = job.place)

ImportMakes ==
    \E x \in Fresh, kind \in Kinds, v \in Plain :
        /\ \E p, name : Insert(x, kind, p, name, v)
        /\ kind = "env" => v = "none"

ImportChanges ==
    \E x \in DOMAIN rows, v \in Plain :
        /\ Write(x, rows[x].name, v, TRUE)
        /\ rows[x].kind # "env" /\ ImportWrites(x)

ImportLoses ==
    /\ UNCHANGED rows
    /\ \E x \in Ids : /\ x \in Fresh \/ ImportWrites(x)
                      /\ \E k : keychain' = [keychain EXCEPT ![x] = k]

LEMMA ImportEffects ==
    ASSUME TreeInv, NEW n \in job.left, Import(n)
    PROVE  UNCHANGED <<rows, keychain>> \/ ImportMakes \/ ImportChanges \/ ImportLoses
<1>1. ~ Quiet
  BY DEF Quiet, Idle
<1>2. /\ Stripped(job.file[n].secret) \in Plain /\ "none" \in Plain
      /\ job.file[n].secret \in Plain \union {"mask"} /\ job.file[n].kind \in Kinds
  <2>1. n \in DOMAIN job.file /\ job.file[n] \in FileNode
    BY <1>1 DEF TreeInv, LibraryInv, JobInv, FileTyped
  <2> QED
    BY <2>1 DEF FileNode, Stripped, Plain
<1>3. /\ \A kind : NextContainer(n, kind) \/ NextItem(n, kind) => job.file[n].kind = kind
      /\ "coll" # "env" /\ "req" # "env" /\ "var" # "env"
  BY DEF NextContainer, NextItem, LeftOf
<1>4. ASSUME NEW x, NEW name, NEW v \in Plain, Put(n, x, name, v),
             job.file[n].kind = "env" => v = "none"
      PROVE  ImportMakes
  <2> DEFINE kind == job.file[n].kind
             p == Target(job.file[n].parent)
  <2>1. /\ kind \in Kinds /\ x \in Fresh
        /\ Insert(x, kind, p, name, v) /\ (kind = "env" => v = "none")
    BY <1>2, <1>4 DEF Put
  <2> HIDE DEF kind, p
  <2> QED
    BY <1>4, <2>1 DEF ImportMakes
<1>5. Clashing(n) \subseteq OfKind(rows, job.file[n].kind)
  BY DEF Clashing, Namesakes
<1>6. ASSUME NEW x \in Clashing(n), NEW v \in Plain, Write(x, rows[x].name, v, TRUE),
             job.file[n].kind # "env", job.mode = "overwrite"
      PROVE  ImportChanges
  <2>1. x \in DOMAIN rows /\ rows[x].kind # "env"
    BY <1>5, <1>6 DEF OfKind
  <2>2. ImportWrites(x)
    BY <1>6 DEF ImportWrites
  <2> QED
    BY <1>6, <2>1, <2>2 DEF ImportChanges
<1>7. CASE EnterTarget(n)
  <2>1. CASE job.file[n].secret # "none"
    <3>1. job.place \in OfKind(rows, "coll") /\ job.placement = "into"
      BY <1>1, <1>7 DEF EnterTarget, TreeInv, LibraryInv, JobInv, Placed
    <3>2. Write(job.place, rows[job.place].name, Stripped(job.file[n].secret), TRUE)
      BY <1>7, <2>1 DEF EnterTarget
    <3> QED
      BY <1>2, <3>1, <3>2 DEF ImportChanges, ImportWrites, OfKind
  <2> QED
    BY <1>7, <2>1 DEF EnterTarget
<1>8. ASSUME NEW c, EnterFolder(n, c) PROVE UNCHANGED <<rows, keychain>>
  BY <1>8 DEF EnterFolder
<1>9. ASSUME NEW x, NEW up, ImportFolder(n, x, up) PROVE ImportMakes
  <2>1. /\ Put(n, x, job.file[n].name, IF up THEN Stripped(job.file[n].secret) ELSE "none")
        /\ job.file[n].kind = "coll"
    BY <1>3, <1>9 DEF ImportFolder
  <2>2. (IF up THEN Stripped(job.file[n].secret) ELSE "none") \in Plain
    BY <1>2
  <2> QED
    BY <1>3, <1>4, <2>1, <2>2
<1>10. ASSUME NEW x, ImportRequest(n, x)
       PROVE  UNCHANGED <<rows, keychain>> \/ ImportMakes \/ ImportChanges
  <2>1. job.file[n].kind = "req"
    BY <1>3, <1>10 DEF ImportRequest
  <2>2. CASE \E name : Put(n, x, name, Stripped(job.file[n].secret))
    BY <1>2, <1>3, <1>4, <2>1, <2>2
  <2>3. CASE /\ x \in Clashing(n) /\ job.mode = "overwrite"
             /\ Write(x, rows[x].name, Stripped(job.file[n].secret), TRUE)
    BY <1>2, <1>3, <1>6, <2>1, <2>3
  <2> QED
    BY <1>10, <2>2, <2>3 DEF ImportRequest
<1>11. ASSUME NEW x, ImportEnvironment(n, x)
       PROVE  UNCHANGED <<rows, keychain>> \/ ImportMakes
  BY <1>2, <1>4, <1>11 DEF ImportEnvironment
<1>12. ASSUME NEW x, ImportVariable(n, x)
       PROVE  UNCHANGED <<rows, keychain>> \/ ImportMakes \/ ImportChanges
  <2>1. job.file[n].kind = "var"
    BY <1>3, <1>12 DEF ImportVariable
  <2>2. CASE Put(n, x, job.file[n].name, Stripped(job.file[n].secret))
    BY <1>2, <1>3, <1>4, <2>1, <2>2
  <2>3. CASE /\ x \in Clashing(n) /\ job.mode = "overwrite" /\ job.file[n].secret # "mask"
             /\ Write(x, rows[x].name, job.file[n].secret, TRUE)
    BY <1>2, <1>3, <1>6, <2>1, <2>3
  <2> QED
    BY <1>12, <2>2, <2>3 DEF ImportVariable
<1>13. ASSUME NEW x, ImportLost(n, x) PROVE ImportLoses
  <2>1. x \in Ids
    BY <1>5, <1>13 DEF ImportLost, OfKind, Fresh, TreeInv, LibraryInv, RowsInv
  <2> QED
    BY <1>13, <2>1 DEF ImportLost, ImportLoses, ImportWrites
<1> QED
  BY <1>7, <1>8, <1>9, <1>10, <1>11, <1>12, <1>13 DEF Import

(* No import touches a row that it does not write.                         *)
LEMMA ImportsLeave ==
    ASSUME TreeInv, NEW n \in job.left, Import(n), NEW x \in DOMAIN rows, ~ ImportWrites(x)
    PROVE  Kept(x)
<1> USE DEF Kept
<1>1. x \in Ids
  BY DEF TreeInv, LibraryInv, RowsInv
<1>2. CASE ImportMakes
  <2>1. PICK y \in Fresh, kind \in Kinds, v \in Plain : \E p, name : Insert(y, kind, p, name, v)
    BY <1>2 DEF ImportMakes
  <2> QED
    BY <1>1, <2>1, InsertEffect
<1>3. CASE ImportChanges
  <2>1. PICK y \in DOMAIN rows, v \in Plain : Write(y, rows[y].name, v, TRUE) /\ ImportWrites(y)
    BY <1>3 DEF ImportChanges
  <2>2. y # x
    BY <2>1
  <2> QED
    BY <1>1, <2>1, <2>2, WriteEffect
<1>4. CASE ImportLoses
  BY <1>1, <1>4 DEF ImportLoses, Fresh, TreeInv, KeychainTyped
<1> QED
  BY <1>2, <1>3, <1>4, ImportEffects

(* Only an import runs while one does.                                     *)
LEMMA ImportingSteps ==
    ASSUME Next, ~ Quiet
    PROVE  (\E n \in job.left : Import(n)) \/ FailImport
<1>1. ASSUME NEW x, Create(x) \/ Lost(x) PROVE FALSE
  BY <1>1 DEF Create, Lost, CreateCollection, CreateRequest, CreateEnvironment,
              CreateVariable, CreateLost, UpdateLost
<1>2. ASSUME NEW x, Update(x) \/ Move(x) \/ Delete(x) PROVE FALSE
  BY <1>2 DEF Update, Rename, UpdateCollectionAuth, UpdateRequest, UpdateVariable,
              Move, MoveCollection, MoveRequest, Delete, DeleteCollection, DeleteRequest,
              DeleteVariable, DeleteEnvironment, DeleteCollectionLost
<1>3. ASSUME NEW x, Copies(x) PROVE FALSE
  <2>1. \E copy, bare, name : Duplicate(x, copy, bare, name)
    BY <1>3 DEF Copies
  <2> QED
    BY <2>1 DEF Duplicate, CopyAs
<1> QED
  BY <1>1, <1>2, <1>3 DEF Next, DeleteWorkspace, Start, StartImport

(* For any rows, files and ids: an import in mode Skip or Merge leaves     *)
(* every row and its secret, but for the auth of the folder it goes into.  *)
THEOREM SkipsAndMergesKeep == Spec => SkipAndMergeKeep
<1>1. TreeInv /\ [Next]_vars
        => [\A x \in DOMAIN rows :
              ~Quiet /\ job.mode # "overwrite" /\ ~(job.placement = "into" /\ x = job.place) =>
                 x \in DOMAIN rows' /\ rows'[x] = rows[x] /\ keychain'[x] = keychain[x]]_vars
  <2> SUFFICES ASSUME TreeInv, Next, NEW x \in DOMAIN rows, ~ Quiet, ~ ImportWrites(x)
               PROVE  Kept(x)
    BY DEF ImportWrites, Kept
  <2>1. CASE FailImport
    BY <2>1 DEF FailImport, Kept
  <2> QED
    BY <2>1, ImportingSteps, ImportsLeave
<1>2. Init => TreeInv
  BY TreeInit
<1>3. TreeInv /\ [Next]_vars => TreeInv'
  BY TreeNext
<1> QED
  BY <1>1, <1>2, <1>3, PTL DEF Spec, SkipAndMergeKeep

-----------------------------------------------------------------------------
(* Rows and their entries agree.                                          *)

(* An environment has no secret: its masks would have no entry to agree    *)
(* with, and a collection's delete sweeps none for it.                     *)
EnvsHaveNoSecret == \A x \in OfKind(rows, "env") : rows[x].secret # "mask"
RowsAgreeInv == TreeInv /\ EnvsHaveNoSecret

(* What a step may do to one row and its entry.                            *)
Parts(x) ==
    Agrees(x) =>
        \/ Agrees(x)'
        \/ rows' = rows
        \/ keychain' = keychain /\ Quiet
        \/ x \notin DOMAIN rows' /\ rows[x].kind = "var"

LEMMA SameRowAgrees ==
    ASSUME NEW x, Agrees(x), keychain'[x] = keychain[x],
           x \in DOMAIN rows' <=> x \in DOMAIN rows,
           x \in DOMAIN rows => rows'[x] = rows[x]
    PROVE  Agrees(x)'
BY DEF Agrees

LEMMA InsertAgrees ==
    ASSUME TreeInv, NEW y \in Fresh, NEW kind \in Kinds, NEW p, NEW name, NEW v \in Plain,
           Insert(y, kind, p, name, v)
    PROVE  \A x \in Ids : Agrees(x) => Agrees(x)'
<1>1. /\ y \in Ids \ DOMAIN rows /\ DOMAIN rows' = DOMAIN rows \union {y}
      /\ rows'[y].kind = kind /\ rows'[y].secret = Masked(kind, v)
      /\ keychain'[y] = KeptKey(y, v, TRUE)
      /\ \A z \in DOMAIN rows : rows'[z] = rows[z]
      /\ \A z \in Ids \ {y} : keychain'[z] = keychain[z]
  BY InsertEffect
<1>2. Agrees(y)'
  BY <1>1, LibraryAssumption DEF Agrees, Masked, KeptKey, Plain
<1>3. ASSUME NEW x \in Ids \ {y}, Agrees(x) PROVE Agrees(x)'
  BY <1>1, <1>3, SameRowAgrees
<1> QED
  BY <1>2, <1>3

(* A write that reaches the keychain, with a value of the user's.          *)
LEMMA WroteAgrees ==
    ASSUME TreeInv, NEW y \in DOMAIN rows, NEW name, NEW v \in Plain, NEW up,
           Write(y, name, v, up), up \/ v \in Secrets
    PROVE  \A x \in Ids : Agrees(x) => Agrees(x)'
<1>1. /\ DOMAIN rows' = DOMAIN rows /\ y \in Ids
      /\ rows'[y].kind = rows[y].kind
      /\ rows'[y].secret = IF v = "mask" THEN v ELSE Masked(rows[y].kind, v)
      /\ keychain'[y] = KeptKey(y, v, up)
      /\ \A z \in DOMAIN rows \ {y} : rows'[z] = rows[z]
      /\ \A z \in Ids \ {y} : keychain'[z] = keychain[z]
  BY WriteEffect
<1>2. v # "mask"
  BY LibraryAssumption DEF Plain
<1>3. ASSUME v \in Secrets PROVE Agrees(y)'
  BY <1>1, <1>2, <1>3, LibraryAssumption DEF Agrees, Masked, KeptKey
<1>4. ASSUME v \in {"none", "empty"}, up PROVE Agrees(y)'
  BY <1>1, <1>4, LibraryAssumption DEF Agrees, Masked, KeptKey
<1>5. Agrees(y)'
  BY <1>3, <1>4 DEF Plain
<1>6. ASSUME NEW x \in Ids \ {y}, Agrees(x) PROVE Agrees(x)'
  BY <1>1, <1>6, SameRowAgrees
<1> QED
  BY <1>5, <1>6

LEMMA WriteAgrees ==
    ASSUME TreeInv, NEW y \in DOMAIN rows, NEW name, NEW v \in Sendable, NEW up,
           Write(y, name, v, up)
    PROVE  keychain' = keychain \/ \A x \in Ids : Agrees(x) => Agrees(x)'
<1>1. keychain' = [keychain EXCEPT ![y] = KeptKey(y, v, up)]
  BY DEF Write
<1>2. CASE v \in Plain /\ (up \/ v \in Secrets)
  BY <1>2, WroteAgrees
<1>3. CASE v = "mask" \/ (v \in {"none", "empty"} /\ ~ up)
  <2>1. KeptKey(y, v, up) = keychain[y]
    BY <1>3, LibraryAssumption DEF KeptKey
  <2> QED
    BY <1>1, <2>1 DEF TreeInv, KeychainTyped
<1> QED
  BY <1>2, <1>3 DEF Sendable, Plain

LEMMA WriteKeepsEnvs ==
    ASSUME RowsAgreeInv, NEW y \in DOMAIN rows, rows[y].kind # "env", NEW name, NEW v, NEW up,
           Write(y, name, v, up)
    PROVE  EnvsHaveNoSecret'
BY WriteEffect DEF RowsAgreeInv, EnvsHaveNoSecret, OfKind

LEMMA InsertKeepsEnvs ==
    ASSUME RowsAgreeInv, NEW y \in Fresh, NEW kind, NEW p, NEW name, NEW v \in Plain,
           Insert(y, kind, p, name, v), kind = "env" => v = "none"
    PROVE  EnvsHaveNoSecret'
<1>1. kind = "env" => Masked(kind, v) # "mask"
  BY LibraryAssumption DEF Masked
<1>2. /\ DOMAIN rows' = DOMAIN rows \union {y}
      /\ rows'[y].kind = kind /\ rows'[y].secret = Masked(kind, v)
      /\ \A z \in DOMAIN rows : rows'[z] = rows[z]
  BY InsertEffect DEF RowsAgreeInv
<1> QED
  BY <1>1, <1>2 DEF RowsAgreeInv, EnvsHaveNoSecret, OfKind

LEMMA LeftKeepsEnvs ==
    ASSUME EnvsHaveNoSecret, NEW D \in SUBSET DOMAIN rows, rows' = Restrict(rows, D)
    PROVE  EnvsHaveNoSecret' /\ DOMAIN rows' = D /\ \A x \in D : rows'[x] = rows[x]
BY DEF EnvsHaveNoSecret, OfKind, Restrict

(* One lemma for each kind of step.                                        *)
Tidy == EnvsHaveNoSecret' /\ \A x \in Ids : Parts(x)

LEMMA CreatesAreTidy ==
    ASSUME RowsAgreeInv, NEW y, Create(y)
    PROVE  Tidy
<1>1. PICK name \in FormNames, p \in {Root} \union DOMAIN rows :
         \/ CreateCollection(y, p, name) \/ CreateEnvironment(y, p, name)
         \/ \E v \in Plain : CreateRequest(y, p, name, v) \/ CreateVariable(y, p, name, v)
  BY DEF Create
<1>2. /\ y \in Fresh
      /\ \E kind \in Kinds, v \in Plain :
            Insert(y, kind, p, name, v) /\ (kind = "env" => v = "none")
  <2>1. "none" \in Plain /\ {"coll", "req", "env", "var"} \subseteq Kinds
    BY DEF Plain, Kinds
  <2>2. "req" # "env" /\ "var" # "env"
    OBVIOUS
  <2>3. CASE CreateCollection(y, p, name) \/ CreateEnvironment(y, p, name)
    BY <2>1, <2>3 DEF CreateCollection, CreateEnvironment
  <2>4. ASSUME NEW v \in Plain, CreateRequest(y, p, name, v) \/ CreateVariable(y, p, name, v)
        PROVE  /\ y \in Fresh
               /\ \E kind \in Kinds : Insert(y, kind, p, name, v) /\ kind # "env"
    BY <2>1, <2>2, <2>4 DEF CreateRequest, CreateVariable
  <2> QED
    BY <1>1, <2>3, <2>4
<1>3. PICK kind \in Kinds, v \in Plain :
         Insert(y, kind, p, name, v) /\ (kind = "env" => v = "none")
  BY <1>2
<1> QED
  BY <1>2, <1>3, InsertAgrees, InsertKeepsEnvs DEF Tidy, Parts, RowsAgreeInv

LEMMA UpdatesAreTidy ==
    ASSUME RowsAgreeInv, NEW y \in DOMAIN rows, Update(y)
    PROVE  Tidy
<1>1. PICK name \in FormNames, v \in Sendable, up \in BOOLEAN :
         \/ Rename(y, name) \/ UpdateCollectionAuth(y, v, up)
         \/ UpdateRequest(y, name, v, up) \/ UpdateVariable(y, name, v, up)
  BY DEF Update
<1>2. CASE Rename(y, name)
  <2>1. Quiet /\ UNCHANGED keychain /\ rows' = [rows EXCEPT ![y].name = name]
    BY <1>2 DEF Rename
  <2>2. \A x \in DOMAIN rows : rows[x] \in Row
    BY DEF RowsAgreeInv, TreeInv, RowsTyped
  <2>3. EnvsHaveNoSecret'
    BY <2>1, <2>2 DEF RowsAgreeInv, EnvsHaveNoSecret, OfKind, Row
  <2> QED
    BY <2>1, <2>3 DEF Tidy, Parts
<1>3. CASE \/ UpdateCollectionAuth(y, v, up)
           \/ UpdateRequest(y, name, v, up) \/ UpdateVariable(y, name, v, up)
  <2>1. PICK new : Write(y, new, v, up)
    BY <1>3 DEF UpdateCollectionAuth, UpdateRequest, UpdateVariable
  <2>2. Quiet /\ rows[y].kind # "env"
    BY <1>3 DEF UpdateCollectionAuth, UpdateRequest, UpdateVariable, OfKind
  <2>3. EnvsHaveNoSecret'
    BY <2>1, <2>2, WriteKeepsEnvs
  <2>4. keychain' = keychain \/ \A x \in Ids : Agrees(x) => Agrees(x)'
    BY <2>1, WriteAgrees DEF RowsAgreeInv
  <2> QED
    BY <2>2, <2>3, <2>4 DEF Tidy, Parts
<1> QED
  BY <1>1, <1>2, <1>3

LEMMA MovesAreTidy ==
    ASSUME RowsAgreeInv, NEW y \in DOMAIN rows, Move(y)
    PROVE  Tidy
<1>1. PICK p : /\ Quiet /\ UNCHANGED keychain
               /\ rows' = [rows EXCEPT ![y].parent = p]
  BY DEF Move, MoveCollection, MoveRequest
<1>2. \A x \in DOMAIN rows : rows[x] \in Row
  BY DEF RowsAgreeInv, TreeInv, RowsTyped
<1>3. EnvsHaveNoSecret'
  BY <1>1, <1>2 DEF RowsAgreeInv, EnvsHaveNoSecret, OfKind, Row
<1> QED
  BY <1>1, <1>3 DEF Tidy, Parts

(* What a delete takes is swept, or has no entry, or is a variable.        *)
LEMMA DeletesAreTidy ==
    ASSUME RowsAgreeInv, NEW y \in DOMAIN rows, Delete(y)
    PROVE  Tidy
<1> USE DEF RowsAgreeInv
<1>1. \A x \in DOMAIN rows : rows[x].kind \in Kinds
  BY DEF TreeInv, RowsTyped, Row
<1>2. ASSUME NEW gone \in SUBSET DOMAIN rows, NEW up \in BOOLEAN, Quiet,
             rows' = Restrict(rows, DOMAIN rows \ gone),
             keychain' = Swept(gone \intersect Owners(rows), up)
             \/ (keychain' = Swept(gone, up) /\ gone \subseteq {y})
      PROVE  Tidy
  <2>1. /\ EnvsHaveNoSecret' /\ DOMAIN rows' = DOMAIN rows \ gone
        /\ \A x \in DOMAIN rows \ gone : rows'[x] = rows[x]
    BY <1>2, LeftKeepsEnvs
  <2>2. PICK swept : /\ keychain' = Swept(swept, up)
                     /\ gone \intersect Owners(rows) \subseteq swept /\ swept \subseteq gone
    BY <1>2 DEF Owners, OfKind
  <2>3. CASE ~ up
    <3>1. keychain' = keychain
      BY <2>2, <2>3 DEF Swept, TreeInv, KeychainTyped
    <3> QED
      BY <1>2, <2>1, <3>1 DEF Tidy, Parts
  <2>4. ASSUME up, NEW x \in Ids PROVE Parts(x)
    <3>1. CASE x \notin gone
      <4>1. keychain'[x] = keychain[x]
        BY <2>2, <3>1 DEF Swept
      <4> QED
        BY <2>1, <3>1, <4>1, SameRowAgrees DEF Parts
    <3>2. CASE x \in gone /\ rows[x].kind = "var"
      BY <2>1, <3>2 DEF Parts
    <3>3. CASE x \in gone /\ rows[x].kind = "env"
      <4>1. Agrees(x) => keychain[x] = "absent"
        BY <3>3 DEF Agrees, EnvsHaveNoSecret, OfKind
      <4>2. keychain'[x] \in {"absent", keychain[x]}
        BY <2>2 DEF Swept
      <4> QED
        BY <2>1, <3>3, <4>1, <4>2 DEF Parts, Agrees
    <3>4. CASE x \in gone /\ rows[x].kind \in {"coll", "req"}
      <4>1. keychain'[x] = "absent"
        BY <2>2, <2>4, <3>4 DEF Swept, Owners, OfKind
      <4> QED
        BY <2>1, <3>4, <4>1 DEF Parts, Agrees
    <3> QED
      BY <1>1, <3>1, <3>2, <3>3, <3>4 DEF Kinds
  <2> QED
    BY <2>1, <2>3, <2>4 DEF Tidy
<1>3. ASSUME NEW up \in BOOLEAN, DeleteCollection(y, up) PROVE Tidy
  <2>1. /\ Quiet /\ rows' = Restrict(rows, DOMAIN rows \ Within(rows, y))
        /\ keychain' = Swept(Within(rows, y) \intersect Owners(rows), up)
    BY <1>3 DEF DeleteCollection
  <2>2. Within(rows, y) \in SUBSET DOMAIN rows
    BY DEF Within
  <2> QED
    BY <1>2, <2>1, <2>2
<1>4. ASSUME NEW up \in BOOLEAN, DeleteRequest(y, up) \/ DeleteVariable(y, up) PROVE Tidy
  <2>1. /\ Quiet /\ rows' = Restrict(rows, DOMAIN rows \ {y})
        /\ keychain' = Swept({y}, up)
    BY <1>4 DEF DeleteRequest, DeleteVariable
  <2> QED
    BY <1>2, <2>1
<1>5. CASE DeleteEnvironment(y) \/ DeleteCollectionLost(y)
  <2>1. PICK gone \in SUBSET DOMAIN rows :
          Quiet /\ rows' = Restrict(rows, DOMAIN rows \ gone) /\ UNCHANGED keychain
    BY <1>5 DEF DeleteEnvironment, DeleteCollectionLost, Within
  <2>2. EnvsHaveNoSecret'
    BY <2>1, LeftKeepsEnvs
  <2> QED
    BY <2>1, <2>2 DEF Tidy, Parts
<1> QED
  BY <1>3, <1>4, <1>5 DEF Delete

(* A copy is masked when it was given a secret, and only then.             *)
LEMMA CopiesAreTidy ==
    ASSUME RowsAgreeInv, NEW y \in DOMAIN rows, Copies(y)
    PROVE  Tidy
<1>1. PICK part \in SUBSET (Within(rows, y) \intersect Owners(rows)) :
        \E copy \in Injection(part, Fresh), bare \in SUBSET part, name \in FormNames :
            Duplicate(y, copy, bare, name)
  BY DEF Copies
<1>2. PICK copy \in Injection(part, Fresh), bare \in SUBSET part, name \in FormNames :
        Duplicate(y, copy, bare, name)
  BY <1>1
<1>3. Copied(y, part, copy, bare, name)
  BY <1>2, CopyRows
<1>4. ASSUME NEW z \in part
      PROVE  /\ z \in DOMAIN rows /\ rows[z].kind \in {"coll", "req"}
             /\ copy[z] \in Ids /\ copy[z] \in DOMAIN rows'
             /\ rows'[copy[z]].kind = rows[z].kind
             /\ rows'[copy[z]].secret = Masked(rows[z].kind, Given(bare, z))
             /\ keychain'[copy[z]] = KeptKey(copy[z], Given(bare, z), TRUE)
             /\ Given(bare, z) \in Plain
  <2>1. z \in DOMAIN rows /\ rows[z].kind \in {"coll", "req"}
    BY DEF Owners, OfKind
  <2>2. copy[z] \in Range(copy)
    BY <1>3 DEF Copied, Range
  <2>3. rows'[copy[z]] = CopyOf(y, copy, bare, name, z)
    BY <1>3 DEF Copied
  <2>4. Given(bare, z) \in Plain
    BY <2>1, HydratedIsPlain DEF Given, TreeInv, RowsAgreeInv, Plain
  <2>5. /\ rows'[copy[z]].kind = rows[z].kind
        /\ rows'[copy[z]].secret = Masked(rows[z].kind, Given(bare, z))
    BY <2>3 DEF CopyOf
  <2>6. /\ copy[z] \in Ids /\ copy[z] \in DOMAIN rows'
        /\ keychain'[copy[z]] = KeptKey(copy[z], Given(bare, z), TRUE)
    BY <1>3, <2>2 DEF Copied, Fresh
  <2> QED
    BY <2>1, <2>4, <2>5, <2>6
<1>5. \A c \in Range(copy) : \E z \in part : c = copy[z]
  BY <1>3 DEF Copied, Range
<1>6. ASSUME NEW z \in part PROVE Agrees(copy[z])' /\ rows'[copy[z]].kind # "env"
  BY <1>4, LibraryAssumption DEF Agrees, Masked, KeptKey, Plain
<1>7. ASSUME NEW x \in Ids, Agrees(x) PROVE Agrees(x)'
  <2>1. CASE x \in Range(copy)
    BY <1>5, <1>6, <2>1
  <2>2. CASE x \notin Range(copy)
    BY <1>3, <1>7, <2>2, SameRowAgrees DEF Copied
  <2> QED
    BY <2>1, <2>2
<1>8. EnvsHaveNoSecret'
  <2>1. ASSUME NEW x \in DOMAIN rows', rows'[x].kind = "env" PROVE rows'[x].secret # "mask"
    <3>1. x \in DOMAIN rows /\ rows'[x] = rows[x]
      BY <1>3, <1>5, <1>6, <2>1 DEF Copied
    <3> QED
      BY <2>1, <3>1 DEF RowsAgreeInv, EnvsHaveNoSecret, OfKind
  <2> QED
    BY <2>1 DEF EnvsHaveNoSecret, OfKind
<1> QED
  BY <1>7, <1>8 DEF Tidy, Parts

LEMMA ImportsAreTidy ==
    ASSUME RowsAgreeInv, NEW n \in job.left, Import(n)
    PROVE  Tidy
<1>1. CASE UNCHANGED rows
  BY <1>1 DEF Tidy, Parts, RowsAgreeInv, EnvsHaveNoSecret, OfKind
<1>2. CASE ImportMakes
  <2>1. PICK y \in Fresh, kind \in Kinds, v \in Plain :
          (\E p, name : Insert(y, kind, p, name, v)) /\ (kind = "env" => v = "none")
    BY <1>2 DEF ImportMakes
  <2>2. PICK p, name : Insert(y, kind, p, name, v)
    BY <2>1
  <2> QED
    BY <2>1, <2>2, InsertAgrees, InsertKeepsEnvs DEF Tidy, Parts, RowsAgreeInv
<1>3. CASE ImportChanges
  <2>1. PICK y \in DOMAIN rows, v \in Plain :
          Write(y, rows[y].name, v, TRUE) /\ rows[y].kind # "env"
    BY <1>3 DEF ImportChanges
  <2>2. EnvsHaveNoSecret'
    BY <2>1, WriteKeepsEnvs
  <2>3. \A x \in Ids : Agrees(x) => Agrees(x)'
    BY <2>1, WroteAgrees DEF RowsAgreeInv
  <2> QED
    BY <2>2, <2>3 DEF Tidy, Parts
<1> QED
  BY <1>1, <1>2, <1>3, ImportEffects DEF RowsAgreeInv, ImportLoses


LEMMA StepsAreTidy == RowsAgreeInv /\ Next => Tidy
<1> SUFFICES ASSUME RowsAgreeInv, Next PROVE Tidy
  OBVIOUS
<1>1. ASSUME UNCHANGED rows PROVE Tidy
  BY <1>1 DEF Tidy, Parts, RowsAgreeInv, EnvsHaveNoSecret, OfKind
<1>2. ASSUME NEW x, Lost(x) PROVE UNCHANGED rows
  BY <1>2 DEF Lost, CreateLost, UpdateLost
<1>3. ASSUME Start \/ FailImport PROVE UNCHANGED rows
  BY <1>3 DEF Start, StartImport, FailImport
<1>4. CASE DeleteWorkspace
  BY <1>4 DEF DeleteWorkspace, Tidy, Parts, EnvsHaveNoSecret, OfKind
<1> QED
  BY <1>1, <1>2, <1>3, <1>4, CreatesAreTidy, UpdatesAreTidy, MovesAreTidy, DeletesAreTidy,
     CopiesAreTidy, ImportsAreTidy DEF Next

(* For any rows, secrets and files: row and entry part only when a command *)
(* reaches one of the stores and not the other, or a collection takes its  *)
(* variables with it: no import parts them, nor a copy (auth/mod.rs,       *)
(* store/secrets.rs).                                                      *)
THEOREM OnlyAccidentsPart == Spec => PartOnlyByAccident
<1>1. RowsAgreeInv /\ [Next]_vars
        => [\A x \in Ids : Agrees(x) =>
              \/ Agrees(x)'
              \/ rows' = rows
              \/ keychain' = keychain /\ Quiet
              \/ x \notin DOMAIN rows' /\ rows[x].kind = "var"]_vars
  BY StepsAreTidy DEF Tidy, Parts
<1>2. Init => RowsAgreeInv
  BY TreeInit DEF RowsAgreeInv, EnvsHaveNoSecret, OfKind, Init
<1>3. RowsAgreeInv /\ [Next]_vars => RowsAgreeInv'
  <2>1. UNCHANGED vars /\ RowsAgreeInv => EnvsHaveNoSecret'
    BY DEF vars, RowsAgreeInv, EnvsHaveNoSecret, OfKind
  <2> QED
    BY <2>1, TreeNext, StepsAreTidy DEF RowsAgreeInv, Tidy
<1> QED
  BY <1>1, <1>2, <1>3, PTL DEF Spec, PartOnlyByAccident
=============================================================================
