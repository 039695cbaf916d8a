------------------------------- MODULE Library -------------------------------
(***************************************************************************)
(* A workspace's collections, requests, environments and variables         *)
(* (store/collections.rs, requests.rs, environments.rs, variables.rs),     *)
(* their secrets in the operating system's keychain (auth/mod.rs), and the *)
(* exports and imports of them (interop/, sync.rs).                        *)
(*                                                                         *)
(* A secret is stored before or after its row, never with it: the database *)
(* and the keychain share no transaction, an import has none at all, and   *)
(* the keychain may be locked.  A command holds the connection's lock, so  *)
(* only a crash comes between its steps; an import is a series of actions. *)
(***************************************************************************)
EXTENDS Trees

CONSTANTS Ids,       \* of rows
          Names,     \* of rows; an alias "name (2)" is another of them
          FormNames, \* those that a user types: a bound
          MaxRows,   \* a library with more does not go on: a bound
          MaxHeld,   \* imports start with at most so many: a bound
          Secrets,   \* what a user may type where a secret goes
          Files      \* trees that came from elsewhere

VARIABLES rows,      \* id -> the row, a node whose secret is never in the clear
          keychain,  \* id -> what the keychain holds for it
          job        \* the import that is running

vars == <<rows, keychain, job>>

(* none: no auth, or a variable that is no secret.  empty: a secret not    *)
(* given.  mask: in a row, the keychain has it.                            *)
Plain == {"none", "empty"} \union Secrets
Stored == {"none", "empty", "mask"}

Row == [kind : Kinds, parent : Ids \union {Root}, name : Names, secret : Stored]

(* In a file names are addresses, and a secret may be in the clear.        *)
FileNode == [kind : Kinds, parent : (UNION {DOMAIN file : file \in Files}) \union Ids \union {Root},
             name : Names, secret : Plain \union {"mask"}]

ASSUME LibraryAssumption ==
    /\ FormNames \subseteq Names
    /\ Root \notin Ids
    /\ Secrets \intersect {"none", "empty", "mask", "absent"} = {}
    /\ \A file \in Files : Root \notin DOMAIN file /\ Rooted(file)
    /\ \A file \in Files : \A n \in DOMAIN file : file[n] \in FileNode

Idle == [file |-> <<>>, left |-> {}]
Quiet == job = Idle

(* Ids are never given twice; one of which there is no trace left is as    *)
(* good as new.                                                            *)
Fresh == {x \in Ids \ DOMAIN rows : keychain[x] = "absent"}

Owners(t) == OfKind(t, "coll") \union OfKind(t, "req")

-----------------------------------------------------------------------------
(* Secrets.                                                                *)

(* What the row says once the secret is stored (auth::persist; a variable  *)
(* that is secret says so whatever its value).                             *)
Masked(kind, v) ==
    IF v \in Secrets \/ (kind = "var" /\ v = "empty") THEN "mask" ELSE v

(* What the keychain holds then.  Auth leaves the entry of what it is not  *)
(* given anew and ignores deletes that fail; secrets::set deletes an empty *)
(* secret and does not.                                                    *)
KeptKey(x, v, up) ==
    CASE v \in Secrets -> v
      [] v = "mask" -> keychain[x]
      [] OTHER -> IF up THEN "absent" ELSE keychain[x]

(* A locked keychain fails what sets or reads an entry.                    *)
Storable(kind, v, up) ==
    up \/ v = "none" \/ (kind # "var" /\ v \in {"empty", "mask"})

(* auth::hydrate, and the value a secret variable has in a send.           *)
Hydrated(x) ==
    CASE rows[x].secret # "mask" -> rows[x].secret
      [] keychain[x] \in Secrets -> keychain[x]
      [] OTHER -> "empty"

(* strip_unrecoverable_masks; environment::parse and apply_variables do it *)
(* to variables.                                                           *)
Stripped(v) == IF v = "mask" THEN "empty" ELSE v

-----------------------------------------------------------------------------
(* Commands.  up: whether the keychain can be reached.                     *)

Insert(x, kind, p, name, v) ==
    /\ rows' = Beside(rows, One(x, [kind |-> kind, parent |-> p, name |-> name,
                                    secret |-> Masked(kind, v)]))
    /\ keychain' = [keychain EXCEPT ![x] = KeptKey(x, v, TRUE)]

(* Parents come from the window, and the schema refuses one that is gone.  *)
CreateCollection(x, p, name) ==
    /\ Quiet /\ x \in Fresh
    /\ Accepts(rows, "coll", p)
    /\ Insert(x, "coll", p, name, "none")
    /\ UNCHANGED job

CreateRequest(x, p, name, v) ==
    /\ Quiet /\ x \in Fresh
    /\ Accepts(rows, "req", p)
    /\ Insert(x, "req", p, name, v)
    /\ UNCHANGED job

CreateEnvironment(x, p, name) ==
    /\ Quiet /\ x \in Fresh
    /\ Accepts(rows, "env", p)
    /\ Insert(x, "env", p, name, "none")
    /\ UNCHANGED job

CreateVariable(x, p, name, v) ==
    /\ Quiet /\ x \in Fresh
    /\ Accepts(rows, "var", p)
    /\ Insert(x, "var", p, name, v)
    /\ UNCHANGED job

(* The secret of a new request or variable is stored first; then the       *)
(* parent is gone, or the process is.                                      *)
CreateLost(x, v) ==
    /\ Quiet /\ x \in Fresh
    /\ v \in Secrets
    /\ keychain' = [keychain EXCEPT ![x] = v]
    /\ UNCHANGED <<rows, job>>

(* What a form may send: a value, or the mask it was once given, of a      *)
(* secret that may be gone by now.                                         *)
Sendable == Plain \union {"mask"}

Write(x, name, v, up) ==
    /\ Storable(rows[x].kind, v, up)
    /\ rows' = [rows EXCEPT ![x].name = name, ![x].secret =
                   IF v = "mask" THEN v ELSE Masked(rows[x].kind, v)]
    /\ keychain' = [keychain EXCEPT ![x] = KeptKey(x, v, up)]

(* collections::update and environments::update *)
Rename(x, name) ==
    /\ Quiet /\ x \in OfKind(rows, "coll") \union OfKind(rows, "env")
    /\ rows' = [rows EXCEPT ![x].name = name]
    /\ UNCHANGED <<keychain, job>>

UpdateCollectionAuth(x, v, up) ==
    /\ Quiet /\ x \in OfKind(rows, "coll")
    /\ Write(x, rows[x].name, v, up)
    /\ UNCHANGED job

UpdateRequest(x, name, v, up) ==
    /\ Quiet /\ x \in OfKind(rows, "req")
    /\ Write(x, name, v, up)
    /\ UNCHANGED job

UpdateVariable(x, name, v, up) ==
    /\ Quiet /\ x \in OfKind(rows, "var")
    /\ Write(x, name, v, up)
    /\ UNCHANGED job

(* An update stores the secret before it finds that the row is gone, or    *)
(* crashes in between.                                                     *)
UpdateLost(x, v) ==
    /\ Quiet
    /\ x \in DOMAIN rows => rows[x].kind # "env"
    /\ keychain' = [keychain EXCEPT ![x] = KeptKey(x, v, TRUE)]
    /\ UNCHANGED <<rows, job>>

(* Mistake: only the collection itself is refused.                         *)
MoveAnywhereElse(x, p) ==
    /\ Quiet /\ x \in OfKind(rows, "coll")
    /\ Accepts(rows, "coll", p)
    /\ p # x
    /\ rows' = [rows EXCEPT ![x].parent = p]
    /\ UNCHANGED <<keychain, job>>

MoveCollection(x, p) ==
    /\ Quiet /\ x \in OfKind(rows, "coll")
    /\ Accepts(rows, "coll", p)
    /\ p \notin Within(rows, x)
    /\ rows' = [rows EXCEPT ![x].parent = p]
    /\ UNCHANGED <<keychain, job>>

MoveRequest(x, p) ==
    /\ Quiet /\ x \in OfKind(rows, "req")
    /\ Accepts(rows, "req", p)
    /\ rows' = [rows EXCEPT ![x].parent = p]
    /\ UNCHANGED <<keychain, job>>

(* auth::sweep of the owners that went *)
Swept(gone, up) == [x \in Ids |-> IF up /\ x \in gone THEN "absent" ELSE keychain[x]]

(* Mistake: the secrets of requests are not swept.                         *)
DeleteCollectionOnly(x, up) ==
    /\ Quiet /\ x \in OfKind(rows, "coll")
    /\ LET gone == Within(rows, x)
       IN  /\ rows' = Restrict(rows, DOMAIN rows \ gone)
           /\ keychain' = Swept(gone \intersect OfKind(rows, "coll"), up)
    /\ UNCHANGED job

(* collections::delete: variables and environments go with the cascade.    *)
DeleteCollection(x, up) ==
    /\ Quiet /\ x \in OfKind(rows, "coll")
    /\ LET gone == Within(rows, x)
       IN  /\ rows' = Restrict(rows, DOMAIN rows \ gone)
           /\ keychain' = Swept(gone \intersect Owners(rows), up)
    /\ UNCHANGED job

(* ... which crashes between its two statements.                           *)
DeleteCollectionLost(x) ==
    /\ Quiet /\ x \in OfKind(rows, "coll")
    /\ rows' = Restrict(rows, DOMAIN rows \ (Within(rows, x) \intersect OfKind(rows, "req")))
    /\ UNCHANGED <<keychain, job>>

DeleteRequest(x, up) ==
    /\ Quiet /\ x \in OfKind(rows, "req")
    /\ rows' = Restrict(rows, DOMAIN rows \ {x})
    /\ keychain' = Swept({x}, up)
    /\ UNCHANGED job

DeleteVariable(x, up) ==
    /\ Quiet /\ x \in OfKind(rows, "var")
    /\ rows' = Restrict(rows, DOMAIN rows \ {x})
    /\ keychain' = Swept({x}, up)
    /\ UNCHANGED job

(* environments::delete leaves its variables to the cascade.               *)
DeleteEnvironment(x) ==
    /\ Quiet /\ x \in OfKind(rows, "env")
    /\ rows' = Restrict(rows, DOMAIN rows \ Within(rows, x))
    /\ UNCHANGED <<keychain, job>>

(* The workspace goes, and everything in it by cascade.                    *)
DeleteWorkspace ==
    /\ Quiet
    /\ rows' = <<>>
    /\ UNCHANGED <<keychain, job>>

(* copy_children: part of a subtree is copied, a folder at a time.  What   *)
(* is not in part a crash or a locked keychain left out; so did they the   *)
(* auth of a folder in bare, which is created first and given its auth     *)
(* after.                                                                  *)
CopyAs(x, copy, bare, name, secretOf) ==
    LET part == DOMAIN copy
        original == Inverse(copy, part, Range(copy))
        secret(y) == IF y \in bare THEN "none" ELSE secretOf[y]
    IN  /\ Quiet /\ x \in part
        /\ \A y \in part \ {x} : rows[y].parent \in part
        /\ \A y \in bare : rows[y].kind = "coll" /\ \A z \in part : rows[z].parent # y
        /\ rows' = Beside(rows, [z \in Range(copy) |->
              LET y == original[z]
              IN  [kind   |-> rows[y].kind,
                   parent |-> IF y = x THEN rows[x].parent ELSE copy[rows[y].parent],
                   name   |-> IF y = x THEN name ELSE rows[y].name,
                   secret |-> Masked(rows[y].kind, secret(y))]])
        /\ keychain' = [z \in Ids |->
              IF z \in Range(copy)
              THEN KeptKey(z, secret(original[z]), TRUE)
              ELSE keychain[z]]
        /\ UNCHANGED job

(* Mistake: the mask is copied and not the secret.                         *)
DuplicateMask(x, copy, bare, name) ==
    CopyAs(x, copy, bare, name, [y \in DOMAIN copy |-> rows[y].secret])

(* collections::duplicate and requests::duplicate: each secret is read     *)
(* under its old owner and stored under the new one.                       *)
Duplicate(x, copy, bare, name) ==
    CopyAs(x, copy, bare, name, [y \in DOMAIN copy |-> Hydrated(y)])

-----------------------------------------------------------------------------
(* Exports: files are trees as well.                                       *)

(* collect_node: a collection with its requests and folders.               *)
Collected(x, hydrate) ==
    [y \in Within(rows, x) \intersect Owners(rows) |->
        [rows[y] EXCEPT !.parent = IF y = x THEN Root ELSE @,
                        !.secret = IF hydrate THEN Hydrated(y) ELSE @]]

(* export_full: all but the variables of collections.  Environments lose   *)
(* the collection they were of.                                            *)
Exported(hydrate) ==
    [y \in {z \in DOMAIN rows : rows[z].kind = "var" =>
                                   rows[z].parent \notin OfKind(rows, "coll")} |->
        [rows[y] EXCEPT !.parent = IF rows[y].kind = "env" THEN Root ELSE @,
                        !.secret = IF hydrate THEN Hydrated(y) ELSE @]]

(* export_to_folder writes collections and environments only.              *)
Synced ==
    LET all == Exported(FALSE)
    IN  Restrict(all, {y \in DOMAIN all : all[y].kind = "var" => all[y].parent # Root})

-----------------------------------------------------------------------------
(* Imports.  A job has the file, where it goes and how: into a folder, as  *)
(* a folder under it, or (environment files, and those of a synced folder) *)
(* with its environments made afresh; what to do with requests and         *)
(* variables that are there already; at, the rows that stand for folders   *)
(* and environments of the file; left, the nodes not handled yet; new,     *)
(* the rows it created since it last listed a folder.                      *)

Tops(file) == {f \in DOMAIN file : file[f].parent = Root}

Fits(file, place, placement) ==
    LET kinds == {file[f].kind : f \in DOMAIN file}
        oneTop(kind) == \E f \in Tops(file) : Tops(file) = {f} /\ file[f].kind = kind
    IN  CASE placement = "into"  -> place # Root /\ oneTop("coll") /\ kinds \subseteq {"coll", "req"}
          [] placement = "under" -> place = Root \/ (oneTop("coll") /\ kinds \subseteq {"coll", "req"})
          [] placement = "fresh" -> /\ place = Root \/ oneTop("env")
                                    /\ \A f \in Tops(file) : file[f].kind # "var"

(* apply_collection_import, apply_restman_import, apply_environment_import *)
(* and sync_import, of something made elsewhere or an export of one's own. *)
StartImport(file, place, placement, mode) ==
    /\ Quiet
    /\ file # <<>>
    /\ place = Root \/ place \in OfKind(rows, "coll")
    /\ Fits(file, place, placement)
    /\ job' = [file |-> file, place |-> place, placement |-> placement, mode |-> mode,
               at |-> <<>>, left |-> DOMAIN file, new |-> {}]
    /\ UNCHANGED <<rows, keychain>>

Target(p) == IF p = Root THEN job.place ELSE job.at[p]

(* What is handled, and what comes of it. *)
Handled(done, at, new) ==
    job' = IF job.left = done THEN Idle
           ELSE [job EXCEPT !.at = Beside(job.at, at), !.left = @ \ done, !.new = new]

LeftOf(kinds) == {n \in job.left : job.file[n].kind \in kinds}

(* The contents of a folder or an environment come before the next one;    *)
(* collections come before environments and these before variables of the  *)
(* workspace.                                                              *)
NextContainer(f, kind) ==
    /\ f \in LeftOf({kind})
    /\ job.file[f].parent \in {Root} \union DOMAIN job.at
    /\ \A n \in LeftOf({"req", "var"}) : job.file[n].parent \notin DOMAIN job.at
    /\ kind = "env" => LeftOf({"coll", "req"}) = {}

NextItem(n, kind) ==
    /\ n \in LeftOf({kind})
    /\ \/ job.file[n].parent \in DOMAIN job.at
       \/ job.file[n].parent = Root /\ job.left \subseteq Tops(job.file) /\ LeftOf({"coll", "env"}) = {}

(* Rows of that kind and name at the place where n goes; environments are  *)
(* looked for in the whole workspace.                                      *)
Namesakes(n) ==
    {x \in OfKind(rows, job.file[n].kind) :
        /\ rows[x].name = job.file[n].name
        /\ job.file[n].kind = "env" \/ rows[x].parent = Target(job.file[n].parent)}

(* Requests and variables are looked for among those there when their      *)
(* folder, scope or environment was listed.                                *)
Clashing(n) == Namesakes(n) \ job.new

Put(n, x, name, v) ==
    /\ x \in Fresh
    /\ Insert(x, job.file[n].kind, Target(job.file[n].parent), name, v)

(* apply_import into a folder gives it the auth of the file's, and gives   *)
(* nothing where that has none.                                            *)
EnterTarget(f) ==
    /\ NextContainer(f, "coll")
    /\ job.placement = "into" /\ job.file[f].parent = Root
    /\ IF job.file[f].secret = "none"
       THEN UNCHANGED <<rows, keychain>>
       ELSE Write(job.place, rows[job.place].name, Stripped(job.file[f].secret), TRUE)
    /\ Handled({f}, One(f, job.place), {})

(* apply_node: a folder of that name is used as it is, ...                 *)
EnterFolder(f, c) ==
    /\ NextContainer(f, "coll")
    /\ job.placement # "into" \/ job.file[f].parent # Root
    /\ c \in Namesakes(f)
    /\ Handled({f}, One(f, c), {})
    /\ UNCHANGED <<rows, keychain>>

(* ... or made, and then given its auth: which a locked keychain fails.    *)
ImportFolder(f, x, up) ==
    /\ NextContainer(f, "coll")
    /\ job.placement # "into" \/ job.file[f].parent # Root
    /\ Namesakes(f) = {}
    /\ Put(f, x, job.file[f].name, IF up THEN Stripped(job.file[f].secret) ELSE "none")
    /\ IF up THEN Handled({f}, One(f, x), {}) ELSE job' = Idle

(* Mistake: an existing request is overwritten whatever the mode.          *)
ImportRequestOver(n, x) ==
    /\ NextItem(n, "req")
    /\ IF Clashing(n) = {}
       THEN /\ Put(n, x, job.file[n].name, Stripped(job.file[n].secret))
            /\ Handled({n}, <<>>, job.new \union {x})
       ELSE /\ x \in Clashing(n)
            /\ Write(x, rows[x].name, Stripped(job.file[n].secret), TRUE)
            /\ Handled({n}, <<>>, job.new)

(* apply_requests.  x is the row made, the row written, or none.           *)
ImportRequest(n, x) ==
    /\ NextItem(n, "req")
    /\ \/ /\ Clashing(n) = {}
          /\ Put(n, x, job.file[n].name, Stripped(job.file[n].secret))
          /\ Handled({n}, <<>>, job.new \union {x})
       \/ /\ Clashing(n) # {} /\ job.mode = "skip"
          /\ x = n
          /\ Handled({n}, <<>>, job.new)
          /\ UNCHANGED <<rows, keychain>>
       \/ /\ x \in Clashing(n) /\ job.mode = "overwrite"
          /\ Write(x, rows[x].name, Stripped(job.file[n].secret), TRUE)
          /\ Handled({n}, <<>>, job.new)
       \/ /\ Clashing(n) # {} /\ job.mode = "merge"
          /\ \E alias \in Names \ {rows[y].name : y \in
                  {z \in OfKind(rows, "req") \ job.new :
                      rows[z].parent = Target(job.file[n].parent)}} :
               Put(n, x, alias, Stripped(job.file[n].secret))
          /\ Handled({n}, <<>>, job.new \union {x})

(* apply_environment: one of that name is skipped with all its variables,  *)
(* or used; apply_environment_import makes one each time.                  *)
ImportEnvironment(e, x) ==
    /\ NextContainer(e, "env")
    /\ \/ /\ Namesakes(e) = {} \/ job.placement = "fresh"
          /\ Put(e, x, job.file[e].name, "none")
          /\ Handled({e}, One(e, x), {})
       \/ /\ Namesakes(e) # {} /\ job.placement # "fresh" /\ job.mode = "skip"
          /\ x = e
          /\ Handled({n \in job.left : n = e \/ job.file[n].parent = e}, <<>>, {})
          /\ UNCHANGED <<rows, keychain>>
       \/ /\ x \in Namesakes(e) /\ job.placement # "fresh" /\ job.mode # "skip"
          /\ Handled({e}, One(e, x), {})
          /\ UNCHANGED <<rows, keychain>>

(* apply_variables: an existing secret beats one that is masked.           *)
ImportVariable(n, x) ==
    /\ NextItem(n, "var")
    /\ \/ /\ Clashing(n) = {}
          /\ Put(n, x, job.file[n].name, Stripped(job.file[n].secret))
          /\ Handled({n}, <<>>, job.new \union {x})
       \/ /\ x \in Clashing(n)
          /\ job.mode = "overwrite" /\ job.file[n].secret # "mask"
          /\ Write(x, rows[x].name, job.file[n].secret, TRUE)
          /\ Handled({n}, <<>>, job.new)
       \/ /\ Clashing(n) # {}
          /\ job.mode # "overwrite" \/ job.file[n].secret = "mask"
          /\ x = n
          /\ Handled({n}, <<>>, job.new)
          /\ UNCHANGED <<rows, keychain>>

(* An error or a crash ends an import where it is: nothing is undone.      *)
FailImport ==
    /\ ~Quiet
    /\ job' = Idle
    /\ UNCHANGED <<rows, keychain>>

(* ... or between a secret and its row, made or written.                   *)
ImportLost(n, x) ==
    /\ NextItem(n, "req") \/ NextItem(n, "var")
    /\ \/ Clashing(n) = {} /\ x \in Fresh
       \/ x \in Clashing(n) /\ job.mode = "overwrite"
    /\ job.file[n].secret = "mask" => job.file[n].kind = "req" \/ Clashing(n) = {}
    /\ keychain' = [keychain EXCEPT ![x] =
          KeptKey(x, Stripped(job.file[n].secret), TRUE)]
    /\ job' = Idle
    /\ UNCHANGED rows

-----------------------------------------------------------------------------
Init ==
    /\ rows = <<>>
    /\ keychain = [x \in Ids |-> "absent"]
    /\ job = Idle

Create(x) ==
    /\ Cardinality(DOMAIN rows) < MaxRows
    /\ \E name \in FormNames, p \in {Root} \union DOMAIN rows :
         \/ CreateCollection(x, p, name) \/ CreateEnvironment(x, p, name)
         \/ \E v \in Plain : CreateRequest(x, p, name, v) \/ CreateVariable(x, p, name, v)

Update(x) ==
    \E name \in FormNames, v \in Sendable, up \in BOOLEAN :
        \/ Rename(x, name) \/ UpdateCollectionAuth(x, v, up)
        \/ UpdateRequest(x, name, v, up) \/ UpdateVariable(x, name, v, up)

Lost(x) == \E v \in Plain : CreateLost(x, v) \/ UpdateLost(x, v)

Move(x) ==
    \E p \in {Root} \union DOMAIN rows : MoveCollection(x, p) \/ MoveRequest(x, p)

Delete(x) ==
    \/ \E up \in BOOLEAN : DeleteCollection(x, up) \/ DeleteRequest(x, up) \/ DeleteVariable(x, up)
    \/ DeleteEnvironment(x) \/ DeleteCollectionLost(x)

Copies(x) ==
    \E part \in SUBSET (Within(rows, x) \intersect Owners(rows)) :
        \E copy \in Injection(part, Fresh), bare \in SUBSET part, name \in FormNames :
            Duplicate(x, copy, bare, name)

Start ==
    /\ Cardinality(DOMAIN rows) <= MaxHeld
    /\ \E place \in {Root} \union OfKind(rows, "coll"),
       placement \in {"into", "under", "fresh"}, mode \in {"skip", "overwrite", "merge"},
       file \in Files \union {Synced} \union {Exported(h) : h \in BOOLEAN}
                  \union {Collected(x, FALSE) : x \in OfKind(rows, "coll")} :
        StartImport(file, place, placement, mode)

Import(n) ==
    \/ EnterTarget(n)
    \/ \E x \in DOMAIN rows : EnterFolder(n, x)
    \/ \E x \in Ids \union {n} :
         \/ \E up \in BOOLEAN : ImportFolder(n, x, up)
         \/ ImportRequest(n, x) \/ ImportEnvironment(n, x) \/ ImportVariable(n, x)
         \/ ImportLost(n, x)

Next ==
    /\ Cardinality(DOMAIN rows) <= MaxRows
    /\ \/ \E x \in Ids : Create(x) \/ Lost(x)
       \/ \E x \in DOMAIN rows : Update(x) \/ Move(x) \/ Delete(x) \/ Copies(x)
       \/ DeleteWorkspace
       \/ Start
       \/ \E n \in job.left : Import(n)
       \/ FailImport

Spec == Init /\ [][Next]_vars

-----------------------------------------------------------------------------
(* Properties.                                                             *)

(* Types of the state: no row has a secret in the clear, and an import     *)
(* only goes to rows that are there.                                       *)
TypeOK ==
    /\ DOMAIN rows \subseteq Ids
    /\ \A x \in DOMAIN rows : rows[x] \in Row
    /\ keychain \in [Ids -> {"absent"} \union Secrets]
    /\ ~Quiet =>
         /\ Rooted(job.file) /\ \A n \in DOMAIN job.file : job.file[n] \in FileNode
         /\ job.left \subseteq DOMAIN job.file /\ DOMAIN job.at \subseteq DOMAIN job.file
         /\ job.place # Root => job.place \in OfKind(rows, "coll")
         /\ \A f \in DOMAIN job.at : job.at[f] \in OfKind(rows, job.file[f].kind)

(* However collections are moved, copied and imported, they form a forest  *)
(* (the walks of self_and_descendants and collect_node end) and everything *)
(* has its parent.                                                         *)
Forest == IsForest(rows)

(* The keychain has an entry of x only when a row of x says so, and always *)
(* then but for variables: an empty secret of one is masked as well.       *)
Agrees(x) ==
    LET told == x \in DOMAIN rows /\ rows[x].secret = "mask"
    IN  /\ keychain[x] # "absent" => told
        /\ told => keychain[x] # "absent" \/ rows[x].kind = "var"

(* Row and entry part only when a command reaches one of the stores and    *)
(* not the other (a crash, a row that is gone, a locked keychain, a mask   *)
(* of a secret since removed, the cascade of a whole workspace), and when  *)
(* a collection's delete takes variables with it: an import never does     *)
(* that, nor does a copy, or the sweep of what a delete takes.             *)
PartOnlyByAccident ==
    [][\A x \in Ids : Agrees(x) =>
         \/ Agrees(x)'
         \/ rows' = rows
         \/ keychain' = keychain /\ Quiet
         \/ x \notin DOMAIN rows' /\ rows[x].kind = "var"]_vars

(* Skip and Merge leave every row there was and its secret as they are,    *)
(* but for the auth of the folder that is imported into.                   *)
SkipAndMergeKeep ==
    [][\A x \in DOMAIN rows :
         ~Quiet /\ job.mode # "overwrite" /\ ~(job.placement = "into" /\ x = job.place) =>
            x \in DOMAIN rows' /\ rows'[x] = rows[x] /\ keychain'[x] = keychain[x]]_vars

(* A file whose secrets are all masked takes no secret from the keychain:  *)
(* masks are only cleared for owners that are new (interop/mod.rs:148).    *)
MaskedImportsKeepSecrets ==
    [][~Quiet /\ (\A n \in DOMAIN job.file : job.file[n].secret = "mask") =>
         \A x \in DOMAIN rows :
            Hydrated(x) \in Secrets => x \in DOMAIN rows' /\ Hydrated(x)' = Hydrated(x)]_vars

(* With the masks replaced by what the keychain has, this is a tree whose  *)
(* nodes have secrets of their own: no command touches a secret that is    *)
(* not its node's, and a copy shares nothing with its original.            *)
Tree == INSTANCE SecretTree WITH tree <- [x \in DOMAIN rows |->
            [rows[x] EXCEPT !.secret = Hydrated(x)]]
ImplementsTree == Tree!Spec
=============================================================================
