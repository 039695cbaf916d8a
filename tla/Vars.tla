-------------------------------- MODULE Vars --------------------------------
(***************************************************************************)
(* Variables: which scopes a send reads, how their values fill the         *)
(* placeholders of a text, and how secrets are taken out again.            *)
(*                                                                         *)
(* A text is a sequence of tokens; a token that is a key stands for        *)
(* {{key}}.  A secret is a text of one token, so one replacement of it     *)
(* never cuts another in two.                                              *)
(***************************************************************************)
EXTENDS Naturals, Sequences, SequencesExt, Functions

CONSTANTS Keys,         \* the names of variables
          Collections,
          Environments,
          EnvCollection, \* environment -> its collection, or None
          None, Global, Workspace, Mask

Scopes == {Global, Workspace} \union Collections \union Environments

Owners == Collections \union {None}

(* rows : what each scope holds of each key, in the order listed: nothing  *)
(* keeps a key from having several rows.  A secret's value is that of its  *)
(* keychain entry.  active : the workspace's active environment; locked :  *)
(* the keychain.                                                           *)
VARIABLES rows, active, locked

Row(value) == [value |-> value, secret |-> FALSE, on |-> TRUE]

(* What a row has. *)
IsRow(row) == DOMAIN row = DOMAIN Row(<<>>)

IsList(list) == list \in Seq(Range(list)) /\ \A i \in DOMAIN list : IsRow(list[i])

Empty == [k \in Keys |-> <<>>]

Over(f, g) == [k \in DOMAIN f \union DOMAIN g |-> IF k \in DOMAIN g THEN g[k] ELSE f[k]]

On(list) == {i \in DOMAIN list : list[i].on}

Enabled(scope) == {k \in Keys : On(rows[scope][k]) # {}}

(* A secret that cannot be read counts as empty. *)
Value(row) == IF row.secret /\ locked THEN <<>> ELSE row.value

Applies(env, coll) == env # None /\ EnvCollection[env] \in {None, coll}

(* The scopes of a send, the strongest last. *)
ScopesOf(coll) ==
    <<Global, Workspace>>
        \o (IF coll = None THEN <<>> ELSE <<coll>>)
        \o (IF Applies(active, coll) THEN <<active>> ELSE <<>>)

(* Of several rows the last that is not disabled counts. *)
Current(list) == list[Max(On(list))]

Values(scope) == [k \in Enabled(scope) |-> Value(Current(rows[scope][k]))]

Resolved(coll) ==
    LET shared == Over(Values(Global), Values(Workspace))
        own == IF coll = None THEN shared ELSE Over(shared, Values(coll))
    IN  IF Applies(active, coll) THEN Over(own, Values(active)) ELSE own

(* The secrets that were read, overridden or not. *)
SecretsOf(coll) ==
    UNION {LET list == rows[at[1]][at[2]]
           IN  {Value(list[i]) : i \in {i \in On(list) : list[i].secret}} :
              at \in Range(ScopesOf(coll)) \X Keys} \ {<<>>}

(* A placeholder without a value stays. *)
Interpolate(text, values) ==
    FlattenSeq([i \in DOMAIN text |->
        IF text[i] \in DOMAIN values THEN values[text[i]] ELSE <<text[i]>>])

Redact(text, secrets) ==
    [i \in DOMAIN text |-> IF <<text[i]>> \in secrets THEN Mask ELSE text[i]]
=============================================================================
