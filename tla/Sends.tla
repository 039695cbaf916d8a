-------------------------------- MODULE Sends --------------------------------
(***************************************************************************)
(* Sending a request: variables are resolved and the draft is filled in    *)
(* under the database lock, scripts run and the request goes out without   *)
(* it, and under it again what the scripts set is written back and the     *)
(* attempt is recorded.  Meanwhile other sends do the same and the user    *)
(* edits variables, switches environments, deletes and changes settings.   *)
(* One workspace.  A script is its net effect: what it sets, as texts over *)
(* the variables it reads, and what it unsets.                             *)
(***************************************************************************)
EXTENDS Vars, Integers, FiniteSets

CONSTANTS Drafts, PreScripts, PostScripts,
          Edits,         \* rows the user may save
          InitialRows,
          Retentions,    \* settings of the user; a negative one is no limit
          MaxSends, MaxEffort, MaxClock   \* bounds

ASSUME SendsAssumption ==
    /\ MaxSends \in Nat
    /\ Retentions \subseteq Int
    /\ \A row \in Edits : IsRow(row)
    /\ \A r \in InitialRows : /\ DOMAIN r = Scopes
                              /\ \A s \in Scopes : /\ DOMAIN r[s] = Keys
                                                   /\ \A k \in Keys : IsList(r[s][k])
    /\ \A script \in PreScripts \union PostScripts : DOMAIN script.set \subseteq Keys

(* collections, environments : those that exist; history : set of entries; *)
(* now : the clock, in milliseconds; effort : what the user did so far.    *)
VARIABLES sends, collections, environments, history, retention, now, effort

tables == <<rows, active, locked, collections, environments>>
sendVars == <<tables, sends, history, retention, now, effort>>

SendIds == 1 .. MaxSends

(* The bound of a behaviour: an act of the user takes two of it, a send    *)
(* three, a run four.                                                      *)
Takes(n) == effort + n <= MaxEffort /\ effort' = effort + n
Acts == Takes(2)

NoEffect == [set |-> <<>>, unset |-> {}]

Idle == [stage |-> "idle", coll |-> None, values |-> <<>>, secrets |-> {},
         url |-> <<>>, text |-> <<>>, shown |-> <<>>, pass |-> <<>>, keyed |-> FALSE,
         pre |-> NoEffect, post |-> NoEffect, ok |-> FALSE]

New(s) == sends[s] = Idle /\ \A r \in 1 .. s - 1 : sends[r] # Idle

-----------------------------------------------------------------------------
(* The command.                                                            *)

Filled(send, values) ==
    [send EXCEPT !.url = Interpolate(send.url, values),
                 !.text = Interpolate(send.text, values),
                 !.shown = Interpolate(send.shown, values),
                 !.pass = Interpolate(send.pass, values)]

(* url : of the draft, and the values of its query; text : those of its    *)
(* headers and its body; shown : header names, query keys and what of the  *)
(* auth is no secret; pass : what is secret of the auth; keyed : whether   *)
(* that goes into the query, as an API key may.                            *)
Begin(s, coll, draft) ==
    /\ New(s)
    /\ Takes(3)
    /\ LET values == Resolved(coll)
           send == [Idle EXCEPT !.stage = "resolved", !.coll = coll,
                                !.values = values, !.secrets = SecretsOf(coll),
                                !.url = draft.url, !.text = draft.text,
                                !.shown = draft.shown, !.pass = draft.pass,
                                !.keyed = draft.keyed]
       IN  sends' = [sends EXCEPT ![s] = Filled(send, values)]
    /\ UNCHANGED <<tables, history, retention, now>>

(* A script that sets a variable to others' values reads them first. *)
Effect(script, values) ==
    [set |-> [k \in DOMAIN script.set |-> Interpolate(script.set[k], values)],
     unset |-> script.unset]

(* The auth is looked up, then the script of the request runs; what it set *)
(* fills the placeholders that are left.                                   *)
Prepare(s, script) ==
    /\ sends[s].stage = "resolved"
    /\ sends[s].coll \in collections \union {None}
    /\ LET effect == Effect(script, sends[s].values)
           send == [sends[s] EXCEPT !.stage = "ready", !.pre = effect]
       IN  sends' = [sends EXCEPT ![s] =
                        IF DOMAIN effect.set = {} THEN send
                        ELSE Filled(send, Over(send.values, effect.set))]
    /\ UNCHANGED <<tables, history, retention, now, effort>>

(* The variables the second script reads have what the first one set, and  *)
(* what it unset.                                                          *)
Exchange(s, script) ==
    /\ sends[s].stage = "ready"
    /\ LET post == Effect(script, Over(sends[s].values, sends[s].pre.set))
       IN  sends' = [sends EXCEPT ![s].stage = "answered", ![s].ok = TRUE, ![s].post = post]
    /\ UNCHANGED <<tables, history, retention, now, effort>>

SendFails(s) ==
    /\ sends[s].stage = "ready"
    /\ sends' = [sends EXCEPT ![s].stage = "answered"]
    /\ UNCHANGED <<tables, history, retention, now, effort>>

(* No auth, no transport, a script that aborts or cannot run: no record.   *)
Abandon(s) ==
    /\ sends[s].stage \in {"resolved", "ready"}
    /\ sends' = [sends EXCEPT ![s] = [Idle EXCEPT !.stage = "gone"]]
    /\ UNCHANGED <<tables, history, retention, now, effort>>

-----------------------------------------------------------------------------
(* What the scripts leave behind.                                          *)

Net(send) ==
    LET kept == DOMAIN send.pre.set \ send.post.unset
    IN  [set |-> Over(Restrict(send.pre.set, kept), send.post.set),
         unset |-> (send.pre.unset \ DOMAIN send.post.set) \union send.post.unset]

(* Mistake: what any active environment of the workspace gets. *)
PersistScopeAnyActive(coll) == IF active # None THEN active ELSE Workspace

PersistScope(coll) == IF Applies(active, coll) THEN active ELSE Workspace

(* What of net.set is written, in the order of the scripts: the first      *)
(* secret that the keychain refuses ends it.                               *)
Written(send, scope) ==
    LET late == DOMAIN send.post.set
        early == DOMAIN Net(send).set \ late
        refused == {k \in Keys : locked /\ rows[scope][k] # <<>> /\ Last(rows[scope][k]).secret}
        upTo(part) == IF part \intersect refused = {} THEN {part} ELSE SUBSET (part \ refused)
    IN  IF early \intersect refused # {} THEN upTo(early)
        ELSE {early \union w : w \in upTo(late)}

(* A write goes to the last row listed of its key, disabled or not. *)
Rewritten(list, value) ==
    IF list = <<>> THEN <<Row(value)>> ELSE [list EXCEPT ![Len(list)].value = value]

(* Mistake: the variables as the scripts saw them are written. *)
PersistAll(send, scope, written) ==
    [k \in Keys |->
        IF k \in written THEN Rewritten(rows[scope][k], Net(send).set[k])
        ELSE IF k \in DOMAIN send.values /\ rows[scope][k] # <<>>
        THEN Rewritten(rows[scope][k], send.values[k])
        ELSE rows[scope][k]]

(* Rows that exist stay secret, or disabled; unsets come last and take one *)
(* row each.                                                               *)
Persisted(send, scope, written) ==
    LET net == Net(send)
        gone == IF written = DOMAIN net.set THEN net.unset ELSE {}
    IN  [k \in Keys |->
            IF k \in written THEN Rewritten(rows[scope][k], net.set[k])
            ELSE IF k \in gone /\ rows[scope][k] # <<>> THEN Front(rows[scope][k])
            ELSE rows[scope][k]]

(* Mistake: the oldest are kept. *)
TrimmedToOldest(h, limit) ==
    IF limit < 0 \/ Cardinality(h) <= limit THEN {h}
    ELSE {k \in SUBSET h : /\ Cardinality(k) = limit
                           /\ \A gone \in h \ k, left \in k : gone.at >= left.at}

(* Which of several entries of one millisecond go is not said. *)
Trimmed(h, limit) ==
    IF limit < 0 \/ Cardinality(h) <= limit THEN {h}
    ELSE {k \in SUBSET h : /\ Cardinality(k) = limit
                           /\ \A gone \in h \ k, left \in k : gone.at <= left.at}

(* Best effort: no row whose request was deleted meanwhile. *)
WithEntry(entry) == {history} \union Trimmed(history \union {entry}, retention)

Masked(pass) == IF pass = <<>> THEN <<>> ELSE <<Mask>>

(* The URL that an answer or an error names: the one sent, with an API key *)
(* of the query, or one that the server redirected to.                     *)
Told(send) == {<<>>, IF send.keyed THEN send.url \o send.pass ELSE send.url}

(* Mistake: a failed attempt is recorded as it was made. *)
EntryOnlyRedactedIfOk(s, told) ==
    LET send == sends[s]
        redacted(text) == IF send.ok THEN Redact(text, send.secrets) ELSE text
    IN  [of |-> s, at |-> now, known |-> send.secrets, shown |-> send.shown,
         url |-> redacted(send.url), text |-> redacted(send.text),
         pass |-> Masked(send.pass), keyed |-> send.keyed, told |-> told]

(* The answer or the error is stored as it is.  known is not stored: the   *)
(* secrets that this attempt had read.                                     *)
Entry(s, told) ==
    LET send == sends[s]
    IN  [of |-> s, at |-> now, known |-> send.secrets, shown |-> send.shown,
         url |-> Redact(send.url, send.secrets), text |-> Redact(send.text, send.secrets),
         pass |-> Masked(send.pass), keyed |-> send.keyed, told |-> told]

Record(s) ==
    /\ sends[s].stage = "answered"
    /\ sends' = [sends EXCEPT ![s] = [Idle EXCEPT !.stage = "recorded"]]
    /\ LET scope == PersistScope(sends[s].coll)
       IN  \E written \in Written(sends[s], scope) :
              rows' = [rows EXCEPT ![scope] = Persisted(sends[s], scope, written)]
    /\ \E told \in Told(sends[s]) : history' \in WithEntry(Entry(s, told))
    /\ UNCHANGED <<active, locked, collections, environments, retention, now, effort>>

-----------------------------------------------------------------------------
(* An entry of the history is sent again as it is and recorded again.      *)

Replay(s, e) ==
    /\ New(s)
    /\ Acts
    /\ e \in history
    /\ sends' = [sends EXCEPT ![s] =
                    [Idle EXCEPT !.stage = "replayed", !.secrets = e.known,
                                 !.url = e.url, !.text = e.text, !.shown = e.shown,
                                 !.pass = e.pass, !.keyed = e.keyed]]
    /\ UNCHANGED <<tables, history, retention, now>>

RecordReplay(s) ==
    /\ sends[s].stage = "replayed"
    /\ sends' = [sends EXCEPT ![s] = [Idle EXCEPT !.stage = "recorded"]]
    /\ LET send == sends[s]
           entry(told) == [of |-> s, at |-> now, known |-> send.secrets, shown |-> send.shown,
                           url |-> send.url, text |-> send.text,
                           pass |-> send.pass, keyed |-> send.keyed, told |-> told]
       IN  \E told \in Told(send) : history' \in WithEntry(entry(told))
    /\ UNCHANGED <<tables, retention, now, effort>>

-----------------------------------------------------------------------------
(* The user, and the clock.                                                *)

Existing == {Global, Workspace} \union collections \union environments

CreateVariable(scope, k, row) ==
    /\ Acts
    /\ scope \in Existing
    /\ row.secret => ~locked
    /\ rows' = [rows EXCEPT ![scope][k] = Append(@, row)]
    /\ UNCHANGED <<active, locked, collections, environments, sends, history, retention, now>>

(* A row that gets another key stays where it was in the list. *)
UpdateVariable(scope, k, i, row, key) ==
    /\ Acts
    /\ i \in DOMAIN rows[scope][k]
    /\ row.secret => ~locked
    /\ IF key = k THEN rows' = [rows EXCEPT ![scope][k][i] = row]
       ELSE \E at \in 1 .. Len(rows[scope][key]) + 1 :
               rows' = [rows EXCEPT ![scope][k] = RemoveAt(@, i),
                                    ![scope][key] = InsertAt(@, at, row)]
    /\ UNCHANGED <<active, locked, collections, environments, sends, history, retention, now>>

DeleteVariable(scope, k, i) ==
    /\ Acts
    /\ i \in DOMAIN rows[scope][k]
    /\ rows' = [rows EXCEPT ![scope][k] = RemoveAt(@, i)]
    /\ UNCHANGED <<active, locked, collections, environments, sends, history, retention, now>>

SetActiveEnvironment(env) ==
    /\ Acts
    /\ env \in (environments \union {None}) \ {active}
    /\ active' = env
    /\ UNCHANGED <<rows, locked, collections, environments, sends, history, retention, now>>

Drop(colls, envs) ==
    /\ collections' = collections \ colls
    /\ environments' = environments \ envs
    /\ rows' = [s \in Scopes |-> IF s \in colls \union envs THEN Empty ELSE rows[s]]
    /\ active' = IF active \in envs THEN None ELSE active
    /\ UNCHANGED <<locked, sends, history, retention, now>>

DeleteEnvironment(env) ==
    /\ Acts
    /\ env \in environments
    /\ Drop({}, {env})

(* The foreign keys take its environments with it. *)
DeleteCollection(coll) ==
    /\ Acts
    /\ coll \in collections
    /\ Drop({coll}, {e \in environments : EnvCollection[e] = coll})

(* External: the keychain of the system is locked, or unlocked. *)
Keychain ==
    /\ Acts
    /\ locked' = ~locked
    /\ UNCHANGED <<rows, active, collections, environments, sends, history, retention, now>>

SetRetention(limit) ==
    /\ Acts
    /\ limit # retention
    /\ retention' = limit
    /\ history' \in Trimmed(history, limit)
    /\ UNCHANGED <<tables, sends, now>>

DeleteHistoryEntry(e) ==
    /\ Acts
    /\ e \in history
    /\ history' = history \ {e}
    /\ UNCHANGED <<tables, sends, retention, now>>

ClearHistory ==
    /\ Acts
    /\ history # {}
    /\ history' = {}
    /\ UNCHANGED <<tables, sends, retention, now>>

(* The time before the first entry makes no difference. *)
Tick ==
    /\ history # {}
    /\ now < MaxClock
    /\ now' = now + 1
    /\ UNCHANGED <<tables, sends, history, retention, effort>>

-----------------------------------------------------------------------------

SendsInit ==
    /\ rows \in InitialRows
    /\ active \in Environments \union {None}
    /\ locked = FALSE
    /\ collections = Collections /\ environments = Environments
    /\ sends = [s \in SendIds |-> Idle]
    /\ history = {}
    /\ retention \in Retentions
    /\ now = 0 /\ effort = 0

Sending(s) ==
    \/ \E coll \in Owners, draft \in Drafts : Begin(s, coll, draft)
    \/ \E script \in PreScripts : Prepare(s, script)
    \/ \E script \in PostScripts : Exchange(s, script)
    \/ SendFails(s)
    \/ Abandon(s)
    \/ Record(s)
    \/ \E e \in history : Replay(s, e)
    \/ RecordReplay(s)

User ==
    \/ \E scope \in Scopes, k \in Keys, row \in Edits : CreateVariable(scope, k, row)
    \/ \E scope \in Scopes, k \in Keys : \E i \in DOMAIN rows[scope][k] :
          \/ DeleteVariable(scope, k, i)
          \/ \E row \in Edits, key \in Keys : UpdateVariable(scope, k, i, row, key)
    \/ \E env \in Environments \union {None} : SetActiveEnvironment(env)
    \/ \E env \in Environments : DeleteEnvironment(env)
    \/ \E coll \in Collections : DeleteCollection(coll)
    \/ Keychain
    \/ \E limit \in Retentions : SetRetention(limit)
    \/ \E e \in history : DeleteHistoryEntry(e)
    \/ ClearHistory

-----------------------------------------------------------------------------

Finished(s) == sends[s].stage = "answered" /\ sends'[s].stage = "recorded"

(* What a script sets is what the next send from the same place reads:     *)
(* persist_scope and resolve agree on the environment, whichever is active *)
(* by then, and, of several rows of the key, on the row.  Except while the *)
(* keychain is locked, for a variable of the workspace that one of the     *)
(* collection overrides, and for a key whose last row is disabled: that    *)
(* row is written, and an enabled one before it, if any, is still read.    *)
WritesAreRead ==
    [][\A s \in SendIds, coll \in Owners :
        Finished(s) /\ coll = sends[s].coll /\ ~locked =>
         LET set == Net(sends[s]).set
         IN  \A k \in DOMAIN set :
                \/ k \in DOMAIN Resolved(coll)' /\ Resolved(coll)'[k] = set[k]
                \/ IF Applies(active, coll) THEN ~Last(rows'[active][k]).on
                   ELSE \/ ~Last(rows'[Workspace][k]).on
                        \/ coll # None /\ k \in Enabled(coll)]_sendVars

(* Writing back takes nothing of what others did meanwhile: only the keys  *)
(* that the scripts set or unset change, in one scope; of several rows of  *)
(* a key only the last; and a row stays secret or disabled when it was.    *)
OnlyScriptedKeysChange ==
    [][\A s \in SendIds : Finished(s) =>
         LET net == Net(sends[s])
             touched == {p \in Scopes \X Keys : rows'[p[1]][p[2]] # rows[p[1]][p[2]]}
         IN  /\ \A p, q \in touched : p[1] = q[1]
             /\ \A p \in touched :
                    LET old == rows[p[1]][p[2]]
                        new == rows'[p[1]][p[2]]
                    IN  \/ p[2] \in net.unset /\ old # <<>> /\ new = Front(old)
                        \/ /\ p[2] \in DOMAIN net.set
                           /\ new = IF old = <<>> THEN <<Row(net.set[p[2]])>>
                                    ELSE [old EXCEPT ![Len(old)].value = net.set[p[2]]]]_sendVars

(* No text of a request that goes into the history has a secret which the  *)
(* attempt had read when it resolved its variables, not even one that a    *)
(* script put under another name, or that a replay repeats.  The URL of    *)
(* the answer or of the error beside it is not redacted: it has one only   *)
(* where the request's own URL shows the mask, or its auth an API key in   *)
(* the query.  What the server says and how scripts name their tests is    *)
(* stored as well, and theirs.                                             *)
SecretsStayOutOfHistory ==
    \A e \in history :
        LET secret(text) == \E i \in DOMAIN text : <<text[i]>> \in e.known \ {<<Mask>>}
        IN  /\ ~secret(e.url) /\ ~secret(e.text)
            /\ e.pass \in {<<>>, <<Mask>>}
            /\ secret(e.told) => Mask \in Range(e.url) \/ e.keyed

(* The history never has more entries than the user allows, and an entry   *)
(* that the user did not delete goes only for one that is not older.       *)
RetentionKeepsTheNewest ==
    [][/\ retention' >= 0 => Cardinality(history') <= retention'
       /\ \/ \A gone \in history \ history', left \in history' : gone.at <= left.at
          \/ history' \subseteq history /\ UNCHANGED <<sends, retention>>]_sendVars
=============================================================================
