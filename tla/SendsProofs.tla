----------------------------- MODULE SendsProofs -----------------------------
(***************************************************************************)
(* For any scripts, drafts, variables and number of sends, beside any run: *)
(* what the history never has, which of its entries are kept, and what     *)
(* writing back changes and leaves to the next send.  For any collection,  *)
(* iterations and width: the order of a run's results, and its waves.      *)
(***************************************************************************)
EXTENDS Runner, FiniteSetTheorems, TLAPS

HasSecret(text, secrets) == \E i \in DOMAIN text : <<text[i]>> \in secrets \ {<<Mask>>}

(* What a send needs to be to be recorded; one that repeats an entry is as *)
(* clean as the entry.                                                     *)
Clean(url, text, pass, secrets) ==
    /\ ~HasSecret(url, secrets) /\ ~HasSecret(text, secrets)
    /\ pass \in {<<>>, <<Mask>>}

CleanEntry(e) ==
    /\ Clean(e.url, e.text, e.pass, e.known)
    /\ HasSecret(e.told, e.known) => Mask \in Range(e.url) \/ e.keyed

Sound(send) ==
    /\ {"stage", "url", "text", "pass", "keyed", "secrets", "pre", "post"} \subseteq DOMAIN send
    /\ DOMAIN send.pre.set \subseteq Keys /\ DOMAIN send.post.set \subseteq Keys
    /\ send.stage = "replayed" => Clean(send.url, send.text, send.pass, send.secrets)

SendsSound == DOMAIN sends = SendIds /\ \A s \in SendIds : Sound(sends[s])

Within(h, limit) == limit >= 0 => Cardinality(h) <= limit

Kept == retention \in Int /\ IsFiniteSet(history) /\ Within(history, retention)

HistoryInv == SendsSound /\ SecretsStayOutOfHistory /\ Kept

-----------------------------------------------------------------------------
(* The operators.                                                          *)

LEMMA HistoryIsClean == SecretsStayOutOfHistory <=> \A e \in history : CleanEntry(e)
BY DEF SecretsStayOutOfHistory, CleanEntry, Clean, HasSecret

LEMMA RedactedIsClean ==
    ASSUME NEW text, NEW secrets
    PROVE  /\ ~HasSecret(Redact(text, secrets), secrets)
           /\ HasSecret(text, secrets) => Mask \in Range(Redact(text, secrets))
<1>1. ~HasSecret(Redact(text, secrets), secrets)
  BY DEF HasSecret, Redact
<1>2. ASSUME HasSecret(text, secrets) PROVE Mask \in Range(Redact(text, secrets))
  <2>1. PICK i \in DOMAIN text : <<text[i]>> \in secrets
    BY <1>2 DEF HasSecret
  <2>2. i \in DOMAIN Redact(text, secrets) /\ Redact(text, secrets)[i] = Mask
    BY <2>1 DEF Redact
  <2> QED
    BY <2>2 DEF Range
<1> QED
  BY <1>1, <1>2

(* Where the URL of an answer has a secret, that of the request had it.    *)
LEMMA ToldWasSent ==
    ASSUME NEW send, NEW told \in Told(send), NEW secrets, HasSecret(told, secrets)
    PROVE  send.keyed \/ HasSecret(send.url, secrets)
<1>1. ~HasSecret(<<>>, secrets)
  BY DEF HasSecret
<1>2. told = IF send.keyed THEN send.url \o send.pass ELSE send.url
  BY <1>1 DEF Told
<1> QED
  BY <1>2

LEMMA EntryIsClean ==
    ASSUME NEW s, NEW told \in Told(sends[s])
    PROVE  CleanEntry(Entry(s, told))
<1> DEFINE e == Entry(s, told)
           secrets == sends[s].secrets
<1>1. /\ e.url = Redact(sends[s].url, secrets) /\ e.text = Redact(sends[s].text, secrets)
      /\ e.pass \in {<<>>, <<Mask>>} /\ e.known = secrets
      /\ e.told = told /\ e.keyed = sends[s].keyed
  BY DEF Entry, Masked
<1> HIDE DEF e
<1>2. Clean(e.url, e.text, e.pass, e.known)
  BY <1>1, RedactedIsClean DEF Clean
<1>3. ASSUME HasSecret(e.told, e.known) PROVE Mask \in Range(e.url) \/ e.keyed
  BY <1>1, <1>3, RedactedIsClean, ToldWasSent
<1> QED
  BY <1>2, <1>3 DEF CleanEntry, e

LEMMA StageKeepsSound ==
    ASSUME NEW send, Sound(send), NEW stage, stage # "replayed"
    PROVE  Sound([send EXCEPT !.stage = stage])
BY DEF Sound

LEMMA IdleIsSound == Sound(Idle)
BY DEF Sound, Idle, NoEffect

LEMMA FilledIsSound ==
    ASSUME NEW send, Sound(send), send.stage # "replayed", NEW values
    PROVE  Sound(Filled(send, values))
<1> DEFINE filled == Filled(send, values)
<1>1. /\ DOMAIN filled = DOMAIN send
      /\ filled.stage = send.stage /\ filled.pre = send.pre /\ filled.post = send.post
  BY DEF Filled, Sound
<1> QED
  BY <1>1 DEF Sound

LEMMA OneSendChanges ==
    ASSUME SendsSound, NEW s \in SendIds, NEW send, Sound(send),
           sends' = [sends EXCEPT ![s] = send]
    PROVE  SendsSound'
BY DEF SendsSound

LEMMA TrimmedIsWithin ==
    ASSUME NEW h, IsFiniteSet(h), NEW limit \in Int, NEW kept \in Trimmed(h, limit)
    PROVE  kept \subseteq h /\ IsFiniteSet(kept) /\ Within(kept, limit)
<1>1. kept \subseteq h
  BY DEF Trimmed
<1>2. IsFiniteSet(kept)
  BY <1>1, FS_Subset
<1>3. Cardinality(h) \in Nat
  BY FS_CardinalityType
<1> QED
  BY <1>1, <1>2, <1>3 DEF Trimmed, Within

LEMMA EntryIsWithin ==
    ASSUME Kept, NEW e, NEW h \in WithEntry(e), SecretsStayOutOfHistory,
           CleanEntry(e), history' = h, retention' = retention
    PROVE  Kept' /\ SecretsStayOutOfHistory'
<1>1. IsFiniteSet(history \union {e})
  BY FS_AddElement DEF Kept
<1>2. CASE h = history
  BY <1>2 DEF Kept, Within, SecretsStayOutOfHistory
<1>3. CASE h \in Trimmed(history \union {e}, retention)
  <2>1. h \subseteq history \union {e} /\ IsFiniteSet(h) /\ Within(h, retention)
    BY <1>1, <1>3, TrimmedIsWithin DEF Kept
  <2>2. \A other \in h : CleanEntry(other)
    BY <2>1, HistoryIsClean
  <2>3. SecretsStayOutOfHistory'
    BY <2>2 DEF SecretsStayOutOfHistory, CleanEntry, Clean, HasSecret
  <2> QED
    BY <2>1, <2>3 DEF Kept, Within
<1> QED
  BY <1>2, <1>3 DEF WithEntry

LEMMA FewerAreWithin ==
    ASSUME Kept, NEW h, h \subseteq history, history' = h,
           SecretsStayOutOfHistory, retention' = retention
    PROVE  Kept' /\ SecretsStayOutOfHistory'
<1>1. IsFiniteSet(h) /\ Cardinality(h) <= Cardinality(history)
  BY FS_Subset DEF Kept
<1>2. Cardinality(h) \in Nat /\ Cardinality(history) \in Nat
  BY <1>1, FS_CardinalityType DEF Kept
<1> QED
  BY <1>1, <1>2 DEF Kept, Within, SecretsStayOutOfHistory

(* What of the user is no edit of a variable.                              *)
Act ==
    \/ \E env \in Environments \union {None} : SetActiveEnvironment(env)
    \/ \E env \in Environments : DeleteEnvironment(env)
    \/ \E coll \in Collections : DeleteCollection(coll)
    \/ Keychain
    \/ \E limit \in Retentions : SetRetention(limit)
    \/ \E e \in history : DeleteHistoryEntry(e)
    \/ ClearHistory

LEMMA UserEditsOrActs ==
    ASSUME User
    PROVE  \/ Act
           \/ /\ UNCHANGED <<active, locked, collections, environments, sends, history, retention>>
              /\ DOMAIN rows' = DOMAIN rows
<1> DEFINE Rest == /\ UNCHANGED <<active, locked, collections, environments,
                                  sends, history, retention>>
                   /\ DOMAIN rows' = DOMAIN rows
<1>1. ASSUME NEW scope, NEW k, NEW row, CreateVariable(scope, k, row) PROVE Rest
  BY <1>1 DEF CreateVariable
<1>2. ASSUME NEW scope, NEW k, NEW i, DeleteVariable(scope, k, i) PROVE Rest
  BY <1>2 DEF DeleteVariable
<1>3. ASSUME NEW scope, NEW k, NEW i, NEW row, NEW key, UpdateVariable(scope, k, i, row, key)
      PROVE  Rest
  <2>1. CASE key = k
    BY <1>3, <2>1 DEF UpdateVariable
  <2>2. CASE key # k
    BY <1>3, <2>2 DEF UpdateVariable
  <2> QED
    BY <2>1, <2>2
<1> QED
  BY <1>1, <1>2, <1>3 DEF User, Act

-----------------------------------------------------------------------------
(* The invariant.                                                          *)

LEMMA InitHistory == Init => HistoryInv
<1> SUFFICES ASSUME Init PROVE HistoryInv
  OBVIOUS
<1>1. SendsSound
  BY IdleIsSound DEF Init, SendsInit, SendsSound
<1>2. SecretsStayOutOfHistory
  BY DEF Init, SendsInit, SecretsStayOutOfHistory
<1>3. Kept
  BY FS_EmptySet, SendsAssumption DEF Init, SendsInit, Kept, Within
<1> QED
  BY <1>1, <1>2, <1>3 DEF HistoryInv

LEMMA SendingKeepsHistory ==
    ASSUME HistoryInv, NEW s \in SendIds, Sending(s)
    PROVE  HistoryInv'
<1>a. SendsSound /\ SecretsStayOutOfHistory /\ Kept /\ Sound(sends[s])
  BY DEF HistoryInv, SendsSound
<1>b. ASSUME NEW send, Sound(send), sends' = [sends EXCEPT ![s] = send],
             UNCHANGED <<history, retention>>
      PROVE  HistoryInv'
  BY <1>a, <1>b, OneSendChanges DEF HistoryInv, Kept, SecretsStayOutOfHistory
<1>1. ASSUME NEW coll \in Owners, NEW draft \in Drafts, Begin(s, coll, draft)
      PROVE  HistoryInv'
  <2> DEFINE from == [Idle EXCEPT !.stage = "resolved", !.coll = coll,
                                  !.values = Resolved(coll), !.secrets = SecretsOf(coll),
                                  !.url = draft.url, !.text = draft.text,
                                  !.shown = draft.shown, !.pass = draft.pass,
                                  !.keyed = draft.keyed]
             send == Filled(from, Resolved(coll))
  <2>1. sends' = [sends EXCEPT ![s] = send] /\ UNCHANGED <<history, retention>>
    BY <1>1 DEF Begin
  <2>2. Sound(from) /\ from.stage = "resolved"
    <3>1. /\ DOMAIN from = DOMAIN Idle
          /\ from.pre = Idle.pre /\ from.post = Idle.post
          /\ "stage" \in DOMAIN Idle
      BY DEF Idle
    <3>2. from.stage = "resolved"
      BY DEF Idle
    <3> HIDE DEF from
    <3> QED
      BY <3>1, <3>2, IdleIsSound DEF Sound
  <2>3. Sound(send)
    BY <2>2, FilledIsSound
  <2> QED
    BY <1>b, <2>1, <2>3
<1>2. ASSUME NEW script \in PreScripts, Prepare(s, script) PROVE HistoryInv'
  <2>1. UNCHANGED <<history, retention>>
    BY <1>2 DEF Prepare
  <2> DEFINE effect == Effect(script, sends[s].values)
             ready == [sends[s] EXCEPT !.stage = "ready", !.pre = effect]
             filled == Filled(ready, Over(ready.values, effect.set))
  <2>2. DOMAIN effect.set \subseteq Keys
    BY SendsAssumption DEF Effect
  <2>3. sends' = [sends EXCEPT ![s] = IF DOMAIN effect.set = {} THEN ready ELSE filled]
    BY <1>2, <1>a DEF Prepare, Sound
  <2> HIDE DEF effect
  <2>4. Sound(ready) /\ ready.stage = "ready"
    BY <1>a, <2>2 DEF Sound
  <2>5. Sound(filled)
    BY <2>4, FilledIsSound
  <2> QED
    BY <1>b, <2>1, <2>3, <2>4, <2>5
<1>3. ASSUME NEW script \in PostScripts, Exchange(s, script) PROVE HistoryInv'
  <2>1. UNCHANGED <<history, retention>>
    BY <1>3 DEF Exchange
  <2> DEFINE effect == Effect(script, Over(sends[s].values, sends[s].pre.set))
             send == [sends[s] EXCEPT !.stage = "answered", !.ok = TRUE, !.post = effect]
  <2>2. DOMAIN effect.set \subseteq Keys
    BY SendsAssumption DEF Effect
  <2>3. sends' = [sends EXCEPT ![s] = send]
    BY <1>3 DEF Exchange
  <2> HIDE DEF effect
  <2>4. Sound(send)
    BY <1>a, <2>2 DEF Sound
  <2> QED
    BY <1>b, <2>1, <2>3, <2>4
<1>4. CASE SendFails(s)
  <2>1. UNCHANGED <<history, retention>>
    BY <1>4 DEF SendFails
  <2> QED
    BY <1>a, <1>b, <1>4, <2>1 DEF SendFails, Sound
<1>5. CASE Abandon(s)
  BY <1>b, <1>5, IdleIsSound, StageKeepsSound DEF Abandon
<1>6. CASE Record(s)
  <2>1. sends' = [sends EXCEPT ![s] = [Idle EXCEPT !.stage = "recorded"]]
    BY <1>6 DEF Record
  <2>2. SendsSound'
    BY <1>a, <2>1, IdleIsSound, StageKeepsSound, OneSendChanges
  <2>3. PICK told \in Told(sends[s]) : history' \in WithEntry(Entry(s, told))
    BY <1>6 DEF Record
  <2>4. CleanEntry(Entry(s, told)) /\ retention' = retention
    BY <1>6, EntryIsClean DEF Record
  <2> QED
    BY <1>a, <2>2, <2>3, <2>4, EntryIsWithin DEF HistoryInv
<1>7. ASSUME NEW e \in history, Replay(s, e) PROVE HistoryInv'
  <2> DEFINE send == [Idle EXCEPT !.stage = "replayed", !.secrets = e.known,
                                  !.url = e.url, !.text = e.text, !.shown = e.shown,
                                  !.pass = e.pass, !.keyed = e.keyed]
  <2>1. sends' = [sends EXCEPT ![s] = send] /\ UNCHANGED <<history, retention>>
    BY <1>7 DEF Replay
  <2>2. Clean(e.url, e.text, e.pass, e.known)
    BY <1>a, HistoryIsClean DEF CleanEntry
  <2>3. Sound(send)
    BY <2>2 DEF Sound, Idle, NoEffect
  <2> QED
    BY <1>b, <2>1, <2>3
<1>8. CASE RecordReplay(s)
  <2>1. sends' = [sends EXCEPT ![s] = [Idle EXCEPT !.stage = "recorded"]]
    BY <1>8 DEF RecordReplay
  <2>2. SendsSound'
    BY <1>a, <2>1, IdleIsSound, StageKeepsSound, OneSendChanges
  <2> DEFINE send == sends[s]
             entry(told) == [of |-> s, at |-> now, known |-> send.secrets, shown |-> send.shown,
                             url |-> send.url, text |-> send.text,
                             pass |-> send.pass, keyed |-> send.keyed, told |-> told]
  <2>3. PICK told \in Told(send) : history' \in WithEntry(entry(told))
    BY <1>8 DEF RecordReplay
  <2>4. Clean(send.url, send.text, send.pass, send.secrets)
    BY <1>a, <1>8 DEF RecordReplay, Sound
  <2>5. HasSecret(told, send.secrets) => send.keyed
    BY <2>4, ToldWasSent DEF Clean
  <2>6. CleanEntry(entry(told))
    BY <2>4, <2>5 DEF CleanEntry
  <2>7. retention' = retention
    BY <1>8 DEF RecordReplay
  <2> QED
    BY <1>a, <2>2, <2>3, <2>6, <2>7, EntryIsWithin DEF HistoryInv
<1> QED
  BY <1>1, <1>2, <1>3, <1>4, <1>5, <1>6, <1>7, <1>8 DEF Sending

LEMMA UserKeepsHistory ==
    ASSUME HistoryInv, User
    PROVE  HistoryInv'
<1>a. SendsSound /\ SecretsStayOutOfHistory /\ Kept
  BY DEF HistoryInv
<1>b. ASSUME UNCHANGED <<sends, history, retention>> PROVE HistoryInv'
  BY <1>a, <1>b DEF HistoryInv, SendsSound, SecretsStayOutOfHistory, Kept
<1>c. ASSUME NEW h, h \subseteq history, history' = h, UNCHANGED <<sends, retention>>
      PROVE  HistoryInv'
  <2>1. SendsSound'
    BY <1>a, <1>c DEF SendsSound
  <2>2. Kept' /\ SecretsStayOutOfHistory'
    BY <1>a, <1>c, FewerAreWithin
  <2> QED
    BY <2>1, <2>2 DEF HistoryInv
<1>1. ASSUME NEW scope \in Scopes, NEW k \in Keys, NEW i, DeleteVariable(scope, k, i)
      PROVE  HistoryInv'
  BY <1>b, <1>1 DEF DeleteVariable
<1>2. ASSUME NEW scope \in Scopes, NEW k \in Keys, NEW row \in Edits, NEW i, NEW key,
             CreateVariable(scope, k, row) \/ UpdateVariable(scope, k, i, row, key)
      PROVE  HistoryInv'
  BY <1>b, <1>2 DEF CreateVariable, UpdateVariable
<1>3. ASSUME NEW env, SetActiveEnvironment(env) PROVE HistoryInv'
  BY <1>b, <1>3 DEF SetActiveEnvironment
<1>4. ASSUME NEW env, DeleteEnvironment(env) PROVE HistoryInv'
  BY <1>b, <1>4 DEF DeleteEnvironment, Drop
<1>5. ASSUME NEW coll, DeleteCollection(coll) PROVE HistoryInv'
  BY <1>b, <1>5 DEF DeleteCollection, Drop
<1>6. CASE Keychain
  BY <1>b, <1>6 DEF Keychain
<1>7. ASSUME NEW limit \in Retentions, SetRetention(limit) PROVE HistoryInv'
  <2>1. /\ limit \in Int /\ retention' = limit
        /\ history' \in Trimmed(history, limit)
    BY <1>7, SendsAssumption DEF SetRetention
  <2>2. /\ history' \subseteq history /\ IsFiniteSet(history')
        /\ Within(history', limit)
    BY <1>a, <2>1, TrimmedIsWithin DEF Kept
  <2>3. Kept' /\ SecretsStayOutOfHistory'
    BY <1>a, <2>1, <2>2 DEF Kept, Within, SecretsStayOutOfHistory
  <2>4. SendsSound'
    BY <1>a, <1>7 DEF SetRetention, SendsSound
  <2> QED
    BY <2>3, <2>4 DEF HistoryInv
<1>8. ASSUME NEW e \in history, DeleteHistoryEntry(e) PROVE HistoryInv'
  BY <1>c, <1>8 DEF DeleteHistoryEntry
<1>9. CASE ClearHistory
  BY <1>c, <1>9 DEF ClearHistory
<1> QED
  BY <1>1, <1>2, <1>3, <1>4, <1>5, <1>6, <1>7, <1>8, <1>9 DEF User

LEMMA RestKeepsHistory ==
    ASSUME HistoryInv, [Next]_vars,
           ~ \E s \in SendIds : Sending(s),
           ~ User
    PROVE  UNCHANGED <<sends, history, retention>>
<1>1. CASE Tick
  BY <1>1 DEF Tick
<1>2. ASSUME NEW coll, NEW asked, NEW n, NEW parallel,
             Start(coll, asked, n, parallel) \/ StartByName(coll, asked, n, parallel)
      PROVE  UNCHANGED <<sends, history, retention>>
  BY <1>2 DEF Start, StartByName
<1>3. CASE Loop
  BY <1>3 DEF Loop, SpawnWave, Spawned, AwaitNext, AwaitError, Summarise, sendVars
<1>4. ASSUME NEW t, Task(t) PROVE UNCHANGED <<sends, history, retention>>
  BY <1>4 DEF Task, LookUp, Execute, Panic, Moves, sendVars
<1>5. CASE UNCHANGED vars
  BY <1>5 DEF vars, sendVars
<1> QED
  BY <1>1, <1>2, <1>3, <1>4, <1>5 DEF Next

LEMMA NextHistory == HistoryInv /\ [Next]_vars => HistoryInv'
<1> SUFFICES ASSUME HistoryInv, [Next]_vars PROVE HistoryInv'
  OBVIOUS
<1>1. CASE \E s \in SendIds : Sending(s)
  BY <1>1, SendingKeepsHistory
<1>2. CASE User
  BY <1>2, UserKeepsHistory
<1>3. ASSUME UNCHANGED <<sends, history, retention>> PROVE HistoryInv'
  BY <1>3 DEF HistoryInv, SendsSound, SecretsStayOutOfHistory, Kept
<1> QED
  BY <1>1, <1>2, <1>3, RestKeepsHistory

-----------------------------------------------------------------------------

(* Whatever scripts copy, set or read and however sends, replays and edits *)
(* overlap, no text of a request that send_request records has a secret    *)
(* that its attempt had read; and the URL of the answer or the error       *)
(* recorded with it has one only if the URL or the query was sent it.      *)
THEOREM NoSecretIsRecorded == Spec => []SecretsStayOutOfHistory
<1>1. HistoryInv => SecretsStayOutOfHistory
  BY DEF HistoryInv
<1> QED
  BY <1>1, InitHistory, NextHistory, PTL DEF Spec

LEMMA TrimmedGoesByAge ==
    ASSUME NEW h, NEW limit, NEW kept \in Trimmed(h, limit)
    PROVE  \A gone \in h \ kept, left \in kept : gone.at <= left.at
BY DEF Trimmed

LEMMA StepKeepsTheNewest ==
    ASSUME HistoryInv, HistoryInv', [Next]_vars
    PROVE  /\ retention' >= 0 => Cardinality(history') <= retention'
           /\ \/ \A gone \in history \ history', left \in history' : gone.at <= left.at
              \/ history' \subseteq history /\ UNCHANGED <<sends, retention>>
<1>1. retention' >= 0 => Cardinality(history') <= retention'
  BY DEF HistoryInv, Kept, Within
<1> DEFINE ByAge == \A gone \in history \ history', left \in history' : gone.at <= left.at
<1>2. ASSUME history' = history PROVE ByAge
  BY <1>2
<1>3. ASSUME NEW e, history' \in WithEntry(e) PROVE ByAge
  BY <1>2, <1>3, TrimmedGoesByAge DEF WithEntry
<1>4. ASSUME NEW s \in SendIds, Sending(s) PROVE ByAge
  BY <1>2, <1>3, <1>4
     DEF Sending, Begin, Prepare, Exchange, SendFails, Abandon, Record, Replay, RecordReplay
<1>5. ASSUME User
      PROVE  ByAge \/ (history' \subseteq history /\ UNCHANGED <<sends, retention>>)
  <2>1. ASSUME NEW limit, SetRetention(limit) PROVE ByAge
    BY <2>1, TrimmedGoesByAge DEF SetRetention
  <2>2. ASSUME NEW e, DeleteHistoryEntry(e) \/ ClearHistory
        PROVE  history' \subseteq history /\ UNCHANGED <<sends, retention>>
    BY <2>2 DEF DeleteHistoryEntry, ClearHistory
  <2>3. ASSUME history' # history
        PROVE  \/ \E limit : SetRetention(limit)
               \/ \E e : DeleteHistoryEntry(e) \/ ClearHistory
    BY <1>5, <2>3, UserEditsOrActs
       DEF Act, SetActiveEnvironment, DeleteEnvironment, DeleteCollection, Drop, Keychain
  <2> QED
    BY <1>2, <2>1, <2>2, <2>3
<1> QED
  BY <1>1, <1>2, <1>4, <1>5, RestKeepsHistory

(* Inserts, replays and changes of the limit, in any order, leave no more  *)
(* entries than the limit, and give up none for an older one.              *)
THEOREM HistoryKeepsTheNewest == Spec => RetentionKeepsTheNewest
<1>1. HistoryInv /\ HistoryInv' /\ [Next]_vars
        => [/\ retention' >= 0 => Cardinality(history') <= retention'
            /\ \/ \A gone \in history \ history', left \in history' : gone.at <= left.at
               \/ history' \subseteq history /\ UNCHANGED <<sends, retention>>]_sendVars
  BY StepKeepsTheNewest
<1> QED
  BY <1>1, InitHistory, NextHistory, PTL DEF Spec, RetentionKeepsTheNewest

-----------------------------------------------------------------------------
(* The write-back.                                                         *)

RowsTotal == DOMAIN rows = Scopes

LEMMA InitRows == Init => RowsTotal
BY SendsAssumption DEF Init, SendsInit, RowsTotal

LEMMA NextRows == RowsTotal /\ [Next]_vars => RowsTotal'
<1> SUFFICES ASSUME RowsTotal, [Next]_vars PROVE RowsTotal'
  OBVIOUS
<1>1. ASSUME NEW s, Sending(s) PROVE RowsTotal'
  BY <1>1 DEF Sending, Begin, Prepare, Exchange, SendFails, Abandon, Record, Replay,
              RecordReplay, tables, RowsTotal, Scopes
<1>2. CASE User
  BY <1>2, UserEditsOrActs
     DEF Act, SetActiveEnvironment, DeleteEnvironment, DeleteCollection, Drop, Keychain,
         SetRetention, DeleteHistoryEntry, ClearHistory, tables, RowsTotal, Scopes
<1>3. CASE Tick
  BY <1>3 DEF Tick, tables, RowsTotal, Scopes
<1>4. ASSUME NEW coll, NEW asked, NEW n, NEW parallel,
             Start(coll, asked, n, parallel) \/ StartByName(coll, asked, n, parallel)
      PROVE  RowsTotal'
  BY <1>4 DEF Start, StartByName, tables, RowsTotal, Scopes
<1>5. CASE Loop
  BY <1>5 DEF Loop, SpawnWave, Spawned, AwaitNext, AwaitError, Summarise, sendVars,
              tables, RowsTotal, Scopes
<1>6. ASSUME NEW t, Task(t) PROVE RowsTotal'
  BY <1>6 DEF Task, LookUp, Execute, Panic, Moves, sendVars, tables, RowsTotal, Scopes
<1>7. CASE UNCHANGED vars
  BY <1>7 DEF vars, sendVars, tables, RowsTotal, Scopes
<1> QED
  BY <1>1, <1>2, <1>3, <1>4, <1>5, <1>6, <1>7 DEF Next

LEMMA WrittenIsSet ==
    ASSUME NEW send, NEW scope, NEW written \in Written(send, scope)
    PROVE  written \subseteq DOMAIN Net(send).set
<1>1. DOMAIN send.post.set \subseteq DOMAIN Net(send).set
  BY DEF Net, Over
<1> QED
  BY <1>1 DEF Written

LEMMA OnlyRecordFinishes ==
    ASSUME HistoryInv, [Next]_vars, NEW s \in SendIds, Finished(s)
    PROVE  Record(s)
<1>1. PICK r \in SendIds : Sending(r)
  <2>1. CASE User
    BY <2>1, UserEditsOrActs
       DEF Act, SetActiveEnvironment, DeleteEnvironment, DeleteCollection, Drop, Keychain,
           SetRetention, DeleteHistoryEntry, ClearHistory, Finished
  <2> QED
    BY <2>1, RestKeepsHistory DEF Finished
<1>2. DOMAIN sends = SendIds /\ \A t \in SendIds : "stage" \in DOMAIN sends[t]
  BY DEF HistoryInv, SendsSound, Sound
<1>3. ASSUME NEW send, sends' = [sends EXCEPT ![r] = send]
      PROVE  r = s /\ send.stage = "recorded" /\ sends[r].stage = "answered"
  BY <1>2, <1>3 DEF Finished
<1>4. ASSUME NEW coll, NEW draft, Begin(r, coll, draft) PROVE FALSE
  <2>1. sends[r].stage = "idle"
    BY <1>4 DEF Begin, New, Idle
  <2> QED
    BY <1>3, <1>4, <2>1 DEF Begin
<1>5. ASSUME NEW e, Replay(r, e) PROVE FALSE
  <2>1. sends[r].stage = "idle"
    BY <1>5 DEF Replay, New, Idle
  <2> QED
    BY <1>3, <1>5, <2>1 DEF Replay
<1>6. ASSUME NEW script, Prepare(r, script) PROVE FALSE
  BY <1>3, <1>6 DEF Prepare
<1>7. ASSUME NEW script, Exchange(r, script) PROVE FALSE
  BY <1>3, <1>7 DEF Exchange
<1>8. ~ SendFails(r) /\ ~ Abandon(r) /\ ~ RecordReplay(r)
  BY <1>3 DEF SendFails, Abandon, RecordReplay
<1>9. CASE Record(r)
  BY <1>3, <1>9 DEF Record
<1> QED
  BY <1>1, <1>4, <1>5, <1>6, <1>7, <1>8, <1>9 DEF Sending

(* What the property says of the rows of a touched key. *)
Scripted(net, k, old, new) ==
    \/ k \in net.unset /\ old # <<>> /\ new = Front(old)
    \/ k \in DOMAIN net.set /\ new = Rewritten(old, net.set[k])

LEMMA RecordTouchesOneScope ==
    ASSUME RowsTotal, NEW s \in SendIds, Record(s), NEW p \in Scopes \X Keys,
           rows'[p[1]][p[2]] # rows[p[1]][p[2]]
    PROVE  /\ p[1] = PersistScope(sends[s].coll)
           /\ Scripted(Net(sends[s]), p[2], rows[p[1]][p[2]], rows'[p[1]][p[2]])
<1> DEFINE scope == PersistScope(sends[s].coll)
           net == Net(sends[s])
           k == p[2]
           old == rows[p[1]][p[2]]
           new == rows'[p[1]][p[2]]
<1>1. PICK written \in Written(sends[s], scope) :
         rows' = [rows EXCEPT ![scope] = Persisted(sends[s], scope, written)]
  BY DEF Record
<1>2. written \subseteq DOMAIN net.set
  BY WrittenIsSet
<1>3. p[1] \in DOMAIN rows /\ k \in Keys
  BY DEF RowsTotal
<1>4. p[1] = scope
  BY <1>1, <1>3
<1>5. new = Persisted(sends[s], scope, written)[k]
  BY <1>1, <1>3, <1>4
<1>6. new = IF k \in written THEN Rewritten(old, net.set[k])
            ELSE IF /\ k \in (IF written = DOMAIN net.set THEN net.unset ELSE {})
                    /\ old # <<>>
            THEN Front(old) ELSE old
  BY <1>3, <1>4, <1>5 DEF Persisted
<1>7. CASE k \in written
  BY <1>2, <1>4, <1>6, <1>7 DEF Scripted
<1>8. CASE k \notin written
  BY <1>4, <1>6, <1>8 DEF Scripted
<1> QED
  BY <1>7, <1>8

LEMMA StepChangesOnlyScripted ==
    ASSUME HistoryInv, RowsTotal, [Next]_vars, NEW s \in SendIds, Finished(s)
    PROVE  LET net == Net(sends[s])
               touched == {p \in Scopes \X Keys : rows'[p[1]][p[2]] # rows[p[1]][p[2]]}
           IN  /\ \A p, q \in touched : p[1] = q[1]
               /\ \A p \in touched :
                      LET old == rows[p[1]][p[2]]
                          new == rows'[p[1]][p[2]]
                      IN  \/ p[2] \in net.unset /\ old # <<>> /\ new = Front(old)
                          \/ /\ p[2] \in DOMAIN net.set
                             /\ new = IF old = <<>> THEN <<Row(net.set[p[2]])>>
                                      ELSE [old EXCEPT ![Len(old)].value = net.set[p[2]]]
<1>1. Record(s)
  BY OnlyRecordFinishes
<1> DEFINE touched == {p \in Scopes \X Keys : rows'[p[1]][p[2]] # rows[p[1]][p[2]]}
<1>2. \A p \in touched :
         /\ p[1] = PersistScope(sends[s].coll)
         /\ Scripted(Net(sends[s]), p[2], rows[p[1]][p[2]], rows'[p[1]][p[2]])
  BY <1>1, RecordTouchesOneScope
<1>3. \A p, q \in touched : p[1] = q[1]
  BY <1>2
<1>4. ASSUME NEW p \in touched
      PROVE  LET old == rows[p[1]][p[2]]
                 new == rows'[p[1]][p[2]]
             IN  \/ p[2] \in Net(sends[s]).unset /\ old # <<>> /\ new = Front(old)
                 \/ /\ p[2] \in DOMAIN Net(sends[s]).set
                    /\ new = IF old = <<>> THEN <<Row(Net(sends[s]).set[p[2]])>>
                             ELSE [old EXCEPT ![Len(old)].value = Net(sends[s]).set[p[2]]]
  <2>1. Scripted(Net(sends[s]), p[2], rows[p[1]][p[2]], rows'[p[1]][p[2]])
    BY <1>2
  <2> QED
    BY <2>1, Zenon DEF Scripted, Rewritten
<1> QED
  BY <1>3, <1>4

(* Whatever others wrote while a send was out, recording it changes only   *)
(* what its scripts set or unset, in one scope, of several rows of a key   *)
(* only the last, and secrets stay secret.                                 *)
THEOREM ScriptsChangeOnlyTheirKeys == Spec => OnlyScriptedKeysChange
<1>1. HistoryInv /\ RowsTotal /\ [Next]_vars
        => [\A s \in SendIds : Finished(s) =>
             LET net == Net(sends[s])
                 touched == {p \in Scopes \X Keys : rows'[p[1]][p[2]] # rows[p[1]][p[2]]}
             IN  /\ \A p, q \in touched : p[1] = q[1]
                 /\ \A p \in touched :
                        LET old == rows[p[1]][p[2]]
                            new == rows'[p[1]][p[2]]
                        IN  \/ p[2] \in net.unset /\ old # <<>> /\ new = Front(old)
                            \/ /\ p[2] \in DOMAIN net.set
                               /\ new = IF old = <<>> THEN <<Row(net.set[p[2]])>>
                                        ELSE [old EXCEPT ![Len(old)].value = net.set[p[2]]]]_sendVars
  BY StepChangesOnlyScripted
<1> QED
  BY <1>1, InitHistory, NextHistory, InitRows, NextRows, PTL DEF Spec, OnlyScriptedKeysChange

(* The active environment, if any, has a scope.                            *)
ActiveKnown == active \in Environments \union {None}

LEMMA NextActive == ActiveKnown /\ [Next]_vars => ActiveKnown'
<1> SUFFICES ASSUME ActiveKnown, [Next]_vars PROVE ActiveKnown'
  OBVIOUS
<1>1. ASSUME NEW s, Sending(s) PROVE ActiveKnown'
  BY <1>1 DEF Sending, Begin, Prepare, Exchange, SendFails, Abandon, Record, Replay,
              RecordReplay, tables, ActiveKnown
<1>2. CASE User
  BY <1>2, UserEditsOrActs
     DEF Act, SetActiveEnvironment, DeleteEnvironment, DeleteCollection, Drop, Keychain,
         SetRetention, DeleteHistoryEntry, ClearHistory, tables, ActiveKnown
<1>3. CASE Tick
  BY <1>3 DEF Tick, tables, ActiveKnown
<1>4. ASSUME NEW coll, NEW asked, NEW n, NEW parallel,
             Start(coll, asked, n, parallel) \/ StartByName(coll, asked, n, parallel)
      PROVE  ActiveKnown'
  BY <1>4 DEF Start, StartByName, tables, ActiveKnown
<1>5. CASE Loop
  BY <1>5 DEF Loop, SpawnWave, Spawned, AwaitNext, AwaitError, Summarise, sendVars,
              tables, ActiveKnown
<1>6. ASSUME NEW t, Task(t) PROVE ActiveKnown'
  BY <1>6 DEF Task, LookUp, Execute, Panic, Moves, sendVars, tables, ActiveKnown
<1>7. CASE UNCHANGED vars
  BY <1>7 DEF vars, sendVars, tables, ActiveKnown
<1> QED
  BY <1>1, <1>2, <1>3, <1>4, <1>5, <1>6, <1>7 DEF Next

RowsFormed ==
    \A s \in Scopes : DOMAIN rows[s] = Keys /\ \A k \in Keys : IsList(rows[s][k])

LEMMA RowIsRow ==
    /\ \A value : IsRow(Row(value)) /\ Row(value).value = value
    /\ \A row, value : IsRow(row) => IsRow([row EXCEPT !.value = value])
    /\ \A row : IsRow(row) => "value" \in DOMAIN row
  BY DEF IsRow, Row

LEMMA RowsMakeAList ==
    ASSUME NEW S, \A r \in S : IsRow(r), NEW list \in Seq(S)
    PROVE  IsList(list)
<1>1. DOMAIN list = 1 .. Len(list) /\ Len(list) \in Nat
  OBVIOUS
<1>2. \A i \in DOMAIN list : list[i] \in Range(list) /\ list[i] \in S
  BY DEF Range
<1>3. list \in Seq(Range(list))
  BY <1>1, <1>2
<1> QED
  BY <1>2, <1>3 DEF IsList

LEMMA ListsStayLists ==
    ASSUME NEW list, IsList(list), NEW row, IsRow(row)
    PROVE  /\ IsList(<<row>>) /\ IsList(Append(list, row))
           /\ list # <<>> => IsList(Front(list))
           /\ \A i \in DOMAIN list : /\ IsList([list EXCEPT ![i] = row])
                                     /\ IsList(RemoveAt(list, i))
           /\ \A i \in 1 .. Len(list) + 1 : IsList(InsertAt(list, i, row))
<1> DEFINE S == Range(list) \union {row}
<1>1. \A r \in S : IsRow(r)
  BY DEF IsList, Range
<1>2. list \in Seq(Range(list))
  BY DEF IsList
<1> HIDE DEF S
<1>3. row \in S /\ Range(list) \subseteq S
  BY DEF S
<1>4. list \in Seq(S)
  BY <1>2, <1>3
<1>5. <<row>> \in Seq(S) /\ Append(list, row) \in Seq(S)
  BY <1>3, <1>4
<1>6. list # <<>> => Front(list) \in Seq(S)
  BY <1>4 DEF Front
<1>7. \A i \in DOMAIN list : [list EXCEPT ![i] = row] \in Seq(S)
  BY <1>3, <1>4
<1>8. \A i \in DOMAIN list : RemoveAt(list, i) \in Seq(S)
  BY <1>4 DEF RemoveAt
<1>9. \A i \in 1 .. Len(list) + 1 : InsertAt(list, i, row) \in Seq(S)
  BY <1>3, <1>4 DEF InsertAt
<1> QED
  BY <1>1, <1>5, <1>6, <1>7, <1>8, <1>9, RowsMakeAList

(* What a write makes of the rows of a key.                                *)
LEMMA RewrittenIsList ==
    ASSUME NEW list, IsList(list), NEW value
    PROVE  /\ IsList(Rewritten(list, value)) /\ Rewritten(list, value) # <<>>
           /\ Last(Rewritten(list, value)).value = value
<1> DEFINE new == Rewritten(list, value)
<1>1. CASE list = <<>>
  <2>1. new = <<Row(value)>>
    BY <1>1 DEF Rewritten
  <2>2. IsList(new)
    BY <2>1, RowIsRow, ListsStayLists
  <2> QED
    BY <2>1, <2>2, RowIsRow DEF Last
<1>2. CASE list # <<>>
  <2> DEFINE n == Len(list)
             row == [list[n] EXCEPT !.value = value]
  <2>1. list \in Seq(Range(list)) /\ \A i \in DOMAIN list : IsRow(list[i])
    BY DEF IsList
  <2>2. n \in DOMAIN list /\ IsRow(list[n])
    BY <1>2, <2>1
  <2>3. IsRow(row) /\ row.value = value
    BY <2>2, RowIsRow
  <2>4. new = [list EXCEPT ![n] = row]
    BY <1>2 DEF Rewritten
  <2> HIDE DEF row
  <2>5. new # <<>> /\ Len(new) = n /\ new[n] = row
    BY <2>1, <2>2, <2>4
  <2>6. IsList(new)
    <3>1. IsList([list EXCEPT ![n] = row])
      BY <2>2, <2>3, ListsStayLists
    <3> QED
      BY <2>4, <3>1
  <2>7. Last(new) = row
    BY <2>5 DEF Last
  <2> QED
    BY <2>3, <2>5, <2>6, <2>7
<1> QED
  BY <1>1, <1>2

LEMMA NextFormed == RowsTotal /\ RowsFormed /\ [Next]_vars => RowsFormed'
<1> SUFFICES ASSUME RowsTotal, RowsFormed, [Next]_vars PROVE RowsFormed'
  OBVIOUS
<1>0. ASSUME UNCHANGED rows PROVE RowsFormed'
  BY <1>0 DEF RowsFormed
<1>a. ASSUME NEW scope \in Scopes, NEW k \in Keys, NEW list, IsList(list),
             rows' = [rows EXCEPT ![scope][k] = list]
      PROVE  RowsFormed'
  BY <1>a DEF RowsTotal, RowsFormed
<1>1. ASSUME NEW s, Record(s) PROVE RowsFormed'
  <2>1. PICK scope, written :
           rows' = [rows EXCEPT ![scope] = Persisted(sends[s], scope, written)]
    BY <1>1 DEF Record
  <2>2. CASE scope \in Scopes
    <3> DEFINE new == Persisted(sends[s], scope, written)
    <3>1. DOMAIN new = Keys
      BY DEF Persisted
    <3>2. ASSUME NEW k \in Keys PROVE IsList(new[k])
      <4>1. IsList(rows[scope][k])
        BY <2>2 DEF RowsFormed
      <4>2. \/ new[k] = rows[scope][k]
            \/ new[k] = Rewritten(rows[scope][k], Net(sends[s]).set[k])
            \/ rows[scope][k] # <<>> /\ new[k] = Front(rows[scope][k])
        BY DEF Persisted
      <4>3. IsRow(Row(<<>>))
        BY RowIsRow
      <4> QED
        BY <4>1, <4>2, <4>3, RewrittenIsList, ListsStayLists
    <3> HIDE DEF new
    <3> QED
      BY <2>1, <2>2, <3>1, <3>2 DEF RowsTotal, RowsFormed, new
  <2>3. CASE scope \notin Scopes
    BY <1>0, <2>1, <2>3 DEF RowsTotal, RowsFormed
  <2> QED BY <2>2, <2>3
<1>2. ASSUME NEW s, Sending(s) PROVE RowsFormed'
  BY <1>0, <1>1, <1>2 DEF Sending, Begin, Prepare, Exchange, SendFails, Abandon, Replay,
              RecordReplay, tables
<1>3. ASSUME NEW scope \in Scopes, NEW k \in Keys, NEW row \in Edits,
             CreateVariable(scope, k, row)
      PROVE  RowsFormed'
  <2>1. rows' = [rows EXCEPT ![scope][k] = Append(rows[scope][k], row)]
    BY <1>3 DEF CreateVariable, RowsTotal, RowsFormed
  <2>2. IsRow(row) /\ IsList(rows[scope][k])
    BY SendsAssumption DEF RowsFormed
  <2> QED BY <1>a, <2>1, <2>2, ListsStayLists
<1>4. ASSUME NEW scope \in Scopes, NEW k \in Keys, NEW i, DeleteVariable(scope, k, i)
      PROVE  RowsFormed'
  <2>1. /\ rows' = [rows EXCEPT ![scope][k] = RemoveAt(rows[scope][k], i)]
        /\ i \in DOMAIN rows[scope][k]
    BY <1>4 DEF DeleteVariable, RowsTotal, RowsFormed
  <2>2. IsRow(Row(<<>>)) /\ IsList(rows[scope][k])
    BY RowIsRow DEF RowsFormed
  <2> QED BY <1>a, <2>1, <2>2, ListsStayLists
<1>12. ASSUME NEW scope \in Scopes, NEW k \in Keys, NEW i, NEW row \in Edits,
              NEW key \in Keys, UpdateVariable(scope, k, i, row, key)
       PROVE  RowsFormed'
  <2> DEFINE old == rows[scope]
  <2>1. IsRow(row) /\ IsList(old[k]) /\ IsList(old[key]) /\ i \in DOMAIN old[k]
    BY <1>12, SendsAssumption DEF RowsFormed, UpdateVariable
  <2>2. CASE key = k
    <3>1. rows' = [rows EXCEPT ![scope][k] = [old[k] EXCEPT ![i] = row]]
      BY <1>12, <2>2 DEF UpdateVariable, RowsTotal, RowsFormed
    <3> QED BY <1>a, <2>1, <3>1, ListsStayLists
  <2>3. CASE key # k
    <3>1. PICK at \in 1 .. Len(old[key]) + 1 :
             rows' = [rows EXCEPT ![scope][k] = RemoveAt(@, i),
                                  ![scope][key] = InsertAt(@, at, row)]
      BY <1>12, <2>3 DEF UpdateVariable
    <3>2. IsList(RemoveAt(old[k], i)) /\ IsList(InsertAt(old[key], at, row))
      BY <2>1, ListsStayLists
    <3>3. /\ \A s \in Scopes : s # scope => rows'[s] = rows[s]
          /\ DOMAIN rows'[scope] = DOMAIN old
          /\ rows'[scope][k] = RemoveAt(old[k], i)
          /\ rows'[scope][key] = InsertAt(old[key], at, row)
          /\ \A j \in Keys : j # k /\ j # key => rows'[scope][j] = old[j]
      BY <2>3, <3>1 DEF RowsTotal, RowsFormed
    <3> HIDE DEF old
    <3>4. \A j \in Keys : IsList(rows'[scope][j])
      BY <3>2, <3>3 DEF RowsFormed, old
    <3> QED BY <3>3, <3>4 DEF RowsFormed, old
  <2> QED BY <2>2, <2>3
<1>5. ASSUME NEW colls, NEW envs, Drop(colls, envs) PROVE RowsFormed'
  <2>1. <<>> \in Seq({})
    OBVIOUS
  <2>2. IsList(<<>>)
    BY <2>1, RowsMakeAList
  <2> QED BY <1>5, <2>2 DEF Drop, Empty, RowsFormed
<1>6. CASE User
  BY <1>0, <1>3, <1>4, <1>5, <1>6, <1>12
     DEF User, SetActiveEnvironment, DeleteEnvironment, DeleteCollection, Keychain,
         SetRetention, DeleteHistoryEntry, ClearHistory, tables
<1>7. CASE Tick
  BY <1>0, <1>7 DEF Tick, tables
<1>8. ASSUME NEW coll, NEW asked, NEW n, NEW parallel,
             Start(coll, asked, n, parallel) \/ StartByName(coll, asked, n, parallel)
      PROVE  RowsFormed'
  BY <1>0, <1>8 DEF Start, StartByName, tables
<1>9. CASE Loop
  BY <1>0, <1>9 DEF Loop, SpawnWave, Spawned, AwaitNext, AwaitError, Summarise, sendVars, tables
<1>10. ASSUME NEW t, Task(t) PROVE RowsFormed'
  BY <1>0, <1>10 DEF Task, LookUp, Execute, Panic, Moves, sendVars, tables
<1>11. CASE UNCHANGED vars
  BY <1>0, <1>11 DEF vars, sendVars, tables
<1> QED
  BY <1>2, <1>6, <1>7, <1>8, <1>9, <1>10, <1>11 DEF Next

(* The keychain refuses nothing: all is written.                           *)
LEMMA AllIsWritten ==
    ASSUME ~locked, NEW send, NEW scope, NEW written \in Written(send, scope)
    PROVE  written = DOMAIN Net(send).set
<1> DEFINE late == DOMAIN send.post.set
           early == DOMAIN Net(send).set \ late
           refused == {k \in Keys : /\ locked
                                   /\ rows[scope][k] # <<>> /\ Last(rows[scope][k]).secret}
<1>1. refused = {}
  OBVIOUS
<1>2. late \subseteq DOMAIN Net(send).set
  BY DEF Net, Over
<1>3. written = early \union late
  BY <1>1 DEF Written
<1> QED BY <1>2, <1>3

(* What a scope has overrides the weaker ones. *)
LEMMA StrongerWins ==
    ASSUME NEW f, NEW g, NEW k
    PROVE  /\ (k \in DOMAIN g) => (k \in DOMAIN Over(f, g) /\ Over(f, g)[k] = g[k])
           /\ (k \in DOMAIN f /\ k \notin DOMAIN g)
                 => (k \in DOMAIN Over(f, g) /\ Over(f, g)[k] = f[k])
  BY DEF Over

(* The last row, when it is not disabled, is the one that counts.          *)
LEMMA LastCounts ==
    ASSUME NEW list, IsList(list), list # <<>>, Last(list).on
    PROVE  On(list) # {} /\ Current(list) = Last(list)
<1> DEFINE n == Len(list)
<1>1. n \in Nat \ {0} /\ DOMAIN list = 1 .. n
  BY DEF IsList
<1>2. n \in On(list) /\ \A i \in On(list) : i \in 1 .. n
  BY <1>1 DEF On, Last
<1>3. Max(On(list)) = n
  <2> DEFINE m == Max(On(list))
  <2>1. m \in On(list) /\ \A i \in On(list) : m >= i
    <3>1. \A i \in On(list) : n >= i
      BY <1>1, <1>2
    <3> QED BY <1>2, <3>1 DEF Max
  <2>2. m >= n /\ m \in 1 .. n
    BY <1>2, <2>1
  <2> HIDE DEF m
  <2>3. m = n
    <3> HIDE DEF n
    <3> QED BY <1>1, <2>2
  <2> QED BY <2>3 DEF m
<1> QED
  BY <1>2, <1>3 DEF Current, Last

LEMMA StepIsRead ==
    ASSUME HistoryInv, RowsTotal, RowsFormed, ActiveKnown, [Next]_vars, NEW s \in SendIds,
           NEW coll \in Owners, Finished(s), coll = sends[s].coll, ~locked
    PROVE  LET set == Net(sends[s]).set
           IN  \A k \in DOMAIN set :
                  \/ k \in DOMAIN Resolved(coll)' /\ Resolved(coll)'[k] = set[k]
                  \/ IF Applies(active, coll) THEN ~Last(rows'[active][k]).on
                     ELSE \/ ~Last(rows'[Workspace][k]).on
                          \/ coll # None /\ k \in Enabled(coll)
<1> DEFINE set == Net(sends[s]).set
<1>0. PICK scope : scope = PersistScope(coll)
  OBVIOUS
<1>1. Record(s)
  BY OnlyRecordFinishes
<1>2. PICK written \in Written(sends[s], scope) :
         rows' = [rows EXCEPT ![scope] = Persisted(sends[s], scope, written)]
  BY <1>0, <1>1 DEF Record
<1>3. active' = active /\ locked' = locked
  BY <1>1 DEF Record
<1>4. written = DOMAIN set
  BY AllIsWritten
<1>5. scope \in Scopes /\ scope = IF Applies(active, coll) THEN active ELSE Workspace
  BY <1>0 DEF PersistScope, Scopes, ActiveKnown, Applies
<1>6. rows'[scope] = Persisted(sends[s], scope, written)
  BY <1>2, <1>5 DEF RowsTotal
<1>k. DOMAIN set \subseteq Keys
  <2>1. DOMAIN sends[s].pre.set \subseteq Keys /\ DOMAIN sends[s].post.set \subseteq Keys
    BY DEF HistoryInv, SendsSound, Sound
  <2> QED BY <2>1 DEF Net, Over, Restrict
<1> SUFFICES ASSUME NEW k \in DOMAIN set
             PROVE  \/ k \in DOMAIN Resolved(coll)' /\ Resolved(coll)'[k] = set[k]
                    \/ IF Applies(active, coll) THEN ~Last(rows'[active][k]).on
                       ELSE \/ ~Last(rows'[Workspace][k]).on
                            \/ coll # None /\ k \in Enabled(coll)
  OBVIOUS
<1> HIDE DEF set
<1>7. PICK list : list = rows'[scope][k]
  OBVIOUS
<1>8. IsList(list) /\ list # <<>> /\ Last(list).value = set[k]
  <2>1. list = Rewritten(rows[scope][k], set[k])
    BY <1>4, <1>6, <1>7, <1>k DEF Persisted, set
  <2>2. IsList(rows[scope][k])
    BY <1>5, <1>k DEF RowsFormed
  <2> QED BY <2>1, <2>2, RewrittenIsList
<1>9. Last(list).on => k \in DOMAIN (Values(scope)') /\ (Values(scope)')[k] = set[k]
  <2> SUFFICES ASSUME Last(list).on
               PROVE  k \in DOMAIN (Values(scope)') /\ (Values(scope)')[k] = set[k]
    OBVIOUS
  <2>1. On(list) # {} /\ Current(list) = Last(list)
    BY <1>8, LastCounts
  <2>2. k \in Enabled(scope)'
    BY <1>7, <1>k, <2>1 DEF Enabled
  <2>3. Values(scope)' = [j \in Enabled(scope)' |-> Value(Current(rows[scope][j]))']
    BY DEF Values
  <2>4. Value(Current(rows[scope][k]))' = set[k]
    BY <1>3, <1>7, <1>8, <2>1 DEF Value
  <2> QED BY <2>2, <2>3, <2>4
<1>10. CASE Applies(active, coll)
  <2>1. Applies(active, coll)' /\ scope = active
    BY <1>3, <1>5, <1>10 DEF Applies
  <2> QED BY <1>3, <1>7, <1>9, <1>10, <2>1, StrongerWins DEF Resolved
<1>11. CASE ~Applies(active, coll)
  <2>1. ~Applies(active, coll)' /\ scope = Workspace
    BY <1>3, <1>5, <1>11 DEF Applies
  <2> DEFINE shared == Over(Values(Global)', Values(Workspace)')
  <2>2. ASSUME Last(list).on
        PROVE  k \in DOMAIN shared /\ shared[k] = set[k]
    BY <1>9, <2>1, <2>2, StrongerWins
  <2>3. Resolved(coll)' = IF coll = None THEN shared ELSE Over(shared, Values(coll)')
    BY <2>1 DEF Resolved
  <2>4. CASE coll = None \/ k \notin Enabled(coll)'
    <3>1. coll # None => k \notin DOMAIN (Values(coll)')
      BY <2>4 DEF Values
    <3> QED BY <1>7, <1>11, <2>1, <2>2, <2>3, <3>1, StrongerWins
  <2>5. CASE coll # None /\ k \in Enabled(coll)'
    <3>1. CASE coll = scope
      BY <1>7, <1>9, <1>11, <2>1, <2>3, <2>5, <3>1, StrongerWins
    <3>2. CASE coll # scope
      <4>1. rows'[coll] = rows[coll]
        BY <1>2, <3>2, <2>5 DEF RowsTotal, Scopes, Owners
      <4> QED BY <1>11, <2>5, <4>1 DEF Enabled
    <3> QED BY <3>1, <3>2
  <2> QED BY <2>4, <2>5
<1> QED BY <1>10, <1>11

(* Whatever the user switches, edits or deletes between a send and its     *)
(* record, and however many rows a key has, what its scripts set is what   *)
(* the next send from the same place reads, but for the keychain, the      *)
(* overriding collection and the disabled last row that are named.         *)
THEOREM ScriptsWritesAreRead == Spec => WritesAreRead
<1>1. Init => ActiveKnown /\ RowsFormed
  BY SendsAssumption DEF Init, SendsInit, ActiveKnown, RowsFormed
<1>2. HistoryInv /\ RowsTotal /\ RowsFormed /\ ActiveKnown /\ [Next]_vars
        => [\A s \in SendIds, coll \in Owners :
              Finished(s) /\ coll = sends[s].coll /\ ~locked =>
               LET set == Net(sends[s]).set
               IN  \A k \in DOMAIN set :
                      \/ k \in DOMAIN Resolved(coll)' /\ Resolved(coll)'[k] = set[k]
                      \/ IF Applies(active, coll) THEN ~Last(rows'[active][k]).on
                         ELSE \/ ~Last(rows'[Workspace][k]).on
                              \/ coll # None /\ k \in Enabled(coll)]_sendVars
  BY StepIsRead
<1> QED
  BY <1>1, <1>2, InitHistory, NextHistory, InitRows, NextRows, NextFormed, NextActive, PTL
     DEF Spec, WritesAreRead

-----------------------------------------------------------------------------
(* The runner.                                                             *)

Triple == Nat \X Nat \X Nat

(* The request that a run takes as its i-th. *)
PlanAt(i) == <<run.count, ((i - 1) \div run.size) + 1, ((i - 1) % run.size) + 1>>

(* How many requests the loop has started, and which it knows of. *)
Spent == (run.at[1] - 1) * run.size + (run.at[2] - 1)
Taken == run.results \o run.handles

RunType ==
    /\ collections \subseteq Collections
    /\ run \in [stage : {"none", "running", "failed", "done"}, count : Nat,
                coll : Collections \union {None}, size : Nat, rounds : Nat,
                width : Nat \ {0}, at : (Nat \ {0}) \X (Nat \ {0}),
                handles : Seq(Triple), results : Seq(Triple)]
    /\ run.at[1] <= run.rounds + 1
    /\ (run.at[1] = run.rounds + 1) => (run.at[2] = 1)
    /\ run.at[2] <= run.size \/ run.at[2] = 1
    /\ (run.size = 0) => (run.at[1] = 1)

(* The results and then the handles are the plan as far as it was started. *)
Aligned ==
    /\ Len(Taken) <= Spent
    /\ \A i \in 1 .. Len(Taken) : Taken[i] = PlanAt(i)
    /\ (run.stage = "running") => (Len(Taken) = Spent)
    /\ (run.stage # "running") => (run.handles = <<>>)
    /\ (run.stage = "done") => (Len(run.results) = run.rounds * run.size)

RunInv == RunType /\ Aligned

(* Counting through the iterations.                                        *)
LEMMA Place ==
    ASSUME NEW n \in Nat \ {0}, NEW q \in Nat, NEW k \in 0 .. n - 1
    PROVE  (q * n + k) \div n = q /\ (q * n + k) % n = k
  OBVIOUS

LEMMA Turns ==
    ASSUME NEW n \in Nat, NEW q \in Nat
    PROVE  /\ q * n \in Nat
           /\ (q + 1) * n = q * n + n
           /\ \A r \in Nat : q <= r => q * n <= r * n
  OBVIOUS

(* Results and handles as one sequence.                                    *)
LEMMA Joined ==
    \A s, t \in Seq(Triple) :
        /\ Len(s) \in Nat /\ Len(t) \in Nat
        /\ Len(s \o t) = Len(s) + Len(t)
        /\ Len(s \o t) \in Nat /\ Len(s) <= Len(s \o t)
        /\ \A i \in 1 .. Len(s) : (s \o t)[i] = s[i]
        /\ \A i \in 1 .. Len(t) : (s \o t)[Len(s) + i] = t[i]
  OBVIOUS

LEMMA HeadJoins ==
    ASSUME NEW S, NEW s \in Seq(S), NEW t \in Seq(S), t # <<>>
    PROVE  /\ Tail(t) \in Seq(S) /\ Append(s, Head(t)) \in Seq(S)
           /\ Append(s, Head(t)) \o Tail(t) = s \o t
  OBVIOUS

(* A run never starts more than it plans.                                  *)
LEMMA SpentWithin ==
    ASSUME RunType
    PROVE  Spent \in Nat /\ Spent <= run.rounds * run.size /\ run.rounds * run.size \in Nat
<1> DEFINE n == run.size
           q == run.at[1] - 1
           k == run.at[2] - 1
<1>1. n \in Nat /\ q \in Nat /\ k \in Nat /\ run.rounds \in Nat
  BY DEF RunType
<1>2. /\ q <= run.rounds
      /\ q = run.rounds => k = 0
      /\ k < n \/ k = 0
  BY DEF RunType
<1>3. Spent = q * n + k
  BY DEF Spent
<1> HIDE DEF n, q, k
<1>4. /\ q * n \in Nat /\ run.rounds * n \in Nat
      /\ q * n <= run.rounds * n
      /\ (q + 1) * n = q * n + n
      /\ q + 1 <= run.rounds => (q + 1) * n <= run.rounds * n
  BY <1>1, <1>2, Turns
<1>5. q * n + k \in Nat /\ q * n + k <= run.rounds * n
  BY <1>1, <1>2, <1>4
<1> QED BY <1>3, <1>4, <1>5 DEF n

(* A wave is what is left of the iteration, or as wide as allowed.         *)
LEMMA WaveShape ==
    ASSUME RunType, Left
    PROVE  /\ IsFiniteSet(Wave) /\ Cardinality(Wave) \in 1 .. run.width
           /\ run.at[2] + Cardinality(Wave) - 1 <= run.size
           /\ run.size \in Wave <=> (run.at[2] + Cardinality(Wave) - 1 = run.size)
<1> DEFINE i == run.at[2]
           last == IF i + run.width - 1 < run.size THEN i + run.width - 1 ELSE run.size
<1>1. /\ i \in Nat \ {0} /\ run.size \in Nat \ {0} /\ run.width \in Nat \ {0}
      /\ i <= run.size
  BY DEF RunType, Left
<1>2. Wave = i .. last
  BY DEF Wave
<1>3. last \in Nat /\ i <= last /\ last <= run.size /\ last - i + 1 <= run.width
  BY <1>1
<1> HIDE DEF i, last
<1>4. IsFiniteSet(Wave) /\ Cardinality(Wave) = last - i + 1
  BY <1>1, <1>2, <1>3, FS_Interval
<1>5. run.at[2] = i
  BY DEF i
<1> QED BY <1>1, <1>2, <1>3, <1>4, <1>5

LEMMA HandlesShape ==
    ASSUME RunType, Left
    PROVE  /\ Handles(Wave) \in Seq(Triple)
           /\ Len(Handles(Wave)) = Cardinality(Wave)
           /\ \A n \in 1 .. Cardinality(Wave) :
                 Handles(Wave)[n] = <<run.count, run.at[1], run.at[2] + n - 1>>
<1>1. /\ Cardinality(Wave) \in Nat
      /\ run.count \in Nat /\ run.at[1] \in Nat /\ run.at[2] \in Nat \ {0}
  BY WaveShape DEF RunType
<1> QED BY <1>1 DEF Handles, Triple

(* The requests of a wave are the next of the plan.                        *)
LEMMA WaveIsPlanned ==
    ASSUME RunType, Left, NEW n \in 1 .. Cardinality(Wave)
    PROVE  Handles(Wave)[n] = PlanAt(Spent + n)
<1> DEFINE q == run.at[1] - 1
           k == run.at[2] + n - 2
<1>1. /\ run.size \in Nat \ {0} /\ q \in Nat /\ k \in 0 .. run.size - 1
      /\ run.at[1] \in Nat /\ run.at[2] \in Nat
  <2>1. /\ run.size \in Nat \ {0} /\ run.at[1] \in Nat \ {0} /\ run.at[2] \in Nat \ {0}
    BY DEF RunType, Left
  <2>2. Cardinality(Wave) \in Nat /\ run.at[2] + Cardinality(Wave) - 1 <= run.size
    BY WaveShape DEF RunType
  <2>3. q \in Nat /\ k \in 0 .. run.size - 1
    BY <2>1, <2>2
  <2> QED BY <2>1, <2>3
<1>2. (q * run.size + k) \div run.size = q /\ (q * run.size + k) % run.size = k
  BY <1>1, Place
<1>3. q * run.size \in Nat
  BY <1>1, Turns
<1>4. (Spent + n) - 1 = q * run.size + k
  <2>1. \A x \in Nat : (x + (run.at[2] - 1) + n) - 1 = x + k
    BY <1>1
  <2> QED BY <1>3, <2>1 DEF Spent
<1>5. run.at[1] = q + 1 /\ run.at[2] + n - 1 = k + 1
  BY <1>1
<1> QED BY <1>2, <1>4, <1>5, HandlesShape DEF PlanAt

LEMMA InitRun == Init => RunInv
<1> SUFFICES ASSUME Init PROVE RunInv
  OBVIOUS
<1>1. RunType
  BY DEF Init, SendsInit, NoRun, RunType
<1>2. Taken = <<>> /\ Spent = 0
  BY DEF Init, NoRun, Taken, Spent
<1> QED BY <1>1, <1>2 DEF Init, NoRun, Aligned, RunInv

LEMMA StartKeepsRun ==
    ASSUME RunInv, NEW coll \in Collections, NEW asked \in Iterations, NEW n \in Rows,
           NEW parallel \in BOOLEAN, Start(coll, asked, n, parallel)
    PROVE  RunInv'
<1>1. /\ IterationCount(asked, n) \in Nat \ {0}
      /\ MaxParallel \in Nat \ {0}
      /\ (IF coll \in collections THEN RequestsIn[coll] ELSE 0) \in Nat
  BY RunnerAssumption DEF IterationCount
<1>2. /\ run' = [stage |-> "running", count |-> run.count + 1, coll |-> coll,
                 size |-> IF coll \in collections THEN RequestsIn[coll] ELSE 0,
                 rounds |-> IterationCount(asked, n),
                 width |-> IF parallel THEN MaxParallel ELSE 1,
                 at |-> <<1, 1>>, handles |-> <<>>, results |-> <<>>]
      /\ UNCHANGED collections
  BY DEF Start, NoRun, tables
<1>3. RunType'
  BY <1>1, <1>2 DEF RunInv, RunType
<1>4. Taken' = <<>> /\ Spent' = 0
  BY <1>1, <1>2 DEF Taken, Spent
<1> QED BY <1>2, <1>3, <1>4 DEF RunInv, Aligned

LEMMA SpawnKeepsRun ==
    ASSUME RunInv, SpawnWave
    PROVE  RunInv'
<1> DEFINE H == Handles(Wave)
           card == Cardinality(Wave)
<1>0. RunType /\ Left /\ run.handles = <<>> /\ run.stage = "running"
  BY DEF RunInv, SpawnWave, Left
<1>1. /\ H \in Seq(Triple) /\ Len(H) = card
      /\ card \in Nat \ {0} /\ run.at[2] + card - 1 <= run.size
      /\ (run.size \in Wave) <=> (run.at[2] + card - 1 = run.size)
  BY <1>0, HandlesShape, WaveShape DEF RunType
<1>2. \A n \in 1 .. card : H[n] = PlanAt(Spent + n)
  BY <1>0, WaveIsPlanned
<1>3. /\ run' = [run EXCEPT !.handles = @ \o H,
                            !.at = IF run.size \in Wave THEN <<@[1] + 1, 1>>
                                   ELSE <<@[1], @[2] + card>>]
      /\ UNCHANGED collections
  BY DEF SpawnWave, Spawned, sendVars, tables
<1> HIDE DEF H, card
<1>4. run.handles \o H = H
  BY <1>0, <1>1
<1>5. /\ run'.handles = H /\ run'.results = run.results /\ run'.stage = "running"
      /\ run'.count = run.count /\ run'.size = run.size /\ run'.rounds = run.rounds
      /\ run'.at = IF run.size \in Wave THEN <<run.at[1] + 1, 1>>
                   ELSE <<run.at[1], run.at[2] + card>>
  BY <1>0, <1>3, <1>4 DEF RunType
<1>6. run.at[1] <= run.rounds /\ run.size > 0
  BY <1>0 DEF Left
<1>7. RunType'
  <2>1. /\ run.at[1] \in Nat \ {0} /\ run.at[2] \in Nat \ {0}
        /\ run.size \in Nat /\ run.rounds \in Nat
    BY <1>0 DEF RunType
  <2>2. /\ run'.at \in (Nat \ {0}) \X (Nat \ {0})
        /\ run'.at[1] <= run.rounds + 1
        /\ (run'.at[1] = run.rounds + 1) => (run'.at[2] = 1)
        /\ run'.at[2] <= run.size \/ run'.at[2] = 1
    <3>1. CASE run.size \in Wave
      BY <1>5, <1>6, <2>1, <3>1
    <3>2. CASE run.size \notin Wave
      <4>1. run'.at = <<run.at[1], run.at[2] + card>>
        BY <1>5, <3>2
      <4>2. run.at[2] + card <= run.size /\ run.at[2] + card \in Nat \ {0}
        BY <1>1, <2>1, <3>2
      <4> QED BY <1>6, <2>1, <4>1, <4>2
    <3> QED BY <3>1, <3>2
  <2>3. run' \in [stage : {"none", "running", "failed", "done"}, count : Nat,
                  coll : Collections \union {None}, size : Nat, rounds : Nat,
                  width : Nat \ {0}, at : (Nat \ {0}) \X (Nat \ {0}),
                  handles : Seq(Triple), results : Seq(Triple)]
    BY <1>0, <1>1, <1>3, <1>4, <1>5, <2>2 DEF RunType
  <2>4. (run'.size # 0) /\ collections' \subseteq Collections
    BY <1>0, <1>3, <1>5, <1>6 DEF RunType
  <2> QED BY <1>5, <2>2, <2>3, <2>4 DEF RunType
<1>8. Taken = run.results /\ Taken' = run.results \o H /\ run.results \in Seq(Triple)
  <2>1. run.results \in Seq(Triple)
    BY <1>0 DEF RunType
  <2>2. run.results \o <<>> = run.results
    BY <2>1
  <2> QED BY <1>0, <1>5, <2>1, <2>2 DEF Taken
<1>9. Len(run.results) = Spent /\ \A i \in 1 .. Spent : run.results[i] = PlanAt(i)
  BY <1>0, <1>8 DEF RunInv, Aligned
<1>10. Spent' = Spent + card
  <2>1. /\ run.at[1] \in Nat \ {0} /\ run.at[2] \in Nat /\ run.size \in Nat
    BY <1>0 DEF RunType
  <2> DEFINE q == run.at[1] - 1
  <2>0. q \in Nat
    BY <2>1
  <2>2. q \in Nat /\ q * run.size \in Nat /\ (q + 1) * run.size = q * run.size + run.size
    BY <2>0, <2>1, Turns
  <2>3. Spent = q * run.size + (run.at[2] - 1)
    BY DEF Spent
  <2>4. CASE run.size \in Wave
    <3>1. run'.at[1] = q + 2 /\ run'.at[2] = 1
      BY <1>5, <2>1, <2>4
    <3>2. Spent' = (q + 1) * run.size
      BY <1>5, <2>1, <2>2, <3>1 DEF Spent
    <3> QED BY <1>1, <2>1, <2>2, <2>3, <2>4, <3>2
  <2>5. CASE run.size \notin Wave
    <3>1. run'.at[1] = run.at[1] /\ run'.at[2] = run.at[2] + card
      BY <1>5, <2>5
    <3>2. Spent' = q * run.size + (run.at[2] + card - 1)
      <4>1. run'.size = run.size
        BY <1>5
      <4>2. (run'.at[1] - 1) * run'.size + (run'.at[2] - 1)
               = (run.at[1] - 1) * run.size + ((run.at[2] + card) - 1)
        BY <3>1, <4>1
      <4>3. (run.at[2] + card) - 1 = run.at[2] + card - 1
        BY <1>1, <2>1
      <4> QED BY <4>2, <4>3 DEF Spent
    <3>3. \A x \in Nat : x + (run.at[2] + card - 1) = (x + (run.at[2] - 1)) + card
      BY <1>1, <2>1
    <3> QED BY <2>2, <2>3, <3>2, <3>3
  <2> QED BY <2>4, <2>5
<1>11. Spent \in Nat
  BY <1>0, SpentWithin
<1>12. Len(Taken') = Spent' /\ \A i \in 1 .. Spent' : Taken'[i] = PlanAt(i)
  <2>1. /\ Len(run.results \o H) = Spent + card
        /\ \A i \in 1 .. Spent : (run.results \o H)[i] = run.results[i]
        /\ \A i \in 1 .. card : (run.results \o H)[Spent + i] = H[i]
    <3>1. run.results \in Seq(Triple) /\ H \in Seq(Triple)
      BY <1>1, <1>8
    <3>2. /\ Len(run.results \o H) = Len(run.results) + Len(H)
          /\ \A i \in 1 .. Len(run.results) : (run.results \o H)[i] = run.results[i]
          /\ \A i \in 1 .. Len(H) : (run.results \o H)[Len(run.results) + i] = H[i]
      BY <3>1, Joined, Zenon
    <3> QED BY <1>1, <1>9, <3>2, Zenon
  <2>2. ASSUME NEW i \in 1 .. Spent + card PROVE (run.results \o H)[i] = PlanAt(i)
    <3>1. CASE i <= Spent
      BY <1>9, <1>11, <2>1, <3>1
    <3>2. CASE i > Spent
      <4>1. PICK j \in 1 .. card : i = Spent + j
        <5>1. i - Spent \in 1 .. card /\ i = Spent + (i - Spent)
          BY <1>1, <1>11, <3>2
        <5> QED BY <5>1
      <4> QED BY <1>2, <2>1, <4>1
    <3>3. i <= Spent \/ i > Spent
      <4>1. card \in Nat
        BY <1>1
      <4> QED BY <4>1, <1>11
    <3> QED BY <3>1, <3>2, <3>3
  <2> QED BY <1>8, <1>10, <2>1, <2>2
<1>13. \A i : PlanAt(i)' = PlanAt(i)
  BY <1>5 DEF PlanAt
<1> QED BY <1>5, <1>7, <1>10, <1>11, <1>12, <1>13 DEF RunInv, Aligned

LEMMA AwaitKeepsRun ==
    ASSUME RunInv, AwaitNext \/ AwaitError \/ Summarise
    PROVE  RunInv'
<1>0. RunType /\ run.stage = "running" /\ Spent \in Nat /\ UNCHANGED collections
  BY SpentWithin DEF RunInv, AwaitNext, AwaitError, Summarise, sendVars, tables
<1>1. /\ run.results \in Seq(Triple) /\ run.handles \in Seq(Triple)
  BY <1>0 DEF RunType
<1>2. Len(Taken) = Spent /\ \A i \in 1 .. Spent : Taken[i] = PlanAt(i)
  BY <1>0 DEF RunInv, Aligned
<1>3. CASE AwaitNext
  <2>1. /\ run' = [run EXCEPT !.handles = Tail(@), !.results = Append(@, Head(run.handles))]
        /\ run.handles # <<>>
    BY <1>3 DEF AwaitNext
  <2>2. /\ Tail(run.handles) \in Seq(Triple)
        /\ Append(run.results, Head(run.handles)) \in Seq(Triple)
        /\ Append(run.results, Head(run.handles)) \o Tail(run.handles)
              = run.results \o run.handles
    BY <1>1, <2>1, HeadJoins
  <2>3. RunType' /\ Spent' = Spent /\ \A i : PlanAt(i)' = PlanAt(i)
    BY <1>0, <2>1, <2>2 DEF RunType, Spent, PlanAt
  <2>4. Taken' = Taken /\ run'.stage = "running"
    BY <1>0, <2>1, <2>2 DEF Taken, RunType
  <2> QED BY <1>0, <1>2, <2>3, <2>4 DEF RunInv, Aligned
<1>4. CASE AwaitError
  <2>1. run' = [run EXCEPT !.stage = "failed", !.handles = <<>>]
    BY <1>4 DEF AwaitError
  <2>2. RunType' /\ Spent' = Spent /\ \A i : PlanAt(i)' = PlanAt(i)
    <3>1. <<>> \in Seq(Triple)
      OBVIOUS
    <3> QED BY <1>0, <2>1, <3>1 DEF RunType, Spent, PlanAt
  <2>3. Taken' = run.results /\ run'.stage = "failed" /\ run'.handles = <<>>
    BY <1>0, <1>1, <2>1 DEF Taken, RunType
  <2>4. /\ Len(run.results) <= Len(Taken)
        /\ \A i \in 1 .. Len(run.results) : run.results[i] = Taken[i]
    BY <1>1, Joined, Zenon DEF Taken
  <2>5. \A i \in 1 .. Len(run.results) : i \in 1 .. Spent
    BY <1>0, <1>1, <1>2, <2>4
  <2> QED BY <1>0, <1>2, <2>2, <2>3, <2>4, <2>5 DEF RunInv, Aligned
<1>5. CASE Summarise
  <2>1. /\ run' = [run EXCEPT !.stage = "done"]
        /\ run.handles = <<>>
        /\ run.size = 0 \/ run.at[1] > run.rounds
    BY <1>0, <1>5 DEF Summarise, Left, RunType
  <2>2. RunType' /\ Spent' = Spent /\ Taken' = Taken /\ \A i : PlanAt(i)' = PlanAt(i)
    BY <1>0, <2>1 DEF RunType, Spent, PlanAt, Taken
  <2>3. Taken = run.results
    BY <1>1, <2>1 DEF Taken
  <2>4. Spent = run.rounds * run.size
    <3>1. CASE run.size = 0
      <4>1. run.at[1] = 1 /\ run.at[2] = 1 /\ run.rounds \in Nat
        BY <1>0, <3>1 DEF RunType
      <4> QED BY <3>1, <4>1 DEF Spent
    <3>2. CASE run.at[1] > run.rounds
      <4>1. run.at[1] - 1 = run.rounds /\ run.at[2] = 1
        BY <1>0, <3>2 DEF RunType
      <4>2. run.rounds * run.size \in Nat
        BY <1>0, SpentWithin
      <4> QED BY <4>1, <4>2 DEF Spent
    <3> QED BY <2>1, <3>1, <3>2
  <2>5. /\ run'.stage = "done" /\ run'.handles = <<>> /\ run'.results = run.results
        /\ run'.rounds = run.rounds /\ run'.size = run.size
    BY <1>0, <2>1 DEF RunType
  <2> QED BY <1>0, <1>2, <2>2, <2>3, <2>4, <2>5 DEF RunInv, Aligned
<1> QED BY <1>3, <1>4, <1>5

(* Steps in which the run takes no part.                                   *)
LEMMA AsideKeepsRun ==
    ASSUME RunInv, run' = run, collections' \subseteq collections
    PROVE  RunInv'
  BY DEF RunInv, RunType, Aligned, Taken, Spent, PlanAt

LEMMA OthersStayAside ==
    ASSUME NEW s
    PROVE  Sending(s) \/ User \/ Tick => collections' \subseteq collections
<1>1. CASE Sending(s)
  BY <1>1 DEF Sending, Begin, Prepare, Exchange, SendFails, Abandon, Record, Replay,
              RecordReplay, tables
<1>2. CASE User
  BY <1>2, UserEditsOrActs
     DEF Act, SetActiveEnvironment, DeleteEnvironment, DeleteCollection, Drop, Keychain,
         SetRetention, DeleteHistoryEntry, ClearHistory, tables
<1>3. CASE Tick
  BY <1>3 DEF Tick, tables
<1> QED
  BY <1>1, <1>2, <1>3

LEMMA NextRun == RunInv /\ [Next]_vars => RunInv'
<1> SUFFICES ASSUME RunInv, [Next]_vars PROVE RunInv'
  OBVIOUS
<1>1. CASE ((\E s \in SendIds : Sending(s)) \/ User \/ Tick) /\ UNCHANGED runVars
  BY <1>1, OthersStayAside, AsideKeepsRun DEF runVars
<1>2. ASSUME NEW coll \in Collections, NEW asked \in Iterations, NEW n \in Rows,
             NEW parallel \in BOOLEAN, Start(coll, asked, n, parallel)
      PROVE  RunInv'
  BY <1>2, StartKeepsRun
<1>3. ASSUME NEW needle, NEW asked \in Iterations, NEW n \in Rows,
             NEW parallel \in BOOLEAN, StartByName(needle, asked, n, parallel)
      PROVE  RunInv'
  BY <1>2, <1>3 DEF StartByName, Chosen, RunInv, RunType
<1>4. CASE Loop
  BY <1>4, SpawnKeepsRun, AwaitKeepsRun DEF Loop
<1>5. ASSUME NEW t, Task(t) PROVE RunInv'
  BY <1>5, AsideKeepsRun DEF Task, LookUp, Execute, Panic, Moves, sendVars, tables
<1>6. CASE UNCHANGED vars
  BY <1>6, AsideKeepsRun DEF vars, sendVars, tables, runVars
<1> QED BY <1>1, <1>2, <1>3, <1>4, <1>5, <1>6 DEF Next

(* However the tasks of a run overtake each other, its results are those   *)
(* of its requests in their order, iteration by iteration, and all of them *)
(* when it succeeds, for any collection, iterations and width of a wave.   *)
THEOREM RunsAreAligned == Spec => []ResultsAreAligned
<1>1. ASSUME RunInv PROVE ResultsAreAligned
  <2> DEFINE m == run.rounds * run.size
  <2>0. RunType /\ Aligned
    BY <1>1 DEF RunInv
  <2>1. run.results \in Seq(Triple) /\ run.handles \in Seq(Triple)
    BY <2>0 DEF RunType
  <2>2. m \in Nat /\ Spent \in Nat /\ Spent <= m
    BY <2>0, SpentWithin
  <2>3. Plan = [i \in 1 .. m |-> PlanAt(i)]
    BY DEF Plan, PlanAt
  <2> HIDE DEF m
  <2>4. Len(run.results) <= m /\ \A i \in 1 .. Len(run.results) : run.results[i] = PlanAt(i)
    <3>1. /\ Len(run.results) \in Nat /\ Len(run.results) <= Len(Taken)
          /\ \A i \in 1 .. Len(run.results) : Taken[i] = run.results[i]
      BY <2>1, Joined, Zenon DEF Taken
    <3>2. Len(Taken) <= Spent /\ \A i \in 1 .. Len(Taken) : Taken[i] = PlanAt(i)
      BY <2>0 DEF Aligned
    <3>3. Len(Taken) \in Nat
      BY <2>1, Joined, Zenon DEF Taken
    <3> QED BY <2>2, <3>1, <3>2, <3>3
  <2>5. Len(Plan) = m /\ \A i \in 1 .. m : Plan[i] = PlanAt(i)
    BY <2>2, <2>3
  <2>6. SubSeq(run.results, 1, Len(run.results)) = SubSeq(Plan, 1, Len(run.results))
    BY <2>1, <2>2, <2>3, <2>4, <2>5
  <2>7. (run.stage = "done") => (Len(run.results) = m)
    BY <2>0 DEF Aligned, m
  <2>8. (run.stage = "done") => (run.results = Plan)
    BY <2>1, <2>2, <2>3, <2>4, <2>7
  <2> QED BY <2>4, <2>5, <2>6, <2>8 DEF ResultsAreAligned, IsPrefix
<1> QED BY <1>1, InitRun, NextRun, PTL DEF Spec

(* The requests on their way are of the wave whose handles the loop holds; *)
(* once it gave up, of the last one.                                       *)
WaveInv ==
    /\ \A t \in DOMAIN tasks : /\ t \in Triple /\ t[1] <= run.count
                               /\ "stage" \in DOMAIN tasks[t]
    /\ IsFiniteSet(Unfinished) /\ Cardinality(Unfinished) <= run.width
    /\ \A t, u \in Unfinished : t[2] = u[2]
    /\ (run.stage = "running") => (Unfinished \subseteq Range(run.handles))
    /\ (run.stage = "done") => (Unfinished = {})

LEMMA FewerAreOneWave ==
    ASSUME NEW few, NEW many, IsFiniteSet(many), few \subseteq many,
           NEW width \in Nat, Cardinality(many) <= width
    PROVE  IsFiniteSet(few) /\ Cardinality(few) <= width
<1>1. IsFiniteSet(few) /\ Cardinality(few) <= Cardinality(many)
  BY FS_Subset
<1>2. Cardinality(few) \in Nat /\ Cardinality(many) \in Nat
  BY <1>1, FS_CardinalityType
<1> QED BY <1>1, <1>2

(* A wave has as many requests as it has places, all of one iteration.     *)
LEMMA WaveIsBounded ==
    ASSUME RunType, Left
    PROVE  /\ IsFiniteSet(Range(Handles(Wave)))
           /\ Cardinality(Range(Handles(Wave))) <= run.width
           /\ \A t \in Range(Handles(Wave)) : /\ t \in Triple
                                              /\ t[1] = run.count /\ t[2] = run.at[1]
<1> DEFINE n == Cardinality(Wave)
           H == Handles(Wave)
<1>1. n \in 1 .. run.width /\ run.width \in Nat
  BY WaveShape DEF RunType
<1>2. DOMAIN H = 1 .. n /\ H = [i \in 1 .. n |-> H[i]]
  BY DEF Handles
<1>3. H \in Surjection(1 .. n, Range(H))
  BY <1>2 DEF Surjection, Range
<1>4. IsFiniteSet(1 .. n) /\ Cardinality(1 .. n) = n
  BY <1>1, FS_Interval
<1>5. IsFiniteSet(Range(H)) /\ Cardinality(Range(H)) <= n
  BY <1>3, <1>4, FS_Surjection
<1>6. Cardinality(Range(H)) \in Nat
  BY <1>5, FS_CardinalityType
<1>7. \A t \in Range(H) : t \in Triple /\ t[1] = run.count /\ t[2] = run.at[1]
  <2>1. run.count \in Nat /\ run.at[1] \in Nat
    BY DEF RunType
  <2>2. \A i \in 1 .. n : /\ H[i] = <<run.count, run.at[1], run.at[2] + i - 1>>
                          /\ H[i] \in Triple
    BY <1>1, <1>2, HandlesShape
  <2>3. \A i \in 1 .. n : H[i] \in Triple /\ H[i][1] = run.count /\ H[i][2] = run.at[1]
    BY <2>2
  <2> QED BY <1>2, <2>3 DEF Range
<1> HIDE DEF n, H
<1>8. Cardinality(Range(H)) <= run.width
  BY <1>1, <1>5, <1>6
<1> QED BY <1>5, <1>7, <1>8 DEF H

LEMMA SpawnKeepsWaves ==
    ASSUME RunInv, WaveInv, SpawnWave
    PROVE  WaveInv'
<1> DEFINE H == Handles(Wave)
<1>0. RunType /\ Left /\ run.handles = <<>> /\ run.stage = "running"
  BY DEF RunInv, SpawnWave, Left
<1>1. /\ IsFiniteSet(Range(H)) /\ Cardinality(Range(H)) <= run.width
      /\ \A t \in Range(H) : t \in Triple /\ t[1] = run.count /\ t[2] = run.at[1]
      /\ run.width \in Nat /\ H \in Seq(Triple)
  BY <1>0, WaveIsBounded, HandlesShape DEF RunType
<1>2. tasks' = Over(tasks, [t \in Range(H) |-> [stage |-> "started", coll |-> run.coll]])
  BY DEF SpawnWave, Spawned
<1>3. /\ run'.count = run.count /\ run'.width = run.width /\ run'.stage = "running"
      /\ run'.handles = <<>> \o H
  BY <1>0 DEF SpawnWave, Spawned, RunType
<1> HIDE DEF H
<1>4. run'.handles = H
  BY <1>1, <1>3
<1>5. Unfinished = {}
  BY <1>0 DEF WaveInv, Range
<1>6. /\ DOMAIN tasks' = DOMAIN tasks \union Range(H)
      /\ \A t \in DOMAIN tasks' :
            tasks'[t] = IF t \in Range(H) THEN [stage |-> "started", coll |-> run.coll]
                        ELSE tasks[t]
  BY <1>2 DEF Over
<1>7. Unfinished' \subseteq Range(H)
  BY <1>3, <1>5, <1>6 DEF Unfinished
<1>8. \A t \in DOMAIN tasks' : /\ t \in Triple /\ t[1] <= run'.count
                               /\ "stage" \in DOMAIN tasks'[t]
  <2>1. run.count \in Nat
    BY <1>0 DEF RunType
  <2>2. \A t \in Range(H) : t \in Triple /\ t[1] <= run'.count
    BY <1>1, <1>3, <2>1
  <2> QED BY <1>3, <1>6, <2>2 DEF WaveInv
<1>9. IsFiniteSet(Unfinished') /\ Cardinality(Unfinished') <= run.width
  BY <1>1, <1>7, FewerAreOneWave
<1> QED BY <1>1, <1>3, <1>4, <1>7, <1>8, <1>9 DEF WaveInv

(* Steps in which requests end and none begins.                            *)
LEMMA EndingKeepsWaves ==
    ASSUME RunInv, WaveInv, Unfinished' \subseteq Unfinished,
           run'.count = run.count, run'.width = run.width,
           DOMAIN tasks' = DOMAIN tasks,
           \A t \in DOMAIN tasks : "stage" \in DOMAIN tasks'[t],
           (run'.stage = "running") => (Unfinished' \subseteq Range(run'.handles)),
           (run'.stage = "done") => (Unfinished' = {})
    PROVE  WaveInv'
<1>1. run.width \in Nat /\ IsFiniteSet(Unfinished) /\ Cardinality(Unfinished) <= run.width
  BY DEF RunInv, RunType, WaveInv
<1>2. IsFiniteSet(Unfinished') /\ Cardinality(Unfinished') <= run.width
  BY <1>1, FewerAreOneWave
<1> QED BY <1>2 DEF WaveInv

LEMMA AwaitKeepsWaves ==
    ASSUME RunInv, WaveInv, AwaitNext \/ AwaitError \/ Summarise
    PROVE  WaveInv'
<1>0. /\ RunType /\ run.stage = "running" /\ tasks' = tasks
      /\ run.handles \in Seq(Triple) /\ Unfinished \subseteq Range(run.handles)
  BY DEF RunInv, RunType, WaveInv, AwaitNext, AwaitError, Summarise
<1>1. CASE AwaitNext
  <2>1. /\ run' = [run EXCEPT !.handles = Tail(@), !.results = Append(@, Head(run.handles))]
        /\ run.handles # <<>> /\ Head(run.handles) \notin Unfinished
    BY <1>1 DEF AwaitNext, StageOf, Unfinished
  <2>2. /\ run'.count = run.count /\ run'.width = run.width /\ run'.stage = "running"
        /\ run'.handles = Tail(run.handles)
    BY <1>0, <2>1 DEF RunType
  <2>3. \A t \in Range(run.handles) : t = Head(run.handles) \/ t \in Range(Tail(run.handles))
    <3>1. \A i \in 1 .. Len(run.handles) :
             \/ run.handles[i] = Head(run.handles)
             \/ i - 1 \in 1 .. Len(Tail(run.handles))
                /\ run.handles[i] = Tail(run.handles)[i - 1]
      BY <1>0, <2>1
    <3>2. /\ DOMAIN run.handles = 1 .. Len(run.handles)
          /\ DOMAIN Tail(run.handles) = 1 .. Len(Tail(run.handles))
      BY <1>0, <2>1
    <3> QED BY <3>1, <3>2 DEF Range
  <2>4. Unfinished' = Unfinished
    BY <1>0, <2>2 DEF Unfinished
  <2> QED BY <1>0, <2>1, <2>2, <2>3, <2>4, EndingKeepsWaves DEF WaveInv
<1>2. CASE AwaitError
  <2>1. run' = [run EXCEPT !.stage = "failed", !.handles = <<>>]
    BY <1>2 DEF AwaitError
  <2>2. run'.count = run.count /\ run'.width = run.width /\ run'.stage = "failed"
    BY <1>0, <2>1 DEF RunType
  <2>3. Unfinished' = Unfinished
    BY <1>0, <2>2 DEF Unfinished
  <2> QED BY <1>0, <2>2, <2>3, EndingKeepsWaves DEF WaveInv
<1>3. CASE Summarise
  <2>1. run' = [run EXCEPT !.stage = "done"] /\ run.handles = <<>>
    BY <1>3 DEF Summarise
  <2>2. run'.count = run.count /\ run'.width = run.width /\ run'.stage = "done"
    BY <1>0, <2>1 DEF RunType
  <2>3. Unfinished' = Unfinished /\ Unfinished = {}
    BY <1>0, <2>1, <2>2 DEF Unfinished, Range
  <2> QED BY <1>0, <2>2, <2>3, EndingKeepsWaves DEF WaveInv
<1> QED BY <1>1, <1>2, <1>3

(* A new run has no request yet.                                           *)
LEMMA StartKeepsWaves ==
    ASSUME RunInv, WaveInv, NEW coll \in Collections, NEW asked \in Iterations, NEW n \in Rows,
           NEW parallel \in BOOLEAN, Start(coll, asked, n, parallel)
    PROVE  WaveInv'
<1>1. /\ run'.count = run.count + 1 /\ run'.stage = "running" /\ tasks' = tasks
      /\ run'.width = IF parallel THEN MaxParallel ELSE 1
  BY DEF Start, NoRun
<1>2. run.count \in Nat /\ MaxParallel \in Nat
  BY RunnerAssumption DEF RunInv, RunType
<1>3. \A t \in DOMAIN tasks : t[1] <= run.count /\ t[1] \in Nat
  BY DEF WaveInv, Triple
<1>4. Unfinished' = {}
  BY <1>1, <1>2, <1>3 DEF Unfinished
<1>5. \A t \in DOMAIN tasks : t[1] <= run'.count
  BY <1>1, <1>2, <1>3
<1>6. run'.width \in Nat
  BY <1>1, <1>2
<1> QED BY <1>1, <1>4, <1>5, <1>6, FS_EmptySet DEF WaveInv

LEMMA TaskKeepsWaves ==
    ASSUME RunInv, WaveInv, NEW t \in DOMAIN tasks, Task(t)
    PROVE  WaveInv'
<1>1. PICK from \in {"started", "sending"}, to \in {"sending", "done", "failed"} :
         Moves(t, from, to)
  BY DEF Task, LookUp, Execute, Panic
<1>2. /\ tasks[t].stage = from /\ run' = run
      /\ DOMAIN tasks' = DOMAIN tasks
      /\ tasks'[t] = [tasks[t] EXCEPT !.stage = to]
      /\ \A u \in DOMAIN tasks : u # t => tasks'[u] = tasks[u]
  BY <1>1 DEF Moves
<1>3. \A u \in DOMAIN tasks : "stage" \in DOMAIN tasks'[u]
  BY <1>2 DEF WaveInv
<1>4. Unfinished' \subseteq Unfinished
  BY <1>2 DEF Unfinished
<1> QED BY <1>2, <1>3, <1>4, EndingKeepsWaves DEF WaveInv

LEMMA NextWaves == RunInv /\ WaveInv /\ [Next]_vars => WaveInv'
<1> SUFFICES ASSUME RunInv, WaveInv, [Next]_vars PROVE WaveInv'
  OBVIOUS
<1>0. ASSUME UNCHANGED runVars PROVE WaveInv'
  BY <1>0 DEF runVars, WaveInv, Unfinished
<1>2. ASSUME NEW coll \in Collections, NEW asked \in Iterations, NEW n \in Rows,
             NEW parallel \in BOOLEAN, Start(coll, asked, n, parallel)
      PROVE  WaveInv'
  BY <1>2, StartKeepsWaves
<1>3. ASSUME NEW needle, NEW asked \in Iterations, NEW n \in Rows,
             NEW parallel \in BOOLEAN, StartByName(needle, asked, n, parallel)
      PROVE  WaveInv'
  BY <1>2, <1>3 DEF StartByName, Chosen, RunInv, RunType
<1>4. CASE Loop
  BY <1>4, SpawnKeepsWaves, AwaitKeepsWaves DEF Loop
<1>5. ASSUME NEW t \in DOMAIN tasks, Task(t) PROVE WaveInv'
  BY <1>5, TaskKeepsWaves
<1>6. CASE UNCHANGED vars
  BY <1>0, <1>6 DEF vars
<1> QED BY <1>0, <1>2, <1>3, <1>4, <1>5, <1>6 DEF Next

LEMMA InitWaves == Init => WaveInv
<1> SUFFICES ASSUME Init PROVE WaveInv
  OBVIOUS
<1>1. DOMAIN tasks = {} /\ run.stage = "none" /\ run.width = 1
  BY DEF Init, NoRun
<1>2. Unfinished = {}
  BY <1>1 DEF Unfinished
<1> QED BY <1>1, <1>2, FS_EmptySet DEF WaveInv

(* Whatever ends when, a run never has requests of two waves on their way, *)
(* nor any when it is done.                                                *)
THEOREM RunsGoByWaves == Spec => []OneWaveAtATime
<1>1. WaveInv => OneWaveAtATime
  BY DEF WaveInv, OneWaveAtATime
<1> QED BY <1>1, InitRun, NextRun, InitWaves, NextWaves, PTL DEF Spec

=============================================================================
