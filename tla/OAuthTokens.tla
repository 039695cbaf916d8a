---------------------------- MODULE OAuthTokens ----------------------------
(***************************************************************************)
(* The cached OAuth2 token of one collection or request: a metadata row    *)
(* and two keychain entries (auth/oauth/token_store.rs), written by every  *)
(* send (commands/http.rs, collapse_oauth2) and by the browser sign-in     *)
(* (commands/oauth.rs).  Both read or start without the database lock,     *)
(* talk to the identity provider, and take the lock again to store what    *)
(* they got.  Token n is the n-th the provider issued: n names its access  *)
(* token, its refresh token and its expiry.                                *)
(***************************************************************************)
EXTENDS Naturals

CONSTANTS Sends, SignIns,  \* commands that may be in flight
          MaxTokens        \* bound on the tokens ever issued

ASSUME OAuthTokensAssumption == Sends \intersect SignIns = {} /\ MaxTokens \in Nat

VARIABLES grant,     \* "code" needs a browser; "headless": the other three
          owner,     \* "live", "gone": the row the token belongs to
          row,       \* oauth_tokens: the token whose expiry it has, 0 without a
                     \* row, and has_refresh_token
          keychain,  \* the tokens whose access and refresh strings it has
          proc,      \* each command: its stage and the token it holds
          issued,    \* how many tokens the provider issued
          expired,   \* tokens is_fresh no longer accepts
          honoured,  \* refresh tokens the provider still accepts
          faulted    \* a put or a sweep was cut short

store == <<row, keychain>>
provider == <<issued, honoured>>
vars == <<grant, owner, store, proc, provider, expired, faulted>>

Commands == Sends \union SignIns
Tokens == 0..MaxTokens
NoRow == [token |-> 0, refresh |-> FALSE]
NoKeys == [access |-> 0, refresh |-> 0]
Idle == [stage |-> "idle", access |-> 0, expiry |-> 0, refresh |-> 0,
         overtaken |-> FALSE]
Stages == {"idle", "refreshing", "fetching", "waiting", "reading",
           "exchanging", "putting"}
Progress == [stage : Stages, access : Tokens, expiry : Tokens, refresh : Tokens,
             overtaken : BOOLEAN]

TypeOK ==
    /\ grant \in {"code", "headless"}
    /\ owner \in {"live", "gone"}
    /\ row \in [token : Tokens, refresh : BOOLEAN]
    /\ keychain \in [access : Tokens, refresh : Tokens]
    /\ proc \in [Commands -> Progress]
    /\ issued \in Tokens
    /\ expired \subseteq Tokens /\ honoured \subseteq Tokens
    /\ faulted \in BOOLEAN

Init ==
    /\ grant \in {"code", "headless"}
    /\ owner = "live"
    /\ row = NoRow /\ keychain = NoKeys
    /\ proc = [p \in Commands |-> Idle]
    /\ issued = 0 /\ expired = {} /\ honoured = {}
    /\ faulted = FALSE

-----------------------------------------------------------------------------
(* The identity provider.                                                  *)

(* Token n goes to p, with a refresh token or without.                     *)
Issue(p) ==
    /\ issued < MaxTokens
    /\ issued' = issued + 1
    /\ \/ /\ proc' = [proc EXCEPT ![p].stage = "putting", ![p].access = issued',
                                  ![p].expiry = issued', ![p].refresh = issued']
          /\ honoured' = honoured \union {issued'}
       \/ /\ proc' = [proc EXCEPT ![p].stage = "putting", ![p].access = issued',
                                  ![p].expiry = issued', ![p].refresh = 0]
          /\ UNCHANGED honoured

(* A refresh token is traded for token n: it is rotated, or sent again, or *)
(* left out of the answer, which leaves it good.                           *)
Renew(p) ==
    /\ issued < MaxTokens
    /\ proc[p].refresh \in honoured
    /\ issued' = issued + 1
    /\ \E next \in {issued', proc[p].refresh, 0} :
         /\ proc' = [proc EXCEPT ![p].stage = "putting", ![p].access = issued',
                                 ![p].expiry = issued', ![p].refresh = next]
         /\ honoured' = IF next = issued' THEN (honoured \ {proc[p].refresh}) \union {next}
                                          ELSE honoured

(* Time passes: is_fresh only ever looks at the expiry in the row.         *)
Expire ==
    /\ row # NoRow /\ row.token \notin expired
    /\ expired' = expired \union {row.token}
    /\ UNCHANGED <<grant, owner, store, proc, provider, faulted>>

-----------------------------------------------------------------------------
(* token_store.                                                            *)

(* get: without a row or without its access token, a miss.                 *)
Hit == row # NoRow /\ keychain.access # 0

Cached(stage) ==
    [stage |-> stage, access |-> keychain.access, expiry |-> row.token,
     refresh |-> IF row.refresh THEN keychain.refresh ELSE 0, overtaken |-> FALSE]

(* Mistake: a row that is there is not replaced.                           *)
StoredRowKept(p) ==
    /\ owner = "live"
    /\ row' = IF row # NoRow THEN row
              ELSE [token |-> proc[p].expiry, refresh |-> proc[p].refresh # 0]
    /\ keychain' = [access |-> proc[p].access, refresh |-> proc[p].refresh]
    /\ UNCHANGED faulted

(* Mistake: the keychain first, then the row, which may be refused.        *)
StoredKeysFirst(p) ==
    /\ row' = IF owner = "gone" THEN row
              ELSE [token |-> proc[p].expiry, refresh |-> proc[p].refresh # 0]
    /\ keychain' = [access |-> proc[p].access, refresh |-> proc[p].refresh]
    /\ UNCHANGED faulted

(* put, by p: the row, the access token, the refresh token.  The row of an *)
(* owner that is gone is refused by its foreign key before the keychain is *)
(* written; a call that fails, or a crash, leaves what came before it.     *)
Stored(p) ==
    LET held == proc[p]
        entry == [token |-> held.expiry, refresh |-> held.refresh # 0]
    IN \/ owner = "gone" /\ UNCHANGED <<store, faulted>>
       \/ /\ owner = "live"
          /\ row' = entry
          /\ \/ /\ keychain' = [access |-> held.access, refresh |-> held.refresh]
                /\ UNCHANGED faulted
             \/ keychain' = [keychain EXCEPT !.access = held.access] /\ faulted' = TRUE
             \/ UNCHANGED keychain /\ faulted' = TRUE
       \/ owner = "live" /\ row' = NoRow /\ UNCHANGED keychain /\ faulted' = TRUE

(* p stores its token and ends; whoever else is in flight was overtaken.   *)
Put(p) ==
    /\ proc[p].stage = "putting"
    /\ Stored(p)
    /\ proc' = [q \in Commands |->
                  IF q = p THEN Idle
                  ELSE [proc[q] EXCEPT !.overtaken = proc[q].stage # "idle"]]
    /\ UNCHANGED <<grant, owner, provider, expired>>

-----------------------------------------------------------------------------
(* collapse_oauth2, in a send.                                             *)

(* The cached token is used while fresh, refreshed when it can be, and     *)
(* fetched anew otherwise; the code grant cannot, so the send fails.       *)
Read(s) ==
    /\ proc[s].stage = "idle"
    /\ owner = "live"
    /\ \/ /\ Hit /\ row.token \notin expired
          /\ proc' = [proc EXCEPT ![s] = Cached("putting")]
       \/ /\ Hit /\ row.token \in expired /\ Cached("idle").refresh # 0
          /\ proc' = [proc EXCEPT ![s] = Cached("refreshing")]
       \/ /\ ~ Hit \/ (row.token \in expired /\ Cached("idle").refresh = 0)
          /\ grant = "headless"
          /\ proc' = [proc EXCEPT ![s] = [Idle EXCEPT !.stage = "fetching"]]
    /\ UNCHANGED <<grant, owner, store, provider, expired, faulted>>

Refresh(s) ==
    /\ proc[s].stage = "refreshing"
    /\ Renew(s)
    /\ UNCHANGED <<grant, owner, store, expired, faulted>>

(* Mistake: a refresh that fails takes the refresh token for dead.         *)
RefreshFailsClears(s) ==
    /\ proc[s].stage = "refreshing"
    /\ keychain' = [keychain EXCEPT !.refresh = 0]
    /\ \/ /\ grant = "code"
          /\ proc' = [proc EXCEPT ![s] = Idle]
       \/ /\ grant = "headless"
          /\ proc' = [proc EXCEPT ![s].stage = "fetching"]
    /\ UNCHANGED <<grant, owner, row, provider, expired, faulted>>

(* The provider refuses or cannot be reached: a token from scratch.        *)
RefreshFails(s) ==
    /\ proc[s].stage = "refreshing"
    /\ \/ /\ grant = "code"
          /\ proc' = [proc EXCEPT ![s] = Idle]
       \/ /\ grant = "headless"
          /\ proc' = [proc EXCEPT ![s].stage = "fetching"]
    /\ UNCHANGED <<grant, owner, store, provider, expired, faulted>>

Fetch(s) ==
    /\ proc[s].stage = "fetching"
    /\ \/ Issue(s)
       \/ proc' = [proc EXCEPT ![s] = Idle] /\ UNCHANGED provider
    /\ UNCHANGED <<grant, owner, store, expired, faulted>>

-----------------------------------------------------------------------------
(* start_oauth2_authorization.                                             *)

(* The listener is bound, unless another sign-in has the port, and the     *)
(* browser opened.  A sign-in holds the port until it ends.                *)
StartSignIn(a) ==
    /\ proc[a].stage = "idle"
    /\ owner = "live" /\ grant = "code"
    /\ \A b \in SignIns : proc[b].stage = "idle"
    /\ proc' = [proc EXCEPT ![a].stage = "waiting"]
    /\ UNCHANGED <<grant, owner, store, provider, expired, faulted>>

Accept(a) ==
    /\ proc[a].stage = "waiting"
    /\ proc' = [proc EXCEPT ![a].stage = "reading"]
    /\ UNCHANGED <<grant, owner, store, provider, expired, faulted>>

(* read_callback: a line with a code and the expected state.               *)
ReadCallback(a) ==
    /\ proc[a].stage = "reading"
    /\ proc' = [proc EXCEPT ![a].stage = "exchanging"]
    /\ UNCHANGED <<grant, owner, store, provider, expired, faulted>>

ExchangeCode(a) ==
    /\ proc[a].stage = "exchanging"
    /\ Issue(a)
    /\ UNCHANGED <<grant, owner, store, expired, faulted>>

(* Nobody connects in time; another line; the exchange fails.              *)
SignInFails(a) ==
    /\ proc[a].stage \in {"waiting", "reading", "exchanging"}
    /\ proc' = [proc EXCEPT ![a] = Idle]
    /\ UNCHANGED <<grant, owner, store, provider, expired, faulted>>

-----------------------------------------------------------------------------

(* The owner is deleted, its row goes by cascade and auth::sweep clears    *)
(* the keychain as far as it lets itself be cleared.                       *)
DeleteOwner ==
    /\ owner = "live"
    /\ owner' = "gone"
    /\ row' = NoRow
    /\ \/ keychain' = NoKeys /\ UNCHANGED faulted
       \/ \E left \in {keychain, [NoKeys EXCEPT !.access = keychain.access],
                      [NoKeys EXCEPT !.refresh = keychain.refresh]} :
            keychain' = left /\ faulted' = TRUE
    /\ UNCHANGED <<grant, proc, provider, expired>>

(* The process dies and is started again.                                  *)
Crash ==
    /\ proc' = [p \in Commands |-> Idle]
    /\ UNCHANGED <<grant, owner, store, provider, expired, faulted>>

Next ==
    \/ Expire
    \/ \E p \in Commands : Put(p)
    \/ \E s \in Sends : Read(s) \/ Refresh(s) \/ RefreshFails(s) \/ Fetch(s)
    \/ \E a \in SignIns : \/ StartSignIn(a) \/ Accept(a) \/ ReadCallback(a)
                          \/ ExchangeCode(a) \/ SignInFails(a)
    \/ DeleteOwner \/ Crash

Spec == Init /\ [][Next]_vars

-----------------------------------------------------------------------------
(* Properties.                                                             *)

(* The expiry that is_fresh looks at is that of the access token that will *)
(* be sent, however sends and sign-ins overlap: only a put that was cut    *)
(* short parts them.                                                       *)
ExpiryIsOfToken == (row # NoRow /\ ~ faulted) => row.token = keychain.access

(* A token that arrives after its owner was deleted is not stored, and     *)
(* nothing of the owner's tokens stays behind.                             *)
GoneLeavesNoToken == (owner = "gone" /\ ~ faulted) => keychain = NoKeys

(* A refresh token the provider would still take is given up only for the  *)
(* token of a command that another overtook, or for an answer without one. *)
(* No failed refresh, expiry, crash or failed write loses it.              *)
OnlyOvertakenForgets ==
    [][(keychain.refresh \in honoured /\ keychain'.refresh \notin honoured'
        /\ owner' = "live")
         => \/ honoured' # honoured
            \/ \E p \in Commands :
                 /\ proc[p].stage = "putting" /\ proc'[p].stage = "idle"
                 /\ proc[p].overtaken \/ proc[p].refresh = 0]_vars

=============================================================================
