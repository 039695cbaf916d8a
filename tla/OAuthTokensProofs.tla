------------------------- MODULE OAuthTokensProofs -------------------------
(***************************************************************************)
(* Proofs about OAuthTokens for any number of sends and sign-ins: its type *)
(* invariant, that the stored expiry is that of the stored access token,   *)
(* that a deleted owner leaves no token, and that only the token of a      *)
(* command that was overtaken is stored over a better one.                 *)
(***************************************************************************)
EXTENDS OAuthTokens, TLAPS

(* The expiry and the token must already agree in the command that will    *)
(* store them, and a deleted owner has no row that could be read.          *)
Agreement ==
    /\ ExpiryIsOfToken
    /\ ~ faulted => \A p \in Commands :
                      proc[p].stage = "putting" => proc[p].expiry = proc[p].access
    /\ owner = "gone" => row = NoRow
    /\ GoneLeavesNoToken

(* The fields of a command's progress have their types.                    *)
LEMMA ProgressFields ==
    ASSUME NEW r \in Progress, NEW stage \in Stages, NEW n \in Tokens, NEW k \in Tokens
    PROVE  /\ [r EXCEPT !.stage = stage] \in Progress
           /\ [r EXCEPT !.stage = stage, !.access = n, !.expiry = n, !.refresh = k]
                \in Progress
           /\ [r EXCEPT !.overtaken = (r.stage # "idle")] \in Progress
BY DEF Progress

(* A command that is not running has the type of one.                      *)
LEMMA IdleType == 0 \in Tokens /\ Idle \in Progress
BY OAuthTokensAssumption DEF Tokens, Idle, Progress, Stages

(* The types hold initially.                                               *)
LEMMA InitType == Init => TypeOK
<1>1. /\ NoRow \in [token : Tokens, refresh : BOOLEAN]
      /\ NoKeys \in [access : Tokens, refresh : Tokens]
  BY IdleType DEF NoRow, NoKeys
<1> QED
  BY <1>1, IdleType DEF Init, TypeOK

(* A command takes what the provider issued: the next token.               *)
LEMMA IssueType ==
    ASSUME TypeOK, NEW p \in Commands, Issue(p)
    PROVE  /\ issued' \in Tokens /\ honoured' \subseteq Tokens
           /\ proc' \in [Commands -> Progress]
<1>1. issued' \in Tokens
  BY OAuthTokensAssumption DEF Issue, TypeOK, Tokens
<1>2. "putting" \in Stages /\ proc[p] \in Progress
  BY DEF Stages, TypeOK
<1>3. \A k \in Tokens :
        [proc[p] EXCEPT !.stage = "putting", !.access = issued', !.expiry = issued',
                        !.refresh = k] \in Progress
  BY <1>1, <1>2, ProgressFields
<1>4. \E k \in {issued', 0} :
        proc' = [proc EXCEPT ![p] = [proc[p] EXCEPT !.stage = "putting", !.access = issued',
                                                    !.expiry = issued', !.refresh = k]]
  BY DEF Issue, TypeOK, Progress
<1>5. proc' \in [Commands -> Progress]
  <2>1. PICK k \in {issued', 0} :
          proc' = [proc EXCEPT ![p] = [proc[p] EXCEPT !.stage = "putting", !.access = issued',
                                                      !.expiry = issued', !.refresh = k]]
    BY <1>4
  <2>2. [proc[p] EXCEPT !.stage = "putting", !.access = issued', !.expiry = issued',
                        !.refresh = k] \in Progress
    BY <1>1, <1>3, IdleType
  <2> QED
    BY <2>1, <2>2 DEF TypeOK
<1> QED
  BY <1>1, <1>5 DEF Issue, TypeOK

(* So it does when a refresh token is traded in.                           *)
LEMMA RenewType ==
    ASSUME TypeOK, NEW p \in Commands, Renew(p)
    PROVE  /\ issued' \in Tokens /\ honoured' \subseteq Tokens
           /\ proc' \in [Commands -> Progress]
<1>1. issued' \in Tokens
  BY OAuthTokensAssumption DEF Renew, TypeOK, Tokens
<1>2. "putting" \in Stages /\ proc[p] \in Progress
  BY DEF Stages, TypeOK
<1>3. PICK next \in {issued', proc[p].refresh, 0} :
        /\ proc' = [proc EXCEPT ![p].stage = "putting", ![p].access = issued',
                                ![p].expiry = issued', ![p].refresh = next]
        /\ honoured' = IF next = issued' THEN (honoured \ {proc[p].refresh}) \union {next}
                                         ELSE honoured
  BY DEF Renew
<1>4. next \in Tokens
  BY <1>1, <1>2, IdleType DEF Progress
<1>5. [proc[p] EXCEPT !.stage = "putting", !.access = issued', !.expiry = issued',
                      !.refresh = next] \in Progress
  BY <1>1, <1>2, <1>4, ProgressFields
<1>6. proc' = [proc EXCEPT ![p] = [proc[p] EXCEPT !.stage = "putting", !.access = issued',
                                            !.expiry = issued', !.refresh = next]]
  BY <1>3 DEF TypeOK, Progress
<1> QED
  BY <1>1, <1>3, <1>4, <1>5, <1>6 DEF TypeOK

(* Every step keeps the types.                                             *)
LEMMA TypeStep == TypeOK /\ [Next]_vars => TypeOK'
<1> SUFFICES ASSUME TypeOK, [Next]_vars PROVE TypeOK'
  OBVIOUS
<1> USE DEF store, provider
<1>a. Sends \subseteq Commands /\ SignIns \subseteq Commands
  BY DEF Commands
<1>b. ASSUME NEW p \in Commands, NEW r \in Progress
      PROVE  [proc EXCEPT ![p] = r] \in [Commands -> Progress]
  BY DEF TypeOK
<1>c. ASSUME NEW p \in Commands, NEW stage \in Stages
      PROVE  [proc EXCEPT ![p].stage = stage] \in [Commands -> Progress]
  <2>1. [proc[p] EXCEPT !.stage = stage] \in Progress
    BY ProgressFields, IdleType DEF TypeOK
  <2>2. [proc EXCEPT ![p].stage = stage] = [proc EXCEPT ![p] = [proc[p] EXCEPT !.stage = stage]]
    BY DEF TypeOK
  <2> QED
    BY <2>1, <2>2, <1>b
<1>1. CASE Expire
  BY <1>1 DEF Expire, TypeOK
<1>2. ASSUME NEW p \in Commands, Put(p) PROVE TypeOK'
  <2>1. UNCHANGED <<grant, owner, issued, honoured, expired>>
    BY <1>2 DEF Put, TypeOK
  <2>2. \A q \in Commands :
          [proc[q] EXCEPT !.overtaken = (proc[q].stage # "idle")] \in Progress
    BY ProgressFields, IdleType DEF TypeOK, Stages
  <2>3. proc' \in [Commands -> Progress]
    BY <1>2, <2>2, IdleType DEF Put
  <2>4. Stored(p)
    BY <1>2 DEF Put
  <2>5. /\ proc[p].expiry \in Tokens /\ proc[p].access \in Tokens
        /\ proc[p].refresh \in Tokens
    BY DEF TypeOK, Progress
  <2>6. /\ row' \in [token : Tokens, refresh : BOOLEAN]
        /\ keychain' \in [access : Tokens, refresh : Tokens]
        /\ faulted' \in BOOLEAN
    <3> DEFINE entry == [token |-> proc[p].expiry, refresh |-> proc[p].refresh # 0]
               keys == [access |-> proc[p].access, refresh |-> proc[p].refresh]
               half == [keychain EXCEPT !.access = proc[p].access]
    <3>1. {entry, NoRow} \subseteq [token : Tokens, refresh : BOOLEAN]
      BY <2>5, IdleType DEF NoRow
    <3>2. {keys, half} \subseteq [access : Tokens, refresh : Tokens]
      BY <2>5 DEF TypeOK
    <3>3. row' \in {row, entry, NoRow} /\ keychain' \in {keychain, keys, half}
      BY <2>4 DEF Stored
    <3>4. faulted' \in BOOLEAN
      BY <2>4 DEF Stored, TypeOK
    <3> HIDE DEF entry, keys, half
    <3> QED
      BY <3>1, <3>2, <3>3, <3>4 DEF TypeOK
  <2> QED
    BY <2>1, <2>3, <2>6 DEF TypeOK
<1>3. ASSUME NEW s \in Sends, Read(s) PROVE TypeOK'
  <2>1. UNCHANGED <<grant, owner, row, keychain, issued, honoured, expired, faulted>>
    BY <1>3 DEF Read
  <2>2. Cached("putting") \in Progress /\ Cached("refreshing") \in Progress
    BY IdleType DEF Cached, TypeOK, Progress, Stages
  <2>3. [Idle EXCEPT !.stage = "fetching"] \in Progress
    BY IdleType DEF Idle, Progress, Stages
  <2>4. \/ proc' = [proc EXCEPT ![s] = Cached("putting")]
        \/ proc' = [proc EXCEPT ![s] = Cached("refreshing")]
        \/ proc' = [proc EXCEPT ![s] = [Idle EXCEPT !.stage = "fetching"]]
        \/ proc' = proc
    BY <1>3 DEF Read
  <2>5. proc' \in [Commands -> Progress]
    BY <1>a, <1>b, <2>2, <2>3, <2>4 DEF TypeOK
  <2> QED
    BY <2>1, <2>5 DEF TypeOK
<1>4. ASSUME NEW s \in Sends, Refresh(s) PROVE TypeOK'
  BY <1>4, <1>a, RenewType DEF Refresh, TypeOK
<1>5. ASSUME NEW s \in Sends, RefreshFails(s) PROVE TypeOK'
  <2>1. proc' \in [Commands -> Progress]
    <3>1. "fetching" \in Stages
      BY DEF Stages
    <3>2. \/ proc' = [proc EXCEPT ![s] = Idle]
          \/ proc' = [proc EXCEPT ![s].stage = "fetching"]
      BY <1>5 DEF RefreshFails
    <3> QED
      BY <1>a, <1>b, <1>c, <3>1, <3>2, IdleType
  <2> QED
    BY <1>5, <2>1 DEF RefreshFails, TypeOK
<1>6. ASSUME NEW s \in Sends, Fetch(s) PROVE TypeOK'
  <2>1. CASE Issue(s)
    BY <1>6, <1>a, <2>1, IssueType DEF Fetch, TypeOK
  <2>2. CASE ~ Issue(s)
    <3>1. proc' \in [Commands -> Progress]
      BY <1>6, <1>a, <1>b, <2>2, IdleType DEF Fetch
    <3> QED
      BY <1>6, <2>2, <3>1 DEF Fetch, TypeOK
  <2> QED
    BY <2>1, <2>2
<1>7. ASSUME NEW a \in SignIns, StartSignIn(a) \/ Accept(a) \/ ReadCallback(a)
      PROVE TypeOK'
  <2>1. proc' \in [Commands -> Progress]
    <3>1. {"waiting", "reading", "exchanging"} \subseteq Stages
      BY DEF Stages
    <3>2. \E stage \in {"waiting", "reading", "exchanging"} :
            proc' = [proc EXCEPT ![a].stage = stage]
      BY <1>7 DEF StartSignIn, Accept, ReadCallback
    <3> QED
      BY <1>a, <1>c, <3>1, <3>2
  <2> QED
    BY <1>7, <2>1 DEF StartSignIn, Accept, ReadCallback, TypeOK
<1>8. ASSUME NEW a \in SignIns, ExchangeCode(a) PROVE TypeOK'
  BY <1>8, <1>a, IssueType DEF ExchangeCode, TypeOK
<1>9. ASSUME NEW a \in SignIns, SignInFails(a) PROVE TypeOK'
  <2>1. proc' \in [Commands -> Progress]
    BY <1>9, <1>a, <1>b, IdleType DEF SignInFails
  <2> QED
    BY <1>9, <2>1 DEF SignInFails, TypeOK
<1>10. CASE DeleteOwner
  <2>1. row' \in [token : Tokens, refresh : BOOLEAN]
    BY <1>10, IdleType DEF DeleteOwner, NoRow
  <2>2. /\ NoKeys \in [access : Tokens, refresh : Tokens]
        /\ [NoKeys EXCEPT !.access = keychain.access] \in [access : Tokens, refresh : Tokens]
        /\ [NoKeys EXCEPT !.refresh = keychain.refresh] \in [access : Tokens, refresh : Tokens]
    BY IdleType DEF NoKeys, TypeOK
  <2>3. keychain' \in [access : Tokens, refresh : Tokens] /\ faulted' \in BOOLEAN
    BY <1>10, <2>2 DEF DeleteOwner, TypeOK
  <2> QED
    BY <1>10, <2>1, <2>3 DEF DeleteOwner, TypeOK
<1>11. CASE Crash
  BY <1>11, IdleType DEF Crash, TypeOK
<1>12. CASE UNCHANGED vars
  BY <1>12 DEF vars, TypeOK
<1> QED
  BY <1>1, <1>2, <1>3, <1>4, <1>5, <1>6, <1>7, <1>8, <1>9, <1>10, <1>11, <1>12
     DEF Next

(* Type correctness of the token cache, the sends and the sign-ins.        *)
THEOREM TypeCorrect == Spec => []TypeOK
BY InitType, TypeStep, PTL DEF Spec

(* Every step keeps the agreement: only Put writes the store, and what it  *)
(* writes agrees because it came from the provider or from the store.      *)
LEMMA AgreementStep == TypeOK /\ Agreement /\ [Next]_vars => Agreement'
<1> SUFFICES ASSUME TypeOK, Agreement, [Next]_vars PROVE Agreement'
  OBVIOUS
<1> USE DEF store, provider
<1>a. Sends \subseteq Commands /\ SignIns \subseteq Commands
  BY DEF Commands
(* What a command that got a token from the provider holds agrees.         *)
<1>b. ASSUME NEW p \in Commands, Issue(p) \/ Renew(p),
             UNCHANGED <<owner, store, faulted>>
      PROVE  Agreement'
  <2>1. \E k : proc' = [proc EXCEPT ![p] = [proc[p] EXCEPT
                 !.stage = "putting", !.access = issued', !.expiry = issued', !.refresh = k]]
    BY <1>b DEF Issue, Renew, TypeOK, Progress
  <2>2. proc'[p].expiry = proc'[p].access /\ \A q \in Commands \ {p} : proc'[q] = proc[q]
    BY <2>1 DEF TypeOK, Progress
  <2> QED
    BY <1>b, <2>2 DEF Agreement, ExpiryIsOfToken, GoneLeavesNoToken
(* A command that is not about to store anything does not matter.          *)
<1>c. ASSUME NEW p \in Commands, NEW r \in Progress, r.stage # "putting",
             proc' = [proc EXCEPT ![p] = r], UNCHANGED <<owner, store, faulted>>
      PROVE  Agreement'
  BY <1>c DEF TypeOK, Agreement, ExpiryIsOfToken, GoneLeavesNoToken
<1>d. ASSUME UNCHANGED <<owner, store, proc, faulted>> PROVE Agreement'
  BY <1>d DEF Agreement, ExpiryIsOfToken, GoneLeavesNoToken
<1>e. Idle \in Progress /\ Idle.stage # "putting"
  BY IdleType DEF Idle
<1>f. ASSUME NEW p \in Commands, NEW stage \in Stages, stage # "putting",
             proc' = [proc EXCEPT ![p].stage = stage], UNCHANGED <<owner, store, faulted>>
      PROVE  Agreement'
  <2>1. /\ [proc[p] EXCEPT !.stage = stage] \in Progress
        /\ [proc[p] EXCEPT !.stage = stage].stage # "putting"
    BY <1>f, ProgressFields, IdleType DEF TypeOK, Progress
  <2>2. proc' = [proc EXCEPT ![p] = [proc[p] EXCEPT !.stage = stage]]
    BY <1>f DEF TypeOK
  <2> QED
    BY <1>c, <1>f, <2>1, <2>2
<1>1. CASE Expire
  BY <1>1, <1>d DEF Expire
<1>2. ASSUME NEW p \in Commands, Put(p) PROVE Agreement'
  <2>1. Stored(p) /\ owner' = owner /\ proc[p].stage = "putting"
    BY <1>2 DEF Put
  <2>2. \A q \in Commands : proc'[q].stage = "putting" =>
          /\ proc[q].stage = "putting"
          /\ proc'[q].expiry = proc[q].expiry /\ proc'[q].access = proc[q].access
    BY <1>2 DEF Put, Idle, TypeOK, Progress
  <2>3. CASE owner = "gone"
    BY <2>1, <2>2, <2>3 DEF Stored, Agreement, ExpiryIsOfToken, GoneLeavesNoToken
  <2>4. CASE owner = "live" /\ ~ faulted'
    <3>1. ~ faulted /\ row'.token = proc[p].expiry /\ keychain'.access = proc[p].access
      BY <2>1, <2>4 DEF Stored
    <3> QED
      BY <2>1, <2>2, <2>4, <3>1 DEF Agreement, ExpiryIsOfToken, GoneLeavesNoToken
  <2>5. CASE owner = "live" /\ faulted'
    BY <2>1, <2>5 DEF Agreement, ExpiryIsOfToken, GoneLeavesNoToken
  <2> QED
    BY <2>3, <2>4, <2>5 DEF TypeOK
<1>3. ASSUME NEW s \in Sends, Read(s) PROVE Agreement'
  <2>1. UNCHANGED <<owner, store, faulted>>
    BY <1>3 DEF Read
  <2>2. CASE Hit /\ proc' = [proc EXCEPT ![s] = Cached("putting")]
    <3>1. ~ faulted => Cached("putting").expiry = Cached("putting").access
      BY <2>2 DEF Hit, Cached, Agreement, ExpiryIsOfToken
    <3>2. /\ proc'[s] = Cached("putting")
          /\ \A q \in Commands \ {s} : proc'[q] = proc[q]
      BY <1>a, <2>2 DEF TypeOK
    <3> QED
      BY <2>1, <3>1, <3>2 DEF Agreement, ExpiryIsOfToken, GoneLeavesNoToken
  <2>3. CASE proc' = [proc EXCEPT ![s] = Cached("refreshing")]
    <3>1. Cached("refreshing") \in Progress /\ Cached("refreshing").stage # "putting"
      BY IdleType DEF Cached, TypeOK, Progress, Stages
    <3> QED
      BY <1>a, <1>c, <2>1, <2>3, <3>1
  <2>4. CASE proc' = [proc EXCEPT ![s] = [Idle EXCEPT !.stage = "fetching"]]
    <3>1. /\ [Idle EXCEPT !.stage = "fetching"] \in Progress
          /\ [Idle EXCEPT !.stage = "fetching"].stage # "putting"
      BY IdleType DEF Idle, Progress, Stages
    <3> QED
      BY <1>a, <1>c, <2>1, <2>4, <3>1
  <2>5. CASE proc' = proc
    BY <1>d, <2>1, <2>5
  <2> QED
    BY <1>3, <2>2, <2>3, <2>4, <2>5 DEF Read
<1>4. ASSUME NEW s \in Sends, Refresh(s) PROVE Agreement'
  BY <1>4, <1>a, <1>b DEF Refresh
<1>5. ASSUME NEW s \in Sends, RefreshFails(s) PROVE Agreement'
  <2>1. "fetching" \in Stages
    BY DEF Stages
  <2>2. /\ UNCHANGED <<owner, store, faulted>>
        /\ \/ proc' = [proc EXCEPT ![s] = Idle]
           \/ proc' = [proc EXCEPT ![s].stage = "fetching"]
    BY <1>5 DEF RefreshFails
  <2>3. CASE proc' = [proc EXCEPT ![s] = Idle]
    BY <1>a, <1>c, <1>e, <2>2, <2>3
  <2>4. CASE proc' = [proc EXCEPT ![s].stage = "fetching"]
    BY <1>a, <1>f, <2>1, <2>2, <2>4
  <2> QED
    BY <2>2, <2>3, <2>4
<1>6. ASSUME NEW s \in Sends, Fetch(s) PROVE Agreement'
  BY <1>6, <1>a, <1>b, <1>c, <1>e DEF Fetch
<1>7. ASSUME NEW a \in SignIns, StartSignIn(a) \/ Accept(a) \/ ReadCallback(a)
      PROVE Agreement'
  <2>1. {"waiting", "reading", "exchanging"} \subseteq Stages
    BY DEF Stages
  <2>2. /\ UNCHANGED <<owner, store, faulted>>
        /\ \E stage \in {"waiting", "reading", "exchanging"} :
             proc' = [proc EXCEPT ![a].stage = stage]
    BY <1>7 DEF StartSignIn, Accept, ReadCallback
  <2> QED
    BY <1>a, <1>f, <2>1, <2>2
<1>8. ASSUME NEW a \in SignIns, ExchangeCode(a) PROVE Agreement'
  BY <1>8, <1>a, <1>b DEF ExchangeCode
<1>9. ASSUME NEW a \in SignIns, SignInFails(a) PROVE Agreement'
  BY <1>9, <1>a, <1>c, <1>e DEF SignInFails
<1>10. CASE DeleteOwner
  BY <1>10 DEF DeleteOwner, Agreement, ExpiryIsOfToken, GoneLeavesNoToken
<1>11. CASE Crash
  BY <1>11, <1>e DEF Crash, Agreement, ExpiryIsOfToken, GoneLeavesNoToken
<1>12. CASE UNCHANGED vars
  BY <1>12, <1>d DEF vars
<1> QED
  BY <1>1, <1>2, <1>3, <1>4, <1>5, <1>6, <1>7, <1>8, <1>9, <1>10, <1>11, <1>12
     DEF Next

(* An empty store agrees.                                                  *)
LEMMA InitAgreement == Init => Agreement
BY DEF Init, Agreement, ExpiryIsOfToken, GoneLeavesNoToken, Idle

(* However sends, sign-ins, refreshes and crashes overlap, is_fresh judges *)
(* the token that will be sent by that token's own expiry.                 *)
THEOREM ExpiryOfToken == Spec => []ExpiryIsOfToken
<1>1. Agreement => ExpiryIsOfToken
  BY DEF Agreement
<1> QED
  BY <1>1, InitType, TypeStep, InitAgreement, AgreementStep, PTL DEF Spec

(* No late token is stored for an owner that was deleted meanwhile.        *)
THEOREM DeletedKeepsNothing == Spec => []GoneLeavesNoToken
<1>1. Agreement => GoneLeavesNoToken
  BY DEF Agreement
<1> QED
  BY <1>1, InitType, TypeStep, InitAgreement, AgreementStep, PTL DEF Spec

(* Nobody else holds the refresh token of p, and the provider takes it.    *)
Mine(p) ==
    /\ proc[p].refresh \in honoured
    /\ \A q \in Commands \ {p} : proc[q].refresh # proc[p].refresh

(* Every refresh token that is stored or held was issued.                  *)
Bounded ==
    /\ keychain.refresh <= issued
    /\ \A p \in Commands : proc[p].refresh <= issued

(* OnlyOvertakenForgets compares a step's store with its past: what a      *)
(* command that nobody overtook is about to store is the refresh token the *)
(* keychain has anyway, or one that the provider has just issued to it.    *)
Held(p) ==
    ~ proc[p].overtaken =>
        /\ proc[p].stage = "refreshing" => proc[p].refresh = keychain.refresh
        /\ (proc[p].stage = "putting" /\ proc[p].refresh # 0)
              => proc[p].refresh = keychain.refresh \/ Mine(p)

HeldInv == Bounded /\ (owner = "live" => \A p \in Commands : Held(p))

(* The new numbers that come up are token numbers.                         *)
LEMMA TokenNumbers ==
  ASSUME TypeOK
  PROVE  /\ issued \in Nat /\ keychain.refresh \in Nat
         /\ \A p \in Commands : proc[p].refresh \in Nat /\ proc[p] \in Progress
  BY DEF TypeOK, Progress, Tokens

(* A command that is left with nothing new to store disturbs no other.     *)
LEMMA DropKeepsHeld ==
  ASSUME TypeOK, HeldInv, NEW p \in Commands,
         proc'[p].refresh \in {0, proc[p].refresh},
         proc'[p].stage \notin {"putting", "refreshing"},
         \A q \in Commands \ {p} : proc'[q] = proc[q],
         UNCHANGED <<owner, keychain, issued, honoured>>
  PROVE  HeldInv'
<1> USE DEF HeldInv
<1>1. Bounded'
  BY TokenNumbers DEF Bounded
<1>2. ASSUME NEW q \in Commands, owner = "live" PROVE Held(q)'
  BY <1>2 DEF Held, Mine
<1> QED
  BY <1>1, <1>2

(* Neither does one that gets a token from the provider: a new refresh     *)
(* token is its own, one sent again is the one the keychain has, and the   *)
(* one it traded in was not another command's own.                         *)
LEMMA GrantKeepsHeld ==
  ASSUME TypeOK, HeldInv, NEW p \in Commands, NEW k \in Nat,
         issued' = issued + 1, proc'[p].refresh = k,
         proc'[p].overtaken = proc[p].overtaken, proc'[p].stage = "putting",
         \A q \in Commands \ {p} : proc'[q] = proc[q],
         \/ k = issued' /\ issued' \in honoured'
         \/ k = 0
         \/ k = proc[p].refresh /\ proc[p].stage = "refreshing",
         \A n \in honoured : n \in honoured' \/ n = proc[p].refresh,
         UNCHANGED <<owner, keychain>>
  PROVE  HeldInv'
<1> USE DEF HeldInv
<1>1. k <= issued'
  BY TokenNumbers DEF Bounded
<1>2. Bounded'
  BY <1>1, TokenNumbers DEF Bounded
<1>3. ASSUME NEW q \in Commands \ {p}, owner = "live" PROVE Held(q)'
  <2>1. Held(q) /\ proc'[q] = proc[q]
    BY <1>3
  <2>2. ASSUME Mine(q), proc[q].refresh # 0 PROVE Mine(q)'
    <3>1. proc[q].refresh # proc[p].refresh /\ proc[q].refresh # issued'
      BY <2>2, TokenNumbers DEF Mine, Bounded
    <3>2. proc'[q].refresh # proc'[p].refresh
      BY <2>1, <2>2, <3>1
    <3> QED
      BY <2>1, <2>2, <3>1, <3>2 DEF Mine
  <2> QED
    BY <2>1, <2>2 DEF Held
<1>4. ASSUME owner = "live", ~ proc[p].overtaken, k # 0 PROVE k = keychain.refresh \/ Mine(p)'
  <2>1. CASE k = issued' /\ issued' \in honoured'
    <3>1. \A q \in Commands \ {p} : proc'[q].refresh # k
      BY <2>1, TokenNumbers DEF Bounded
    <3> QED
      BY <2>1, <3>1 DEF Mine
  <2>2. CASE k = proc[p].refresh /\ proc[p].stage = "refreshing"
    BY <1>4, <2>2 DEF Held
  <2> QED
    BY <1>4, <2>1, <2>2
<1>5. owner = "live" => Held(p)'
  BY <1>4 DEF Held
<1> QED
  BY <1>2, <1>3, <1>5

(* What the provider issues from scratch is a new token or none.           *)
LEMMA IssueKeepsHeld ==
  ASSUME TypeOK, HeldInv, NEW p \in Commands, Issue(p), UNCHANGED <<owner, store>>
  PROVE  HeldInv'
<1>1. issued' = issued + 1 /\ issued' \in Nat /\ keychain' = keychain
  BY TokenNumbers DEF Issue, store
<1>2. PICK k \in {issued', 0} :
        /\ proc' = [proc EXCEPT ![p] = [proc[p] EXCEPT !.stage = "putting",
                      !.access = issued', !.expiry = issued', !.refresh = k]]
        /\ honoured' = IF k = issued' THEN honoured \union {issued'} ELSE honoured
  <2>1. issued' # 0
    BY <1>1, TokenNumbers
  <2> QED
    BY <2>1 DEF Issue, TypeOK, Progress
<1>3. /\ proc'[p].refresh = k /\ proc'[p].overtaken = proc[p].overtaken
      /\ proc'[p].stage = "putting" /\ \A q \in Commands \ {p} : proc'[q] = proc[q]
  BY <1>2 DEF TypeOK, Progress
<1>4. /\ k \in Nat
      /\ (k = issued' /\ issued' \in honoured') \/ k = 0
      /\ \A n \in honoured : n \in honoured'
  BY <1>1, <1>2
<1> QED
  BY <1>1, <1>3, <1>4, GrantKeepsHeld

(* A refresh gets a new refresh token, the one it sent, or none.           *)
LEMMA RenewKeepsHeld ==
  ASSUME TypeOK, HeldInv, NEW p \in Commands, Renew(p), proc[p].stage = "refreshing",
         UNCHANGED <<owner, store>>
  PROVE  HeldInv'
<1>1. issued' = issued + 1 /\ issued' \in Nat /\ keychain' = keychain
  BY TokenNumbers DEF Renew, store
<1>2. PICK k \in {issued', proc[p].refresh, 0} :
        /\ proc' = [proc EXCEPT ![p].stage = "putting", ![p].access = issued',
                                ![p].expiry = issued', ![p].refresh = k]
        /\ honoured' = IF k = issued' THEN (honoured \ {proc[p].refresh}) \union {k}
                                      ELSE honoured
  BY DEF Renew
<1>3. /\ proc'[p].refresh = k /\ proc'[p].overtaken = proc[p].overtaken
      /\ proc'[p].stage = "putting" /\ \A q \in Commands \ {p} : proc'[q] = proc[q]
  BY <1>2 DEF TypeOK, Progress
<1>4. /\ k \in Nat
      /\ \/ k = issued' /\ issued' \in honoured'
         \/ k = 0
         \/ k = proc[p].refresh
      /\ \A n \in honoured : n \in honoured' \/ n = proc[p].refresh
  BY <1>1, <1>2, TokenNumbers
<1> QED
  BY <1>1, <1>3, <1>4, GrantKeepsHeld

(* A send that reads the cache holds what the keychain has.                *)
LEMMA ReadKeepsHeld ==
  ASSUME TypeOK, HeldInv, NEW s \in Sends, Read(s)
  PROVE  HeldInv'
<1> USE DEF HeldInv
<1>1. s \in Commands /\ UNCHANGED <<owner, keychain, issued, honoured>>
  BY DEF Read, Commands, store, provider
<1>2. CASE /\ ~ Hit \/ (row.token \in expired /\ Cached("idle").refresh = 0)
           /\ proc' = [proc EXCEPT ![s] = [Idle EXCEPT !.stage = "fetching"]]
  <2>1. /\ proc'[s].refresh = 0 /\ proc'[s].stage = "fetching"
        /\ \A q \in Commands \ {s} : proc'[q] = proc[q]
    BY <1>1, <1>2 DEF Idle, TypeOK
  <2> QED
    BY <1>1, <2>1, DropKeepsHeld
<1>3. ASSUME NEW stage \in {"putting", "refreshing"},
             proc' = [proc EXCEPT ![s] = Cached(stage)],
             stage = "refreshing" => Cached("idle").refresh # 0
      PROVE  HeldInv'
  <2>1. /\ proc'[s].refresh \in {0, keychain.refresh} /\ proc'[s].stage = stage
        /\ stage = "refreshing" => proc'[s].refresh = keychain.refresh
        /\ \A q \in Commands \ {s} : proc'[q] = proc[q]
    BY <1>1, <1>3 DEF Cached, TypeOK
  <2>2. Bounded'
    BY <1>1, <2>1, TokenNumbers DEF Bounded
  <2>3. ASSUME NEW q \in Commands \ {s}, owner = "live" PROVE Held(q)'
    BY <1>1, <2>1, <2>3 DEF Held, Mine
  <2>4. Held(s)'
    BY <1>1, <2>1 DEF Held
  <2> QED
    BY <1>1, <2>2, <2>3, <2>4
<1> QED
  BY <1>2, <1>3 DEF Read

(* A put leaves nobody in flight who was not overtaken.                    *)
LEMMA PutKeepsHeld ==
  ASSUME TypeOK, HeldInv, NEW p \in Commands, Put(p)
  PROVE  HeldInv'
<1> USE DEF HeldInv
<1>1. UNCHANGED <<owner, issued, honoured>> /\ Stored(p)
  BY DEF Put, provider
<1>2. \A q \in Commands : /\ proc'[q].refresh \in {0, proc[q].refresh}
                          /\ proc'[q].stage # "idle" => proc'[q].overtaken
  BY DEF Put, Idle, TypeOK, Progress
<1>3. keychain'.refresh \in {keychain.refresh, proc[p].refresh}
  BY <1>1 DEF Stored, store, TypeOK
<1>4. Bounded'
  BY <1>1, <1>2, <1>3, TokenNumbers DEF Bounded
<1>5. \A q \in Commands : Held(q)'
  BY <1>2 DEF Held
<1> QED
  BY <1>4, <1>5

(* Every step keeps what the commands hold.                                *)
LEMMA HeldStep == TypeOK /\ HeldInv /\ [Next]_vars => HeldInv'
<1> SUFFICES ASSUME TypeOK, HeldInv, [Next]_vars PROVE HeldInv'
  OBVIOUS
<1>a. Sends \subseteq Commands /\ SignIns \subseteq Commands
  BY DEF Commands
<1>b. ASSUME UNCHANGED <<owner, store, proc, provider>> PROVE HeldInv'
  BY <1>b DEF HeldInv, Bounded, Held, Mine, store, provider
<1>c. ASSUME NEW p \in Commands, UNCHANGED <<owner, store, provider>>,
             NEW stage \in {"fetching", "waiting", "reading", "exchanging"},
             \/ proc' = [proc EXCEPT ![p] = Idle]
             \/ proc' = [proc EXCEPT ![p].stage = stage]
      PROVE  HeldInv'
  <2>1. /\ proc'[p].refresh \in {0, proc[p].refresh}
        /\ proc'[p].stage \notin {"putting", "refreshing"}
        /\ \A q \in Commands \ {p} : proc'[q] = proc[q]
    BY <1>c DEF TypeOK, Progress, Idle
  <2> QED
    BY <1>c, <2>1, DropKeepsHeld DEF store, provider
<1>1. CASE Expire
  BY <1>1, <1>b DEF Expire
<1>2. ASSUME NEW p \in Commands, Put(p) PROVE HeldInv'
  BY <1>2, PutKeepsHeld
<1>3. ASSUME NEW s \in Sends, Read(s) PROVE HeldInv'
  BY <1>3, ReadKeepsHeld
<1>4. ASSUME NEW s \in Sends, Refresh(s) PROVE HeldInv'
  BY <1>4, <1>a, RenewKeepsHeld DEF Refresh
<1>5. ASSUME NEW s \in Sends, RefreshFails(s) PROVE HeldInv'
  BY <1>5, <1>a, <1>c DEF RefreshFails
<1>6. ASSUME NEW s \in Sends, Fetch(s) PROVE HeldInv'
  BY <1>6, <1>a, <1>c, IssueKeepsHeld DEF Fetch
<1>7. ASSUME NEW a \in SignIns, ExchangeCode(a) PROVE HeldInv'
  BY <1>7, <1>a, IssueKeepsHeld DEF ExchangeCode
<1>8. ASSUME NEW a \in SignIns,
             StartSignIn(a) \/ Accept(a) \/ ReadCallback(a) \/ SignInFails(a)
      PROVE  HeldInv'
  BY <1>8, <1>a, <1>c DEF StartSignIn, Accept, ReadCallback, SignInFails
<1>9. CASE DeleteOwner
  <2>1. /\ owner' = "gone" /\ keychain'.refresh \in {0, keychain.refresh}
        /\ UNCHANGED <<proc, issued>>
    BY <1>9 DEF DeleteOwner, NoKeys, provider
  <2> QED
    BY <2>1, TokenNumbers DEF HeldInv, Bounded
<1>10. CASE Crash
  BY <1>10, TokenNumbers DEF Crash, HeldInv, Bounded, Held, Idle, store, provider
<1>11. CASE UNCHANGED vars
  BY <1>11, <1>b DEF vars
<1> QED
  BY <1>1, <1>2, <1>3, <1>4, <1>5, <1>6, <1>7, <1>8, <1>9, <1>10, <1>11 DEF Next

(* Nothing is stored, held or issued at first.                             *)
LEMMA InitHeld == Init => HeldInv
BY DEF Init, HeldInv, Bounded, Held, Idle, NoKeys

(* The step that gives up a good refresh token is the put of a command     *)
(* that was overtaken, or has none.                                        *)
LEMMA ForgetStep ==
  ASSUME TypeOK, HeldInv, Next, owner' = "live", honoured' = honoured,
         keychain.refresh \in honoured, keychain'.refresh \notin honoured'
  PROVE  \E p \in Commands :
           /\ proc[p].stage = "putting" /\ proc'[p].stage = "idle"
           /\ proc[p].overtaken \/ proc[p].refresh = 0
<1>1. keychain' # keychain
  OBVIOUS
<1>2. PICK p \in Commands : Put(p)
  BY <1>1 DEF Next, Expire, Read, Refresh, RefreshFails, Fetch, StartSignIn, Accept,
              ReadCallback, ExchangeCode, SignInFails, DeleteOwner, Crash, store
<1>3. /\ proc[p].stage = "putting" /\ proc'[p].stage = "idle" /\ owner = "live"
      /\ Stored(p)
  BY <1>2 DEF Put, Idle
<1>4. keychain'.refresh = proc[p].refresh
  BY <1>3 DEF Stored, store, TypeOK
<1>5. proc[p].overtaken \/ proc[p].refresh = 0
  BY <1>3, <1>4 DEF HeldInv, Held, Mine
<1> QED
  BY <1>3, <1>5

(* For any number of sends and sign-ins: a refresh token that still works  *)
(* is given up only for an overtaken command's token or for an answer      *)
(* without one.                                                            *)
THEOREM OvertakenForgets == Spec => OnlyOvertakenForgets
<1>1. TypeOK /\ HeldInv /\ [Next]_vars
        => [(keychain.refresh \in honoured /\ keychain'.refresh \notin honoured'
             /\ owner' = "live")
              => \/ honoured' # honoured
                 \/ \E p \in Commands :
                      /\ proc[p].stage = "putting" /\ proc'[p].stage = "idle"
                      /\ proc[p].overtaken \/ proc[p].refresh = 0]_vars
  BY ForgetStep
<1> QED
  BY <1>1, InitType, TypeStep, InitHeld, HeldStep, PTL DEF Spec, OnlyOvertakenForgets

=============================================================================
