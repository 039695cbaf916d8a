-------------------------- MODULE TabDraftsProofs --------------------------
(* What holds of tabs and drafts for any number of workspaces, tabs, edits *)
(* and actions: at most one tab of a workspace is active, unless a tab was *)
(* closed as if it were of the workspace shown; and what was typed in a    *)
(* tab is in its row before another tab is loaded, unless it was typed     *)
(* while the tab was being left.                                           *)
EXTENDS TabDrafts, FiniteSetTheorems, SequenceTheorems, TLAPS

(* Rows are the backend's, the fetched lists come with answers, and the    *)
(* live draft is loaded or edited.                                         *)
LEMMA Frames ==
    ASSUME [Next]_vars
    PROVE  /\ ~ Execute => UNCHANGED <<rows, flags, draft, strayed>>
           /\ ~ Handle => UNCHANGED cache
           /\ ~ Load /\ ~ Edit => UNCHANGED live
           /\ ~ Load /\ ~ Edit /\ ~ (\E t \in Tabs : RenameTab(t)) => UNCHANGED late
           /\ ~ Edit /\ ~ (\E t \in Tabs : Import(t)) => UNCHANGED drafts
<1> USE DEF db, wire, marks, history, vars
<1>1. CASE UNCHANGED vars
  BY <1>1
<1>2. CASE Execute
  BY <1>2 DEF Execute
<1>3. CASE Handle
  BY <1>3 DEF Handle
<1>4. CASE Load \/ Debounce \/ Bootstrap
  BY <1>4 DEF Load, Debounce, Bootstrap
<1>5. CASE Edit \/ CloseMany
  BY <1>5 DEF Edit, CloseMany
<1>6. ASSUME NEW t \in Tabs, SwitchTo(t) \/ OpenRequest(t) \/ NewTab(t) \/ CloseTab(t)
      PROVE  UNCHANGED <<rows, flags, draft, strayed, cache, live, late, drafts>>
  BY <1>6 DEF SwitchTo, OpenRequest, NewTab, CloseTab
<1>7. ASSUME NEW t \in Tabs, RenameTab(t)
      PROVE  UNCHANGED <<rows, flags, draft, strayed, cache, live, drafts>>
  BY <1>7 DEF RenameTab
<1>8. ASSUME NEW t \in Tabs, Import(t)
      PROVE  UNCHANGED <<rows, flags, draft, strayed, cache, live, late>>
  BY <1>8 DEF Import
<1>9. ASSUME NEW w \in Workspaces, SwitchWorkspace(w)
      PROVE  UNCHANGED <<rows, flags, draft, strayed, cache, live, late, drafts>>
  BY <1>9 DEF SwitchWorkspace
<1> QED BY <1>1, <1>2, <1>3, <1>4, <1>5, <1>6, <1>7, <1>8, <1>9 DEF Next, System

-----------------------------------------------------------------------------
(* The flags are of tabs, and as long as nothing strayed no two of them    *)
(* are of one workspace.                                                   *)
Alone == \A s, t \in flags : Home[s] = Home[t] => s = t

Exclusive ==
    /\ flags \subseteq Tabs
    /\ strayed \in BOOLEAN
    /\ ~ strayed => Alone

LEMMA AtMostOne ==
    ASSUME NEW S, \A s, t \in S : s = t
    PROVE  Cardinality(S) <= 1
<1>1. CASE S = {}
  BY <1>1, FS_EmptySet
<1>2. CASE S # {}
  <2>1. PICK x \in S : TRUE
    BY <1>2
  <2>2. S = {x}
    BY <2>1
  <2> QED BY <2>2, FS_Singleton
<1> QED BY <1>1, <1>2

LEMMA ExclusiveImplies == Exclusive => OneActiveTab
<1> SUFFICES ASSUME Exclusive, ~ strayed, NEW w \in Workspaces
             PROVE  Cardinality(flags \intersect Of(w)) <= 1
  BY DEF OneActiveTab
<1>1. \A s, t \in flags \intersect Of(w) : s = t
  BY DEF Exclusive, Alone, Of
<1> QED BY <1>1, AtMostOne

(* One tab of a workspace, or none, has the flag at the start.             *)
LEMMA ExclusiveInit == Init => Exclusive
<1> SUFFICES ASSUME Init PROVE Exclusive
  OBVIOUS
<1>1. flags \subseteq Tabs /\ strayed = FALSE
  BY TabDraftsAssumption DEF Init
<1>2. ASSUME NEW s \in flags, NEW t \in flags, Home[s] = Home[t]
      PROVE  s = t
  <2> DEFINE w == Home[s]
  <2>1. s \in flags \intersect Of(w) /\ t \in flags \intersect Of(w)
    BY <1>1, <1>2 DEF Of
  <2>2. w \in Workspaces /\ Opened \intersect Of(w) # {}
    BY <1>1, <2>1, TabDraftsAssumption DEF Init
  <2>3. PICK x \in Tabs : flags \intersect Of(w) = {x}
    BY <2>2 DEF Init
  <2> QED BY <2>1, <2>3
<1> QED BY <1>1, <1>2 DEF Exclusive, Alone

(* What each command does to the flags keeps the tabs flagged alone.  The  *)
(* two that may be given a tab of another workspace stray when they are.   *)
LEMMA CommandsKeepAlone ==
    ASSUME flags \subseteq Tabs, Alone, NEW w, NEW t \in Tabs,
           \/ SetActive(t) \/ Create(t)
           \/ Home[t] = w /\ (Close(w, t) \/ CloseOthers(w, t))
    PROVE  Alone'
<1>1. CASE SetActive(t) \/ Create(t)
  <2>1. flags' \subseteq (flags \ Of(Home[t])) \union {t}
    BY <1>1 DEF SetActive, Create
  <2>2. \A s \in flags \ Of(Home[t]) : Home[s] # Home[t]
    BY DEF Of
  <2> QED BY <2>1, <2>2 DEF Alone
<1>2. CASE Home[t] = w /\ Close(w, t)
  <2>1. CASE flags' = flags \ {t}
    BY <2>1 DEF Alone
  <2>2. ASSUME t \in flags, NEW next \in Of(w), flags' = (flags \ {t}) \union {next}
        PROVE  Alone'
    <3>1. \A s \in flags \ {t} : Home[s] # Home[next]
      BY <1>2, <2>2 DEF Alone, Of
    <3> QED BY <2>2, <3>1 DEF Alone
  <2> QED BY <1>2, <2>1, <2>2 DEF Close
<1>3. CASE Home[t] = w /\ CloseOthers(w, t)
  <2>1. flags' \subseteq (flags \ (Of(w) \ {t})) \union {t}
    BY <1>3 DEF CloseOthers
  <2>2. \A s \in flags \ (Of(w) \ {t}) : Home[s] = w => s = t
    BY DEF Of
  <2> QED BY <1>3, <2>1, <2>2 DEF Alone
<1> QED BY <1>1, <1>2, <1>3

(* One command, whatever it names.                                         *)
LEMMA ExecuteStep == Exclusive /\ Execute => Exclusive'
<1> SUFFICES ASSUME Exclusive, Execute PROVE Exclusive'
  OBVIOUS
<1>1. PICK i \in Ready :
          /\ \/ UNCHANGED db \/ CloseAll(calls[i].ws)
             \/ \E t \in Tabs :
                  /\ calls[i].tab = t
                  /\ \/ UpdateDraft(t, calls[i].draft) \/ SetActive(t) \/ Create(t)
                     \/ calls[i].op = "close" /\ Close(calls[i].ws, t)
                     \/ calls[i].op = "others" /\ CloseOthers(calls[i].ws, t)
          /\ strayed' = (strayed \/ (/\ calls[i].op \in {"close", "others"}
                                     /\ Home[calls[i].tab] # calls[i].ws))
  BY DEF Execute
<1> DEFINE w == calls[i].ws
<1>2. strayed' \in BOOLEAN /\ (~ strayed' => ~ strayed)
  BY <1>1 DEF Exclusive
<1>3. flags \subseteq Tabs
  BY DEF Exclusive
<1>4. CASE UNCHANGED db \/ CloseAll(w)
  <2>1. flags' \subseteq flags
    BY <1>4 DEF db, CloseAll
  <2> QED BY <1>2, <2>1 DEF Exclusive, Alone
<1>5. ASSUME NEW t \in Tabs, calls[i].tab = t, UpdateDraft(t, calls[i].draft)
      PROVE  Exclusive'
  BY <1>2, <1>5 DEF UpdateDraft, Exclusive, Alone
<1>6. ASSUME NEW t \in Tabs, calls[i].tab = t,
             \/ SetActive(t) \/ Create(t)
             \/ calls[i].op = "close" /\ Close(w, t)
             \/ calls[i].op = "others" /\ CloseOthers(w, t)
      PROVE  Exclusive'
  <2>1. flags' \subseteq Tabs
    <3>1. CASE SetActive(t) \/ Create(t)
      BY <1>3, <3>1 DEF SetActive, Create
    <3>2. CASE Close(w, t)
      BY <1>3, <3>2 DEF Close, Of
    <3>3. CASE CloseOthers(w, t)
      BY <1>3, <3>3 DEF CloseOthers
    <3> QED BY <1>6, <3>1, <3>2, <3>3
  <2>2. ASSUME ~ strayed' PROVE Alone'
    <3>1. Alone
      BY <1>2, <2>2 DEF Exclusive
    <3>2. calls[i].op \in {"close", "others"} => Home[t] = w
      BY <1>1, <1>6, <2>2
    <3>3. \/ SetActive(t) \/ Create(t)
          \/ Home[t] = w /\ (Close(w, t) \/ CloseOthers(w, t))
      BY <1>6, <3>2
    <3> HIDE DEF w
    <3> QED BY <1>3, <3>1, <3>3, CommandsKeepAlone
  <2> QED BY <1>2, <2>1, <2>2 DEF Exclusive
<1> QED BY <1>1, <1>4, <1>5, <1>6

LEMMA ExclusiveStep == Exclusive /\ [Next]_vars => Exclusive'
<1> SUFFICES ASSUME Exclusive, [Next]_vars PROVE Exclusive'
  OBVIOUS
<1>1. CASE Execute
  BY <1>1, ExecuteStep
<1>2. CASE ~ Execute
  <2>1. UNCHANGED <<flags, strayed>>
    BY <1>2, Frames
  <2> QED BY <2>1 DEF Exclusive, Alone
<1> QED BY <1>1, <1>2

(* No order of switches, creations and closes leaves a workspace with two  *)
(* active tabs, for any workspaces, tabs and bounds.                       *)
THEOREM OneTabActive == Spec => []OneActiveTab
<1>1. Init => Exclusive
  BY ExclusiveInit
<1>2. Exclusive /\ [Next]_vars => Exclusive'
  BY ExclusiveStep
<1>3. Exclusive => OneActiveTab
  BY ExclusiveImplies
<1> QED BY <1>1, <1>2, <1>3, PTL DEF Spec

-----------------------------------------------------------------------------
(* What taking some elements out of a sequence does.                       *)

Places(r, s) == {f \in [DOMAIN r -> DOMAIN s] :
                   /\ \A i \in DOMAIN r : r[i] = s[f[i]]
                   /\ \A i, j \in DOMAIN r : i < j => f[i] < f[j]}
Thinned(r, s) == Places(r, s) # {}

LEMMA PlacesDiffer ==
    ASSUME NEW S, NEW r \in Seq(S), NEW s \in Seq(S), NEW f \in Places(r, s),
           NEW i \in DOMAIN r, NEW j \in DOMAIN r, f[i] = f[j]
    PROVE  i = j
<1>1. f \in [DOMAIN r -> DOMAIN s] /\ \A k, l \in DOMAIN r : k < l => f[k] < f[l]
  BY DEF Places
<1>2. i \in Nat /\ j \in Nat /\ f[i] \in Nat
  <2>1. DOMAIN r \subseteq Nat /\ DOMAIN s \subseteq Nat
    BY LenProperties
  <2> QED BY <1>1, <2>1
<1>3. ~ (i < j)
  <2>1. i < j => f[i] < f[j]
    BY <1>1
  <2> QED BY <1>2, <2>1
<1>4. ~ (j < i)
  <2>1. j < i => f[j] < f[i]
    BY <1>1
  <2> QED BY <1>2, <2>1
<1> QED BY <1>2, <1>3, <1>4

(* All but the i-th.                                                       *)
Without(r, s, i) == \E f \in Places(r, s) : \A j \in DOMAIN r : f[j] # i

LEMMA WithoutIsThinned ==
    ASSUME NEW r, NEW s, NEW i, Without(r, s, i)
    PROVE  Thinned(r, s)
BY DEF Without, Thinned

LEMMA SameIsThinned ==
    ASSUME NEW S, NEW s \in Seq(S)
    PROVE  Thinned(s, s)
<1>1. [i \in DOMAIN s |-> i] \in Places(s, s)
  BY DEF Places
<1> QED BY <1>1 DEF Thinned

LEMMA TailIsThinned ==
    ASSUME NEW S, NEW s \in Seq(S), s # <<>>
    PROVE  Tail(s) \in Seq(S) /\ Thinned(Tail(s), s) /\ Without(Tail(s), s, 1)
<1>1. /\ Tail(s) \in Seq(S) /\ Len(Tail(s)) = Len(s) - 1
      /\ \A i \in 1..Len(Tail(s)) : Tail(s)[i] = s[i + 1]
      /\ DOMAIN s = 1..Len(s) /\ DOMAIN Tail(s) = 1..Len(Tail(s)) /\ Len(s) \in Nat
  BY HeadTailProperties, LenProperties
<1> DEFINE f == [i \in DOMAIN Tail(s) |-> i + 1]
<1>2. f \in Places(Tail(s), s)
  <2>1. f \in [DOMAIN Tail(s) -> DOMAIN s]
    BY <1>1
  <2>2. \A i \in DOMAIN Tail(s) : Tail(s)[i] = s[f[i]]
    BY <1>1
  <2>3. \A i, j \in DOMAIN Tail(s) : i < j => f[i] < f[j]
    BY <1>1
  <2> QED BY <2>1, <2>2, <2>3 DEF Places
<1>3. \A i \in DOMAIN Tail(s) : f[i] # 1
  BY <1>1
<1> QED BY <1>1, <1>2, <1>3 DEF Thinned, Without

LEMMA RemovedIsThinned ==
    ASSUME NEW S, NEW s \in Seq(S), NEW i \in DOMAIN s
    PROVE  /\ RemoveAt(s, i) \in Seq(S) /\ Thinned(RemoveAt(s, i), s)
           /\ Without(RemoveAt(s, i), s, i)
<1> DEFINE a == SubSeq(s, 1, i - 1)
           b == SubSeq(s, i + 1, Len(s))
           r == RemoveAt(s, i)
           f == [j \in DOMAIN r |-> IF j < i THEN j ELSE j + 1]
<1>1. DOMAIN s = 1..Len(s) /\ Len(s) \in Nat /\ i \in 1..Len(s)
  BY LenProperties
<1>2. /\ a \in Seq(S) /\ Len(a) = i - 1
      /\ \A j \in 1..(i - 1) : a[j] = s[j]
  BY <1>1, SubSeqProperties
<1>3. /\ b \in Seq(S) /\ Len(b) = Len(s) - i
      /\ \A j \in 1..(Len(s) - i) : b[j] = s[j + i]
  BY <1>1, SubSeqProperties
<1>4. /\ r \in Seq(S) /\ Len(r) = Len(s) - 1
      /\ \A j \in 1..(Len(s) - 1) : r[j] = IF j < i THEN s[j] ELSE s[j + 1]
  <2> HIDE DEF a, b
  <2>1. r = a \o b
    BY DEF RemoveAt, a, b
  <2>2. /\ a \o b \in Seq(S) /\ Len(a \o b) = Len(a) + Len(b)
        /\ \A j \in 1..(Len(a) + Len(b)) :
             (a \o b)[j] = IF j <= Len(a) THEN a[j] ELSE b[j - Len(a)]
    BY <1>2, <1>3, ConcatProperties
  <2> HIDE DEF r
  <2>3. Len(a) + Len(b) = Len(s) - 1
    BY <1>1, <1>2, <1>3
  <2>4. ASSUME NEW j \in 1..(Len(s) - 1)
        PROVE  r[j] = IF j < i THEN s[j] ELSE s[j + 1]
    <3>1. CASE j < i
      BY <1>1, <1>2, <2>1, <2>2, <2>3, <3>1
    <3>2. CASE ~ (j < i)
      <4>1. j - Len(a) \in 1..(Len(s) - i) /\ ~ (j <= Len(a))
        BY <1>1, <1>2, <3>2
      <4>2. b[j - Len(a)] = s[j + 1]
        <5>1. b[j - Len(a)] = s[(j - Len(a)) + i]
          BY <1>3, <4>1
        <5>2. (j - Len(a)) + i = j + 1
          BY <1>1, <1>2
        <5> QED BY <5>1, <5>2
      <4> QED BY <2>1, <2>2, <2>3, <3>2, <4>1, <4>2
    <3> QED BY <3>1, <3>2
  <2> QED BY <2>1, <2>2, <2>3, <2>4
<1> HIDE DEF r
<1>5. DOMAIN r = 1..(Len(s) - 1)
  BY <1>1, <1>4, LenProperties
<1>6. f \in Places(r, s)
  <2>1. f \in [DOMAIN r -> DOMAIN s]
    BY <1>1, <1>5
  <2>2. \A j \in DOMAIN r : r[j] = s[f[j]]
    BY <1>1, <1>4, <1>5
  <2>3. \A j, k \in DOMAIN r : j < k => f[j] < f[k]
    BY <1>1, <1>5
  <2> QED BY <2>1, <2>2, <2>3 DEF Places
<1>7. \A j \in DOMAIN r : f[j] # i
  BY <1>1, <1>5
<1> QED BY <1>4, <1>6, <1>7 DEF Thinned, Without, r

LEMMA DroppedIsThinned ==
    ASSUME NEW S, NEW s \in Seq(S), NEW some \in SUBSET DOMAIN s
    PROVE  Dropping(s, some) \in Seq(S) /\ Thinned(Dropping(s, some), s)
<1>1. CASE some = {}
  BY <1>1, SameIsThinned DEF Dropping
<1>2. CASE some # {}
  <2> DEFINE i == CHOOSE i \in some : TRUE
  <2>1. i \in DOMAIN s
    BY <1>2
  <2> HIDE DEF i
  <2>2. RemoveAt(s, i) \in Seq(S) /\ Thinned(RemoveAt(s, i), s)
    BY <2>1, RemovedIsThinned
  <2> QED BY <1>2, <2>2 DEF Dropping, i
<1> QED BY <1>1, <1>2

(* What a sequence has after an element is appended.                       *)
LEMMA Appended ==
    ASSUME NEW S, NEW s \in Seq(S), NEW x \in S
    PROVE  /\ Append(s, x) \in Seq(S)
           /\ DOMAIN Append(s, x) = DOMAIN s \union {Len(s) + 1}
           /\ \A i \in DOMAIN s : Append(s, x)[i] = s[i] /\ i # Len(s) + 1 /\ i < Len(s) + 1
           /\ Append(s, x)[Len(s) + 1] = x
<1>1. DOMAIN s = 1..Len(s) /\ Len(s) \in Nat
  BY LenProperties
<1>2. /\ Append(s, x) \in Seq(S) /\ Len(Append(s, x)) = Len(s) + 1
      /\ \A i \in 1..Len(s) : Append(s, x)[i] = s[i]
      /\ Append(s, x)[Len(s) + 1] = x
  BY AppendProperties
<1>3. DOMAIN Append(s, x) = 1..(Len(s) + 1)
  BY <1>2, LenProperties
<1> QED BY <1>1, <1>2, <1>3

-----------------------------------------------------------------------------
(* Types: besides TypeOK, calls and answers are sequences, a flush is      *)
(* awaited for a tab, and a tab to be created has been given out.          *)

AnswerSet == [call : CallSet, ok : BOOLEAN, list : ListSet \union {NoList}]

IsFlush(c) == c.op = "save" /\ c.next # "list"
Awaits(c, t) == IsFlush(c) /\ c.next = "create" /\ c.target = t
Creates(c, t) == Awaits(c, t) \/ (c.op = "create" /\ c.tab = t)

WellAimed(c, given) ==
    /\ c.op \in {"create", "activate"} => c.tab \in Tabs
    /\ IsFlush(c) => c.target \in Tabs
    /\ \A t \in Tabs : Creates(c, t) => t \in given

Typed ==
    /\ rows \subseteq used /\ flags \subseteq rows /\ used \subseteq Tabs
    /\ draft \in [Tabs -> Drafts]
    /\ calls \in Seq(CallSet) /\ answers \in Seq(AnswerSet)
    /\ \A i \in DOMAIN calls : WellAimed(calls[i], used)
    /\ \A i \in DOMAIN answers : WellAimed(answers[i].call, used)
    /\ cache \in [Workspaces -> ListSet \union {NoList}]
    /\ shown \in Workspaces
    /\ live \in [tab : Tabs \union {NoTab}, draft : Drafts, typed : BOOLEAN]
    /\ timer \in BOOLEAN /\ stale \in BOOLEAN /\ strayed \in BOOLEAN
    /\ seeding \in [ws : Workspaces \union {NoWs}, tab : Tabs \union {NoTab}]
    /\ drafts \in Drafts /\ acts \in 0..MaxActs
    /\ imported \subseteq Drafts /\ late \subseteq Drafts

LEMMA TypedImplies == Typed => TypeOK
<1> SUFFICES ASSUME Typed PROVE TypeOK
  OBVIOUS
<1>1. \A i \in DOMAIN calls : calls[i] \in CallSet
  BY ElementOfSeq, LenProperties DEF Typed
<1>2. ASSUME NEW i \in DOMAIN answers
      PROVE  /\ answers[i].call \in CallSet /\ answers[i].ok \in BOOLEAN
             /\ answers[i].list \in ListSet \union {NoList}
  <2>1. answers[i] \in AnswerSet
    BY <1>2, ElementOfSeq, LenProperties DEF Typed
  <2> QED BY <2>1 DEF AnswerSet
<1> QED BY <1>1, <1>2 DEF Typed, TypeOK

(* The calls there are.                                                    *)
LEMMA CallTyped ==
    ASSUME NEW op \in Ops, NEW w \in Workspaces, NEW t \in Tabs \union {NoTab}
    PROVE  Call(op, w, t) \in CallSet
BY TabDraftsAssumption DEF Call, CallSet, Drafts

LEMMA SaveTyped ==
    ASSUME Typed, NEW t \in Tabs \union {NoTab}, NEW d \in Drafts
    PROVE  /\ Save(t, d) \in CallSet
           /\ Save(t, d).op = "save" /\ Save(t, d).next = "list"
           /\ Save(t, d).tab = t /\ Save(t, d).draft = d
<1>1. Call("save", shown, t) \in CallSet
  BY CallTyped DEF Typed, Ops
<1> QED BY <1>1 DEF Save, Call, CallSet

LEMMA LeaveTyped ==
    ASSUME Typed, NEW next \in {"activate", "create"}, NEW t \in Tabs
    PROVE  /\ Leave(next, t) \in CallSet
           /\ Leave(next, t).op = "save" =>
                /\ live.tab # NoTab
                /\ Leave(next, t).tab = live.tab /\ Leave(next, t).draft = live.draft
                /\ Leave(next, t).next = next /\ Leave(next, t).target = t
           /\ Leave(next, t).op # "save" =>
                /\ live.tab = NoTab
                /\ Leave(next, t).op = next /\ Leave(next, t).tab = t
                /\ Leave(next, t).next = "list" /\ Leave(next, t).draft = 0
<1>1. CASE live.tab = NoTab
  <2>1. Home[t] \in Workspaces
    BY TabDraftsAssumption
  <2>2. Call(next, Home[t], t) \in CallSet
    BY <2>1, CallTyped DEF Ops
  <2> QED BY <1>1, <2>2 DEF Leave, Call
<1>2. CASE live.tab # NoTab
  <2>1. /\ live.tab \in Tabs \union {NoTab} /\ live.draft \in Drafts
    BY DEF Typed
  <2>2. /\ Save(live.tab, live.draft) \in CallSet
        /\ Save(live.tab, live.draft).op = "save"
        /\ Save(live.tab, live.draft).tab = live.tab
        /\ Save(live.tab, live.draft).draft = live.draft
    BY <2>1, SaveTyped
  <2>3. Leave(next, t) = [Save(live.tab, live.draft) EXCEPT !.next = next, !.target = t]
    BY <1>2 DEF Leave
  <2> HIDE DEF Save
  <2> QED BY <1>2, <2>2, <2>3 DEF CallSet
<1> QED BY <1>1, <1>2

(* A list taken out, and one asked for.                                    *)
LEMMA FetchingThins ==
    ASSUME Typed, NEW w \in Workspaces
    PROVE  \E r \in Seq(CallSet) :
             /\ Thinned(r, calls)
             /\ Fetching(w) = Append(r, Call("list", w, NoTab))
<1> DEFINE r == Dropping(calls, {i \in DOMAIN calls : IsListOf(calls[i], w)})
<1>1. r \in Seq(CallSet) /\ Thinned(r, calls)
  BY DroppedIsThinned DEF Typed
<1> QED BY <1>1 DEF Fetching

LEMMA WithoutListThins ==
    ASSUME NEW s \in Seq(AnswerSet), NEW w
    PROVE  WithoutList(s, w) \in Seq(AnswerSet) /\ Thinned(WithoutList(s, w), s)
BY DroppedIsThinned DEF WithoutList

LEMMA ThinnedTwice ==
    ASSUME NEW S, NEW r \in Seq(S), NEW s \in Seq(S), NEW u \in Seq(S),
           Thinned(r, s), Thinned(s, u)
    PROVE  Thinned(r, u)
<1>1. PICK f \in Places(r, s) : TRUE
  BY DEF Thinned
<1>2. PICK g \in Places(s, u) : TRUE
  BY DEF Thinned
<1> DEFINE h == [i \in DOMAIN r |-> g[f[i]]]
<1>3. h \in Places(r, u)
  BY <1>1, <1>2 DEF Places
<1> QED BY <1>3 DEF Thinned

-----------------------------------------------------------------------------
(* What each step does to the calls and the answers on their way.          *)

(* A call that asks for a list or closes tabs; a save of the live draft, or*)
(* of another tab as the list has it; an import; and what leaves the live  *)
(* tab for one that exists or is new.                                      *)
Fresh(c) ==
    /\ c \in CallSet
    /\ \/ c.op \in {"list", "close", "others", "all"} /\ c.draft = 0
       \/ c.op = "save" /\ c.next = "list" /\ c.tab = live.tab /\ c.draft = live.draft
       \/ /\ c.op = "save" /\ c.next = "list" /\ c.tab \in Tabs /\ c.tab # live.tab
          /\ cache[shown] # NoList /\ c.draft = cache[shown].draft[c.tab]
       \/ c.op = "import" /\ c.draft = drafts + 1 /\ drafts' = drafts + 1
       \/ \E t \in Tabs : c = Leave("activate", t)
       \/ \E t \in Tabs : c = Leave("create", t) /\ t \notin used /\ t \in used'

Sends(pending) ==
    \/ calls' = pending
    \/ \E c \in CallSet : Fresh(c) /\ calls' = Append(pending, c)
    \/ \E c, d \in CallSet : /\ Fresh(c) /\ Fresh(d) /\ calls' = Append(Append(pending, c), d)
                              /\ \A t \in Tabs : ~ Creates(c, t) /\ ~ Creates(d, t)

(* The window drops some of what is on its way and sends a call or two.    *)
WindowSends ==
    /\ answers' \in Seq(AnswerSet) /\ Thinned(answers', answers)
    /\ \E r \in Seq(CallSet) : Thinned(r, calls) /\ Sends(r)

(* The answer of a flush sets off the call it was awaited for.             *)
FlushIsDone ==
    /\ answers # <<>> /\ IsFlush(Head(answers).call)
    /\ answers' = Tail(answers)
    /\ LET c == Head(answers).call
       IN calls' = Append(calls, Call(c.next, Home[c.target], c.target))

LEMMA SendsOne ==
    ASSUME Typed, NEW c \in CallSet, Fresh(c), calls' = Append(calls, c), UNCHANGED answers
    PROVE  WindowSends
<1>1. Thinned(calls, calls) /\ Thinned(answers, answers)
  BY SameIsThinned DEF Typed
<1> QED BY <1>1 DEF WindowSends, Sends, Typed

LEMMA SendsNone ==
    ASSUME Typed, UNCHANGED <<calls, answers>>
    PROVE  WindowSends
<1>1. Thinned(calls, calls) /\ Thinned(answers, answers)
  BY SameIsThinned DEF Typed
<1> QED BY <1>1 DEF WindowSends, Sends, Typed

LEMMA SendsList ==
    ASSUME Typed, NEW w \in Workspaces, calls' = Fetching(w),
           answers' \in Seq(AnswerSet), Thinned(answers', answers)
    PROVE  WindowSends
<1>1. PICK r \in Seq(CallSet) :
             /\ Thinned(r, calls)
             /\ Fetching(w) = Append(r, Call("list", w, NoTab))
  BY FetchingThins
<1>2. Call("list", w, NoTab) \in CallSet
  BY CallTyped DEF Ops
<1>3. Fresh(Call("list", w, NoTab))
  BY <1>2 DEF Fresh, Call
<1> HIDE DEF Call
<1> QED BY <1>1, <1>2, <1>3 DEF WindowSends, Sends

LEMMA AnswerTyped ==
    ASSUME Typed, answers # <<>>
    PROVE  /\ Head(answers) \in AnswerSet /\ WellAimed(Head(answers).call, used)
           /\ 1 \in DOMAIN answers /\ Head(answers) = answers[1]
<1>1. answers \in Seq(AnswerSet)
  BY DEF Typed
<1>2. Head(answers) \in AnswerSet /\ Head(answers) = answers[1]
  BY <1>1, HeadTailProperties
<1>3. 1 \in DOMAIN answers
  BY <1>1, EmptySeq, LenProperties
<1> QED BY <1>2, <1>3 DEF Typed

LEMMA HandleSends == Typed /\ Handle => WindowSends \/ FlushIsDone
<1> SUFFICES ASSUME Typed, Handle, ~ FlushIsDone PROVE WindowSends
  OBVIOUS
<1> DEFINE c == Head(answers).call
<1>1. answers # <<>>
  BY DEF Handle
<1>2. Head(answers) \in AnswerSet
  BY <1>1, AnswerTyped
<1>3. c \in CallSet /\ c.ws \in Workspaces
  BY <1>2 DEF AnswerSet, CallSet
<1>4. Tail(answers) \in Seq(AnswerSet) /\ Thinned(Tail(answers), answers)
  BY <1>1, TailIsThinned DEF Typed
<1>5. \/ answers' = Tail(answers) /\ UNCHANGED calls
      \/ Refetch(c.ws, Tail(answers))
  BY <1>1 DEF Handle, FlushIsDone, IsFlush
<1> HIDE DEF c
<1>6. CASE answers' = Tail(answers) /\ UNCHANGED calls
  <2>1. Thinned(calls, calls)
    BY SameIsThinned DEF Typed
  <2> QED BY <1>4, <1>6, <2>1 DEF WindowSends, Sends, Typed
<1>7. CASE Refetch(c.ws, Tail(answers)) /\ c.ws = shown
  <2>1. calls' = Fetching(c.ws) /\ answers' = WithoutList(Tail(answers), c.ws)
    BY <1>7 DEF Refetch
  <2>2. answers' \in Seq(AnswerSet) /\ Thinned(answers', Tail(answers))
    BY <1>4, <2>1, WithoutListThins
  <2>3. Thinned(answers', answers)
    BY <1>4, <2>2, ThinnedTwice DEF Typed
  <2> QED BY <1>3, <2>1, <2>2, <2>3, SendsList
<1>8. CASE Refetch(c.ws, Tail(answers)) /\ c.ws # shown
  <2>1. UNCHANGED calls /\ answers' = Tail(answers)
    BY <1>8 DEF Refetch
  <2> QED BY <1>6, <2>1
<1> QED BY <1>5, <1>6, <1>7, <1>8

LEMMA SwitchSends ==
    ASSUME Typed, NEW t \in Tabs, SwitchTo(t)
    PROVE  WindowSends
<1>1. UNCHANGED answers
  BY DEF SwitchTo
<1>2. Leave("activate", t) \in CallSet
  BY LeaveTyped
<1>3. Fresh(Leave("activate", t))
  BY <1>2 DEF Fresh
<1>4. \A u \in Tabs : ~ Creates(Leave("activate", t), u)
  BY LeaveTyped DEF Creates, Awaits, IsFlush
<1> HIDE DEF Leave
<1>5. CASE live.tab = NoTab
  <2>1. calls' = calls \o <<>> \o <<Leave("activate", t)>>
    BY <1>5 DEF SwitchTo
  <2>2. calls \o <<>> = calls
    BY ConcatEmptySeq DEF Typed
  <2>3. calls' = Append(calls, Leave("activate", t))
    BY <1>2, <2>1, <2>2, AppendIsConcat DEF Typed
  <2> QED BY <1>1, <1>2, <1>3, <2>3, SendsOne
<1>6. CASE live.tab # NoTab
  <2> DEFINE c == Save(live.tab, live.draft)
  <2>1. live.tab \in Tabs \union {NoTab} /\ live.draft \in Drafts
    BY DEF Typed
  <2>2. /\ c \in CallSet /\ c.op = "save" /\ c.next = "list"
        /\ c.tab = live.tab /\ c.draft = live.draft
    BY <2>1, SaveTyped
  <2>3. Fresh(c) /\ \A u \in Tabs : ~ Creates(c, u)
    BY <2>2 DEF Fresh, Creates, Awaits, IsFlush
  <2>4. calls' = calls \o <<c>> \o <<Leave("activate", t)>>
    BY <1>6 DEF SwitchTo
  <2> HIDE DEF c
  <2>5. calls \o <<c>> = Append(calls, c) /\ Append(calls, c) \in Seq(CallSet)
    BY <2>2, AppendIsConcat, AppendProperties DEF Typed
  <2>6. calls' = Append(Append(calls, c), Leave("activate", t))
    BY <1>2, <2>4, <2>5, AppendIsConcat
  <2>7. Thinned(calls, calls) /\ Thinned(answers, answers)
    BY SameIsThinned DEF Typed
  <2> QED BY <1>1, <1>2, <1>3, <1>4, <2>2, <2>3, <2>6, <2>7 DEF WindowSends, Sends, Typed
<1> QED BY <1>5, <1>6

LEMMA WindowStep ==
    ASSUME Typed, [Next]_vars, ~ Execute
    PROVE  WindowSends \/ FlushIsDone
<1> USE DEF vars, wire
<1>1. CASE UNCHANGED vars
  BY <1>1, SendsNone
<1>2. CASE Handle
  BY <1>2, HandleSends
<1>3. CASE Load \/ Edit
  BY <1>3, SendsNone DEF Load, Edit
<1>4. CASE Debounce
  <2> DEFINE c == Save(live.tab, live.draft)
  <2>1. live.tab \in Tabs \union {NoTab} /\ live.draft \in Drafts
    BY DEF Typed
  <2>2. /\ c \in CallSet /\ c.op = "save" /\ c.next = "list"
        /\ c.tab = live.tab /\ c.draft = live.draft
    BY <2>1, SaveTyped
  <2>3. Fresh(c)
    BY <2>2 DEF Fresh
  <2>4. calls' = Append(calls, c) /\ UNCHANGED answers
    BY <1>4 DEF Debounce
  <2> HIDE DEF c
  <2> QED BY <2>2, <2>3, <2>4, SendsOne
<1>5. CASE Bootstrap
  <2>1. PICK t \in Of(shown) \ used :
           used' = used \union {t} /\ calls' = Append(calls, Leave("create", t))
    BY <1>5 DEF Bootstrap
  <2>2. t \in Tabs /\ Leave("create", t) \in CallSet /\ UNCHANGED answers
    BY <1>5, LeaveTyped DEF Of, Bootstrap
  <2>3. Fresh(Leave("create", t))
    BY <2>1, <2>2 DEF Fresh
  <2> HIDE DEF Leave
  <2> QED BY <2>1, <2>2, <2>3, SendsOne
<1>6. CASE CloseMany
  <2>1. PICK op \in {"all", "others"} : \E t \in Tabs \union {NoTab} :
            calls' = Append(calls, Call(op, shown, t))
    BY <1>6 DEF CloseMany, Typed
  <2>2. PICK t \in Tabs \union {NoTab} : calls' = Append(calls, Call(op, shown, t))
    BY <2>1
  <2>3. Call(op, shown, t) \in CallSet /\ UNCHANGED answers
    BY <1>6, CallTyped DEF Typed, Ops, CloseMany
  <2>4. Fresh(Call(op, shown, t))
    BY <2>1, <2>3 DEF Fresh, Call
  <2> HIDE DEF Call
  <2> QED BY <2>2, <2>3, <2>4, SendsOne
<1>7. ASSUME NEW t \in Tabs, SwitchTo(t) PROVE WindowSends
  BY <1>7, SwitchSends
<1>8. ASSUME NEW t \in Tabs, OpenRequest(t) \/ NewTab(t) PROVE WindowSends
  <2>1. PICK next \in {"activate", "create"} :
           /\ calls' = Append(calls, Leave(next, t)) /\ UNCHANGED answers
           /\ next = "create" => t \notin used /\ t \in used'
    BY <1>8 DEF OpenRequest, NewTab
  <2>2. Leave(next, t) \in CallSet
    BY LeaveTyped
  <2>3. Fresh(Leave(next, t))
    BY <2>1, <2>2 DEF Fresh
  <2> HIDE DEF Leave
  <2> QED BY <2>1, <2>2, <2>3, SendsOne
<1>9. ASSUME NEW t \in Tabs, CloseTab(t) PROVE WindowSends
  <2>1. calls' = Append(calls, Call("close", shown, t)) /\ UNCHANGED answers
    BY <1>9 DEF CloseTab
  <2>2. Call("close", shown, t) \in CallSet
    BY CallTyped DEF Typed, Ops
  <2>3. Fresh(Call("close", shown, t))
    BY <2>2 DEF Fresh, Call
  <2> HIDE DEF Call
  <2> QED BY <2>1, <2>2, <2>3, SendsOne
<1>10. ASSUME NEW t \in Tabs, RenameTab(t) PROVE WindowSends
  <2> DEFINE d == cache[shown].draft[t]
             c == Save(t, d)
  <2>1. t # live.tab /\ cache[shown] # NoList
        /\ calls' = Append(calls, c) /\ UNCHANGED answers
    BY <1>10 DEF RenameTab, Listed
  <2>2. d \in Drafts
    BY <2>1 DEF Typed, ListSet
  <2> HIDE DEF d
  <2>3. c \in CallSet /\ c.op = "save" /\ c.next = "list" /\ c.tab = t /\ c.draft = d
    BY <2>2, SaveTyped
  <2> HIDE DEF c
  <2>4. Fresh(c)
    BY <2>1, <2>3 DEF Fresh, d
  <2> QED BY <2>1, <2>3, <2>4, SendsOne
<1>11. ASSUME NEW t \in Tabs, Import(t) PROVE WindowSends
  <2> DEFINE c == [Call("import", shown, t) EXCEPT !.draft = drafts']
  <2>1. calls' = Append(calls, c) /\ UNCHANGED answers /\ drafts' = drafts + 1
        /\ drafts < MaxDrafts
    BY <1>11 DEF Import
  <2>2. drafts' \in Drafts
    BY <2>1, TabDraftsAssumption DEF Typed, Drafts
  <2>3. Call("import", shown, t) \in CallSet
    BY CallTyped DEF Typed, Ops
  <2>4. Fresh(c)
    BY <2>1, <2>2, <2>3 DEF Fresh, CallSet, Call
  <2>5. c \in CallSet
    BY <2>4 DEF Fresh
  <2> HIDE DEF c
  <2> QED BY <2>1, <2>4, <2>5, SendsOne
<1>12. ASSUME NEW w \in Workspaces, SwitchWorkspace(w) PROVE WindowSends
  <2>1. calls' = Fetching(w) /\ answers' = WithoutList(answers, w)
    BY <1>12 DEF SwitchWorkspace
  <2>2. answers' \in Seq(AnswerSet) /\ Thinned(answers', answers)
    BY <2>1, WithoutListThins DEF Typed
  <2> QED BY <2>1, <2>2, SendsList
<1> QED BY <1>1, <1>2, <1>3, <1>4, <1>5, <1>6, <1>7, <1>8, <1>9, <1>10, <1>11, <1>12
        DEF Next, System

(* The backend runs the call first in line.                                *)
Runs(c) ==
    /\ c \in CallSet /\ 1 \in DOMAIN calls /\ c = calls[1]
    /\ calls' = RemoveAt(calls, 1)
    /\ \E a \in AnswerSet :
         /\ answers' = Append(answers, a) /\ a.call = c
         /\ c.op # "list" => a.list = NoList
         /\ c.op = "list" => a.list = List(c.ws)
    /\ strayed' = (strayed \/ (c.op \in {"close", "others"} /\ Home[c.tab] # c.ws))
    /\ UNCHANGED <<cache, shown, live, timer, seeding, used, drafts, acts>>
    /\ UNCHANGED <<imported, late, stale>>

DoesTo(c) ==
    \/ c.op = "list" /\ UNCHANGED db
    \/ c.op = "all" /\ CloseAll(c.ws)
    \/ \E t \in Tabs :
         /\ c.tab = t
         /\ \/ c.op \in {"save", "import"} /\ UpdateDraft(t, c.draft)
            \/ c.op = "activate" /\ SetActive(t)
            \/ c.op = "create" /\ Create(t)
            \/ c.op = "close" /\ Close(c.ws, t)
            \/ c.op = "others" /\ CloseOthers(c.ws, t)

LEMMA ListTyped ==
    ASSUME Typed, NEW w
    PROVE  List(w) \in ListSet
<1>1. rows \subseteq Tabs /\ flags \subseteq Tabs /\ draft \in [Tabs -> Drafts] /\ 0 \in Drafts
  BY TabDraftsAssumption DEF Typed, Drafts
<1> QED BY <1>1 DEF List, ListSet

LEMMA ExecuteRuns ==
    ASSUME Typed, Execute
    PROVE  \E c \in CallSet : Runs(c) /\ DoesTo(c)
<1>1. PICK i \in Ready :
       LET c == calls[i]
       IN /\ \/ c.op = "list" /\ UNCHANGED db
             \/ c.op = "all" /\ CloseAll(c.ws)
             \/ \E t \in Tabs :
                  /\ c.tab = t
                  /\ \/ c.op \in {"save", "import"} /\ UpdateDraft(t, c.draft)
                     \/ c.op = "activate" /\ SetActive(t)
                     \/ c.op = "create" /\ Create(t)
                     \/ c.op = "close" /\ Close(c.ws, t)
                     \/ c.op = "others" /\ CloseOthers(c.ws, t)
          /\ answers' = Append(answers,
               [call |-> c, ok |-> c.op = "save" => c.tab \in rows,
                list |-> IF c.op = "list" THEN List(c.ws) ELSE NoList])
          /\ calls' = RemoveAt(calls, i)
          /\ strayed' = (strayed \/ (c.op \in {"close", "others"} /\ Home[c.tab] # c.ws))
          /\ UNCHANGED <<cache, shown, live, timer, seeding, used, drafts, acts>>
          /\ UNCHANGED <<imported, late, stale>>
  BY DEF Execute
<1> DEFINE c == calls[i]
           a == [call |-> c, ok |-> c.op = "save" => c.tab \in rows,
                 list |-> IF c.op = "list" THEN List(c.ws) ELSE NoList]
<1>2. i = 1 /\ 1 \in DOMAIN calls
  BY DEF Ready
<1>3. c \in CallSet
  BY <1>2, ElementOfSeq, LenProperties DEF Typed
<1>4. a \in AnswerSet
  BY <1>3, ListTyped DEF AnswerSet
<1>5. DoesTo(c)
  BY <1>1 DEF DoesTo
<1>6. answers' = Append(answers, a) /\ a.call = c
      /\ (c.op # "list" => a.list = NoList) /\ (c.op = "list" => a.list = List(c.ws))
  BY <1>1
<1> HIDE DEF a
<1>7. Runs(c)
  BY <1>1, <1>2, <1>3, <1>4, <1>6 DEF Runs
<1> QED BY <1>3, <1>5, <1>7

-----------------------------------------------------------------------------
(* Elements of a thinned or an extended sequence.                          *)

LEMMA ThinnedKeepsAll ==
    ASSUME NEW S, NEW r \in Seq(S), NEW s \in Seq(S), Thinned(r, s),
           NEW i \in DOMAIN r
    PROVE  \E j \in DOMAIN s : r[i] = s[j]
<1>1. PICK f \in [DOMAIN r -> DOMAIN s] : \A k \in DOMAIN r : r[k] = s[f[k]]
  BY DEF Thinned, Places
<1> QED BY <1>1

(* Every call there is after a step was there, is what a flush was awaited *)
(* for, or is fresh; every answer was there or is the one just given.      *)
LEMMA CallsAfter ==
    ASSUME Typed, WindowSends, NEW i \in DOMAIN calls'
    PROVE  /\ calls' \in Seq(CallSet)
           /\ (\E j \in DOMAIN calls : calls'[i] = calls[j]) \/ Fresh(calls'[i])
<1>1. PICK r \in Seq(CallSet) : Thinned(r, calls) /\ Sends(r)
  BY DEF WindowSends
<1>2. \A k \in DOMAIN r : \E j \in DOMAIN calls : r[k] = calls[j]
  BY <1>1, ThinnedKeepsAll DEF Typed
<1>3. CASE calls' = r
  BY <1>2, <1>3
<1>4. ASSUME NEW c \in CallSet, Fresh(c), calls' = Append(r, c)
      PROVE  /\ calls' \in Seq(CallSet)
             /\ (\E j \in DOMAIN calls : calls'[i] = calls[j]) \/ Fresh(calls'[i])
  <2>1. /\ Append(r, c) \in Seq(CallSet)
        /\ DOMAIN Append(r, c) = DOMAIN r \union {Len(r) + 1}
        /\ \A k \in DOMAIN r : Append(r, c)[k] = r[k]
        /\ Append(r, c)[Len(r) + 1] = c
    BY Appended
  <2> QED BY <1>2, <1>4, <2>1
<1>5. ASSUME NEW c \in CallSet, NEW d \in CallSet, Fresh(c), Fresh(d),
             calls' = Append(Append(r, c), d)
      PROVE  /\ calls' \in Seq(CallSet)
             /\ (\E j \in DOMAIN calls : calls'[i] = calls[j]) \/ Fresh(calls'[i])
  <2> DEFINE q == Append(r, c)
  <2>1. /\ q \in Seq(CallSet)
        /\ DOMAIN q = DOMAIN r \union {Len(r) + 1}
        /\ \A k \in DOMAIN r : q[k] = r[k]
        /\ q[Len(r) + 1] = c
    BY Appended
  <2> HIDE DEF q
  <2>2. /\ Append(q, d) \in Seq(CallSet)
        /\ DOMAIN Append(q, d) = DOMAIN q \union {Len(q) + 1}
        /\ \A k \in DOMAIN q : Append(q, d)[k] = q[k]
        /\ Append(q, d)[Len(q) + 1] = d
    BY <2>1, Appended
  <2>3. calls' = Append(q, d)
    BY <1>5 DEF q
  <2>4. \A k \in DOMAIN q : (\E j \in DOMAIN calls : q[k] = calls[j]) \/ Fresh(q[k])
    BY <1>2, <1>5, <2>1
  <2> QED BY <1>5, <2>2, <2>3, <2>4
<1> QED BY <1>1, <1>3, <1>4, <1>5 DEF Sends

LEMMA CallsAreTyped ==
    ASSUME Typed, WindowSends
    PROVE  calls' \in Seq(CallSet)
<1>1. CASE DOMAIN calls' = {}
  <2>1. PICK r \in Seq(CallSet) : Thinned(r, calls) /\ Sends(r)
    BY DEF WindowSends
  <2> QED BY <2>1, AppendProperties DEF Sends
<1>2. CASE DOMAIN calls' # {}
  BY <1>2, CallsAfter
<1> QED BY <1>1, <1>2

LEMMA FlushIsAnswered ==
    ASSUME Typed, FlushIsDone
    PROVE  \E c \in CallSet :
             /\ c.op \in {"activate", "create"} /\ c.tab \in Tabs
             /\ c.draft = 0 /\ c.next = "list"
             /\ answers[1].call.next = c.op /\ answers[1].call.target = c.tab
             /\ 1 \in DOMAIN answers /\ answers[1] \in AnswerSet
             /\ IsFlush(answers[1].call) /\ WellAimed(answers[1].call, used)
             /\ calls' = Append(calls, c) /\ calls' \in Seq(CallSet)
             /\ answers' = Tail(answers)
             /\ answers' \in Seq(AnswerSet) /\ Thinned(answers', answers)
<1> DEFINE f == Head(answers).call
           c == Call(f.next, Home[f.target], f.target)
<1>1. answers # <<>> /\ IsFlush(f) /\ answers' = Tail(answers) /\ calls' = Append(calls, c)
  BY DEF FlushIsDone
<1>2. Head(answers) \in AnswerSet /\ WellAimed(f, used) /\ 1 \in DOMAIN answers /\ Head(answers) = answers[1]
  BY <1>1, AnswerTyped
<1>3. f.target \in Tabs /\ f.next \in {"activate", "create"}
  BY <1>1, <1>2 DEF WellAimed, IsFlush, AnswerSet, CallSet
<1>4. c \in CallSet
  <2>1. Home[f.target] \in Workspaces
    BY <1>3, TabDraftsAssumption
  <2> QED BY <1>3, <2>1, CallTyped DEF Ops
<1>5. c.op = f.next /\ c.tab = f.target /\ c.draft = 0 /\ c.next = "list"
  BY DEF Call
<1>6. calls' \in Seq(CallSet)
  BY <1>1, <1>4, AppendProperties DEF Typed
<1>7. answers' \in Seq(AnswerSet) /\ Thinned(answers', answers)
  BY <1>1, TailIsThinned DEF Typed
<1> QED BY <1>1, <1>2, <1>3, <1>4, <1>5, <1>6, <1>7

LEMMA RunsIsTyped ==
    ASSUME Typed, NEW c \in CallSet, Runs(c)
    PROVE  /\ calls' \in Seq(CallSet) /\ Thinned(calls', calls)
           /\ answers' \in Seq(AnswerSet)
           /\ \A i \in DOMAIN answers' :
                \/ \E j \in DOMAIN answers : answers'[i] = answers[j]
                \/ /\ answers'[i].call = c
                   /\ c.op # "list" => answers'[i].list = NoList
                   /\ c.op = "list" => answers'[i].list = List(c.ws)
<1>1. calls' \in Seq(CallSet) /\ Thinned(calls', calls)
  BY RemovedIsThinned DEF Runs, Typed
<1>2. PICK a \in AnswerSet :
         /\ answers' = Append(answers, a) /\ a.call = c
         /\ c.op # "list" => a.list = NoList
         /\ c.op = "list" => a.list = List(c.ws)
  BY DEF Runs
<1>3. /\ Append(answers, a) \in Seq(AnswerSet)
      /\ DOMAIN Append(answers, a) = DOMAIN answers \union {Len(answers) + 1}
      /\ \A i \in DOMAIN answers : Append(answers, a)[i] = answers[i]
      /\ Append(answers, a)[Len(answers) + 1] = a
  BY Appended DEF Typed
<1> QED BY <1>1, <1>2, <1>3

-----------------------------------------------------------------------------
(* Types are kept.                                                         *)

LEMMA TypedInit == Init => Typed
<1> SUFFICES ASSUME Init PROVE Typed
  OBVIOUS
<1>1. shown \in Workspaces /\ calls = <<Call("list", shown, NoTab)>> /\ answers = <<>>
  BY DEF Init
<1>2. Call("list", shown, NoTab) \in CallSet /\ WellAimed(Call("list", shown, NoTab), used)
  <2>1. Call("list", shown, NoTab) \in CallSet
    BY <1>1, CallTyped DEF Ops
  <2> QED BY <2>1 DEF WellAimed, Creates, Awaits, IsFlush, Call
<1> HIDE DEF Call
<1>3. calls \in Seq(CallSet) /\ \A i \in DOMAIN calls : WellAimed(calls[i], used)
  BY <1>1, <1>2
<1>4. answers \in Seq(AnswerSet) /\ \A i \in DOMAIN answers : WellAimed(answers[i].call, used)
  BY <1>1
<1>5. 0 \in Drafts /\ 0 \in 0..MaxActs
  BY TabDraftsAssumption DEF Drafts
<1> QED BY <1>1, <1>3, <1>4, <1>5, TabDraftsAssumption DEF Init, Typed

(* The tabs given out stay given out, and what a step sends or answers is  *)
(* well aimed.                                                             *)
LEMMA UsedGrows ==
    ASSUME Typed, [Next]_vars
    PROVE  used \subseteq used' /\ used' \subseteq Tabs
<1> USE DEF vars, db, wire, marks, history, Typed
<1>1. CASE UNCHANGED vars
  BY <1>1
<1>2. CASE Execute \/ Handle \/ Load \/ Debounce
  BY <1>2 DEF Execute, Handle, Load, Debounce
<1>3. CASE Bootstrap
  BY <1>3 DEF Bootstrap, Of
<1>4. CASE Edit \/ CloseMany
  BY <1>4 DEF Edit, CloseMany
<1>5. ASSUME NEW t \in Tabs, SwitchTo(t) \/ OpenRequest(t) \/ NewTab(t)
                             \/ CloseTab(t) \/ RenameTab(t) \/ Import(t)
      PROVE  used \subseteq used' /\ used' \subseteq Tabs
  BY <1>5 DEF SwitchTo, OpenRequest, NewTab, CloseTab, RenameTab, Import
<1>6. ASSUME NEW w \in Workspaces, SwitchWorkspace(w)
      PROVE  used \subseteq used' /\ used' \subseteq Tabs
  BY <1>6 DEF SwitchWorkspace
<1> QED BY <1>1, <1>2, <1>3, <1>4, <1>5, <1>6 DEF Next, System

LEMMA FreshIsAimed ==
    ASSUME Typed, [Next]_vars, NEW c, Fresh(c)
    PROVE  WellAimed(c, used')
<1>1. used \subseteq used'
  BY UsedGrows
<1>2. CASE c.op \notin {"create", "activate"} /\ ~ IsFlush(c)
  BY <1>2 DEF WellAimed, Creates, Awaits
<1>3. ASSUME NEW t \in Tabs, NEW next \in {"activate", "create"}, c = Leave(next, t),
             next = "create" => t \in used'
      PROVE  WellAimed(c, used')
  <2>1. c \in CallSet /\ (c.op = "save" => c.next = next /\ c.target = t)
        /\ (c.op # "save" => c.op = next /\ c.tab = t)
    BY <1>3, LeaveTyped
  <2> QED BY <1>3, <2>1 DEF WellAimed, Creates, Awaits, IsFlush
<1> QED BY <1>2, <1>3 DEF Fresh, IsFlush

LEMMA WireIsTyped ==
    ASSUME Typed, [Next]_vars
    PROVE  /\ calls' \in Seq(CallSet) /\ answers' \in Seq(AnswerSet)
           /\ \A i \in DOMAIN calls' : WellAimed(calls'[i], used')
           /\ \A i \in DOMAIN answers' : WellAimed(answers'[i].call, used')
<1>1. \A c : WellAimed(c, used) => WellAimed(c, used')
  BY UsedGrows DEF WellAimed
<1>2. /\ \A i \in DOMAIN calls : WellAimed(calls[i], used')
      /\ \A i \in DOMAIN answers : WellAimed(answers[i].call, used')
  BY <1>1 DEF Typed
<1>3. CASE Execute
  <2>1. PICK c \in CallSet : Runs(c)
    BY <1>3, ExecuteRuns
  <2>2. /\ calls' \in Seq(CallSet) /\ Thinned(calls', calls)
        /\ answers' \in Seq(AnswerSet)
        /\ \A i \in DOMAIN answers' :
             (\E j \in DOMAIN answers : answers'[i] = answers[j]) \/ answers'[i].call = c
    BY <2>1, RunsIsTyped
  <2>3. \A i \in DOMAIN calls' : \E j \in DOMAIN calls : calls'[i] = calls[j]
    BY <2>2, ThinnedKeepsAll DEF Typed
  <2>4. WellAimed(c, used')
    BY <1>2, <2>1 DEF Runs
  <2> QED BY <1>2, <2>2, <2>3, <2>4
<1>4. CASE ~ Execute
  <2>1. CASE WindowSends
    <3>1. \A i \in DOMAIN calls' : WellAimed(calls'[i], used')
      <4>1. ASSUME NEW i \in DOMAIN calls' PROVE WellAimed(calls'[i], used')
        <5>1. (\E j \in DOMAIN calls : calls'[i] = calls[j]) \/ Fresh(calls'[i])
          BY <2>1, CallsAfter
        <5>2. CASE Fresh(calls'[i])
          BY <5>2, FreshIsAimed
        <5> QED BY <1>2, <5>1, <5>2
      <4> QED BY <4>1
    <3>2. \A i \in DOMAIN answers' : \E j \in DOMAIN answers : answers'[i] = answers[j]
      BY <2>1, ThinnedKeepsAll DEF WindowSends, Typed
    <3>3. calls' \in Seq(CallSet) /\ answers' \in Seq(AnswerSet)
      BY <2>1, CallsAreTyped DEF WindowSends
    <3> QED BY <1>2, <3>1, <3>2, <3>3
  <2>2. CASE FlushIsDone
    <3>1. PICK c \in CallSet :
             /\ c.op \in {"activate", "create"} /\ c.tab \in Tabs
             /\ answers[1].call.next = c.op /\ answers[1].call.target = c.tab
             /\ 1 \in DOMAIN answers
             /\ IsFlush(answers[1].call) /\ WellAimed(answers[1].call, used)
             /\ calls' = Append(calls, c) /\ calls' \in Seq(CallSet)
             /\ answers' \in Seq(AnswerSet) /\ Thinned(answers', answers)
      BY <2>2, FlushIsAnswered
    <3>2. \A i \in DOMAIN answers' : \E j \in DOMAIN answers : answers'[i] = answers[j]
      BY <3>1, ThinnedKeepsAll DEF Typed
    <3>3. WellAimed(c, used')
      <4>1. WellAimed(answers[1].call, used')
        BY <1>1, <3>1
      <4> QED BY <3>1, <4>1 DEF WellAimed, Creates, Awaits, IsFlush
    <3>4. /\ DOMAIN Append(calls, c) = DOMAIN calls \union {Len(calls) + 1}
          /\ \A i \in DOMAIN calls : Append(calls, c)[i] = calls[i]
          /\ Append(calls, c)[Len(calls) + 1] = c
      BY Appended DEF Typed
    <3> QED BY <1>2, <3>1, <3>2, <3>3, <3>4
  <2> QED BY <1>4, <2>1, <2>2, WindowStep
<1> QED BY <1>3, <1>4

LEMMA RowsAreTyped ==
    ASSUME Typed, [Next]_vars
    PROVE  rows' \subseteq used' /\ flags' \subseteq rows' /\ draft' \in [Tabs -> Drafts]
<1>1. used \subseteq used' /\ rows \subseteq used /\ flags \subseteq rows /\ draft \in [Tabs -> Drafts]
  BY UsedGrows DEF Typed
<1>2. CASE ~ Execute
  BY <1>1, <1>2, Frames
<1>3. CASE Execute
  <2>1. PICK c \in CallSet : Runs(c) /\ DoesTo(c)
    BY <1>3, ExecuteRuns
  <2>2. CASE UNCHANGED db \/ CloseAll(c.ws)
    BY <1>1, <2>2 DEF db, CloseAll
  <2>3. CASE ~ (UNCHANGED db \/ CloseAll(c.ws))
    <3>1. PICK t \in Tabs :
             /\ c.tab = t
             /\ \/ UpdateDraft(t, c.draft) \/ SetActive(t)
                \/ c.op = "create" /\ Create(t)
                \/ Close(c.ws, t) \/ CloseOthers(c.ws, t)
      BY <2>1, <2>3 DEF DoesTo
    <3>2. CASE UpdateDraft(t, c.draft)
      <4>1. c.draft \in Drafts
        BY DEF CallSet
      <4> QED BY <1>1, <3>2, <4>1 DEF UpdateDraft
    <3>3. CASE SetActive(t)
      BY <1>1, <3>3 DEF SetActive
    <3>4. CASE c.tab = t /\ c.op = "create" /\ Create(t)
      <4>1. WellAimed(c, used)
        BY <2>1 DEF Runs, Typed
      <4>2. t \in used
        BY <3>4, <4>1 DEF WellAimed, Creates
      <4> QED BY <1>1, <3>4, <4>2 DEF Create
    <3>5. CASE Close(c.ws, t)
      BY <1>1, <3>5 DEF Close
    <3>6. CASE CloseOthers(c.ws, t)
      <4>1. t \in rows => t \in rows'
        BY <3>6 DEF CloseOthers
      <4> QED BY <1>1, <3>6, <4>1 DEF CloseOthers
    <3> QED BY <3>1, <3>2, <3>3, <3>4, <3>5, <3>6
  <2> QED BY <2>2, <2>3
<1> QED BY <1>2, <1>3

LEMMA CacheIsTyped ==
    ASSUME Typed, [Next]_vars
    PROVE  cache' \in [Workspaces -> ListSet \union {NoList}]
<1>1. CASE ~ Handle
  BY <1>1, Frames DEF Typed
<1>2. CASE Handle
  <2> DEFINE a == Head(answers)
  <2>1. answers # <<>>
    BY <1>2 DEF Handle
  <2>2. a \in AnswerSet
    BY <2>1, AnswerTyped
  <2>3. a.list \in ListSet \union {NoList}
    BY <2>2 DEF AnswerSet
  <2>4. cache' = cache \/ cache' = [cache EXCEPT ![a.call.ws] = a.list]
    BY <1>2 DEF Handle
  <2> HIDE DEF a
  <2> QED BY <2>3, <2>4 DEF Typed
<1> QED BY <1>1, <1>2

(* Load takes the one tab its list shows active.                           *)
LEMMA LoadsListed ==
    ASSUME Typed, Load
    PROVE  \E t \in Tabs :
             /\ cache[shown] \in ListSet /\ t \in cache[shown].active /\ t # live.tab
             /\ live' = [tab |-> t, draft |-> cache[shown].draft[t], typed |-> FALSE]
             /\ late' = late \union TakenBack(t)
<1>1. cache[shown] \in ListSet /\ cache[shown].active # {}
  BY DEF Load, Typed
<1> DEFINE t == CHOOSE active \in cache[shown].active : TRUE
<1>2. t \in cache[shown].active
  BY <1>1
<1>3. t \in Tabs
  BY <1>1, <1>2 DEF ListSet
<1>4. /\ t # live.tab
      /\ live' = [tab |-> t, draft |-> cache[shown].draft[t], typed |-> FALSE]
      /\ late' = late \union TakenBack(t)
  BY DEF Load
<1> QED BY <1>1, <1>2, <1>3, <1>4

LEMMA TakenBackTyped ==
    ASSUME Typed, NEW t \in Tabs
    PROVE  TakenBack(t) \subseteq Drafts
<1>1. draft[t] \in Drafts
  BY DEF Typed
<1>2. \A i \in DOMAIN calls : calls[i].draft \in Drafts
  <2>1. \A i \in DOMAIN calls : calls[i] \in CallSet
    BY ElementOfSeq, LenProperties DEF Typed
  <2> QED BY <2>1 DEF CallSet
<1> QED BY <1>1, <1>2 DEF TakenBack

LEMMA LiveIsTyped ==
    ASSUME Typed, [Next]_vars
    PROVE  /\ live' \in [tab : Tabs \union {NoTab}, draft : Drafts, typed : BOOLEAN]
           /\ late' \subseteq Drafts /\ drafts' \in Drafts /\ imported' \subseteq Drafts
<1>1. CASE Edit
  <2>1. drafts' \in Drafts
    BY <1>1, TabDraftsAssumption DEF Edit, Typed, Drafts
  <2> QED BY <1>1, <2>1 DEF Edit, Typed
<1>2. CASE Load
  <2>1. PICK t \in Tabs :
             /\ cache[shown] \in ListSet
             /\ live' = [tab |-> t, draft |-> cache[shown].draft[t], typed |-> FALSE]
             /\ late' = late \union TakenBack(t)
    BY <1>2, LoadsListed
  <2>2. cache[shown].draft[t] \in Drafts
    BY <2>1 DEF ListSet
  <2>3. late' \subseteq Drafts
    BY <2>1, TakenBackTyped DEF Typed
  <2>4. UNCHANGED <<drafts, imported>>
    BY <1>2 DEF Load
  <2> QED BY <2>1, <2>2, <2>3, <2>4 DEF Typed
<1>3. ASSUME NEW t \in Tabs, RenameTab(t) PROVE late' \subseteq Drafts
  BY <1>3, TakenBackTyped DEF RenameTab, Typed
<1>4. ASSUME NEW t \in Tabs, Import(t) PROVE drafts' \in Drafts /\ imported' \subseteq Drafts
  <2>1. drafts' \in Drafts
    BY <1>4, TabDraftsAssumption DEF Import, Typed, Drafts
  <2> QED BY <1>4, <2>1 DEF Import, Typed
<1>5. CASE ~ Edit /\ ~ Load
  <2>1. imported' = imported \/ \E t \in Tabs : Import(t)
    BY <1>5 DEF Next, System, vars, db, wire, marks, history, Execute, Handle, Debounce,
       Bootstrap, CloseMany, SwitchTo, OpenRequest, NewTab, CloseTab, RenameTab, SwitchWorkspace
  <2> QED BY <1>3, <1>4, <1>5, <2>1, Frames DEF Typed
<1> QED BY <1>1, <1>2, <1>5

LEMMA WindowIsTyped ==
    ASSUME Typed, [Next]_vars
    PROVE  /\ shown' \in Workspaces /\ timer' \in BOOLEAN /\ stale' \in BOOLEAN
           /\ strayed' \in BOOLEAN /\ acts' \in 0..MaxActs
           /\ seeding' \in [ws : Workspaces \union {NoWs}, tab : Tabs \union {NoTab}]
<1> USE DEF vars, db, wire, marks, history, Typed
<1>1. CASE UNCHANGED vars
  BY <1>1
<1>2. CASE Execute
  BY <1>2 DEF Execute
<1>3. CASE Handle
  BY <1>3 DEF Handle
<1>4. CASE Load \/ Debounce
  BY <1>4 DEF Load, Debounce
<1>5. CASE Bootstrap
  BY <1>5 DEF Bootstrap, Of
<1>6. ASSUME Act PROVE acts' \in 0..MaxActs
  BY <1>6, TabDraftsAssumption DEF Act
<1>7. CASE Edit \/ CloseMany
  BY <1>6, <1>7 DEF Edit, CloseMany
<1>8. ASSUME NEW t \in Tabs, SwitchTo(t) \/ OpenRequest(t) \/ NewTab(t)
                             \/ CloseTab(t) \/ RenameTab(t) \/ Import(t)
      PROVE  Act /\ UNCHANGED <<shown, stale, strayed, seeding>> /\ timer' \in BOOLEAN
  BY <1>8 DEF SwitchTo, OpenRequest, NewTab, CloseTab, RenameTab, Import
<1>9. ASSUME NEW w \in Workspaces, SwitchWorkspace(w)
      PROVE  /\ Act /\ shown' = w /\ stale' \in BOOLEAN /\ UNCHANGED <<timer, strayed>>
             /\ seeding' \in [ws : Workspaces \union {NoWs}, tab : Tabs \union {NoTab}]
  BY <1>9 DEF SwitchWorkspace
<1> QED BY <1>1, <1>2, <1>3, <1>4, <1>5, <1>6, <1>7, <1>8, <1>9 DEF Next, System

LEMMA TypedStep == Typed /\ [Next]_vars => Typed'
<1> SUFFICES ASSUME Typed, [Next]_vars PROVE Typed'
  OBVIOUS
<1>1. used' \subseteq Tabs
  BY UsedGrows
<1>2. rows' \subseteq used' /\ flags' \subseteq rows' /\ draft' \in [Tabs -> Drafts]
  BY RowsAreTyped
<1>3. /\ calls' \in Seq(CallSet) /\ answers' \in Seq(AnswerSet)
      /\ \A i \in DOMAIN calls' : WellAimed(calls'[i], used')
      /\ \A i \in DOMAIN answers' : WellAimed(answers'[i].call, used')
  BY WireIsTyped
<1>4. cache' \in [Workspaces -> ListSet \union {NoList}]
  BY CacheIsTyped
<1>5. /\ live' \in [tab : Tabs \union {NoTab}, draft : Drafts, typed : BOOLEAN]
      /\ late' \subseteq Drafts /\ drafts' \in Drafts /\ imported' \subseteq Drafts
  BY LiveIsTyped
<1>6. /\ shown' \in Workspaces /\ timer' \in BOOLEAN /\ stale' \in BOOLEAN
      /\ strayed' \in BOOLEAN /\ acts' \in 0..MaxActs
      /\ seeding' \in [ws : Workspaces \union {NoWs}, tab : Tabs \union {NoTab}]
  BY WindowIsTyped
<1> QED BY <1>1, <1>2, <1>3, <1>4, <1>5, <1>6 DEF Typed, WellAimed, Creates, Awaits,
        IsFlush, AnswerSet, ListSet, CallSet

(* The state is what TypeOK says it is.                                    *)
THEOREM TypeCorrect == Spec => []TypeOK
<1>1. Init => Typed
  BY TypedInit
<1>2. Typed /\ [Next]_vars => Typed'
  BY TypedStep
<1>3. Typed => TypeOK
  BY TypedImplies
<1> QED BY <1>1, <1>2, <1>3, PTL DEF Spec

-----------------------------------------------------------------------------
(* The lists the window has or is about to have, and their drafts.         *)

Lists(kept, given) ==
    ({kept[w] : w \in Workspaces} \union {given[i].list : i \in DOMAIN given}) \ {NoList}

LEMMA ListsTyped ==
    ASSUME Typed, NEW l \in Lists(cache, answers)
    PROVE  l \in ListSet
<1>1. \A w \in Workspaces : cache[w] \in ListSet \union {NoList}
  BY DEF Typed
<1>2. \A i \in DOMAIN answers : answers[i] \in AnswerSet
  BY ElementOfSeq, LenProperties DEF Typed
<1> QED BY <1>1, <1>2 DEF Lists, AnswerSet

LEMMA CachedIsListed ==
    ASSUME NEW w \in Workspaces, cache[w] # NoList
    PROVE  cache[w] \in Lists(cache, answers)
BY DEF Lists

(* A list that a step brings is of the rows as they are.                   *)
LEMMA ListsAfter ==
    ASSUME Typed, [Next]_vars, NEW l \in Lists(cache', answers')
    PROVE  \/ l \in Lists(cache, answers)
           \/ Execute /\ UNCHANGED db /\ \E w \in Workspaces : l = List(w)
<1>1. CASE Execute
  <2>1. PICK c \in CallSet : Runs(c) /\ DoesTo(c)
    BY <1>1, ExecuteRuns
  <2>2. \A i \in DOMAIN answers' :
             \/ \E j \in DOMAIN answers : answers'[i] = answers[j]
             \/ /\ c.op # "list" => answers'[i].list = NoList
                /\ c.op = "list" => answers'[i].list = List(c.ws)
    BY <2>1, RunsIsTyped
  <2>3. cache' = cache /\ c.ws \in Workspaces
    BY <2>1 DEF Runs, CallSet
  <2>4. l \in Lists(cache, answers) \/ (c.op = "list" /\ l = List(c.ws))
    BY <2>2, <2>3 DEF Lists
  <2>5. c.op = "list" => UNCHANGED db
    BY <2>1 DEF DoesTo
  <2> QED BY <1>1, <2>3, <2>4, <2>5
<1>2. CASE ~ Execute
  <2>1. answers' \in Seq(AnswerSet) /\ Thinned(answers', answers)
    BY <1>2, WindowStep, FlushIsAnswered DEF WindowSends
  <2>2. \A i \in DOMAIN answers' : \E j \in DOMAIN answers : answers'[i] = answers[j]
    BY <2>1, ThinnedKeepsAll DEF Typed
  <2>3. CASE ~ Handle
    BY <2>2, <2>3, Frames DEF Lists
  <2>4. CASE Handle
    <3> DEFINE a == Head(answers)
    <3>1. answers # <<>>
      BY <2>4 DEF Handle
    <3>2. 1 \in DOMAIN answers /\ a = answers[1]
      BY <3>1, AnswerTyped
    <3>3. cache' = cache \/ cache' = [cache EXCEPT ![a.call.ws] = a.list]
      BY <2>4 DEF Handle
    <3> HIDE DEF a
    <3>4. \A w \in Workspaces : cache'[w] = cache[w] \/ cache'[w] = answers[1].list
      BY <3>2, <3>3 DEF Typed
    <3> QED BY <2>2, <3>2, <3>4 DEF Lists
  <2> QED BY <2>3, <2>4
<1> QED BY <1>1, <1>2

(* No draft is newer than the last one given out.                          *)
Bounded ==
    /\ live.draft <= drafts
    /\ \A t \in Tabs : draft[t] <= drafts
    /\ \A i \in DOMAIN calls : calls[i].draft <= drafts
    /\ \A l \in Lists(cache, answers) : \A t \in Tabs : l.draft[t] <= drafts

LEMMA BoundedInit == Init => Bounded
<1> SUFFICES ASSUME Init PROVE Bounded
  OBVIOUS
<1>1. Lists(cache, answers) = {}
  BY DEF Init, Lists
<1>2. \A i \in DOMAIN calls : calls[i].draft = 0
  BY DEF Init, Call
<1> QED BY <1>1, <1>2 DEF Init, Bounded

LEMMA DraftsGrow ==
    ASSUME Typed, [Next]_vars
    PROVE  drafts \in Nat /\ drafts' \in Nat /\ drafts <= drafts'
<1>1. drafts \in Nat
  BY TabDraftsAssumption DEF Typed, Drafts
<1>2. drafts' = drafts \/ drafts' = drafts + 1
  BY Frames DEF Edit, Import
<1> QED BY <1>1, <1>2

LEMMA FreshIsBounded ==
    ASSUME Typed, Bounded, [Next]_vars, NEW c, Fresh(c)
    PROVE  c.draft <= drafts'
<1>1. drafts \in Nat /\ drafts' \in Nat /\ drafts <= drafts'
  BY DraftsGrow
<1>2. CASE c.draft = 0 \/ c.draft = drafts'
  BY <1>1, <1>2
<1>3. CASE c.draft = live.draft
  <2>1. live.draft \in Nat /\ live.draft <= drafts
    BY TabDraftsAssumption DEF Typed, Drafts, Bounded
  <2> QED BY <1>1, <1>3, <2>1
<1>4. CASE c.tab \in Tabs /\ cache[shown] # NoList /\ c.draft = cache[shown].draft[c.tab]
  <2>1. cache[shown] \in Lists(cache, answers)
    BY <1>4, CachedIsListed DEF Typed
  <2>2. cache[shown].draft[c.tab] <= drafts
    BY <1>4, <2>1 DEF Bounded
  <2>3. cache[shown].draft[c.tab] \in Nat
    BY <1>4, <2>1, ListsTyped, TabDraftsAssumption DEF ListSet, Drafts
  <2> QED BY <1>1, <1>4, <2>2, <2>3
<1>5. ASSUME NEW t \in Tabs, NEW next \in {"activate", "create"}, c = Leave(next, t)
      PROVE  c.draft = live.draft \/ c.draft = 0
  BY <1>5, LeaveTyped
<1> QED BY <1>2, <1>3, <1>4, <1>5 DEF Fresh

LEMMA BoundedStep ==
    ASSUME Typed, Bounded, [Next]_vars
    PROVE  Bounded'
<1>1. drafts \in Nat /\ drafts' \in Nat /\ drafts <= drafts'
  BY DraftsGrow
<1>2. /\ live.draft \in Nat /\ draft \in [Tabs -> Nat]
      /\ \A i \in DOMAIN calls : calls[i] \in CallSet /\ calls[i].draft \in Nat
  <2>1. live.draft \in Nat /\ draft \in [Tabs -> Nat]
    BY TabDraftsAssumption DEF Typed, Drafts
  <2>2. \A i \in DOMAIN calls : calls[i] \in CallSet
    BY ElementOfSeq, LenProperties DEF Typed
  <2> QED BY <2>1, <2>2, TabDraftsAssumption DEF CallSet, Drafts
<1>3. \A l \in Lists(cache, answers) : \A t \in Tabs : l.draft[t] \in Nat /\ l.draft[t] <= drafts'
  <2>1. ASSUME NEW l \in Lists(cache, answers), NEW t \in Tabs
        PROVE  l.draft[t] \in Nat /\ l.draft[t] <= drafts'
    <3>1. l.draft[t] \in Nat
      BY ListsTyped, TabDraftsAssumption DEF ListSet, Drafts
    <3> QED BY <1>1, <3>1 DEF Bounded
  <2> QED BY <2>1
<1>4. live'.draft <= drafts'
  <2>1. CASE Load
    <3>1. PICK t \in Tabs :
             /\ cache[shown] \in ListSet /\ t \in cache[shown].active
             /\ live' = [tab |-> t, draft |-> cache[shown].draft[t], typed |-> FALSE]
      BY <2>1, LoadsListed
    <3>2. cache[shown] # NoList
      BY <2>1 DEF Load
    <3>3. cache[shown] \in Lists(cache, answers)
      BY <3>2, CachedIsListed DEF Typed
    <3> QED BY <1>3, <3>1, <3>3
  <2>2. CASE Edit
    BY <1>1, <2>2 DEF Edit, Typed
  <2>3. CASE ~ Load /\ ~ Edit
    BY <1>1, <1>2, <2>3, Frames DEF Bounded
  <2> QED BY <2>1, <2>2, <2>3
<1>5. \A t \in Tabs : draft'[t] <= drafts'
  <2>1. CASE ~ Execute
    BY <1>1, <1>2, <2>1, Frames DEF Bounded
  <2>2. CASE Execute
    <3>1. PICK c \in CallSet : Runs(c) /\ DoesTo(c)
      BY <2>2, ExecuteRuns
    <3>2. c.draft <= drafts /\ c.draft \in Nat
      BY <1>2, <3>1 DEF Runs, Bounded
    <3>3. draft' = draft \/ \E t \in Tabs : draft' = [draft EXCEPT ![t] = c.draft]
      BY <3>1 DEF DoesTo, db, CloseAll, UpdateDraft, SetActive, Create, Close, CloseOthers
    <3> QED BY <1>1, <1>2, <3>2, <3>3 DEF Bounded
  <2> QED BY <2>1, <2>2
<1>6. \A i \in DOMAIN calls' : calls'[i].draft <= drafts'
  <2>1. \A i \in DOMAIN calls : calls[i].draft <= drafts'
    BY <1>1, <1>2 DEF Bounded
  <2>2. CASE Execute
    <3>1. PICK c \in CallSet : Runs(c)
      BY <2>2, ExecuteRuns
    <3>2. \A i \in DOMAIN calls' : \E j \in DOMAIN calls : calls'[i] = calls[j]
      BY <3>1, RunsIsTyped, ThinnedKeepsAll DEF Typed
    <3> QED BY <2>1, <3>2
  <2>3. CASE WindowSends
    BY <2>1, <2>3, CallsAfter, FreshIsBounded
  <2>4. CASE FlushIsDone
    <3>1. PICK c \in CallSet : c.draft = 0 /\ calls' = Append(calls, c)
      BY <2>4, FlushIsAnswered
    <3>2. /\ DOMAIN Append(calls, c) = DOMAIN calls \union {Len(calls) + 1}
          /\ \A i \in DOMAIN calls : Append(calls, c)[i] = calls[i]
          /\ Append(calls, c)[Len(calls) + 1] = c
      BY Appended DEF Typed
    <3> QED BY <1>1, <2>1, <3>1, <3>2
  <2> QED BY <2>2, <2>3, <2>4, WindowStep
<1>7. \A l \in Lists(cache', answers') : \A t \in Tabs : l.draft[t] <= drafts'
  <2>1. ASSUME NEW w \in Workspaces, NEW t \in Tabs
        PROVE  List(w).draft[t] <= drafts'
    BY <1>1, <1>2 DEF List, Bounded
  <2> HIDE DEF List
  <2> QED BY <1>3, <2>1, ListsAfter
<1> QED BY <1>4, <1>5, <1>6, <1>7 DEF Bounded

-----------------------------------------------------------------------------
(* A tab is created once: while its creation is under way it is no row, in *)
(* no list and not the live tab, and no other creation of it is under way. *)

Pending(t, sent, given) ==
    \/ \E i \in DOMAIN sent : Creates(sent[i], t)
    \/ \E i \in DOMAIN given : Awaits(given[i].call, t)

Single(sent, given) ==
    \A t \in Tabs :
       /\ \A i, j \in DOMAIN sent : Creates(sent[i], t) /\ Creates(sent[j], t) => i = j
       /\ \A i, j \in DOMAIN given :
            Awaits(given[i].call, t) /\ Awaits(given[j].call, t) => i = j
       /\ \A i \in DOMAIN sent, j \in DOMAIN given :
            ~ (Creates(sent[i], t) /\ Awaits(given[j].call, t))

Births ==
    /\ live.tab \in used \union {NoTab}
    /\ \A l \in Lists(cache, answers) : l.active \subseteq used
    /\ \A t \in Tabs : Pending(t, calls, answers) =>
         /\ t \in used /\ t \notin rows /\ t # live.tab
         /\ \A l \in Lists(cache, answers) : t \notin l.active
    /\ Single(calls, answers)

LEMMA AwaitsCreates ==
    ASSUME NEW c, NEW t
    PROVE  Awaits(c, t) => Creates(c, t)
BY DEF Creates

LEMMA PendingThinned ==
    ASSUME NEW t, NEW sent \in Seq(CallSet), NEW given \in Seq(AnswerSet),
           NEW r \in Seq(CallSet), NEW q \in Seq(AnswerSet),
           Thinned(r, sent), Thinned(q, given), Pending(t, r, q)
    PROVE  Pending(t, sent, given)
<1>1. \A i \in DOMAIN r : \E j \in DOMAIN sent : r[i] = sent[j]
  BY ThinnedKeepsAll
<1>2. \A i \in DOMAIN q : \E j \in DOMAIN given : q[i] = given[j]
  BY ThinnedKeepsAll
<1> QED BY <1>1, <1>2 DEF Pending

LEMMA SingleThinned ==
    ASSUME NEW sent \in Seq(CallSet), NEW given \in Seq(AnswerSet),
           NEW r \in Seq(CallSet), NEW q \in Seq(AnswerSet),
           Thinned(r, sent), Thinned(q, given), Single(sent, given)
    PROVE  Single(r, q)
<1>1. PICK f \in Places(r, sent) : TRUE
  BY DEF Thinned
<1>2. PICK g \in Places(q, given) : TRUE
  BY DEF Thinned
<1>3. /\ f \in [DOMAIN r -> DOMAIN sent] /\ \A i \in DOMAIN r : r[i] = sent[f[i]]
      /\ g \in [DOMAIN q -> DOMAIN given] /\ \A i \in DOMAIN q : q[i] = given[g[i]]
  BY DEF Places
<1>4. ASSUME NEW t \in Tabs, NEW i \in DOMAIN r, NEW j \in DOMAIN r,
             Creates(r[i], t), Creates(r[j], t)
      PROVE  i = j
  <2>1. f[i] = f[j]
    BY <1>3, <1>4 DEF Single
  <2> QED BY <2>1, PlacesDiffer
<1>5. ASSUME NEW t \in Tabs, NEW i \in DOMAIN q, NEW j \in DOMAIN q,
             Awaits(q[i].call, t), Awaits(q[j].call, t)
      PROVE  i = j
  <2>1. g[i] = g[j]
    BY <1>3, <1>5 DEF Single
  <2> QED BY <2>1, PlacesDiffer
<1>6. ASSUME NEW t \in Tabs, NEW i \in DOMAIN r, NEW j \in DOMAIN q
      PROVE  ~ (Creates(r[i], t) /\ Awaits(q[j].call, t))
  BY <1>3 DEF Single
<1> QED BY <1>4, <1>5, <1>6 DEF Single

LEMMA SingleAppends ==
    ASSUME NEW sent \in Seq(CallSet), NEW given \in Seq(AnswerSet), Single(sent, given),
           NEW c \in CallSet, \A t \in Tabs : Creates(c, t) => ~ Pending(t, sent, given)
    PROVE  Single(Append(sent, c), given)
<1> DEFINE q == Append(sent, c)
<1>1. /\ DOMAIN q = DOMAIN sent \union {Len(sent) + 1}
      /\ \A i \in DOMAIN sent : q[i] = sent[i]
      /\ q[Len(sent) + 1] = c
  BY Appended
<1> HIDE DEF q
<1>2. ASSUME NEW t \in Tabs, NEW i \in DOMAIN q, NEW j \in DOMAIN q,
             Creates(q[i], t), Creates(q[j], t)
      PROVE  i = j
  BY <1>1, <1>2 DEF Single, Pending
<1>3. ASSUME NEW t \in Tabs, NEW i \in DOMAIN q, NEW j \in DOMAIN given
      PROVE  ~ (Creates(q[i], t) /\ Awaits(given[j].call, t))
  BY <1>1 DEF Single, Pending
<1>4. Single(q, given)
  BY <1>2, <1>3 DEF Single
<1> QED BY <1>4 DEF q

(* A call that is run becomes an answer, and an answered flush a call.     *)
LEMMA SingleRuns ==
    ASSUME NEW sent \in Seq(CallSet), NEW given \in Seq(AnswerSet), Single(sent, given),
           NEW r \in Seq(CallSet), NEW i \in DOMAIN sent, Without(r, sent, i),
           NEW a \in AnswerSet, a.call = sent[i]
    PROVE  Single(r, Append(given, a))
<1>1. PICK f \in Places(r, sent) : \A j \in DOMAIN r : f[j] # i
  BY DEF Without
<1>2. f \in [DOMAIN r -> DOMAIN sent] /\ \A j \in DOMAIN r : r[j] = sent[f[j]]
  BY DEF Places
<1>3. Single(r, given)
  BY WithoutIsThinned, SameIsThinned, SingleThinned
<1> DEFINE q == Append(given, a)
<1>4. /\ DOMAIN q = DOMAIN given \union {Len(given) + 1}
      /\ \A j \in DOMAIN given : q[j] = given[j]
      /\ q[Len(given) + 1] = a
  BY Appended
<1> HIDE DEF q
<1>5. ASSUME NEW t \in Tabs, Awaits(a.call, t)
      PROVE  /\ \A j \in DOMAIN given : ~ Awaits(given[j].call, t)
             /\ \A j \in DOMAIN r : ~ Creates(r[j], t)
  <2>1. Creates(sent[i], t)
    BY <1>5, AwaitsCreates
  <2> QED BY <1>1, <1>2, <2>1 DEF Single
<1>6. ASSUME NEW t \in Tabs, NEW j \in DOMAIN q, NEW k \in DOMAIN q,
             Awaits(q[j].call, t), Awaits(q[k].call, t)
      PROVE  j = k
  BY <1>3, <1>4, <1>5, <1>6 DEF Single
<1>7. ASSUME NEW t \in Tabs, NEW j \in DOMAIN r, NEW k \in DOMAIN q
      PROVE  ~ (Creates(r[j], t) /\ Awaits(q[k].call, t))
  BY <1>3, <1>4, <1>5 DEF Single
<1>8. Single(r, q)
  BY <1>3, <1>6, <1>7 DEF Single
<1> QED BY <1>8 DEF q

LEMMA SingleAnswered ==
    ASSUME NEW sent \in Seq(CallSet), NEW given \in Seq(AnswerSet), Single(sent, given),
           NEW q \in Seq(AnswerSet), NEW i \in DOMAIN given, Without(q, given, i),
           NEW c \in CallSet, \A t \in Tabs : Creates(c, t) => Awaits(given[i].call, t)
    PROVE  Single(Append(sent, c), q)
<1>1. PICK f \in Places(q, given) : \A j \in DOMAIN q : f[j] # i
  BY DEF Without
<1>2. f \in [DOMAIN q -> DOMAIN given] /\ \A j \in DOMAIN q : q[j] = given[f[j]]
  BY DEF Places
<1>3. Single(sent, q)
  BY WithoutIsThinned, SameIsThinned, SingleThinned
<1>4. ASSUME NEW t \in Tabs, Creates(c, t)
      PROVE  ~ Pending(t, sent, q)
  <2>1. Awaits(given[i].call, t)
    BY <1>4
  <2>2. \A j \in DOMAIN sent : ~ Creates(sent[j], t)
    BY <2>1 DEF Single
  <2>3. \A j \in DOMAIN q : ~ Awaits(q[j].call, t)
    BY <1>1, <1>2, <2>1 DEF Single
  <2> QED BY <2>2, <2>3 DEF Pending
<1> QED BY <1>3, <1>4, SingleAppends

LEMMA BirthsInit == Init => Births
<1> SUFFICES ASSUME Init PROVE Births
  OBVIOUS
<1>1. Lists(cache, answers) = {}
  BY DEF Init, Lists
<1>2. DOMAIN answers = {} /\ \A i \in DOMAIN calls : calls[i].op = "list"
  BY DEF Init, Call
<1>3. \A t : \A i \in DOMAIN calls : ~ Creates(calls[i], t)
  BY <1>2 DEF Creates, Awaits, IsFlush
<1> QED BY <1>1, <1>2, <1>3 DEF Init, Births, Pending, Single

(* What is pending was given out, and comes to be pending as it is.        *)
LEMMA PendingIsUsed ==
    ASSUME Typed, NEW t \in Tabs, Pending(t, calls, answers)
    PROVE  t \in used
BY AwaitsCreates DEF Typed, WellAimed, Pending

LEMMA FreshCreates ==
    ASSUME Typed, NEW c, Fresh(c), NEW t \in Tabs, Creates(c, t)
    PROVE  t \notin used /\ t \in used'
<1>1. ASSUME NEW u \in Tabs, NEW next \in {"activate", "create"}, c = Leave(next, u)
      PROVE  next = "create" /\ u = t
  BY <1>1, LeaveTyped DEF Creates, Awaits, IsFlush
<1> QED BY <1>1 DEF Fresh, Creates, Awaits, IsFlush

LEMMA SingleStep ==
    ASSUME Typed, Births, [Next]_vars
    PROVE  Single(calls', answers')
<1> USE DEF Typed
<1>1. Single(calls, answers)
  BY DEF Births
<1>2. CASE Execute
  <2>1. PICK c \in CallSet : Runs(c)
    BY <1>2, ExecuteRuns
  <2>2. PICK a \in AnswerSet : answers' = Append(answers, a) /\ a.call = c
    BY <2>1 DEF Runs
  <2>3. /\ 1 \in DOMAIN calls /\ c = calls[1] /\ calls' = RemoveAt(calls, 1)
        /\ calls' \in Seq(CallSet) /\ Without(calls', calls, 1)
    BY <2>1, RemovedIsThinned DEF Runs
  <2> QED BY <1>1, <2>2, <2>3, SingleRuns
<1>3. CASE FlushIsDone
  <2>1. PICK c \in CallSet :
             /\ c.op \in {"activate", "create"} /\ c.tab \in Tabs
             /\ answers[1].call.next = c.op /\ answers[1].call.target = c.tab
             /\ 1 \in DOMAIN answers
             /\ IsFlush(answers[1].call)
             /\ calls' = Append(calls, c)
             /\ answers' = Tail(answers)
             /\ answers' \in Seq(AnswerSet)
    BY <1>3, FlushIsAnswered
  <2>2. answers # <<>>
    BY <2>1
  <2>3. Without(answers', answers, 1)
    BY <2>1, <2>2, TailIsThinned
  <2>4. \A t \in Tabs : Creates(c, t) => Awaits(answers[1].call, t)
    BY <2>1 DEF Creates, Awaits, IsFlush
  <2> QED BY <1>1, <2>1, <2>3, <2>4, SingleAnswered
<1>4. CASE WindowSends
  <2>1. PICK r \in Seq(CallSet) : Thinned(r, calls) /\ Sends(r)
    BY <1>4 DEF WindowSends
  <2>2. answers' \in Seq(AnswerSet) /\ Thinned(answers', answers)
    BY <1>4 DEF WindowSends
  <2>3. Single(r, answers')
    BY <1>1, <2>1, <2>2, SingleThinned
  <2>4. \A t \in Tabs : Pending(t, r, answers') => t \in used
    BY <2>1, <2>2, PendingThinned, PendingIsUsed
  <2>5. CASE calls' = r
    BY <2>3, <2>5
  <2>6. ASSUME NEW c \in CallSet, Fresh(c), calls' = Append(r, c)
        PROVE  Single(calls', answers')
    <3>1. \A t \in Tabs : Creates(c, t) => ~ Pending(t, r, answers')
      BY <2>4, <2>6, FreshCreates
    <3> QED BY <2>2, <2>3, <2>6, <3>1, SingleAppends
  <2>7. ASSUME NEW c \in CallSet, NEW d \in CallSet, calls' = Append(Append(r, c), d),
               \A t \in Tabs : ~ Creates(c, t) /\ ~ Creates(d, t)
        PROVE  Single(calls', answers')
    <3>1. Append(r, c) \in Seq(CallSet) /\ Single(Append(r, c), answers')
      BY <2>2, <2>3, <2>7, SingleAppends, AppendProperties
    <3> QED BY <2>2, <2>7, <3>1, SingleAppends
  <2> QED BY <2>1, <2>5, <2>6, <2>7 DEF Sends
<1> QED BY <1>2, <1>3, <1>4, WindowStep

(* The creation that is run is no longer under way.                        *)
LEMMA PendingAfter ==
    ASSUME Typed, Births, [Next]_vars, NEW t \in Tabs, Pending(t, calls', answers')
    PROVE  \/ Pending(t, calls, answers) /\ ~ (Execute /\ calls[1].op = "create" /\ calls[1].tab = t)
           \/ t \notin used /\ t \in used' /\ ~ Execute
<1> USE DEF Typed
<1>1. CASE Execute
  <2>1. PICK c \in CallSet : Runs(c)
    BY <1>1, ExecuteRuns
  <2>2. PICK a \in AnswerSet : answers' = Append(answers, a) /\ a.call = c
    BY <2>1 DEF Runs
  <2>3. /\ 1 \in DOMAIN calls /\ c = calls[1] /\ calls' = RemoveAt(calls, 1)
        /\ calls' \in Seq(CallSet) /\ Without(calls', calls, 1)
    BY <2>1, RemovedIsThinned DEF Runs
  <2>4. PICK f \in Places(calls', calls) : \A j \in DOMAIN calls' : f[j] # 1
    BY <2>3 DEF Without
  <2>5. f \in [DOMAIN calls' -> DOMAIN calls] /\ \A j \in DOMAIN calls' : calls'[j] = calls[f[j]]
    BY <2>4 DEF Places
  <2>6. /\ DOMAIN answers' = DOMAIN answers \union {Len(answers) + 1}
        /\ \A j \in DOMAIN answers : answers'[j] = answers[j]
        /\ answers'[Len(answers) + 1] = a
    BY <2>2, Appended
  <2>7. Pending(t, calls, answers)
    BY <2>2, <2>3, <2>5, <2>6, AwaitsCreates DEF Pending
  <2>8. ASSUME c.op = "create", c.tab = t PROVE FALSE
    <3>1. Creates(calls[1], t) /\ ~ Awaits(a.call, t)
      BY <2>2, <2>3, <2>8 DEF Creates, Awaits, IsFlush
    <3>2. \A j \in DOMAIN calls' : ~ Creates(calls'[j], t)
      BY <2>3, <2>4, <2>5, <3>1 DEF Births, Single
    <3>3. \A j \in DOMAIN answers' : ~ Awaits(answers'[j].call, t)
      BY <2>3, <2>6, <3>1 DEF Births, Single
    <3> QED BY <3>2, <3>3 DEF Pending
  <2> QED BY <2>3, <2>7, <2>8
<1>2. CASE ~ Execute /\ FlushIsDone
  <2>1. PICK c \in CallSet :
             /\ c.op \in {"activate", "create"} /\ c.tab \in Tabs
             /\ answers[1].call.next = c.op /\ answers[1].call.target = c.tab
             /\ 1 \in DOMAIN answers
             /\ IsFlush(answers[1].call)
             /\ calls' = Append(calls, c)
             /\ answers' \in Seq(AnswerSet) /\ Thinned(answers', answers)
    BY <1>2, FlushIsAnswered
  <2>2. \A i \in DOMAIN answers' : \E j \in DOMAIN answers : answers'[i] = answers[j]
    BY <2>1, ThinnedKeepsAll
  <2>3. Creates(c, t) => Awaits(answers[1].call, t)
    BY <2>1 DEF Creates, Awaits, IsFlush
  <2>4. \A i \in DOMAIN calls' : (\E j \in DOMAIN calls : calls'[i] = calls[j]) \/ calls'[i] = c
    BY <2>1, Appended
  <2> QED BY <1>2, <2>1, <2>2, <2>3, <2>4 DEF Pending
<1>3. CASE ~ Execute /\ WindowSends
  <2>1. answers' \in Seq(AnswerSet) /\ Thinned(answers', answers)
    BY <1>3 DEF WindowSends
  <2>2. \A i \in DOMAIN answers' : \E j \in DOMAIN answers : answers'[i] = answers[j]
    BY <2>1, ThinnedKeepsAll
  <2>3. CASE \E i \in DOMAIN answers' : Awaits(answers'[i].call, t)
    BY <1>3, <2>2, <2>3 DEF Pending
  <2>4. ASSUME NEW i \in DOMAIN calls', Creates(calls'[i], t)
        PROVE  Pending(t, calls, answers) \/ (t \notin used /\ t \in used')
    <3>1. (\E j \in DOMAIN calls : calls'[i] = calls[j]) \/ Fresh(calls'[i])
      BY <1>3, CallsAfter
    <3> QED BY <2>4, <3>1, FreshCreates DEF Pending
  <2> QED BY <1>3, <2>3, <2>4 DEF Pending
<1> QED BY <1>1, <1>2, <1>3, WindowStep

(* Rows come from creations only, and the live tab from a list.            *)
LEMMA RowsAfter ==
    ASSUME Typed, [Next]_vars, NEW t \in rows'
    PROVE  t \in rows \/ (Execute /\ calls[1].op = "create" /\ calls[1].tab = t)
<1>1. CASE ~ Execute
  BY <1>1, Frames
<1>2. CASE Execute
  <2>1. PICK c \in CallSet : Runs(c) /\ DoesTo(c)
    BY <1>2, ExecuteRuns
  <2> QED BY <1>2, <2>1 DEF Runs, DoesTo, db, CloseAll, UpdateDraft, SetActive, Create, Close, CloseOthers
<1> QED BY <1>1, <1>2

LEMMA LiveAfter ==
    ASSUME Typed, [Next]_vars, live'.tab # live.tab
    PROVE  Load /\ \E l \in Lists(cache, answers) : live'.tab \in l.active
<1>1. Load
  BY Frames DEF Edit, Typed
<1>2. cache[shown] # NoList
  BY <1>1 DEF Load
<1>3. cache[shown] \in Lists(cache, answers)
  BY <1>2, CachedIsListed DEF Typed
<1>4. PICK t \in Tabs :
         /\ t \in cache[shown].active
         /\ live' = [tab |-> t, draft |-> cache[shown].draft[t], typed |-> FALSE]
  BY <1>1, LoadsListed
<1>5. live'.tab = t
  BY <1>4
<1> QED BY <1>1, <1>3, <1>4, <1>5

LEMMA BirthsStep ==
    ASSUME Typed, Births, [Next]_vars
    PROVE  Births'
<1>1. used \subseteq used'
  BY UsedGrows
<1>2. live'.tab \in used' \union {NoTab}
  BY <1>1, LiveAfter DEF Births
<1>3. \A w : List(w).active \subseteq rows
  BY DEF List, Typed
<1>4. \A l \in Lists(cache', answers') : l.active \subseteq used'
  <2>1. rows \subseteq used
    BY DEF Typed
  <2> QED BY <1>1, <1>3, <2>1, ListsAfter DEF Births
<1>5. ASSUME NEW t \in Tabs, Pending(t, calls', answers')
      PROVE  /\ t \in used' /\ t \notin rows' /\ t # live'.tab
             /\ \A l \in Lists(cache', answers') : t \notin l.active
  <2>1. CASE /\ Pending(t, calls, answers)
             /\ ~ (Execute /\ calls[1].op = "create" /\ calls[1].tab = t)
    <3>1. /\ t \in used /\ t \notin rows /\ t # live.tab
          /\ \A l \in Lists(cache, answers) : t \notin l.active
      BY <2>1 DEF Births
    <3>2. t \notin rows'
      BY <2>1, <3>1, RowsAfter
    <3>3. t # live'.tab
      BY <3>1, LiveAfter
    <3>4. \A l \in Lists(cache', answers') : t \notin l.active
      BY <1>3, <3>1, ListsAfter
    <3> QED BY <1>1, <3>1, <3>2, <3>3, <3>4
  <2>2. CASE t \notin used /\ t \in used' /\ ~ Execute
    <3>1. t \notin rows'
      BY <2>2, RowsAfter DEF Typed
    <3>2. t # live'.tab
      BY <2>2, LiveAfter, TabDraftsAssumption DEF Births
    <3>3. \A l \in Lists(cache', answers') : t \notin l.active
      BY <2>2, ListsAfter DEF Births
    <3> QED BY <2>2, <3>1, <3>2, <3>3
  <2> QED BY <1>5, <2>1, <2>2, PendingAfter
<1>6. Single(calls', answers')
  BY SingleStep
<1> QED BY <1>2, <1>4, <1>5, <1>6 DEF Births

-----------------------------------------------------------------------------
(* No list the window has shows two tabs active, as long as nothing        *)
(* strayed.                                                                *)

ListsAlone ==
    ~ strayed => \A l \in Lists(cache, answers) : \A s, t \in l.active : s = t

LEMMA ListsAloneStep ==
    ASSUME Typed, Exclusive, ListsAlone, [Next]_vars
    PROVE  ListsAlone'
<1> SUFFICES ASSUME ~ strayed', NEW l \in Lists(cache', answers'),
                    NEW s \in l.active, NEW t \in l.active
             PROVE  s = t
  BY DEF ListsAlone
<1>1. ~ strayed
  <2>1. CASE Execute
    BY <2>1, ExecuteRuns DEF Runs
  <2>2. CASE ~ Execute
    BY <2>2, Frames
  <2> QED BY <2>1, <2>2
<1>2. \A w : \A x, y \in List(w).active : x = y
  BY <1>1 DEF List, Exclusive, Alone, Of
<1> QED BY <1>1, <1>2, ListsAfter DEF ListsAlone

-----------------------------------------------------------------------------
(* While nothing says so, the live draft is in its row before another tab  *)
(* is loaded.  Typed drafts that were not late, of a tab that is there:    *)
(* once the row has the draft no write under way takes it back, what       *)
(* activates another tab is under way only after a write of the draft, and *)
(* where the tab is not active, or shown so, the row has the draft.        *)

WritesTo(c, t) == c.op \in {"save", "import"} /\ c.tab = t

(* d is the draft, and kept the one in the row.                            *)
CarriedBy(c, t, d, kept) ==
    /\ c.op \in {"activate", "create"} => kept >= d
    /\ IsFlush(c) => c.tab = t /\ c.draft >= d
    /\ WritesTo(c, t) /\ kept >= d => c.draft >= d

InOrder(sent, t, d) ==
    \A i, j \in DOMAIN sent :
       (i < j /\ WritesTo(sent[i], t) /\ WritesTo(sent[j], t) /\ sent[i].draft >= d)
         => sent[j].draft >= d

Misses(list, t) == list # NoList /\ t \notin list.active

Kept == live.typed /\ live.draft \notin late /\ live.tab \in rows
Saved == draft[live.tab] >= live.draft

Carried ==
    Kept =>
      /\ \A i \in DOMAIN calls :
           CarriedBy(calls[i], live.tab, live.draft, draft[live.tab])
      /\ InOrder(calls, live.tab, live.draft)
      /\ \A i \in DOMAIN answers :
           (\/ IsFlush(answers[i].call)
            \/ IsListOf(answers[i].call, Home[live.tab]) /\ Misses(answers[i].list, live.tab))
           => Saved
      /\ Misses(cache[Home[live.tab]], live.tab) => Saved
      /\ live.tab \notin flags => Saved

LEMMA InOrderThinned ==
    ASSUME NEW r \in Seq(CallSet), NEW s \in Seq(CallSet), Thinned(r, s),
           NEW t, NEW d, InOrder(s, t, d)
    PROVE  InOrder(r, t, d)
<1>1. PICK f \in Places(r, s) : TRUE
  BY DEF Thinned
<1>2. /\ f \in [DOMAIN r -> DOMAIN s] /\ \A i \in DOMAIN r : r[i] = s[f[i]]
      /\ \A i, j \in DOMAIN r : i < j => f[i] < f[j]
  BY DEF Places
<1> QED BY <1>2 DEF InOrder

LEMMA InOrderAppends ==
    ASSUME NEW s \in Seq(CallSet), NEW c \in CallSet, NEW t, NEW d,
           InOrder(s, t, d), WritesTo(c, t) => c.draft >= d
    PROVE  InOrder(Append(s, c), t, d)
<1> DEFINE q == Append(s, c)
<1>1. /\ DOMAIN q = DOMAIN s \union {Len(s) + 1}
      /\ \A i \in DOMAIN s : q[i] = s[i] /\ i < Len(s) + 1
      /\ q[Len(s) + 1] = c
  BY Appended
<1>2. DOMAIN s \subseteq Nat /\ Len(s) \in Nat
  BY LenProperties
<1> HIDE DEF q
<1>3. ASSUME NEW i \in DOMAIN q, NEW j \in DOMAIN q, i < j
      PROVE  i \in DOMAIN s
  BY <1>1, <1>2, <1>3
<1>4. InOrder(q, t, d)
  BY <1>1, <1>3 DEF InOrder
<1> QED BY <1>4 DEF q

(* A draft just typed while the tab was not being left is newer than any   *)
(* other, and nothing is under way.                                        *)
LEMMA CarriedEdit ==
    ASSUME Typed, Bounded, Edit
    PROVE  Carried'
<1> SUFFICES ASSUME Kept'
             PROVE  /\ \A i \in DOMAIN calls' :
                         CarriedBy(calls'[i], live'.tab, live'.draft, draft'[live'.tab])
                    /\ InOrder(calls', live'.tab, live'.draft)
                    /\ \A i \in DOMAIN answers' :
                         (\/ IsFlush(answers'[i].call)
                          \/ /\ IsListOf(answers'[i].call, Home[live'.tab])
                             /\ Misses(answers'[i].list, live'.tab))
                         => Saved'
                    /\ Misses(cache'[Home[live'.tab]], live'.tab) => Saved'
                    /\ live'.tab \notin flags' => Saved'
  BY DEF Carried
<1>1. /\ live'.tab = live.tab /\ live'.draft = drafts + 1 /\ drafts' = drafts + 1
      /\ UNCHANGED <<calls, answers, cache, rows, flags, draft>>
  BY DEF Edit, wire, db, Typed
<1>2. ~ Leaving
  BY <1>1 DEF Edit, Kept
<1>3. live.tab \in Tabs /\ Home[live.tab] = shown
  BY <1>1, <1>2 DEF Kept, Leaving, Typed
<1>4. draft[live.tab] <= drafts /\ draft[live.tab] \in Nat /\ drafts \in Nat
  BY <1>3, TabDraftsAssumption DEF Typed, Drafts, Bounded
<1>5. ASSUME NEW i \in DOMAIN calls
      PROVE  /\ calls[i].op \notin {"activate", "create"} /\ ~ IsFlush(calls[i])
             /\ ~ (calls[i].draft >= drafts + 1)
  <2>1. ~ Flow(calls[i])
    BY <1>2 DEF Leaving
  <2>2. calls[i] \in CallSet
    BY ElementOfSeq, LenProperties DEF Typed
  <2>3. calls[i].draft \in Nat /\ calls[i].draft <= drafts
    BY <2>2, TabDraftsAssumption DEF CallSet, Drafts, Bounded
  <2> QED BY <1>4, <2>1, <2>3 DEF Flow, IsFlush
<1>6. ASSUME NEW i \in DOMAIN answers
      PROVE  ~ IsFlush(answers[i].call) /\ ~ Misses(answers[i].list, live.tab)
  BY <1>2 DEF Leaving, Flow, IsFlush, Elsewhere, Misses
<1>7. ~ Misses(cache[shown], live.tab) /\ live.tab \in flags
  BY <1>2 DEF Leaving, Elsewhere, Misses
<1>8. \A i \in DOMAIN calls : CarriedBy(calls[i], live.tab, drafts + 1, draft[live.tab])
  BY <1>4, <1>5 DEF CarriedBy
<1>9. InOrder(calls, live.tab, drafts + 1)
  BY <1>5 DEF InOrder
<1> QED BY <1>1, <1>3, <1>6, <1>7, <1>8, <1>9

(* What the window sends carries the live draft or leaves its row alone.   *)
LEMMA FreshCarries ==
    ASSUME Typed, Bounded, live.tab \in Tabs, NEW c, Fresh(c)
    PROVE  /\ CarriedBy(c, live.tab, live.draft, draft[live.tab])
           /\ WritesTo(c, live.tab) => c.draft >= live.draft
<1>1. live.draft \in Nat /\ drafts \in Nat /\ live.draft <= drafts
  BY TabDraftsAssumption DEF Typed, Drafts, Bounded
<1>2. CASE c.op \in {"list", "close", "others", "all"}
  BY <1>2 DEF CarriedBy, WritesTo, IsFlush
<1>3. CASE c.op = "save" /\ c.next = "list" /\ c.tab = live.tab /\ c.draft = live.draft
  BY <1>1, <1>3 DEF CarriedBy, WritesTo, IsFlush
<1>4. CASE c.op = "save" /\ c.next = "list" /\ c.tab # live.tab
  BY <1>4 DEF CarriedBy, WritesTo, IsFlush
<1>5. CASE c.op = "import" /\ c.draft = drafts + 1
  BY <1>1, <1>5 DEF CarriedBy, WritesTo, IsFlush
<1>6. ASSUME NEW t \in Tabs, NEW next \in {"activate", "create"}, c = Leave(next, t)
      PROVE  /\ CarriedBy(c, live.tab, live.draft, draft[live.tab])
             /\ WritesTo(c, live.tab) => c.draft >= live.draft
  <2>1. live.tab # NoTab
    BY TabDraftsAssumption
  <2>2. c.op = "save" /\ c.tab = live.tab /\ c.draft = live.draft
    BY <1>6, <2>1, LeaveTyped
  <2> QED BY <1>1, <2>2 DEF CarriedBy, WritesTo
<1> QED BY <1>2, <1>3, <1>4, <1>5, <1>6 DEF Fresh

(* Away from Edit and Load the live tab and draft stay, and so does what   *)
(* is known of them.                                                       *)
LEMMA KeptStays ==
    ASSUME Typed, Births, [Next]_vars, ~ Edit, ~ Load, Kept'
    PROVE  Kept /\ UNCHANGED live
<1>1. UNCHANGED live
  BY Frames
<1>2. live.tab \in rows'
  BY <1>1 DEF Kept
<1>3. late \subseteq late'
  BY Frames DEF RenameTab
<1>4. live.tab \in rows
  <2>1. CASE Execute /\ calls[1].op = "create" /\ calls[1].tab = live.tab
    <3>1. 1 \in DOMAIN calls
      BY <2>1, ExecuteRuns DEF Runs
    <3>2. live.tab \in Tabs
      <4>1. rows' \subseteq Tabs
        BY RowsAreTyped, UsedGrows
      <4> QED BY <1>2, <4>1
    <3>3. Pending(live.tab, calls, answers)
      BY <2>1, <3>1 DEF Pending, Creates
    <3> QED BY <3>2, <3>3 DEF Births
  <2> QED BY <1>2, <2>1, RowsAfter
<1> QED BY <1>1, <1>3, <1>4 DEF Kept

(* The flag goes to another tab only after the draft was written.          *)
LEMMA FlagLeaves ==
    ASSUME Typed, NEW c \in CallSet, DoesTo(c), NEW t \in rows', t \in flags, t \notin flags'
    PROVE  c.op \in {"activate", "create"} /\ draft' = draft
<1>1. CASE UNCHANGED db \/ CloseAll(c.ws)
  BY <1>1 DEF db, CloseAll
<1>2. CASE ~ (UNCHANGED db \/ CloseAll(c.ws))
  <2>1. PICK u \in Tabs :
           \/ UpdateDraft(u, c.draft)
           \/ c.op = "activate" /\ SetActive(u)
           \/ c.op = "create" /\ Create(u)
           \/ Close(c.ws, u)
           \/ CloseOthers(c.ws, u)
    BY <1>2 DEF DoesTo
  <2>2. ~ UpdateDraft(u, c.draft)
    BY DEF UpdateDraft
  <2>3. ~ Close(c.ws, u)
    BY DEF Close
  <2>4. ~ CloseOthers(c.ws, u)
    BY DEF CloseOthers
  <2> QED BY <2>1, <2>2, <2>3, <2>4 DEF SetActive, Create
<1> QED BY <1>1, <1>2

(* What the command does to the draft in the row of tab t.                 *)
LEMMA DraftWritten ==
    ASSUME Typed, NEW c \in CallSet, DoesTo(c), NEW t \in rows
    PROVE  draft'[t] = IF WritesTo(c, t) THEN c.draft ELSE draft[t]
<1>1. t \in Tabs /\ draft \in [Tabs -> Drafts]
  BY DEF Typed
<1>2. CASE c.op \in {"list", "all"}
  <2>1. UNCHANGED db \/ CloseAll(c.ws)
    BY <1>2 DEF DoesTo
  <2>2. draft' = draft
    BY <2>1 DEF db, CloseAll
  <2> QED BY <1>2, <2>2 DEF WritesTo
<1>3. CASE c.op \in {"save", "import"}
  <2>1. PICK u \in Tabs : c.tab = u /\ UpdateDraft(u, c.draft)
    BY <1>3 DEF DoesTo
  <2> QED BY <1>1, <1>3, <2>1 DEF UpdateDraft, WritesTo
<1>4. CASE c.op \notin {"list", "all", "save", "import"}
  <2>1. PICK u \in Tabs : SetActive(u) \/ Create(u) \/ Close(c.ws, u) \/ CloseOthers(c.ws, u)
    BY <1>4 DEF DoesTo
  <2>2. draft' = draft
    BY <2>1 DEF SetActive, Create, Close, CloseOthers
  <2> QED BY <1>4, <2>2 DEF WritesTo
<1> QED BY <1>2, <1>3, <1>4

LEMMA CarriedRun ==
    ASSUME Typed, Carried, Kept, NEW c \in CallSet, Runs(c), DoesTo(c), live.tab \in rows'
    PROVE  Carried'
<1> DEFINE t == live.tab
           d == live.draft
           k == draft[t]
           new == draft'[t]
<1>1. /\ t \in Tabs /\ t \in rows /\ d \in Nat /\ k \in Nat /\ c.draft \in Nat
      /\ \A i \in DOMAIN calls : calls[i].draft \in Nat
  <2>1. t \in Tabs /\ t \in rows
    BY DEF Kept, Typed
  <2>2. \A i \in DOMAIN calls : calls[i] \in CallSet
    BY ElementOfSeq, LenProperties DEF Typed
  <2> QED BY <2>1, <2>2, TabDraftsAssumption DEF Typed, Drafts, CallSet
<1>2. /\ 1 \in DOMAIN calls /\ c = calls[1] /\ calls' = RemoveAt(calls, 1)
      /\ UNCHANGED <<cache, live>>
  BY DEF Runs
<1>3. /\ \A i \in DOMAIN calls : CarriedBy(calls[i], t, d, k)
      /\ InOrder(calls, t, d)
      /\ \A i \in DOMAIN answers :
           IsFlush(answers[i].call) \/ (IsListOf(answers[i].call, Home[t]) /\ Misses(answers[i].list, t))
             => k >= d
      /\ Misses(cache[Home[t]], t) => k >= d
      /\ t \notin flags => k >= d
  BY DEF Carried, Saved
<1>4. new = IF WritesTo(c, t) THEN c.draft ELSE k
  BY <1>1, DraftWritten
<1> HIDE DEF t, d, k, new
<1>5. k >= d => new >= d
  BY <1>2, <1>3, <1>4 DEF CarriedBy
<1>6. \A i \in DOMAIN calls' : CarriedBy(calls'[i], t, d, new)
  <2>1. PICK f \in Places(calls', calls) : \A i \in DOMAIN calls' : f[i] # 1
    BY <1>2, RemovedIsThinned DEF Without, Typed
  <2>2. f \in [DOMAIN calls' -> DOMAIN calls] /\ \A i \in DOMAIN calls' : calls'[i] = calls[f[i]]
    BY <2>1 DEF Places
  <2>3. \A i \in DOMAIN calls : i # 1 => 1 < i
    BY LenProperties DEF Typed
  <2>4. ASSUME NEW i \in DOMAIN calls, 1 < i PROVE CarriedBy(calls[i], t, d, new)
    <3>1. CASE k >= d
      BY <1>3, <1>5, <3>1 DEF CarriedBy
    <3>2. CASE ~ (k >= d)
      <4>1. calls[i].op \notin {"activate", "create"}
        BY <1>3, <3>2 DEF CarriedBy
      <4>2. WritesTo(calls[i], t) /\ new >= d => calls[i].draft >= d
        BY <1>2, <1>3, <1>4, <2>4, <3>2 DEF InOrder
      <4> QED BY <1>3, <4>1, <4>2 DEF CarriedBy
    <3> QED BY <3>1, <3>2
  <2> QED BY <2>1, <2>2, <2>3, <2>4
<1>7. InOrder(calls', t, d)
  BY <1>2, <1>3, RemovedIsThinned, InOrderThinned DEF Typed
<1>8. t \notin flags' => new >= d
  <2>1. CASE t \notin flags
    BY <1>3, <1>5, <2>1
  <2>2. CASE t \in flags /\ t \notin flags'
    <3>1. t \in rows'
      BY DEF t
    <3>2. c.op \in {"activate", "create"}
      BY <2>2, <3>1, FlagLeaves
    <3>3. k >= d
      BY <1>2, <1>3, <3>2 DEF CarriedBy
    <3> QED BY <1>5, <3>3
  <2> QED BY <2>1, <2>2
<1>9. ASSUME NEW i \in DOMAIN answers',
             \/ IsFlush(answers'[i].call)
             \/ IsListOf(answers'[i].call, Home[t]) /\ Misses(answers'[i].list, t)
      PROVE  new >= d
  <2>1. \/ \E j \in DOMAIN answers : answers'[i] = answers[j]
        \/ /\ answers'[i].call = c
           /\ c.op = "list" => answers'[i].list = List(c.ws)
    BY RunsIsTyped
  <2>2. CASE \E j \in DOMAIN answers : answers'[i] = answers[j]
    BY <1>3, <1>5, <1>9, <2>2
  <2>3. CASE IsFlush(c)
    <3>1. WritesTo(c, t) /\ c.draft >= d
      BY <1>2, <1>3, <2>3 DEF CarriedBy, IsFlush, WritesTo
    <3> QED BY <1>4, <3>1
  <2>4. CASE c.op = "list" /\ c.ws = Home[t] /\ Misses(List(c.ws), t)
    <3>1. t \notin flags
      BY <1>1, <2>4 DEF Misses, List, Of
    <3> QED BY <1>3, <1>5, <3>1
  <2> QED BY <1>9, <2>1, <2>2, <2>3, <2>4 DEF IsListOf
<1>10. Misses(cache'[Home[t]], t) => new >= d
  BY <1>2, <1>3, <1>5
<1> QED BY <1>2, <1>6, <1>7, <1>8, <1>9, <1>10 DEF Carried, Saved, t, d, new

LEMMA CarriedWindow ==
    ASSUME Typed, Bounded, Carried, Kept, [Next]_vars, ~ Execute, UNCHANGED live
    PROVE  Carried'
<1> DEFINE t == live.tab
           d == live.draft
           k == draft[t]
<1>1. t \in Tabs /\ UNCHANGED <<rows, flags, draft>>
  BY Frames DEF Kept, Typed
<1>2. /\ \A i \in DOMAIN calls : CarriedBy(calls[i], t, d, k)
      /\ InOrder(calls, t, d)
      /\ \A i \in DOMAIN answers :
           IsFlush(answers[i].call) \/ (IsListOf(answers[i].call, Home[t]) /\ Misses(answers[i].list, t))
             => k >= d
      /\ Misses(cache[Home[t]], t) => k >= d
      /\ t \notin flags => k >= d
  BY DEF Carried, Saved
<1>3. \A c : Fresh(c) => CarriedBy(c, t, d, k) /\ (WritesTo(c, t) => c.draft >= d)
  BY <1>1, FreshCarries
<1> HIDE DEF t, d, k
<1>4. answers' \in Seq(AnswerSet) /\ Thinned(answers', answers)
  BY WindowStep, FlushIsAnswered DEF WindowSends
<1>5. \A i \in DOMAIN answers' : \E j \in DOMAIN answers : answers'[i] = answers[j]
  BY <1>4, ThinnedKeepsAll DEF Typed
<1>6. /\ \A i \in DOMAIN calls' : CarriedBy(calls'[i], t, d, k)
      /\ InOrder(calls', t, d)
  <2>1. CASE FlushIsDone
    <3>1. PICK c \in CallSet :
             /\ c.op \in {"activate", "create"}
             /\ 1 \in DOMAIN answers /\ IsFlush(answers[1].call)
             /\ calls' = Append(calls, c)
      BY <2>1, FlushIsAnswered
    <3>2. CarriedBy(c, t, d, k) /\ ~ WritesTo(c, t)
      BY <1>2, <3>1 DEF CarriedBy, WritesTo, IsFlush
    <3>3. /\ DOMAIN Append(calls, c) = DOMAIN calls \union {Len(calls) + 1}
          /\ \A i \in DOMAIN calls : Append(calls, c)[i] = calls[i]
          /\ Append(calls, c)[Len(calls) + 1] = c
      BY Appended DEF Typed
    <3>4. InOrder(Append(calls, c), t, d)
      BY <1>2, <3>2, InOrderAppends DEF Typed
    <3> QED BY <1>2, <3>1, <3>2, <3>3, <3>4
  <2>2. CASE WindowSends
    <3>1. \A i \in DOMAIN calls' : CarriedBy(calls'[i], t, d, k)
      BY <1>2, <1>3, <2>2, CallsAfter
    <3>2. PICK r \in Seq(CallSet) : Thinned(r, calls) /\ Sends(r)
      BY <2>2 DEF WindowSends
    <3>3. InOrder(r, t, d)
      BY <1>2, <3>2, InOrderThinned DEF Typed
    <3>4. ASSUME NEW c \in CallSet, Fresh(c)
          PROVE  Append(r, c) \in Seq(CallSet) /\ InOrder(Append(r, c), t, d)
      BY <1>3, <3>3, <3>4, InOrderAppends, AppendProperties
    <3>5. ASSUME NEW c \in CallSet, NEW e \in CallSet, Fresh(c), Fresh(e)
          PROVE  InOrder(Append(Append(r, c), e), t, d)
      BY <1>3, <3>4, <3>5, InOrderAppends
    <3> QED BY <3>1, <3>2, <3>3, <3>4, <3>5 DEF Sends
  <2> QED BY <2>1, <2>2, WindowStep
<1>7. Misses(cache'[Home[t]], t) => k >= d
  <2>1. CASE ~ Handle
    BY <1>2, <2>1, Frames
  <2>2. CASE Handle
    <3> DEFINE a == Head(answers)
    <3>1. answers # <<>>
      BY <2>2 DEF Handle
    <3>2. 1 \in DOMAIN answers /\ a = answers[1]
      BY <3>1, AnswerTyped
    <3>3. cache' = cache \/ (a.call.op = "list" /\ cache' = [cache EXCEPT ![a.call.ws] = a.list])
      BY <2>2 DEF Handle
    <3> HIDE DEF a
    <3>4. Home[t] \in Workspaces
      BY <1>1, TabDraftsAssumption
    <3>5. CASE a.call.ws = Home[t] /\ a.call.op = "list" /\ cache'[Home[t]] = a.list
      BY <1>2, <3>2, <3>5 DEF IsListOf
    <3>6. CASE cache'[Home[t]] = cache[Home[t]]
      BY <1>2, <3>6
    <3> QED BY <3>3, <3>4, <3>5, <3>6 DEF Typed
  <2> QED BY <2>1, <2>2
<1>8. \A i \in DOMAIN answers' :
           IsFlush(answers'[i].call) \/ (IsListOf(answers'[i].call, Home[t]) /\ Misses(answers'[i].list, t))
             => k >= d
  BY <1>2, <1>5
<1> QED BY <1>1, <1>2, <1>6, <1>7, <1>8 DEF Carried, Saved, t, d, k

LEMMA CarriedStep ==
    ASSUME Typed, Bounded, Births, Carried, [Next]_vars
    PROVE  Carried'
<1>1. CASE Edit
  BY <1>1, CarriedEdit
<1>2. CASE Load
  <2>1. live'.typed = FALSE
    BY <1>2, LoadsListed
  <2> QED BY <2>1 DEF Carried, Kept
<1>3. CASE ~ Edit /\ ~ Load /\ Kept'
  <2>1. Kept /\ UNCHANGED live
    BY <1>3, KeptStays
  <2>2. CASE Execute
    <3>1. live.tab \in rows'
      BY <1>3, <2>1 DEF Kept
    <3> QED BY <2>1, <2>2, <3>1, ExecuteRuns, CarriedRun
  <2>3. CASE ~ Execute
    BY <2>1, <2>3, CarriedWindow
  <2> QED BY <2>2, <2>3
<1>4. CASE ~ Kept'
  BY <1>4 DEF Carried
<1> QED BY <1>1, <1>2, <1>3, <1>4

(* Together.                                                               *)
DraftInv ==
    Typed /\ Bounded /\ Births /\ Exclusive /\ ListsAlone /\ Carried

LEMMA DraftInvInit == Init => DraftInv
<1> SUFFICES ASSUME Init PROVE DraftInv
  OBVIOUS
<1>1. Lists(cache, answers) = {} /\ ~ Kept
  BY DEF Init, Lists, Kept
<1> QED BY <1>1, TypedInit, BoundedInit, BirthsInit, ExclusiveInit
        DEF DraftInv, ListsAlone, Carried

LEMMA DraftInvStep == DraftInv /\ [Next]_vars => DraftInv'
BY TypedStep, BoundedStep, BirthsStep, ExclusiveStep, ListsAloneStep, CarriedStep DEF DraftInv

(* A tab is left with its draft in its row.                                *)
LEMMA LeavesSaved ==
    ASSUME DraftInv, [Next]_vars, NEW t \in rows, live.tab = t, live'.tab # t, live.typed,
           draft[t] < live.draft
    PROVE  live.draft \in late \/ Home[t] # shown \/ strayed
<1> SUFFICES ASSUME live.draft \notin late, Home[t] = shown, ~ strayed PROVE FALSE
  OBVIOUS
<1> USE DEF DraftInv
<1>1. Kept
  BY DEF Kept
<1>2. Load
  BY LiveAfter
<1>3. PICK u \in Tabs : cache[shown] \in ListSet /\ u \in cache[shown].active /\ u # t
  BY <1>2, LoadsListed
<1>4. cache[shown] # NoList
  BY <1>2 DEF Load
<1>5. cache[shown] \in Lists(cache, answers)
  BY <1>4, CachedIsListed DEF Typed
<1>6. Misses(cache[shown], t)
  BY <1>3, <1>4, <1>5 DEF ListsAlone, Misses
<1>7. draft[t] >= live.draft
  BY <1>1, <1>6 DEF Carried, Saved
<1>8. draft[t] \in Nat /\ live.draft \in Nat
  BY TabDraftsAssumption DEF Typed, Drafts
<1> QED BY <1>7, <1>8

(* When the live draft makes way for another tab's, its row has it, for    *)
(* any workspaces, tabs, edits and actions, and whatever the order of      *)
(* commands, answers, timers and effects.                                  *)
THEOREM EditsReachTheirRow == Spec => OnlyLateEditsAreLost
<1>1. Init => DraftInv
  BY DraftInvInit
<1>2. DraftInv /\ [Next]_vars => DraftInv'
  BY DraftInvStep
<1>3. DraftInv /\ [Next]_vars =>
        [\A t \in rows : (live.tab = t /\ live'.tab # t /\ live.typed /\ draft[t] < live.draft)
          => live.draft \in late \/ Home[t] # shown \/ strayed]_vars
  BY LeavesSaved
<1> QED BY <1>1, <1>2, <1>3, PTL DEF Spec, OnlyLateEditsAreLost
=============================================================================
