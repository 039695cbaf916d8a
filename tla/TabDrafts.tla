----------------------------- MODULE TabDrafts -----------------------------
(***************************************************************************)
(* Open tabs and the draft being edited.  The rows (store/tabs.rs) are the *)
(* truth about which tabs exist, which one is active and what each last    *)
(* held; the window edits one live draft (stores/requestStore.ts), saves   *)
(* it to the row of its tab from time to time (features/tabs/TabsBar.tsx,  *)
(* hooks.ts) and replaces it when the list of tabs it fetched shows        *)
(* another tab active (useTabSync.ts).  The commands of tabs are not        *)
(* async, so they run one at a time in the order the window sent them, and *)
(* their answers come back in that order.                                  *)
(* A draft is named by the edit or the import it dates from.               *)
(***************************************************************************)
EXTENDS Naturals, FiniteSets, SequencesExt

CONSTANTS Workspaces, Tabs, Home,  \* Home[t]: the workspace of tab t
          Opened,                  \* the tabs there are at the start
          Linked,                  \* the tabs of a saved request
          NoTab, NoList, NoWs,
          MaxDrafts,               \* bound on edits and imports
          MaxActs                  \* bound on what the user does

ASSUME TabDraftsAssumption ==
    /\ Home \in [Tabs -> Workspaces] /\ Opened \subseteq Tabs /\ Linked \subseteq Tabs
    /\ NoTab \notin Tabs /\ NoWs \notin Workspaces
    /\ MaxDrafts \in Nat /\ MaxActs \in Nat

VARIABLES rows, flags, draft,  \* the tabs that exist, those with is_active,
                               \* and the draft in each row
          calls, answers,      \* commands sent and not yet run, answers not
                               \* yet handled
          cache,               \* for each workspace the list last fetched
          shown,               \* the workspace the window shows
          live,                \* requestStore: the tab and its live draft, and
                               \* whether that was typed since it was loaded
          timer,               \* the 500 ms flush timer is set
          seeding,             \* bootstrappingFor, and the tab it creates
          used, drafts, acts,  \* ids and drafts given out; user's actions
          imported, late,      \* the drafts that are an import's; those edited
                               \* in a tab that was being left, and those that
                               \* a list of an earlier visit took back
          stale,               \* the list shown dates from an earlier visit
          strayed              \* a tab of another workspace than the one
                               \* shown was closed, or the others of one

db == <<rows, flags, draft>>
wire == <<calls, answers>>
marks == <<imported, late, stale, strayed>>
history == <<used, drafts, acts, imported, late, strayed>>
vars == <<db, wire, cache, shown, live, timer, seeding, history, stale>>

Of(w) == {t \in Tabs : Home[t] = w}
Drafts == 0..MaxDrafts

(* An IPC call, and what its answer sets off: a refetch of the list, or    *)
(* the call a flush was awaited for.                                       *)
Ops == {"list", "save", "activate", "create", "close", "others", "all",
        "import"}
CallSet == [op : Ops, ws : Workspaces, tab : Tabs \union {NoTab}, draft : Drafts,
            next : {"list", "activate", "create"}, target : Tabs \union {NoTab}]
ListSet == [tabs : SUBSET Tabs, active : SUBSET Tabs, draft : [Tabs -> Drafts]]

Call(op, w, t) ==
    [op |-> op, ws |-> w, tab |-> t, draft |-> 0, next |-> "list", target |-> NoTab]
Save(t, d) == [Call("save", shown, t) EXCEPT !.draft = d]

TypeOK ==
    /\ rows \subseteq used /\ flags \subseteq rows /\ used \subseteq Tabs
    /\ draft \in [Tabs -> Drafts]
    /\ \A i \in DOMAIN calls : calls[i] \in CallSet
    /\ \A i \in DOMAIN answers :
         /\ answers[i].call \in CallSet /\ answers[i].ok \in BOOLEAN
         /\ answers[i].list \in ListSet \union {NoList}
    /\ \A w \in Workspaces : cache[w] \in ListSet \union {NoList}
    /\ shown \in Workspaces
    /\ live \in [tab : Tabs \union {NoTab}, draft : Drafts, typed : BOOLEAN]
    /\ timer \in BOOLEAN /\ stale \in BOOLEAN /\ strayed \in BOOLEAN
    /\ seeding \in [ws : Workspaces \union {NoWs}, tab : Tabs \union {NoTab}]
    /\ drafts \in Drafts /\ acts \in 0..MaxActs
    /\ imported \subseteq Drafts /\ late \subseteq Drafts

Init ==
    /\ rows = Opened /\ used = Opened
    /\ flags \in SUBSET rows
    /\ \A w \in Workspaces : Opened \intersect Of(w) # {}
                              => \E t \in Tabs : flags \intersect Of(w) = {t}
    /\ draft = [t \in Tabs |-> 0]
    /\ shown \in Workspaces
    /\ calls = <<Call("list", shown, NoTab)>> /\ answers = <<>>
    /\ cache = [w \in Workspaces |-> NoList]
    /\ live = [tab |-> NoTab, draft |-> 0, typed |-> FALSE]
    /\ timer = FALSE /\ stale = FALSE
    /\ seeding = [ws |-> NoWs, tab |-> NoTab]
    /\ drafts = 0 /\ acts = 0 /\ imported = {} /\ late = {} /\ strayed = FALSE

-----------------------------------------------------------------------------
(* store::tabs, one command at a time.                                     *)

UpdateDraft(t, d) ==
    /\ draft' = IF t \in rows THEN [draft EXCEPT ![t] = d] ELSE draft
    /\ UNCHANGED <<rows, flags>>

(* For a tab that is gone it leaves none active.                           *)
SetActive(t) ==
    /\ flags' = (flags \ Of(Home[t])) \union ({t} \intersect rows)
    /\ UNCHANGED <<rows, draft>>

Create(t) ==
    /\ rows' = rows \union {t}
    /\ flags' = (flags \ Of(Home[t])) \union {t}
    /\ UNCHANGED draft

(* The tab of workspace w last updated takes over, be it of the tab's      *)
(* workspace or not; which one that is, is left open.                      *)
Close(w, t) ==
    LET left == (rows \ {t}) \intersect Of(w)
    IN /\ rows' = rows \ {t}
       /\ IF t \in flags /\ left # {}
          THEN \E next \in left : flags' = (flags \ {t}) \union {next}
          ELSE flags' = flags \ {t}
       /\ UNCHANGED draft

(* The tab kept may be of another workspace.                               *)
CloseOthers(w, keep) ==
    /\ rows' = rows \ (Of(w) \ {keep})
    /\ flags' = (flags \intersect rows') \union ({keep} \intersect rows)
    /\ UNCHANGED draft

CloseAll(w) ==
    /\ rows' = rows \ Of(w)
    /\ flags' = flags \ Of(w)
    /\ UNCHANGED draft

List(w) ==
    [tabs |-> rows \intersect Of(w), active |-> flags \intersect Of(w),
     draft |-> [t \in Tabs |-> IF t \in rows \intersect Of(w) THEN draft[t] ELSE 0]]

(* Mistake: async commands, which run in any order.                        *)
ReadyInAnyOrder == DOMAIN calls

(* A command that is not async runs in its turn.                           *)
Ready == DOMAIN calls \intersect {1}

(* The backend runs a call and answers it.                                 *)
Execute ==
    \E i \in Ready :
       LET c == calls[i]
       IN /\ \/ c.op = "list" /\ UNCHANGED db
             \/ c.op = "all" /\ CloseAll(c.ws)
             \/ \E t \in Tabs :
                  /\ c.tab = t
                  /\ \/ c.op \in {"save", "import"} /\ UpdateDraft(t, c.draft)
                     \/ c.op = "activate" /\ SetActive(t)
                     \/ c.op = "create" /\ Create(t)
                     \/ c.op = "close" /\ Close(c.ws, t)
                     \/ c.op = "others" /\ CloseOthers(c.ws, t)
          /\ answers' = Append(answers,
               [call |-> c, ok |-> c.op = "save" => c.tab \in rows,
                list |-> IF c.op = "list" THEN List(c.ws) ELSE NoList])
          /\ calls' = RemoveAt(calls, i)
          /\ strayed' = (strayed \/ (c.op \in {"close", "others"} /\ Home[c.tab] # c.ws))
          /\ UNCHANGED <<cache, shown, live, timer, seeding, used, drafts, acts>>
          /\ UNCHANGED <<imported, late, stale>>

-----------------------------------------------------------------------------
(* The window's answers.                                                   *)

IsListOf(c, w) == c.op = "list" /\ c.ws = w

(* A workspace's list is fetched once at a time: there is at most one.     *)
Dropping(s, some) == IF some = {} THEN s ELSE RemoveAt(s, CHOOSE i \in some : TRUE)
WithoutList(pending, w) ==
    Dropping(pending, {i \in DOMAIN pending : IsListOf(pending[i].call, w)})
Fetching(w) ==
    Append(Dropping(calls, {i \in DOMAIN calls : IsListOf(calls[i], w)}),
           Call("list", w, NoTab))

(* invalidateQueries: a list nobody shows is only marked; one that is      *)
(* being fetched is fetched again and the answer under way is dropped.     *)
Refetch(w, pending) ==
    IF w # shown THEN answers' = pending /\ UNCHANGED calls
    ELSE /\ calls' = Fetching(w)
         /\ answers' = WithoutList(pending, w)

(* Mistake: the list is not fetched again after a switch.                  *)
RefetchedButForSwitches == {"create", "close", "others", "all"}

(* The calls whose hooks fetch the list again (onSuccess).                 *)
Refetched == {"activate", "create", "close", "others", "all"}

(* A list goes to the cache; a flush, failed or not, is followed by the    *)
(* call that awaited it; the rest refetch, but for an import and a failed  *)
(* save.                                                                   *)
Handle ==
    /\ answers # <<>>
    /\ LET a == Head(answers)
           c == a.call
           flush == c.op = "save" /\ c.next # "list"
           again == c.op \in Refetched \/ (c.op = "save" /\ ~ flush /\ a.ok)
       IN \/ /\ c.op = "list"
             /\ cache' = [cache EXCEPT ![c.ws] = a.list]
             /\ stale' = (stale /\ c.ws # shown)
             /\ seeding' = IF seeding.ws = c.ws /\ c.ws = shown /\ a.list.tabs # {}
                           THEN [seeding EXCEPT !.ws = NoWs] ELSE seeding
             /\ answers' = Tail(answers) /\ UNCHANGED calls
          \/ /\ flush
             /\ calls' = Append(calls, Call(c.next, Home[c.target], c.target))
             /\ answers' = Tail(answers) /\ UNCHANGED <<cache, seeding, stale>>
          \/ /\ again
             /\ Refetch(c.ws, Tail(answers))
             /\ seeding' = IF c.op = "create" /\ seeding.tab = c.tab
                           THEN [seeding EXCEPT !.tab = NoTab] ELSE seeding
             /\ UNCHANGED <<cache, stale>>
          \/ /\ c.op # "list" /\ ~ flush /\ ~ again
             /\ answers' = Tail(answers)
             /\ UNCHANGED <<calls, cache, seeding, stale>>
    /\ UNCHANGED <<db, shown, live, timer, history>>

(* What a list of an earlier visit has of a tab takes back what was saved  *)
(* since, once it is loaded or saved again.                                *)
TakenBack(t) ==
    IF stale
    THEN {d \in {draft[t]} \union {calls[i].draft : i \in {j \in DOMAIN calls : calls[j].tab = t}} :
             d > cache[shown].draft[t]}
    ELSE {}

(* useTabSync: another tab than the live one is active in the list.  For a *)
(* tab linked to a saved request it waits for that request.                *)
Load ==
    /\ cache[shown] # NoList /\ cache[shown].active # {}
    /\ LET t == CHOOSE active \in cache[shown].active : TRUE
       IN /\ t # live.tab
          /\ live' = [tab |-> t, draft |-> cache[shown].draft[t], typed |-> FALSE]
          /\ late' = late \union TakenBack(t)
    /\ timer' = TRUE
    /\ UNCHANGED <<db, wire, cache, shown, seeding, used, drafts, acts>>
    /\ UNCHANGED <<imported, stale, strayed>>

(* The flush timer fires.                                                  *)
Debounce ==
    /\ timer
    /\ timer' = FALSE
    /\ calls' = Append(calls, Save(live.tab, live.draft))
    /\ UNCHANGED <<db, answers, cache, shown, live, seeding, history, stale>>

(* Mistake: a new tab takes over without a flush.                          *)
LeaveUnflushed(next, t) == Call(next, Home[t], t)

(* flushLiveDraft, and what its answer is awaited for.                     *)
Leave(next, t) ==
    IF live.tab = NoTab THEN Call(next, Home[t], t)
    ELSE [Save(live.tab, live.draft) EXCEPT !.next = next, !.target = t]

(* A workspace without tabs gets one, once per empty spell.                *)
Bootstrap ==
    /\ cache[shown] # NoList /\ cache[shown].tabs = {}
    /\ seeding.ws # shown /\ seeding.tab = NoTab
    /\ \E t \in Of(shown) \ used :
         /\ used' = used \union {t}
         /\ seeding' = [ws |-> shown, tab |-> t]
         /\ calls' = Append(calls, Leave("create", t))
    /\ UNCHANGED <<db, answers, cache, shown, live, timer, drafts, acts, marks>>

-----------------------------------------------------------------------------
(* The user.                                                               *)

Act == acts < MaxActs /\ acts' = acts + 1

Listed == IF cache[shown] = NoList THEN {} ELSE cache[shown].tabs

(* A call that makes another tab active is under way, or has been run and  *)
(* the window has yet to see it.                                           *)
Flow(c) == c.op \notin {"list", "save", "import"} \/ c.next # "list"
Elsewhere(list) == list # NoList /\ live.tab \notin list.active
Leaving ==
    \/ \E i \in DOMAIN calls : Flow(calls[i])
    \/ \E i \in DOMAIN answers : Flow(answers[i].call) \/ Elsewhere(answers[i].list)
    \/ live.tab \notin flags \/ Elsewhere(cache[shown]) \/ Home[live.tab] # shown

Edit ==
    /\ Act
    /\ live.tab # NoTab /\ drafts < MaxDrafts
    /\ drafts' = drafts + 1
    /\ live' = [live EXCEPT !.draft = drafts', !.typed = TRUE]
    /\ timer' = TRUE
    /\ late' = IF Leaving THEN late \union {drafts'} ELSE late
    /\ UNCHANGED <<db, wire, cache, shown, seeding, used, imported, stale, strayed>>

(* The tab strip flushes, and the hook it calls flushes again.             *)
SwitchTo(t) ==
    /\ Act
    /\ t \in Listed /\ t # live.tab
    /\ timer' = FALSE
    /\ LET flush == IF live.tab = NoTab THEN <<>> ELSE <<Save(live.tab, live.draft)>>
       IN calls' = calls \o flush \o <<Leave("activate", t)>>
    /\ UNCHANGED <<db, answers, cache, shown, live, seeding, used, drafts, marks>>

(* A click in the sidebar on a request that has a tab.                     *)
OpenRequest(t) ==
    /\ Act
    /\ t \in Listed \intersect Linked
    /\ calls' = Append(calls, Leave("activate", t))
    /\ UNCHANGED <<db, answers, cache, shown, live, timer, seeding, used, drafts, marks>>

(* A new tab, a request that has none, an entry of the history.            *)
NewTab(t) ==
    /\ Act
    /\ t \in Of(shown) \ used
    /\ used' = used \union {t}
    /\ calls' = Append(calls, Leave("create", t))
    /\ UNCHANGED <<db, answers, cache, shown, live, timer, seeding, drafts, marks>>

(* The key closes the live tab, whichever workspace it is of.              *)
CloseTab(t) ==
    /\ Act
    /\ t \in Listed \union ({live.tab} \ {NoTab})
    /\ timer' = (timer /\ t # live.tab)
    /\ calls' = Append(calls, Call("close", shown, t))
    /\ UNCHANGED <<db, answers, cache, shown, live, seeding, used, drafts, marks>>

CloseMany ==
    /\ Act
    /\ Cardinality(Listed) > 1
    /\ \/ calls' = Append(calls, Call("all", shown, NoTab))
       \/ /\ live.tab # NoTab
          /\ calls' = Append(calls, Call("others", shown, live.tab))
    /\ UNCHANGED <<db, answers, cache, shown, live, timer, seeding, used, drafts, marks>>

(* A tab other than the live one is renamed: its draft is saved again as   *)
(* the list has it.                                                        *)
RenameTab(t) ==
    /\ Act
    /\ t \in Listed \ {live.tab}
    /\ calls' = Append(calls, Save(t, cache[shown].draft[t]))
    /\ late' = late \union TakenBack(t)
    /\ UNCHANGED <<db, answers, cache, shown, live, timer, seeding, used, drafts>>
    /\ UNCHANGED <<imported, stale, strayed>>

(* An import overwrites the request that tab t is linked to.               *)
Import(t) ==
    /\ Act
    /\ t \in rows \intersect Of(shown) \intersect Linked /\ drafts < MaxDrafts
    /\ drafts' = drafts + 1 /\ imported' = imported \union {drafts'}
    /\ calls' = Append(calls, [Call("import", shown, t) EXCEPT !.draft = drafts'])
    /\ UNCHANGED <<db, answers, cache, shown, live, timer, seeding, used>>
    /\ UNCHANGED <<late, stale, strayed>>

(* Another workspace is shown: its list as it was, while it is fetched.    *)
SwitchWorkspace(w) ==
    /\ Act
    /\ w # shown
    /\ shown' = w
    /\ stale' = (cache[w] # NoList)
    /\ calls' = Fetching(w)
    /\ answers' = WithoutList(answers, w)
    /\ seeding' = IF seeding.ws = w /\ cache[w] # NoList /\ cache[w].tabs # {}
                  THEN [seeding EXCEPT !.ws = NoWs] ELSE seeding
    /\ UNCHANGED <<db, cache, live, timer, used, drafts, imported, late, strayed>>

System == Execute \/ Handle \/ Load \/ Debounce \/ Bootstrap

Next ==
    \/ System
    \/ Edit \/ CloseMany
    \/ \E t \in Tabs : \/ SwitchTo(t) \/ OpenRequest(t) \/ NewTab(t)
                       \/ CloseTab(t) \/ RenameTab(t) \/ Import(t)
    \/ \E w \in Workspaces : SwitchWorkspace(w)

Spec == Init /\ [][Next]_vars

(* Commands run, answers and timers are handled and effects run; nothing   *)
(* is assumed of the user, who stops after MaxActs.                        *)
Fairness == /\ WF_vars(Execute) /\ WF_vars(Handle) /\ WF_vars(Load)
            /\ WF_vars(Debounce)

FairSpec == Spec /\ Fairness

-----------------------------------------------------------------------------
(* Properties.                                                             *)

(* No order of switches, creations and closes leaves a workspace with two  *)
(* active tabs, of which the window would only ever load the first, but    *)
(* for one: the key and the menu close the live tab, or its others, as if  *)
(* it were of the workspace shown.                                         *)
OneActiveTab ==
    ~ strayed => \A w \in Workspaces : Cardinality(flags \intersect Of(w)) <= 1

(* When the live draft makes way for another tab's, its row has it: edits  *)
(* are lost only when they were made while the tab was being left, when    *)
(* the workspace was switched, with the tab, or after two tabs had become  *)
(* active.  (The draft of a tab in which nothing was typed since it was    *)
(* loaded is not an edit; a list of an earlier visit may take one back.)   *)
OnlyLateEditsAreLost ==
    [][\A t \in rows : (live.tab = t /\ live'.tab # t /\ live.typed /\ draft[t] < live.draft)
         => live.draft \in late \/ Home[t] # shown \/ strayed]_vars

(* What is loaded is what was saved: a list that was overtaken is never    *)
(* loaded from, unless it dates from an earlier visit of the workspace or  *)
(* an import went behind the window's back, and what such a list took back *)
(* may come again.                                                         *)
LoadsWhatWasSaved ==
    [][(live'.tab # live.tab /\ live'.tab \in rows)
         => \/ live'.draft = draft[live'.tab] \/ stale
            \/ {live'.draft, draft[live'.tab]} \intersect (imported \union late) # {}]_vars

(* When the user stops, the window ends up showing the active tab, and the *)
(* row of the live tab ends up with everything typed in it.                *)
Settles ==
    <>[](/\ flags \intersect Of(shown) # {} => live.tab \in flags \intersect Of(shown)
         /\ live.tab \in rows => draft[live.tab] >= live.draft)

=============================================================================
