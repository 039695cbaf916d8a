--------------------------- MODULE StreamsProofs ---------------------------
(***************************************************************************)
(* For any number of connections of any protocol and any bounds: the type  *)
(* invariant of Streams, that the registry reaches every live task, that a *)
(* disconnect is final, that the channel is one connection's life with its *)
(* end announced, that frames go out in order; and, of StreamPanel, that a *)
(* panel leaves no more connections running than races were run.           *)
(***************************************************************************)
EXTENDS StreamPanel, SequenceTheorems, FiniteSetTheorems, TLAPS

(* Where a connection stands: what its command's progress says of its      *)
(* task, its entry and the abort.                                          *)
Lifecycle(c) ==
    /\ (command[c] \in {"idle", "refused"}) <=> (task[c] = "none")
    /\ (command[c] # "returned") => (c \notin registry /\ ~aborting[c])
    /\ aborting[c] => c \notin registry
    /\ (command[c] = "returned" /\ task[c] \in Running /\ ~aborting[c])
          => c \in registry

LifecycleInv == TypeOK /\ \A c \in Conn : Lifecycle(c)

LEMMA InitType == Init => TypeOK
  BY StreamsAssumption DEF Init, TypeOK, Chan!Event, Chan!Terminal

(* The event sequences the tasks push.                                     *)
LEMMA Pushed ==
    /\ <<>> \in Seq(Chan!Event)
    /\ <<"error">> \in Seq(Chan!Event)
    /\ <<"open">> \in Seq(Chan!Event)
    /\ <<"message">> \in Seq(Chan!Event)
    /\ <<"closed">> \in Seq(Chan!Event)
    /\ <<"status", "closed">> \in Seq(Chan!Event)
    /\ <<"message", "status", "closed">> \in Seq(Chan!Event)
  BY DEF Chan!Event, Chan!Terminal

(* Every step keeps the variables in their types.                          *)
LEMMA TypeStep == TypeOK /\ [Next]_vars => TypeOK'
<1> SUFFICES ASSUME TypeOK, [Next]_vars PROVE TypeOK'
  OBVIOUS
<1> USE DEF TypeOK, Running
<1>1. CASE CloseWebview
  BY <1>1 DEF CloseWebview
<1>2. ASSUME NEW c \in Conn, Command(c) PROVE TypeOK'
  <2>1. CASE ConnectRefused(c)
    BY <2>1 DEF ConnectRefused
  <2>2. CASE Connect(c)
    BY <2>2 DEF Connect
  <2>3. CASE Register(c)
    BY <2>3 DEF Register
  <2> QED BY <1>2, <2>1, <2>2, <2>3 DEF Command
<1>3. ASSUME NEW c \in Conn, NEW item \in Nat, Queue(c, item) PROVE TypeOK'
  BY <1>3 DEF Queue
<1>4. ASSUME NEW c \in Conn, Window(c) PROVE TypeOK'
  <2>1. CASE Send(c)
    <3>1. Len(accepted[c]) + 1 \in Nat
      OBVIOUS
    <3> QED BY <1>3, <2>1, <3>1 DEF Send
  <2>2. CASE FinishSending(c)
    BY <1>3, <2>2 DEF FinishSending, Finish
  <2>3. CASE Disconnect(c)
    BY <2>3 DEF Disconnect
  <2> QED BY <1>4, <2>1, <2>2, <2>3 DEF Window
<1>5. ASSUME NEW c \in Conn, NEW es \in Seq(Chan!Event),
             NEW next \in Running \union {"ended"}, Push(c, es, next)
      PROVE  TypeOK'
  BY <1>5 DEF Push
<1>6. ASSUME NEW c \in Conn, Task(c) PROVE TypeOK'
  <2> HIDE DEF TypeOK
  <2>1. CASE OpenFails(c)
    BY <1>5, <2>1, Pushed DEF OpenFails
  <2>2. CASE Opens(c)
    BY <1>5, <2>2, Pushed DEF Opens
  <2>3. CASE Receives(c)
    BY <1>5, <2>3, Pushed DEF Receives
  <2>4. CASE PeerCloses(c)
    <3>1. PICK es \in LastEvents(c) : Push(c, es, "ended")
      BY <2>4 DEF PeerCloses
    <3>2. es \in {<<"closed">>, <<"status", "closed">>, <<"message", "status", "closed">>}
      BY DEF LastEvents
    <3> QED BY <1>5, <2>4, <3>1, <3>2, Pushed DEF PeerCloses
  <2>6. CASE Fails(c)
    BY <1>5, <2>6, Pushed DEF Fails
  <2>7. CASE Writes(c)
    BY <2>7 DEF Writes, TypeOK
  <2>8. CASE WriteFails(c)
    BY <1>5, <2>8, Pushed DEF WriteFails
  <2>9. CASE SenderDropped(c)
    BY <1>5, <2>9, Pushed DEF SenderDropped
  <2>10. CASE HalfCloses(c)
    BY <2>10 DEF HalfCloses, Finish, TypeOK
  <2>11. CASE SelfRemove(c)
    BY <2>11 DEF SelfRemove, TypeOK
  <2>12. CASE AbortTakesEffect(c)
    BY <2>12 DEF AbortTakesEffect, TypeOK
  <2> QED BY <1>6, <2>1, <2>2, <2>3, <2>4, <2>6, <2>7, <2>8, <2>9,
             <2>10, <2>11, <2>12 DEF Task
<1>7. CASE UNCHANGED vars
  BY <1>7 DEF vars
<1> QED BY <1>1, <1>2, <1>4, <1>6, <1>7 DEF Next

(* Streams is type correct.                                                *)
THEOREM TypeCorrect == Spec => []TypeOK
  BY InitType, TypeStep, PTL DEF Spec

-----------------------------------------------------------------------------
(* The registry.                                                           *)

(* Every step keeps every connection's command, task, entry and abort in   *)
(* agreement.                                                              *)
LEMMA LifecycleStep == LifecycleInv /\ [Next]_vars => LifecycleInv'
<1> SUFFICES ASSUME LifecycleInv, [Next]_vars PROVE \A d \in Conn : Lifecycle(d)'
  BY TypeStep DEF LifecycleInv
<1> USE DEF LifecycleInv, Lifecycle, TypeOK, Running
<1>1. CASE CloseWebview
  BY <1>1 DEF CloseWebview
<1>2. ASSUME NEW c \in Conn, Command(c) PROVE \A d \in Conn : Lifecycle(d)'
  <2>1. CASE ConnectRefused(c)
    BY <2>1 DEF ConnectRefused
  <2>2. CASE Connect(c)
    BY <2>2 DEF Connect
  <2>3. CASE Register(c)
    BY <2>3 DEF Register
  <2> QED BY <1>2, <2>1, <2>2, <2>3 DEF Command
<1>3. ASSUME NEW c \in Conn, Window(c) PROVE \A d \in Conn : Lifecycle(d)'
  <2>1. CASE Send(c)
    BY <2>1 DEF Send, Queue
  <2>2. CASE FinishSending(c)
    BY <2>2 DEF FinishSending, Queue
  <2>3. CASE Disconnect(c)
    BY <2>3 DEF Disconnect
  <2> QED BY <1>3, <2>1, <2>2, <2>3 DEF Window
<1>4. ASSUME NEW c \in Conn, NEW es, NEW next \in {"open", "ended"},
             task[c] \in Running, Push(c, es, next)
      PROVE  \A d \in Conn : Lifecycle(d)'
  BY <1>4 DEF Push
<1>5. ASSUME NEW c \in Conn, Task(c) PROVE \A d \in Conn : Lifecycle(d)'
  <2>1. CASE OpenFails(c)
    BY <1>4, <2>1 DEF OpenFails
  <2>2. CASE Opens(c)
    BY <1>4, <2>2 DEF Opens
  <2>3. CASE Receives(c)
    BY <1>4, <2>3 DEF Receives
  <2>4. CASE PeerCloses(c)
    BY <1>4, <2>4 DEF PeerCloses
  <2>6. CASE Fails(c)
    BY <1>4, <2>6 DEF Fails
  <2>7. CASE Writes(c)
    BY <2>7 DEF Writes
  <2>8. CASE WriteFails(c)
    BY <1>4, <2>8 DEF WriteFails
  <2>9. CASE SenderDropped(c)
    BY <1>4, <2>9 DEF SenderDropped
  <2>10. CASE HalfCloses(c)
    BY <2>10 DEF HalfCloses
  <2>11. CASE SelfRemove(c)
    BY <2>11 DEF SelfRemove
  <2>12. CASE AbortTakesEffect(c)
    BY <2>12 DEF AbortTakesEffect
  <2> QED BY <1>5, <2>1, <2>2, <2>3, <2>4, <2>6, <2>7, <2>8, <2>9,
             <2>10, <2>11, <2>12 DEF Task
<1>6. CASE UNCHANGED vars
  BY <1>6 DEF vars
<1> QED BY <1>1, <1>2, <1>3, <1>5, <1>6 DEF Next

LEMMA LifecycleHolds == Spec => []LifecycleInv
<1>1. Init => LifecycleInv
  BY InitType DEF Init, LifecycleInv, Lifecycle, TypeOK, Running
<1> QED BY <1>1, LifecycleStep, PTL DEF Spec

(* No interleaving of the insertion, the task's own removal and a          *)
(* disconnect loses the handle of a live task.                             *)
THEOREM RegistryReachesLiveTasks == Spec => []LiveTaskIsReachable
<1>1. LifecycleInv => LiveTaskIsReachable
  BY DEF LifecycleInv, Lifecycle, LiveTaskIsReachable
<1> QED BY <1>1, LifecycleHolds, PTL

(* No interleaving brings a disconnected connection back in the registry.  *)
THEOREM DisconnectedStaysOut == Spec => []DisconnectIsFinal
<1>1. LifecycleInv => DisconnectIsFinal
  BY DEF LifecycleInv, Lifecycle, DisconnectIsFinal
<1> QED BY <1>1, LifecycleHolds, PTL

-----------------------------------------------------------------------------
(* The channel.                                                            *)

(* What an open connection of protocol p has pushed. *)
OpenShape(p, s) ==
    /\ Len(s) >= 1
    /\ s[1] = "open"
    /\ \A i \in 2..Len(s) : s[i] = "message"
    /\ (p = "unary") => (Len(s) = 1)

LEMMA OpenIsWellFormed ==
    ASSUME NEW p \in Chan!Protocols, NEW s \in Seq(Chan!Event), OpenShape(p, s)
    PROVE  Chan!WellFormed(p, s)
  BY DEF OpenShape, Chan!WellFormed, Chan!Event, Chan!Terminal, Chan!Protocols

(* A connection that ends before it opens pushes one error.                *)
LEMMA RefusedIsWellFormed ==
    ASSUME NEW p \in Chan!Protocols
    PROVE  Chan!WellFormed(p, <<>>) /\ Chan!WellFormed(p, <<>> \o <<"error">>)
  BY DEF Chan!WellFormed, Chan!Terminal

LEMMA OpenGrows ==
    ASSUME NEW p \in Chan!Protocols
    PROVE  /\ OpenShape(p, <<>> \o <<"open">>)
           /\ \A s \in Seq(Chan!Event) :
                 (OpenShape(p, s) /\ p # "unary")
                     => OpenShape(p, s \o <<"message">>)
  BY DEF OpenShape

(* What ends an open connection, by protocol.                              *)
Endings(p) ==
    {<<>>, <<"error">>} \union
    (IF p \in Chan!Grpc THEN {<<"status", "closed">>} ELSE {<<"closed">>})
    \union (IF p = "unary" THEN {<<"message", "status", "closed">>} ELSE {})

(* A whole unary call. *)
LEMMA CallShape ==
    ASSUME NEW s \in Seq(Chan!Event), Len(s) = 1, s[1] = "open",
           NEW es \in Seq(Chan!Event), Len(es) = 3,
           es[1] = "message", es[2] = "status", es[3] = "closed"
    PROVE  Chan!WellFormed("unary", s \o es)
<1>1. /\ Len(s \o es) = Len(s) + Len(es)
      /\ \A i \in 1..Len(s) + Len(es) :
            (s \o es)[i] = IF i <= Len(s) THEN s[i] ELSE es[i - Len(s)]
  BY ConcatProperties, Zenon
<1>2. PICK t : t = s \o es
  OBVIOUS
<1>3. Len(t) = 4
  BY <1>1, <1>2
<1>4. \A i \in 1..4 : t[i] = IF i <= 1 THEN s[i] ELSE es[i - 1]
  BY <1>1, <1>2
<1>5. t[1] = "open" /\ t[2] = "message" /\ t[3] = "status" /\ t[4] = "closed"
  BY <1>4
<1>6. \A i \in 1..Len(t) : i = 1 \/ i = 2 \/ i = 3 \/ i = 4
  BY <1>3
<1>7. Chan!WellFormed("unary", t)
  BY <1>3, <1>5, <1>6 DEF Chan!WellFormed, Chan!Terminal, Chan!Grpc
<1> QED BY <1>2, <1>7

(* A status and a closed behind what an open call has pushed. *)
LEMMA StatusShape ==
    ASSUME NEW p \in Chan!Grpc, NEW s \in Seq(Chan!Event), OpenShape(p, s),
           NEW es \in Seq(Chan!Event), Len(es) = 2, es[1] = "status", es[2] = "closed"
    PROVE  Chan!WellFormed(p, s \o es)
<1>1. /\ Len(s \o es) = Len(s) + Len(es)
      /\ \A i \in 1..Len(s) + Len(es) :
            (s \o es)[i] = IF i <= Len(s) THEN s[i] ELSE es[i - Len(s)]
  BY ConcatProperties, Zenon
<1>2. PICK t : t = s \o es
  OBVIOUS
<1>3. PICK n \in Nat : n = Len(s) /\ n >= 1
  BY DEF OpenShape
<1>4. Len(t) = n + 2 /\ \A i \in 1..n + 2 : t[i] = IF i <= n THEN s[i] ELSE es[i - n]
  BY <1>1, <1>2, <1>3
<1>5. /\ t[1] = "open" /\ \A i \in 2..n : t[i] = "message"
      /\ t[n + 1] = "status" /\ t[n + 2] = "closed"
  BY <1>3, <1>4 DEF OpenShape
<1>6. \A i \in 1..n + 2 : i = 1 \/ i \in 2..n \/ i = n + 1 \/ i = n + 2
  BY <1>3
<1>7. p = "unary" => n = 1
  BY <1>3 DEF OpenShape
<1>8. Chan!WellFormed(p, t)
  BY <1>3, <1>4, <1>5, <1>6, <1>7 DEF Chan!WellFormed, Chan!Terminal
<1> QED BY <1>2, <1>8

LEMMA EndIsWellFormed ==
    ASSUME NEW p \in Chan!Protocols, NEW s \in Seq(Chan!Event),
           OpenShape(p, s), NEW es \in Endings(p)
    PROVE  Chan!WellFormed(p, s \o es)
<1> USE DEF OpenShape, Chan!WellFormed, Chan!Event, Chan!Terminal, Chan!Grpc,
            Chan!Protocols
<1>1. CASE es = <<>>
  <2>1. s \o es = s
    BY <1>1
  <2> QED BY <2>1
<1>2. CASE es = <<"error">>
  BY <1>2
<1>3. CASE es = <<"closed">> /\ p \in {"sse", "ws"}
  BY <1>3
<1>4. CASE es = <<"status", "closed">> /\ p \in Chan!Grpc
  <2>1. es \in Seq(Chan!Event) /\ Len(es) = 2 /\ es[1] = "status" /\ es[2] = "closed"
    BY <1>4
  <2> HIDE DEF Chan!WellFormed, Chan!Event, OpenShape
  <2> QED BY <1>4, <2>1, StatusShape
<1>5. CASE es = <<"message", "status", "closed">> /\ p = "unary"
  <2>1. Len(s) = 1 /\ s[1] = "open"
    BY <1>5
  <2>2. es \in Seq(Chan!Event) /\ Len(es) = 3
    BY <1>5
  <2>3. es[1] = "message" /\ es[2] = "status" /\ es[3] = "closed"
    BY <1>5
  <2> HIDE DEF Chan!WellFormed, Chan!Event
  <2> QED BY <1>5, <2>1, <2>2, <2>3, CallShape
<1> HIDE DEF OpenShape, Chan!WellFormed
<1> QED BY <1>1, <1>2, <1>3, <1>4, <1>5 DEF Endings


EventInv ==
    /\ LifecycleInv
    /\ \A c \in Conn :
         /\ Chan!WellFormed(Protocol[c], channel[c])
         /\ (webview /\ task[c] \in {"none", "connecting"}) => channel[c] = <<>>
         /\ (webview /\ task[c] = "open") => OpenShape(Protocol[c], channel[c])

(* A step that leaves the channel alone and opens no task.                 *)
Quiet ==
    /\ UNCHANGED channel
    /\ webview' => webview
    /\ \A d \in Conn :
         \/ task'[d] = task[d]
         \/ task'[d] = "gone"
         \/ task[d] = "none" /\ task'[d] = "connecting"

LEMMA QuietStep == EventInv /\ LifecycleInv' /\ Quiet => EventInv' /\ UNCHANGED channel
  BY DEF EventInv, LifecycleInv, Quiet

(* A push that extends the channel as the protocol allows.                 *)
LEMMA PushStep ==
    ASSUME EventInv, LifecycleInv', NEW c \in Conn, NEW es \in Seq(Chan!Event),
           NEW next \in {"open", "ended"}, Push(c, es, next),
           webview => Chan!WellFormed(Protocol[c], channel[c] \o es),
           (webview /\ next = "open")
               => OpenShape(Protocol[c], channel[c] \o es)
    PROVE  EventInv' /\ (Chan!Push(c) \/ UNCHANGED channel)
<1>1. channel[c] \in Seq(Chan!Event)
  BY DEF EventInv, LifecycleInv, TypeOK
<1>2. EventInv'
  BY DEF EventInv, LifecycleInv, TypeOK, Push
<1>3. ASSUME webview, es # <<>> PROVE Chan!Push(c)
  <2>1. /\ channel'[c] = channel[c] \o es
        /\ \A d \in Conn \ {c} : channel'[d] = channel[d]
    BY <1>3 DEF Push, EventInv, LifecycleInv, TypeOK
  <2>2. Len(es) > 0
    BY <1>3
  <2>3. Len(channel'[c]) > Len(channel[c])
    BY <1>1, <2>1, <2>2
  <2>4. SubSeq(channel'[c], 1, Len(channel[c])) = channel[c]
    BY <1>1, <2>1
  <2>5. channel' \in [Conn -> Seq(Chan!Event)]
    BY DEF LifecycleInv, TypeOK
  <2> QED BY <1>3, <2>1, <2>3, <2>4, <2>5 DEF Chan!Push
<1>4. CASE ~webview \/ es = <<>>
  <2>1. channel[c] \o <<>> = channel[c]
    BY <1>1
  <2>2. UNCHANGED channel
    BY <1>4, <2>1 DEF Push, EventInv, LifecycleInv, TypeOK
  <2> QED BY <1>2, <2>2
<1> QED BY <1>2, <1>3, <1>4

(* Every step keeps the channels well formed, and is a step of             *)
(* EventChannel.                                                           *)
LEMMA EventStep ==
    EventInv /\ [Next]_vars => EventInv' /\ [Chan!Next]_channel
<1> SUFFICES ASSUME EventInv, [Next]_vars
             PROVE  EventInv' /\ [Chan!Next]_channel
  OBVIOUS
<1>0. LifecycleInv /\ LifecycleInv' /\ TypeOK
  BY LifecycleStep DEF EventInv, LifecycleInv
<1>1. CASE CloseWebview
  <2>1. Quiet
    BY <1>1 DEF CloseWebview, Quiet
  <2> QED BY <1>0, <1>1, <2>1, QuietStep
<1>2. ASSUME NEW c \in Conn, Command(c) \/ Window(c)
      PROVE  EventInv' /\ UNCHANGED channel
  <2>1. Quiet
    <3>1. CASE Command(c)
      BY <1>0, <3>1
         DEF Quiet, LifecycleInv, Lifecycle, TypeOK, Command, ConnectRefused,
             Connect, Register
    <3>2. CASE Window(c)
      BY <1>0, <3>2
         DEF Quiet, Window, Send, FinishSending, Queue, Disconnect
    <3> QED BY <1>2, <3>1, <3>2
  <2> QED BY <1>0, <2>1, QuietStep
<1>3. ASSUME NEW c \in Conn, Task(c)
      PROVE  EventInv' /\ (Chan!Push(c) \/ UNCHANGED channel)
  <2> DEFINE p == Protocol[c]
  <2>20. p \in Chan!Protocols /\ channel[c] \in Seq(Chan!Event)
    BY <1>0, StreamsAssumption DEF TypeOK
  <2>21. (webview /\ task[c] = "connecting") => channel[c] = <<>>
    BY DEF EventInv
  <2>22. (webview /\ task[c] = "open") => OpenShape(p, channel[c])
    BY DEF EventInv
  <2> HIDE DEF p
  <2>23. ASSUME NEW es \in Endings(p), es \in Seq(Chan!Event), task[c] = "open",
               Push(c, es, "ended")
        PROVE  EventInv' /\ (Chan!Push(c) \/ UNCHANGED channel)
    <3>1. webview => Chan!WellFormed(p, channel[c] \o es)
      BY <2>23, <2>22, <2>20, EndIsWellFormed
    <3> QED BY <1>0, <2>23, <3>1, PushStep DEF p
  <2>1. CASE OpenFails(c)
    <3>1. webview => Chan!WellFormed(p, channel[c] \o <<"error">>)
      BY <2>1, <2>21, <2>20, RefusedIsWellFormed DEF OpenFails
    <3> QED BY <1>0, <2>1, <3>1, PushStep, Pushed DEF OpenFails, p
  <2>2. CASE Opens(c)
    <3>1. webview => OpenShape(p, channel[c] \o <<"open">>)
      BY <2>2, <2>21, <2>20, OpenGrows DEF Opens
    <3>2. <<"open">> \in Seq(Chan!Event) /\ channel[c] \o <<"open">> \in Seq(Chan!Event)
      BY <2>20, Pushed
    <3>3. webview => Chan!WellFormed(p, channel[c] \o <<"open">>)
      BY <2>20, <3>1, <3>2, OpenIsWellFormed
    <3> QED BY <1>0, <2>2, <3>1, <3>2, <3>3, PushStep DEF Opens, p
  <2>3. CASE Receives(c)
    <3>1. webview => OpenShape(p, channel[c] \o <<"message">>)
      BY <2>3, <2>22, <2>20, OpenGrows DEF Receives, p
    <3>2. <<"message">> \in Seq(Chan!Event)
          /\ channel[c] \o <<"message">> \in Seq(Chan!Event)
      BY <2>20, Pushed
    <3>3. webview => Chan!WellFormed(p, channel[c] \o <<"message">>)
      BY <2>20, <3>1, <3>2, OpenIsWellFormed
    <3> QED BY <1>0, <2>3, <3>1, <3>2, <3>3, PushStep DEF Receives, p
  <2>4. CASE PeerCloses(c)
    <3>1. PICK es \in LastEvents(c) : Push(c, es, "ended")
      BY <2>4 DEF PeerCloses
    <3>2. CASE p = "unary"
      <4>1. es \in {<<"status", "closed">>, <<"message", "status", "closed">>}
        BY <3>2 DEF LastEvents, p
      <4> QED BY <2>4, <2>23, <3>1, <3>2, <4>1, Pushed
                 DEF PeerCloses, Endings, Chan!Grpc
    <3>3. CASE p # "unary"
      <4>1. es = IF p \in {"server", "client"} THEN <<"status", "closed">> ELSE <<"closed">>
        BY <3>3 DEF LastEvents, Relayed, p
      <4> QED BY <2>4, <2>23, <3>1, <3>2, <4>1, Pushed
                 DEF PeerCloses, Endings, Chan!Grpc
    <3> QED BY <3>2, <3>3
  <2>6. CASE Fails(c)
    BY <2>6, <2>23, Pushed DEF Fails, Endings
  <2>7. CASE Writes(c)
    <3>1. Quiet
      BY <1>0, <2>7 DEF Writes, Quiet, TypeOK
    <3> QED BY <1>0, <3>1, QuietStep
  <2>8. CASE WriteFails(c)
    <3>1. PICK es \in {<<>>, <<"error">>} : Push(c, es, "ended")
      BY <2>8 DEF WriteFails
    <3> QED BY <2>8, <2>23, <3>1, Pushed DEF WriteFails, Endings
  <2>9. CASE SenderDropped(c)
    BY <2>9, <2>23, Pushed DEF SenderDropped, Endings
  <2>10. CASE HalfCloses(c)
    <3>1. Quiet
      BY <1>0, <2>10 DEF HalfCloses, Quiet, TypeOK
    <3> QED BY <1>0, <3>1, QuietStep
  <2>11. CASE SelfRemove(c)
    <3>1. Quiet
      BY <1>0, <2>11 DEF SelfRemove, Quiet, TypeOK
    <3> QED BY <1>0, <3>1, QuietStep
  <2>12. CASE AbortTakesEffect(c)
    <3>1. Quiet
      BY <1>0, <2>12 DEF AbortTakesEffect, Quiet, TypeOK
    <3> QED BY <1>0, <3>1, QuietStep
  <2> QED BY <1>3, <2>1, <2>2, <2>3, <2>4, <2>6, <2>7, <2>8, <2>9,
             <2>10, <2>11, <2>12 DEF Task
<1>4. CASE UNCHANGED vars
  <2>1. Quiet
    BY <1>4 DEF vars, Quiet
  <2> QED BY <1>0, <1>4, <2>1, QuietStep
<1>5. ASSUME NEW c \in Conn, Chan!Push(c) PROVE Chan!Next
  BY <1>5 DEF Chan!Next
<1> QED BY <1>1, <1>2, <1>3, <1>4, <1>5 DEF Next, CloseWebview, vars

LEMMA InitEvents == Init => EventInv /\ Chan!Init
  BY InitType, RefusedIsWellFormed, StreamsAssumption
     DEF Init, EventInv, LifecycleInv, Lifecycle, TypeOK, Running, Chan!Init

LEMMA EventInvHolds == Spec => []EventInv
  BY InitEvents, EventStep, PTL DEF Spec

(* Whatever the peers, the window and the scheduler do, the events of a    *)
(* connection form a prefix of one connection's life.                      *)
THEOREM EventsInOrder == Spec => []EventOrder
<1>1. EventInv => EventOrder
  BY DEF EventInv, EventOrder
<1> QED BY <1>1, EventInvHolds, PTL

(* The commands, the registry and the tasks together implement the         *)
(* contract of the event channel.                                          *)
THEOREM StreamsImplementChannel == Spec => ImplementsChannel
<1>1. Spec => Chan!Init
  BY InitEvents DEF Spec
<1>2. Spec => [][Chan!Next]_channel
  BY EventInvHolds, EventStep, PTL DEF Spec
<1> QED BY <1>1, <1>2, PTL DEF ImplementsChannel

-----------------------------------------------------------------------------
(* The frames sent.                                                        *)

(* Only a gRPC call half-closes; a Finish on the wire is its half-close,   *)
(* and a connection without a task has neither.                            *)
FramesInOrder(c) ==
    /\ written[c] \o outbox[c] = accepted[c]
    /\ \A i \in 1..Len(written[c]) :
         (written[c][i] = Finish) => (halfClosed[c] /\ i = Len(written[c]))
    /\ (task[c] = "none") => (written[c] = <<>> /\ ~halfClosed[c])

SendInv == LifecycleInv /\ \A c \in Conn : FramesInOrder(c)

(* The head of the queue goes to the end of the wire.                      *)
LEMMA HeadMoves ==
    ASSUME NEW w \in Seq(Nat), NEW q \in Seq(Nat), q # <<>>
    PROVE  /\ Append(w, Head(q)) \o Tail(q) = w \o q
           /\ Append(w, Head(q)) \in Seq(Nat)
           /\ Len(Append(w, Head(q))) = Len(w) + 1
           /\ \A i \in 1..Len(w) : Append(w, Head(q))[i] = w[i]
           /\ Append(w, Head(q))[Len(w) + 1] = Head(q)
  OBVIOUS

(* What is queued last goes out last.                                      *)
(* Nothing moves on a connection. *)
LEMMA FramesStay ==
    ASSUME NEW d, FramesInOrder(d), written'[d] = written[d], outbox'[d] = outbox[d],
           accepted'[d] = accepted[d], halfClosed'[d] = halfClosed[d],
           task'[d] = "none" => task[d] = "none"
    PROVE  FramesInOrder(d)'
  BY DEF FramesInOrder

LEMMA QueueGrows ==
    ASSUME NEW w \in Seq(Nat), NEW q \in Seq(Nat), NEW x \in Nat
    PROVE  w \o Append(q, x) = Append(w \o q, x)
  OBVIOUS

(* Every step keeps the frames in order.                                   *)
LEMMA SendStep == SendInv /\ [Next]_vars => SendInv'
<1> SUFFICES ASSUME SendInv, [Next]_vars PROVE \A d \in Conn : FramesInOrder(d)'
  BY LifecycleStep DEF SendInv
<1>0. LifecycleInv /\ TypeOK /\ \A c \in Conn : Lifecycle(c) /\ FramesInOrder(c)
  BY DEF SendInv, LifecycleInv
(* A step that moves no frame.                                             *)
<1>1. ASSUME UNCHANGED <<outbox, accepted, written, halfClosed>>,
             \A d \in Conn : task'[d] = "none" => task[d] = "none"
      PROVE  \A d \in Conn : FramesInOrder(d)'
  BY <1>0, <1>1 DEF FramesInOrder
<1>2. ASSUME NEW c \in Conn, NEW es, NEW next \in {"open", "ended"},
             Push(c, es, next)
      PROVE  \A d \in Conn : FramesInOrder(d)'
  BY <1>0, <1>1, <1>2 DEF Push, TypeOK
<1>3. CASE CloseWebview
  BY <1>1, <1>3 DEF CloseWebview
<1>4. ASSUME NEW c \in Conn, Command(c) PROVE \A d \in Conn : FramesInOrder(d)'
  <2>1. CASE ConnectRefused(c)
    BY <1>1, <2>1 DEF ConnectRefused
  <2>2. CASE Connect(c)
    <3>1. written[c] = <<>> /\ ~halfClosed[c]
      BY <1>0, <2>2 DEF Connect, Lifecycle, FramesInOrder
    <3>2. /\ outbox'[c] = accepted'[c]
          /\ outbox'[c] \in Seq(Nat)
          /\ task'[c] = "connecting"
          /\ \A d \in Conn \ {c} : /\ outbox'[d] = outbox[d]
                                   /\ accepted'[d] = accepted[d]
                                   /\ task'[d] = task[d]
      BY <1>0, <2>2 DEF Connect, TypeOK
    <3>3. <<>> \o outbox'[c] = accepted'[c]
      BY <3>2
    <3>4. UNCHANGED <<written, halfClosed>>
      BY <2>2 DEF Connect
    <3> QED BY <1>0, <3>1, <3>2, <3>3, <3>4 DEF FramesInOrder
  <2>3. CASE Register(c)
    BY <1>1, <2>3 DEF Register
  <2> QED BY <1>4, <2>1, <2>2, <2>3 DEF Command
<1>5. ASSUME NEW c \in Conn, NEW item \in Nat, Queue(c, item)
      PROVE  \A d \in Conn : FramesInOrder(d)'
  <2>1. written[c] \in Seq(Nat) /\ outbox[c] \in Seq(Nat)
    BY <1>0 DEF TypeOK
  <2>2. written[c] \o Append(outbox[c], item) = Append(accepted[c], item)
    BY <1>0, <2>1, QueueGrows DEF FramesInOrder
  <2> QED BY <1>0, <1>5, <2>2 DEF Queue, FramesInOrder, TypeOK
<1>6. ASSUME NEW c \in Conn, Window(c) PROVE \A d \in Conn : FramesInOrder(d)'
  <2>1. CASE Send(c)
    <3>1. Len(accepted[c]) + 1 \in Nat
      BY <1>0 DEF TypeOK
    <3> QED BY <1>5, <2>1, <3>1 DEF Send
  <2>2. CASE FinishSending(c)
    BY <1>5, <2>2 DEF FinishSending, Finish
  <2>3. CASE Disconnect(c)
    BY <1>1, <2>3 DEF Disconnect
  <2> QED BY <1>6, <2>1, <2>2, <2>3 DEF Window
<1>7. ASSUME NEW c \in Conn, Writes(c) PROVE \A d \in Conn : FramesInOrder(d)'
  <2> DEFINE w == written[c]
             q == outbox[c]
  <2>1. w \in Seq(Nat) /\ q \in Seq(Nat) /\ q # <<>> /\ Head(q) # Finish /\ ~halfClosed[c]
    BY <1>0, <1>7 DEF TypeOK, Writes
  <2>2. /\ written'[c] = Append(w, Head(q)) /\ outbox'[c] = Tail(q)
        /\ \A d \in Conn \ {c} : written'[d] = written[d] /\ outbox'[d] = outbox[d]
        /\ UNCHANGED <<task, accepted, halfClosed>>
        /\ task[c] # "none"
    BY <1>0, <1>7 DEF TypeOK, Writes
  <2>3. \A i \in 1..Len(w) : w[i] # Finish
    BY <1>0, <2>1 DEF FramesInOrder
  <2> HIDE DEF w, q
  <2>4. Append(w, Head(q)) \o Tail(q) = w \o q
    BY <2>1, HeadMoves
  <2>5. w \o q = accepted[c] /\ accepted' = accepted
    BY <1>0, <2>2 DEF FramesInOrder, w, q
  <2>6. \A i \in 1..Len(Append(w, Head(q))) : Append(w, Head(q))[i] # Finish
    BY <2>1, <2>3, HeadMoves
  <2>7. FramesInOrder(c)'
    BY <2>2, <2>4, <2>5, <2>6 DEF FramesInOrder
  <2>8. ASSUME NEW d \in Conn \ {c} PROVE FramesInOrder(d)'
    BY <1>0, <2>2, <2>8, FramesStay
  <2> QED BY <2>7, <2>8
<1>8. ASSUME NEW c \in Conn, HalfCloses(c) PROVE \A d \in Conn : FramesInOrder(d)'
  <2> DEFINE w == written[c]
             q == outbox[c]
  <2>1. w \in Seq(Nat) /\ q \in Seq(Nat) /\ ~halfClosed[c] /\ task[c] # "none"
    BY <1>0, <1>8 DEF TypeOK, HalfCloses
  <2>2. /\ written'[c] = IF q = <<>> THEN w ELSE Append(w, Finish)
        /\ outbox'[c] = IF q = <<>> THEN q ELSE Tail(q)
        /\ halfClosed'[c]
        /\ \A d \in Conn \ {c} : /\ written'[d] = written[d]
                                 /\ outbox'[d] = outbox[d]
                                 /\ halfClosed'[d] = halfClosed[d]
        /\ UNCHANGED <<task, accepted>>
        /\ q # <<>> => Head(q) = Finish
    BY <1>0, <1>8 DEF TypeOK, HalfCloses, Drained
  <2>3. \A i \in 1..Len(w) : w[i] # Finish
    BY <1>0, <2>1 DEF FramesInOrder
  <2> HIDE DEF w, q
  <2>4. w \o q = accepted[c] /\ accepted' = accepted /\ task' = task
    BY <1>0, <2>2 DEF FramesInOrder, w, q
  <2>5. ASSUME q = <<>> PROVE FramesInOrder(c)'
    <3>1. written'[c] = w /\ outbox'[c] = q
      BY <2>2, <2>5
    <3>2. written'[c] \o outbox'[c] = accepted'[c]
      BY <2>4, <3>1
    <3>3. \A i \in 1..Len(written'[c]) : written'[c][i] # Finish
      BY <2>3, <3>1
    <3>4. task'[c] # "none"
      BY <2>1, <2>4
    <3> QED BY <3>2, <3>3, <3>4 DEF FramesInOrder
  <2>6. ASSUME q # <<>> PROVE FramesInOrder(c)'
    <3>1. written'[c] = Append(w, Head(q)) /\ outbox'[c] = Tail(q)
      BY <2>2, <2>6
    <3>2. Append(w, Head(q)) \o Tail(q) = w \o q
      BY <2>1, <2>6, HeadMoves
    <3>3. \A i \in 1..Len(Append(w, Head(q))) :
             (Append(w, Head(q))[i] = Finish) => (i = Len(Append(w, Head(q))))
      BY <2>1, <2>3, <2>6, HeadMoves
    <3>4. written'[c] \o outbox'[c] = accepted'[c]
      BY <2>4, <3>1, <3>2
    <3>5. \A i \in 1..Len(written'[c]) :
             (written'[c][i] = Finish) => (i = Len(written'[c]))
      BY <3>1, <3>3
    <3>6. task'[c] # "none" /\ halfClosed'[c]
      BY <2>1, <2>2, <2>4
    <3> QED BY <3>4, <3>5, <3>6 DEF FramesInOrder
  <2>7. ASSUME NEW d \in Conn \ {c} PROVE FramesInOrder(d)'
    BY <1>0, <2>2, <2>4, <2>7, FramesStay
  <2>8. FramesInOrder(c)'
    BY <2>5, <2>6
  <2> QED BY <2>7, <2>8
<1>9. ASSUME NEW c \in Conn, Task(c) PROVE \A d \in Conn : FramesInOrder(d)'
  <2>1. CASE OpenFails(c)
    BY <1>2, <2>1 DEF OpenFails
  <2>2. CASE Opens(c)
    BY <1>2, <2>2 DEF Opens
  <2>3. CASE Receives(c)
    BY <1>2, <2>3 DEF Receives
  <2>4. CASE PeerCloses(c)
    BY <1>2, <2>4 DEF PeerCloses
  <2>5. CASE Fails(c)
    BY <1>2, <2>5 DEF Fails
  <2>6. CASE WriteFails(c)
    BY <1>2, <2>6 DEF WriteFails
  <2>7. CASE SenderDropped(c)
    BY <1>2, <2>7 DEF SenderDropped
  <2>8. CASE SelfRemove(c)
    BY <1>0, <1>1, <2>8 DEF SelfRemove, TypeOK
  <2>9. CASE AbortTakesEffect(c)
    BY <1>0, <1>1, <2>9 DEF AbortTakesEffect, TypeOK
  <2> QED BY <1>7, <1>8, <1>9, <2>1, <2>2, <2>3, <2>4, <2>5, <2>6, <2>7,
             <2>8, <2>9 DEF Task
<1>10. CASE UNCHANGED vars
  BY <1>1, <1>10 DEF vars
<1> QED BY <1>3, <1>4, <1>6, <1>9, <1>10 DEF Next

(* Frames go out in the order they were accepted, each once, and none      *)
(* after the half-close, whatever the window queues and whenever the task  *)
(* ends.                                                                   *)
THEOREM FramesGoOutInOrder == Spec => []SendOrder
<1>1. Init => SendInv
  BY InitType DEF Init, SendInv, LifecycleInv, Lifecycle, FramesInOrder, TypeOK, Running
<1>2. SendInv => SendOrder
  BY DEF SendInv, FramesInOrder, SendOrder
<1> QED BY <1>1, <1>2, SendStep, PTL DEF Spec

-----------------------------------------------------------------------------
(* The last word.                                                          *)

(* s ends with an event that ends a connection. *)
Concluded(s) == s # <<>> /\ s[Len(s)] \in Chan!Terminal

AnnounceInv ==
    /\ LifecycleInv
    /\ \A c \in Conn :
         (task[c] \in {"ended", "gone"} /\ Protocol[c] # "ws" /\ webview /\ ~aborting[c])
             => Concluded(channel[c])

LEMMA LastWord ==
    ASSUME NEW s \in Seq(Chan!Event),
           NEW es \in {<<"error">>, <<"closed">>, <<"status", "closed">>,
                       <<"message", "status", "closed">>}
    PROVE  Concluded(s \o es)
<1>1. es \in Seq(Chan!Event) /\ Concluded(es)
  <2>1. "error" \in Chan!Terminal /\ "closed" \in Chan!Terminal
    BY DEF Chan!Terminal
  <2>2. es \in Seq(Chan!Event)
    BY Pushed
  <2>3. es # <<>> /\ (es[Len(es)] = "error" \/ es[Len(es)] = "closed")
    OBVIOUS
  <2> QED BY <2>1, <2>2, <2>3 DEF Concluded
<1> HIDE DEF Chan!Event
<1>2. Len(es) > 0
  BY <1>1 DEF Concluded
<1>3. Len(s \o es) = Len(s) + Len(es) /\ (s \o es)[Len(s) + Len(es)] = es[Len(es)]
  BY <1>1, <1>2
<1> QED BY <1>1, <1>2, <1>3 DEF Concluded

(* A step that ends no task keeps what was announced.                      *)
LEMMA UnendedStep ==
    ASSUME AnnounceInv, LifecycleInv', UNCHANGED channel, webview' => webview,
           \A d \in Conn : /\ aborting[d] => aborting'[d]
                           /\ (task'[d] \in {"ended", "gone"} /\ ~aborting'[d])
                                => task[d] \in {"ended", "gone"}
    PROVE  AnnounceInv'
  BY DEF AnnounceInv

LEMMA AnnounceStep == AnnounceInv /\ [Next]_vars => AnnounceInv'
<1> SUFFICES ASSUME AnnounceInv, [Next]_vars PROVE AnnounceInv'
  OBVIOUS
<1>0. LifecycleInv /\ LifecycleInv' /\ TypeOK /\ \A c \in Conn : Lifecycle(c)
  BY LifecycleStep DEF AnnounceInv, LifecycleInv
<1>1. CASE CloseWebview
  BY <1>0, <1>1, UnendedStep DEF CloseWebview
<1>2. ASSUME NEW c \in Conn, Command(c) PROVE AnnounceInv'
  <2>1. CASE ConnectRefused(c)
    BY <1>0, <2>1, UnendedStep DEF ConnectRefused
  <2>2. CASE Connect(c)
    BY <1>0, <2>2, UnendedStep DEF Connect, TypeOK
  <2>3. CASE Register(c)
    BY <1>0, <2>3, UnendedStep DEF Register
  <2> QED BY <1>2, <2>1, <2>2, <2>3 DEF Command
<1>3. ASSUME NEW c \in Conn, Window(c) PROVE AnnounceInv'
  <2>1. CASE Send(c)
    BY <1>0, <2>1, UnendedStep DEF Send, Queue
  <2>2. CASE FinishSending(c)
    BY <1>0, <2>2, UnendedStep DEF FinishSending, Queue
  <2>3. CASE Disconnect(c)
    BY <1>0, <2>3, UnendedStep DEF Disconnect, TypeOK
  <2> QED BY <1>3, <2>1, <2>2, <2>3 DEF Window
(* A push that opens the task or goes on.                                  *)
<1>4. ASSUME NEW c \in Conn, NEW es, Push(c, es, "open"),
             task[c] \in {"connecting", "open"}
      PROVE  AnnounceInv'
  BY <1>0, <1>4 DEF AnnounceInv, Push, TypeOK
(* A push that ends the task.                                              *)
<1>5. ASSUME NEW c \in Conn, NEW es, Push(c, es, "ended"),
             (webview /\ Protocol[c] # "ws") => Concluded(channel[c] \o es)
      PROVE  AnnounceInv'
  BY <1>0, <1>5 DEF AnnounceInv, Push, TypeOK
<1>6. ASSUME NEW c \in Conn, Task(c) PROVE AnnounceInv'
  <2>0. channel[c] \in Seq(Chan!Event)
    BY <1>0 DEF TypeOK
  <2>1. CASE OpenFails(c)
    BY <1>5, <2>0, <2>1, LastWord DEF OpenFails
  <2>2. CASE Opens(c)
    BY <1>4, <2>2 DEF Opens
  <2>3. CASE Receives(c)
    BY <1>4, <2>3 DEF Receives
  <2>4. CASE PeerCloses(c)
    <3>1. PICK es \in LastEvents(c) : Push(c, es, "ended")
      BY <2>4 DEF PeerCloses
    <3>2. es \in {<<"closed">>, <<"status", "closed">>, <<"message", "status", "closed">>}
      BY DEF LastEvents
    <3> QED BY <1>5, <2>0, <3>1, <3>2, LastWord
  <2>5. CASE Fails(c)
    BY <1>5, <2>0, <2>5, LastWord DEF Fails
  <2>6. CASE WriteFails(c)
    BY <1>5, <2>0, <2>6, LastWord DEF WriteFails
  <2>7. CASE SenderDropped(c)
    BY <1>5, <2>7 DEF SenderDropped
  <2>8. CASE Writes(c)
    BY <1>0, <2>8, UnendedStep DEF Writes
  <2>9. CASE HalfCloses(c)
    BY <1>0, <2>9, UnendedStep DEF HalfCloses
  <2>10. CASE SelfRemove(c)
    BY <1>0, <2>10, UnendedStep DEF SelfRemove, TypeOK
  <2>11. CASE AbortTakesEffect(c)
    BY <1>0, <2>11, UnendedStep DEF AbortTakesEffect, TypeOK
  <2> QED BY <1>6, <2>1, <2>2, <2>3, <2>4, <2>5, <2>6, <2>7, <2>8, <2>9,
             <2>10, <2>11 DEF Task
<1>7. CASE UNCHANGED vars
  BY <1>0, <1>7, UnendedStep DEF vars
<1> QED BY <1>1, <1>2, <1>3, <1>6, <1>7 DEF Next

(* A task that was not disconnected never ends without telling the window, *)
(* but for a WebSocket whose write failed.                                 *)
THEOREM EndsAreAnnounced == Spec => []EndIsAnnounced
<1>1. Init => AnnounceInv
  BY InitType DEF Init, AnnounceInv, LifecycleInv, Lifecycle, TypeOK, Running
<1>2. AnnounceInv => EndIsAnnounced
  BY DEF AnnounceInv, Concluded, EndIsAnnounced
<1> QED BY <1>1, <1>2, AnnounceStep, PTL DEF Spec

-----------------------------------------------------------------------------
(* The panel.                                                              *)

(* The connections the panel owns or leaves running.  A connection the ref *)
(* holds counts even after its task ended: it stands for the race that its *)
(* answer may have won.                                                    *)
Kept == {c \in Conn : Live(c)} \union (IF mounted THEN {ref} \ {NoConn} ELSE {})

(* The races whose late answer came.                                       *)
Charged == raced \intersect resolved

(* Where the panel stands towards the backend. *)
PanelShape ==
    /\ IsFiniteSet(asked) /\ resolved \subseteq asked /\ raced \subseteq asked
    /\ asked \subseteq Conn
    /\ ref # NoConn => (ref \in resolved /\ command[ref] = "returned")
    /\ \A c \in dropping : c \in Conn /\ command[c] = "returned"
    /\ \A c \in resolved : command[c] \in {"returned", "refused"}
    /\ \A c, d \in Pending \ raced : c = d
    /\ ~mounted => Pending \subseteq raced

(* Every late answer pays for one connection.  The panel has one more, its *)
(* own, once the connect call it waits for has been answered.              *)
Paid ==
    /\ Cardinality(Kept) <= Cardinality(Charged) + 1
    /\ (~mounted \/ ref = NoConn \/ Pending \ raced # {})
          => Cardinality(Kept) <= Cardinality(Charged)

PanelInv == LifecycleInv /\ PanelShape /\ Paid

(* A step of the backend brings no task to life but the one a connect      *)
(* command spawns, and takes no answer back.                               *)
LEMMA NothingRevives ==
    ASSUME LifecycleInv, [Next]_vars, NEW c \in Conn
    PROVE  /\ (command[c] \in {"returned", "refused"}) => (command'[c] = command[c])
           /\ (command[c] \in {"returned", "refused"}
               /\ task'[c] \in Running /\ ~aborting'[c])
                 => (task[c] \in Running /\ ~aborting[c])
<1> USE DEF LifecycleInv, Lifecycle, TypeOK, Running
<1>1. CASE CloseWebview
  BY <1>1 DEF CloseWebview
<1>2. ASSUME NEW d \in Conn, Command(d) \/ Window(d)
      PROVE  /\ (command[c] \in {"returned", "refused"}) => (command'[c] = command[c])
             /\ (command[c] \in {"returned", "refused"}
                 /\ task'[c] \in Running /\ ~aborting'[c])
                   => (task[c] \in Running /\ ~aborting[c])
  BY <1>2 DEF Command, Window, ConnectRefused, Connect, Register, Send,
              FinishSending, Queue, Disconnect
<1>3. ASSUME NEW d \in Conn, Task(d)
      PROVE  /\ (command[c] \in {"returned", "refused"}) => (command'[c] = command[c])
             /\ (command[c] \in {"returned", "refused"}
                 /\ task'[c] \in Running /\ ~aborting'[c])
                   => (task[c] \in Running /\ ~aborting[c])
  BY <1>3 DEF Task, OpenFails, Opens, Receives, PeerCloses, Fails, Writes,
              WriteFails, SenderDropped, HalfCloses, SelfRemove, AbortTakesEffect, Push
<1>4. CASE UNCHANGED vars
  BY <1>4 DEF vars
<1> QED BY <1>1, <1>2, <1>3, <1>4 DEF Next

LEMMA PanelIsStreams == [PanelNext]_allVars => [Next]_vars
  BY DEF PanelNext, allVars, PanelDisconnect, Unmount, PanelConnect,
         ConnectResolves, Deliver, RunDisconnect, Backend, Next, Window

LEMMA KeptIsFinite ==
    ASSUME PanelShape
    PROVE  /\ IsFiniteSet(Kept) /\ IsFiniteSet(Charged)
           /\ Cardinality(Kept) \in Nat /\ Cardinality(Charged) \in Nat
<1>1. Kept \subseteq asked /\ Charged \subseteq asked
  BY DEF PanelShape, Kept, Charged, Live
<1> QED BY <1>1, FS_Subset, FS_CardinalityType DEF PanelShape

(* A step in which nothing is asked or answered and the panel stays as it  *)
(* is loses connections at most.                                           *)
LEMMA StillStep ==
    ASSUME PanelInv, LifecycleInv', PanelShape',
           UNCHANGED <<mounted, ref, asked, resolved, raced>>,
           \A c \in Conn : Live(c)' => Live(c)
    PROVE  PanelInv'
<1>1. Kept' \subseteq Kept /\ Charged' = Charged
  BY DEF Kept, Charged
<1>2. Cardinality(Kept') <= Cardinality(Kept)
  BY <1>1, KeptIsFinite, FS_Subset DEF PanelInv
<1>3. /\ Cardinality(Kept) \in Nat /\ Cardinality(Charged) \in Nat
      /\ Cardinality(Kept') \in Nat
  BY <1>1, KeptIsFinite, FS_Subset, FS_CardinalityType DEF PanelInv
<1> QED BY <1>1, <1>2, <1>3 DEF PanelInv, Paid, Pending

(* Whatever the user does drops the connection the ref holds.              *)
LEMMA UserStep ==
    ASSUME PanelInv, LifecycleInv', PanelShape',
           ~mounted' \/ ref' = NoConn, mounted,
           UNCHANGED vars, UNCHANGED resolved,
           dropping' = dropping \union ({ref} \ {NoConn}),
           raced' \intersect resolved = raced \intersect resolved
    PROVE  PanelInv'
<1>1. Charged' = Charged
  BY DEF Charged
<1>2. \A c \in Conn : Live(c)' => (Live(c) /\ c # ref)
  <2>1. \A c \in Conn : c = ref => c \in dropping'
    BY NoConnAssumption
  <2> QED BY <2>1 DEF Live, vars
<1>3. Kept' \subseteq Kept \ {ref}
  BY <1>2 DEF Kept, Live
<1>4. /\ IsFiniteSet(Kept) /\ IsFiniteSet(Kept \ {ref})
      /\ Cardinality(Kept) \in Nat /\ Cardinality(Charged) \in Nat
      /\ Cardinality(Kept \ {ref}) =
            IF ref \in Kept THEN Cardinality(Kept) - 1 ELSE Cardinality(Kept)
  BY KeptIsFinite, FS_RemoveElement DEF PanelInv
<1>5. Cardinality(Kept') <= Cardinality(Kept \ {ref})
  BY <1>3, <1>4, FS_Subset
<1>6. ref # NoConn => ref \in Kept
  BY DEF Kept
<1>7. Cardinality(Kept') \in Nat
  BY <1>3, <1>4, FS_Subset, FS_CardinalityType
<1>8. Cardinality(Kept') <= Cardinality(Charged)
  BY <1>4, <1>5, <1>6, <1>7 DEF PanelInv, Paid
<1> QED BY <1>1, <1>4, <1>7, <1>8 DEF PanelInv, Paid

(* A late answer pays for the connection it brings; the answer the panel   *)
(* waits for brings the panel's own.                                       *)
LEMMA AnswerStep ==
    ASSUME PanelInv, LifecycleInv', PanelShape', NEW c \in Conn, ConnectResolves(c)
    PROVE  PanelInv'
<1>1. /\ c \in Pending /\ resolved' = resolved \union {c}
      /\ UNCHANGED <<vars, mounted, asked, dropping, raced>>
      /\ command[c] \in {"returned", "refused"}
      /\ IF command[c] = "returned" THEN ref' = c ELSE ref' = ref
  BY DEF ConnectResolves
<1>2. \A d \in Conn : Live(d)' => (Live(d) \/ (d = c /\ command[c] = "returned"))
  BY <1>1 DEF Live, vars, PanelInv, LifecycleInv, Lifecycle, Running
<1>3. Kept' \subseteq Kept \union {c}
  BY <1>1, <1>2 DEF Kept
<1>4. (command[c] = "refused") => Kept' \subseteq Kept
  BY <1>1, <1>2 DEF Kept
<1>5. Charged' = IF c \in raced THEN Charged \union {c} ELSE Charged
  BY <1>1 DEF Charged
<1>6. c \notin Charged
  BY <1>1 DEF Charged, Pending
<1>7. /\ IsFiniteSet(Kept) /\ Cardinality(Kept) \in Nat
      /\ IsFiniteSet(Charged) /\ Cardinality(Charged) \in Nat
  BY KeptIsFinite DEF PanelInv
<1>8. /\ IsFiniteSet(Kept \union {c}) /\ Cardinality(Kept \union {c}) \in Nat
      /\ Cardinality(Kept \union {c}) <= Cardinality(Kept) + 1
      /\ Cardinality(Kept') \in Nat
  <2>1. IsFiniteSet(Kept \union {c}) /\ Cardinality(Kept \union {c}) \in {Cardinality(Kept), Cardinality(Kept) + 1}
    BY <1>7, FS_AddElement
  <2>2. Cardinality(Kept') \in Nat
    BY <1>3, <2>1, FS_Subset, FS_CardinalityType
  <2> QED BY <1>7, <2>1, <2>2
<1>9. /\ Cardinality(Kept') <= Cardinality(Kept) + 1
      /\ (command[c] = "refused") => Cardinality(Kept') <= Cardinality(Kept)
  <2>1. Cardinality(Kept') <= Cardinality(Kept \union {c})
    BY <1>3, <1>8, FS_Subset
  <2>2. (command[c] = "refused") => Cardinality(Kept') <= Cardinality(Kept)
    BY <1>4, <1>7, FS_Subset
  <2> QED BY <1>7, <1>8, <2>1, <2>2
<1>10. CASE c \in raced
  <2>1. Cardinality(Charged') = Cardinality(Charged) + 1
    BY <1>5, <1>6, <1>7, <1>10, FS_AddElement
  <2>2. Cardinality(Kept') <= Cardinality(Charged') + 1
    BY <2>1, <1>7, <1>8, <1>9 DEF PanelInv, Paid
  <2>3. ASSUME (~mounted \/ ref = NoConn \/ Pending \ raced # {})'
        PROVE  Cardinality(Kept') <= Cardinality(Charged')
    <3>1. c # NoConn
      BY NoConnAssumption
    <3>2. ~mounted \/ ref = NoConn \/ Pending \ raced # {}
      BY <1>1, <2>3, <3>1 DEF Pending
    <3> QED BY <2>1, <3>2, <1>7, <1>8, <1>9 DEF PanelInv, Paid
  <2> QED BY <2>2, <2>3 DEF PanelInv, Paid
<1>11. CASE c \notin raced
  <2>1. c \in Pending \ raced /\ mounted
    BY <1>1, <1>11 DEF PanelInv, PanelShape
  <2>2. Charged' = Charged /\ Cardinality(Kept) <= Cardinality(Charged)
    BY <2>1, <1>5, <1>11 DEF PanelInv, Paid
  <2>3. mounted' /\ (Pending \ raced)' = {}
    BY <2>1, <1>1 DEF PanelInv, PanelShape, Pending
  <2>4. (ref' = NoConn) => (command[c] = "refused")
    BY <1>1, NoConnAssumption
  <2>5. Cardinality(Kept') <= Cardinality(Charged') + 1
    BY <2>2, <1>7, <1>8, <1>9
  <2>6. (ref' = NoConn) => Cardinality(Kept') <= Cardinality(Charged')
    BY <2>2, <2>4, <1>7, <1>8, <1>9
  <2> QED BY <2>3, <2>5, <2>6 DEF PanelInv, Paid
<1> QED BY <1>10, <1>11

(* Every step keeps the panel's shape.                                     *)
LEMMA ShapeStep == PanelInv /\ LifecycleInv' /\ [PanelNext]_allVars => PanelShape'
<1> SUFFICES ASSUME PanelInv, LifecycleInv', [PanelNext]_allVars PROVE PanelShape'
  OBVIOUS
<1>0. LifecycleInv /\ PanelShape
  BY DEF PanelInv
<1> USE DEF PanelShape, Pending
<1>1. CASE PanelDisconnect
  BY <1>0, <1>1 DEF PanelDisconnect, DropRef, vars
<1>2. CASE Unmount
  BY <1>0, <1>2 DEF Unmount, DropRef, vars
<1>3. ASSUME NEW c \in Conn, PanelConnect(c) PROVE PanelShape'
  <2>1. IsFiniteSet(asked')
    BY <1>0, <1>3, FS_AddElement DEF PanelConnect
  <2> QED BY <1>0, <1>3, <2>1 DEF PanelConnect, DropRef, vars
<1>4. ASSUME NEW c \in Conn, ConnectResolves(c) PROVE PanelShape'
  BY <1>0, <1>4 DEF ConnectResolves, vars
<1>5. ASSUME NEW c \in Conn, Deliver(c) PROVE PanelShape'
  BY <1>0, <1>5 DEF Deliver, vars
<1>6. ASSUME NEW c \in Conn, RunDisconnect(c) PROVE PanelShape'
  BY <1>0, <1>6 DEF RunDisconnect, Disconnect, vars
<1>7. ASSUME NEW c \in Conn, Backend(c) PROVE PanelShape'
  <2>1. \A d \in Conn : command[d] \in {"returned", "refused"} => command'[d] = command[d]
    BY <1>0, <1>7, NothingRevives DEF Backend, Next
  <2> QED BY <1>0, <1>7, <2>1 DEF Backend, panelVars
<1>8. CASE UNCHANGED allVars
  BY <1>0, <1>8 DEF allVars, panelVars, vars
<1> QED BY <1>1, <1>2, <1>3, <1>4, <1>5, <1>6, <1>7, <1>8 DEF PanelNext

LEMMA PanelStep == PanelInv /\ [PanelNext]_allVars => PanelInv'
<1> SUFFICES ASSUME PanelInv, [PanelNext]_allVars PROVE PanelInv'
  OBVIOUS
<1>0. LifecycleInv /\ LifecycleInv' /\ PanelShape /\ PanelShape' /\ [Next]_vars
  BY PanelIsStreams, LifecycleStep, ShapeStep DEF PanelInv
<1>1. CASE PanelDisconnect
  BY <1>0, <1>1, UserStep DEF PanelDisconnect, DropRef, Pending
<1>2. CASE Unmount
  BY <1>0, <1>2, UserStep DEF Unmount, DropRef, Pending
<1>3. ASSUME NEW c \in Conn, PanelConnect(c) PROVE PanelInv'
  BY <1>0, <1>3, UserStep DEF PanelConnect, DropRef, Pending
<1>4. ASSUME NEW c \in Conn, ConnectResolves(c) PROVE PanelInv'
  BY <1>0, <1>4, AnswerStep
<1>5. ASSUME NEW c \in Conn, Deliver(c) PROVE PanelInv'
  BY <1>0, <1>5, StillStep DEF Deliver, Live, vars
<1>6. ASSUME NEW c \in Conn, RunDisconnect(c) PROVE PanelInv'
  <2>1. command[c] = "returned" /\ Lifecycle(c)
    BY <1>0, <1>6 DEF RunDisconnect, PanelShape, LifecycleInv
  <2>2. \A d \in Conn : Live(d)' => Live(d)
    BY <1>0, <1>6, <2>1
       DEF RunDisconnect, Disconnect, Live, Lifecycle, LifecycleInv, TypeOK, vars
  <2> QED BY <1>0, <1>6, <2>2, StillStep DEF RunDisconnect
<1>7. ASSUME NEW c \in Conn, Backend(c) PROVE PanelInv'
  <2>1. \A d \in Conn : Live(d)' => Live(d)
    BY <1>0, <1>7, NothingRevives DEF Backend, panelVars, Live, PanelShape
  <2> QED BY <1>0, <1>7, <2>1, StillStep DEF Backend, panelVars
<1>8. CASE UNCHANGED allVars
  BY <1>0, <1>8, StillStep DEF allVars, panelVars, vars, Live
<1> QED BY <1>1, <1>2, <1>3, <1>4, <1>5, <1>6, <1>7, <1>8 DEF PanelNext

LEMMA InitPanel == PanelInit => PanelInv
<1> SUFFICES ASSUME PanelInit PROVE PanelInv
  OBVIOUS
<1>1. LifecycleInv
  BY InitType DEF PanelInit, Init, LifecycleInv, Lifecycle, TypeOK, Running
<1>2. PanelShape
  BY FS_EmptySet DEF PanelInit, PanelShape, Pending
<1>3. Kept = {} /\ Charged = {}
  BY DEF PanelInit, Kept, Charged, Live
<1> QED BY <1>1, <1>2, <1>3, FS_EmptySet DEF PanelInv, Paid

(* However many connects, disconnects and late answers interleave, a panel *)
(* leaves at most as many connections running behind its back as connect   *)
(* calls were pending when the user went on.                               *)
THEOREM LeaksAreRaces == PanelSpec => []RacesBoundLeaks
<1> DEFINE Lost == {c \in Conn : Live(c) /\ ~(mounted /\ ref = c)}
<1>1. ASSUME PanelInv PROVE RacesBoundLeaks
  <2>1. /\ IsFiniteSet(Kept) /\ Cardinality(Kept) \in Nat /\ Cardinality(Charged) \in Nat
    BY <1>1, KeptIsFinite DEF PanelInv
  <2>2. Cardinality(Lost) <= Cardinality(Charged) /\ Cardinality(Lost) \in Nat
    <3>1. CASE mounted /\ ref # NoConn
      <4>1. Lost \subseteq Kept \ {ref} /\ ref \in Kept
        BY <3>1 DEF Kept
      <4>2. /\ IsFiniteSet(Kept \ {ref}) /\ Cardinality(Kept \ {ref}) = Cardinality(Kept) - 1
        BY <2>1, <4>1, FS_RemoveElement
      <4>3. IsFiniteSet(Lost) /\ Cardinality(Lost) <= Cardinality(Kept \ {ref})
        BY <4>1, <4>2, FS_Subset
      <4> HIDE DEF Lost
      <4> QED BY <1>1, <2>1, <4>2, <4>3, FS_CardinalityType DEF PanelInv, Paid
    <3>2. CASE ~(mounted /\ ref # NoConn)
      <4>1. Lost \subseteq Kept
        BY DEF Kept
      <4>2. IsFiniteSet(Lost) /\ Cardinality(Lost) <= Cardinality(Kept)
        BY <2>1, <4>1, FS_Subset
      <4> HIDE DEF Lost
      <4> QED BY <1>1, <2>1, <3>2, <4>2, FS_CardinalityType DEF PanelInv, Paid
    <3> QED BY <3>1, <3>2
  <2>3. /\ IsFiniteSet(raced) /\ Charged \subseteq raced
    BY <1>1, FS_Subset DEF PanelInv, PanelShape, Charged
  <2>4. Cardinality(Charged) <= Cardinality(raced) /\ Cardinality(raced) \in Nat
    BY <2>3, FS_Subset, FS_CardinalityType
  <2> HIDE DEF Lost
  <2>5. Cardinality(Lost) <= Cardinality(raced)
    BY <2>1, <2>2, <2>4
  <2> QED BY <2>5 DEF RacesBoundLeaks, Lost
<1> QED BY <1>1, InitPanel, PanelStep, PTL DEF PanelSpec

=============================================================================
