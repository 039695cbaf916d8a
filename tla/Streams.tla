------------------------------ MODULE Streams ------------------------------
(***************************************************************************)
(* The registry of live SSE, WebSocket and gRPC connections and the tasks  *)
(* that drive them (commands/streaming.rs, AppState::streams).  A connect  *)
(* command spawns a task and then, as a separate step on another thread,   *)
(* inserts the task's handle in the registry; the task removes its own     *)
(* entry when it ends; stream_disconnect removes the entry and aborts the  *)
(* task; ws_send and grpc_send queue frames for the task through the       *)
(* sender the entry holds.                                                 *)
(*                                                                         *)
(* An action of a task is the code between two awaits.  What the peer and  *)
(* the network do is nondeterministic.                                     *)
(***************************************************************************)
EXTENDS Naturals, Sequences

CONSTANTS Conn,         \* connection ids, one per connect command (uuid v4)
          Protocol,     \* Protocol[c]: the command, and gRPC mode, behind c
          MaxMessages,  \* bound on the messages received per connection
          MaxSends      \* bound on the calls to ws_send, grpc_send and
                        \* grpc_finish_sending per connection

VARIABLES command,      \* progress of the connect command
          registry,     \* AppState::streams: the ids it holds an entry for
          task,         \* progress of the spawned task
          aborting,     \* JoinHandle::abort was called
          channel,      \* the events pushed to the window
          outbox,       \* the mpsc queue from the sender to the task
          accepted,     \* everything put on outbox, in order
          written,      \* what the task took off outbox and put on the wire
          halfClosed,   \* drive_streaming_call's sending_done
          webview       \* the window still takes events

vars == <<command, registry, task, aborting, channel,
          outbox, accepted, written, halfClosed, webview>>

Chan == INSTANCE EventChannel

ASSUME StreamsAssumption ==
    /\ Protocol \in [Conn -> Chan!Protocols]
    /\ MaxMessages \in Nat
    /\ MaxSends \in Nat

-----------------------------------------------------------------------------

Finish == 0     \* the None that grpc_finish_sending queues

(* Entries whose StreamHandle has a sender. *)
Sends(c) == Protocol[c] \in {"ws", "client"}

(* The receiving half of outbox lives as long as the run_* future does. *)
Running == {"connecting", "open"}

(* run_grpc_streaming's relay stops at a failed push, but its receiver is  *)
(* borrowed and outlives it: drive_streaming_call never notices.           *)
Relayed(c) == Protocol[c] \in {"server", "client"}

TypeOK ==
    /\ command \in [Conn -> {"idle", "spawned", "returned", "refused"}]
    /\ registry \subseteq Conn
    /\ task \in [Conn -> Running \union {"none", "ended", "gone"}]
    /\ aborting \in [Conn -> BOOLEAN]
    /\ channel \in [Conn -> Seq(Chan!Event)]
    /\ outbox \in [Conn -> Seq(Nat)]
    /\ accepted \in [Conn -> Seq(Nat)]
    /\ written \in [Conn -> Seq(Nat)]
    /\ halfClosed \in [Conn -> BOOLEAN]
    /\ webview \in BOOLEAN

Init ==
    /\ command = [c \in Conn |-> "idle"]
    /\ registry = {}
    /\ task = [c \in Conn |-> "none"]
    /\ aborting = [c \in Conn |-> FALSE]
    /\ channel = [c \in Conn |-> <<>>]
    /\ outbox = [c \in Conn |-> <<>>]
    /\ accepted = [c \in Conn |-> <<>>]
    /\ written = [c \in Conn |-> <<>>]
    /\ halfClosed = [c \in Conn |-> FALSE]
    /\ webview = TRUE

-----------------------------------------------------------------------------
(* The connect commands: sse_connect, ws_connect, grpc_connect.            *)

(* The transport, the client or the gRPC schema cannot be built: the       *)
(* command fails and nothing was spawned.                                  *)
ConnectRefused(c) ==
    /\ command[c] = "idle"
    /\ command' = [command EXCEPT ![c] = "refused"]
    /\ UNCHANGED <<registry, task, aborting, channel, outbox,
                   accepted, written, halfClosed, webview>>

(* The task is spawned; a streaming gRPC call finds its first request      *)
(* already queued.                                                         *)
Connect(c) ==
    /\ command[c] = "idle"
    /\ command' = [command EXCEPT ![c] = "spawned"]
    /\ task' = [task EXCEPT ![c] = "connecting"]
    /\ LET first == IF Relayed(c) THEN <<1>> ELSE <<>>
       IN  /\ outbox' = [outbox EXCEPT ![c] = first]
           /\ accepted' = [accepted EXCEPT ![c] = first]
    /\ UNCHANGED <<registry, aborting, channel, written,
                   halfClosed, webview>>

(* The handle enters the registry, whatever the task has done meanwhile,   *)
(* and the id is returned to the window.                                   *)
Register(c) ==
    /\ command[c] = "spawned"
    /\ registry' = registry \union {c}
    /\ command' = [command EXCEPT ![c] = "returned"]
    /\ UNCHANGED <<task, aborting, channel, outbox, accepted,
                   written, halfClosed, webview>>

-----------------------------------------------------------------------------
(* The window's other calls.  It knows an id only once connect returned.   *)

(* ws_send and grpc_send; an unknown id, an entry without a sender and a   *)
(* queue whose task is gone are errors and change nothing.                 *)
Queue(c, item) ==
    /\ command[c] = "returned"
    /\ c \in registry
    /\ task[c] \in Running
    /\ Len(accepted[c]) < MaxSends
    /\ outbox' = [outbox EXCEPT ![c] = Append(@, item)]
    /\ accepted' = [accepted EXCEPT ![c] = Append(@, item)]
    /\ UNCHANGED <<command, registry, task, aborting, channel,
                   written, halfClosed, webview>>

Send(c) == Sends(c) /\ Queue(c, Len(accepted[c]) + 1)

FinishSending(c) == Protocol[c] = "client" /\ Queue(c, Finish)

(* Mistake: the handle is dropped, which detaches the task, not aborted.   *)
DisconnectDetaches(c) ==
    /\ command[c] = "returned"
    /\ c \in registry
    /\ registry' = registry \ {c}
    /\ UNCHANGED <<command, task, aborting, channel, outbox, accepted,
                   written, halfClosed, webview>>

Disconnect(c) ==
    /\ command[c] = "returned"
    /\ c \in registry
    /\ registry' = registry \ {c}
    /\ aborting' = [aborting EXCEPT ![c] = TRUE]
    /\ UNCHANGED <<command, task, channel, outbox, accepted,
                   written, halfClosed, webview>>

CloseWebview ==
    /\ webview
    /\ webview' = FALSE
    /\ UNCHANGED <<command, registry, task, aborting, channel,
                   outbox, accepted, written, halfClosed>>

-----------------------------------------------------------------------------
(* The task: run_sse, run_ws, run_grpc_unary, run_grpc_streaming.          *)

(* Push events and go on to next; every loop returns when a push fails.    *)
Push(c, events, next) ==
    /\ channel' = IF webview THEN [channel EXCEPT ![c] = @ \o events]
                             ELSE channel
    /\ task' = [task EXCEPT ![c] =
                    IF webview \/ Relayed(c) THEN next ELSE "ended"]
    /\ UNCHANGED <<command, registry, aborting, outbox, accepted,
                   written, halfClosed, webview>>

(* The network connect or the upgrade fails. *)
OpenFails(c) == task[c] = "connecting" /\ Push(c, <<"error">>, "ended")

Opens(c) == task[c] = "connecting" /\ Push(c, <<"open">>, "open")

Messages(c) == Len(SelectSeq(channel[c], LAMBDA e : e = "message"))

(* A data frame arrives.  A unary call has its response at its end.         *)
Receives(c) ==
    /\ task[c] = "open"
    /\ Protocol[c] # "unary"
    /\ Messages(c) < MaxMessages
    /\ Push(c, <<"message">>, "open")

(* The last events when the peer ends the stream; call_unary returns at    *)
(* most one response with them.                                            *)
LastEvents(c) ==
    CASE Protocol[c] = "unary" -> {<<"status", "closed">>, <<"message", "status", "closed">>}
      [] Relayed(c) -> {<<"status", "closed">>}
      [] OTHER -> {<<"closed">>}

(* Mistake: the loop goes on after the peer's close frame.                 *)
PeerClosesGoesOn(c) ==
    /\ task[c] = "open"
    /\ \E events \in LastEvents(c) : Push(c, events, "open")

PeerCloses(c) ==
    /\ task[c] = "open"
    /\ \E events \in LastEvents(c) : Push(c, events, "ended")

(* Mistake: an error ends the loop without an event.                       *)
FailsSilently(c) == task[c] = "open" /\ Push(c, <<>>, "ended")

(* A read error, an undecodable message, a rejected request.               *)
Fails(c) == task[c] = "open" /\ Push(c, <<"error">>, "ended")

(* Mistake: the outgoing arm stays enabled after the half-close.           *)
WritesAfterFinish(c) ==
    /\ task[c] = "open"
    /\ Protocol[c] # "unary"
    /\ outbox[c] # <<>>
    /\ Head(outbox[c]) # Finish
    /\ outbox' = [outbox EXCEPT ![c] = Tail(@)]
    /\ written' = [written EXCEPT ![c] = Append(@, Head(outbox[c]))]
    /\ UNCHANGED <<command, registry, task, aborting, channel,
                   accepted, halfClosed, webview>>

(* The outgoing arm of the select loops writes the next queued frame.      *)
Writes(c) ==
    /\ task[c] = "open"
    /\ Protocol[c] # "unary"
    /\ ~halfClosed[c]
    /\ outbox[c] # <<>>
    /\ Head(outbox[c]) # Finish
    /\ outbox' = [outbox EXCEPT ![c] = Tail(@)]
    /\ written' = [written EXCEPT ![c] = Append(@, Head(outbox[c]))]
    /\ UNCHANGED <<command, registry, task, aborting, channel,
                   accepted, halfClosed, webview>>

(* The write fails.  gRPC reports it; run_ws just returns.                 *)
WriteFails(c) ==
    /\ task[c] = "open"
    /\ ~halfClosed[c]
    /\ outbox[c] # <<>>
    /\ Push(c, IF Protocol[c] = "ws" THEN <<>> ELSE <<"error">>, "ended")

(* recv() yields None: the queue is drained and no sender is left.  The    *)
(* sender is in the registry entry, which Disconnect drops; grpc_connect   *)
(* drops a server-streaming call's before it returns.                      *)
Drained(c) == outbox[c] = <<>> /\ (Protocol[c] = "server" \/ aborting[c])

(* run_ws returns then, when the abort has not stopped it first.           *)
SenderDropped(c) ==
    /\ task[c] = "open"
    /\ Protocol[c] = "ws"
    /\ Drained(c)
    /\ Push(c, <<>>, "ended")

(* A gRPC call half-closes then, and on a Finish: the outgoing arm is      *)
(* disabled for good.                                                      *)
HalfCloses(c) ==
    /\ task[c] = "open"
    /\ Relayed(c)
    /\ ~halfClosed[c]
    /\ Drained(c) \/ (outbox[c] # <<>> /\ Head(outbox[c]) = Finish)
    /\ halfClosed' = [halfClosed EXCEPT ![c] = TRUE]
    /\ outbox' = [outbox EXCEPT ![c] = IF @ = <<>> THEN @ ELSE Tail(@)]
    /\ written' = [written EXCEPT ![c] =
                     IF outbox[c] = <<>> THEN @ ELSE Append(@, Finish)]
    /\ UNCHANGED <<command, registry, task, aborting, channel,
                   accepted, webview>>

(* Mistake: the task forgets its own entry.                                *)
SelfRemoveForgets(c) ==
    /\ task[c] = "ended"
    /\ task' = [task EXCEPT ![c] = "gone"]
    /\ UNCHANGED <<command, registry, aborting, channel, outbox, accepted,
                   written, halfClosed, webview>>

(* The last lines of the spawned block: no await separates them from the   *)
(* end of run_*, so an abort cannot prevent them.                          *)
SelfRemove(c) ==
    /\ task[c] = "ended"
    /\ task' = [task EXCEPT ![c] = "gone"]
    /\ registry' = registry \ {c}
    /\ UNCHANGED <<command, aborting, channel, outbox, accepted,
                   written, halfClosed, webview>>

(* An aborted task is dropped at its next await; until then, when it was   *)
(* being polled on another thread, it may take more of the steps above.    *)
AbortTakesEffect(c) ==
    /\ aborting[c]
    /\ task[c] \in Running
    /\ task' = [task EXCEPT ![c] = "gone"]
    /\ UNCHANGED <<command, registry, aborting, channel, outbox,
                   accepted, written, halfClosed, webview>>

-----------------------------------------------------------------------------

Command(c) == ConnectRefused(c) \/ Connect(c) \/ Register(c)

Window(c) == Send(c) \/ FinishSending(c) \/ Disconnect(c)

Task(c) == \/ OpenFails(c) \/ Opens(c) \/ Receives(c) \/ PeerCloses(c)
           \/ Fails(c) \/ Writes(c) \/ WriteFails(c)
           \/ SenderDropped(c) \/ HalfCloses(c) \/ SelfRemove(c) \/ AbortTakesEffect(c)

Next == \/ CloseWebview
        \/ \E c \in Conn : Command(c) \/ Window(c) \/ Task(c)

Spec == Init /\ [][Next]_vars

(* What the runtime guarantees: a spawned command finishes, a task that    *)
(* ended runs to the end of its block and an abort is delivered.  Nothing  *)
(* is assumed of the peer or of the user.                                  *)
Fairness == \A c \in Conn : /\ WF_vars(Register(c))
                            /\ WF_vars(SelfRemove(c))
                            /\ WF_vars(AbortTakesEffect(c))

FairSpec == Spec /\ Fairness

-----------------------------------------------------------------------------
(* Properties.                                                             *)

(* Every connection's events form a prefix of one connection's life: the   *)
(* terminal event is the last, a gRPC Closed follows its Status.           *)
(* (model/streaming.rs "Terminal", model/grpc.rs "Always sent immediately  *)
(* after a Status event".)                                                 *)
EventOrder == \A c \in Conn : Chan!WellFormed(Protocol[c], channel[c])

(* A task the window knows of and has not disconnected can be stopped: its *)
(* entry is in the registry, so no interleaving of the insertion, the      *)
(* task's own removal and a disconnect loses the handle of a live task.    *)
LiveTaskIsReachable ==
    \A c \in Conn :
        (command[c] = "returned" /\ task[c] \in Running /\ ~aborting[c])
            => c \in registry

(* A disconnected connection never comes back in the registry.             *)
DisconnectIsFinal == \A c \in Conn : aborting[c] => c \notin registry

(* Frames go out in the order ws_send and grpc_send accepted them, none    *)
(* twice and, while the task runs, none skipped; nothing follows the       *)
(* half-close, as HTTP/2 allows no frame after END_STREAM, whatever the    *)
(* window queues after grpc_finish_sending.                                *)
SendOrder ==
    \A c \in Conn :
        /\ written[c] \o outbox[c] = accepted[c]
        /\ \A i \in 1..Len(written[c]) :
             (written[c][i] = Finish) => (i = Len(written[c]))

(* A task that was not disconnected tells the window how it ended, as      *)
(* model/streaming.rs and model/grpc.rs promise.  A WebSocket whose write  *)
(* fails does not: run_ws returns without a word.                          *)
EndIsAnnounced ==
    \A c \in Conn :
        (task[c] \in {"ended", "gone"} /\ Protocol[c] # "ws" /\ webview /\ ~aborting[c])
            => /\ channel[c] # <<>>
               /\ channel[c][Len(channel[c])] \in Chan!Terminal

(* The whole protocol as an abstract machine: events are only appended and *)
(* every push keeps the channel well formed.                               *)
ImplementsChannel == Chan!Init /\ [][Chan!Next]_channel

(* What AppState::streams keeps of a connection whose task is gone. *)
Stale(c) == task[c] = "gone" /\ c \in registry

(* A connection whose task ended on its own while registered leaves the    *)
(* registry (store/mod.rs, AppState::streams), and an entry outlives its   *)
(* task in one case only: it was inserted after the task had removed       *)
(* itself (streaming.rs:86-99).                                            *)
EndedLeavesRegistry ==
    /\ \A c \in Conn : (task[c] = "ended" /\ c \in registry) ~> (c \notin registry)
    /\ [][\A c \in Conn : Stale(c)' /\ ~Stale(c) => command[c] = "spawned"]_vars

=============================================================================
