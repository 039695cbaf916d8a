---------------------------- MODULE EventChannel ----------------------------
(***************************************************************************)
(* What a streaming connection promises to the window that opened it: the  *)
(* events pushed on its channel only ever grow, and after every push they  *)
(* form a prefix of the life of one connection.  It is the contract of the *)
(* event enums SseEvent, WsEvent (model/streaming.rs) and GrpcEvent        *)
(* (model/grpc.rs); the tasks of commands/streaming.rs implement it.       *)
(***************************************************************************)
EXTENDS Naturals, Sequences

CONSTANTS Conn,     \* connection ids
          Protocol  \* Protocol[c]: the command that opens connection c

VARIABLE channel    \* channel[c]: the events pushed so far

(* The commands, by what their task may push and what can be sent on them. *)
(* "server" is a server-streaming gRPC call, "client" a client-streaming   *)
(* or bidirectional one: drive_streaming_call drives the two alike.  So    *)
(* this is less than model/grpc.rs:48-50 says, that the Response of a      *)
(* client-streaming call fires at most once: no code counts them, and a    *)
(* server that sends several has them all pushed.                          *)
Protocols == {"sse", "ws", "unary", "server", "client"}
Grpc == {"unary", "server", "client"}

Terminal == {"closed", "error"}
Event == {"open", "message", "status"} \union Terminal

(* s can be what a connection of protocol p has pushed so far: nothing, or *)
(* a refused connection, or an opened one whose terminal event is last.    *)
(* An error and a closed never share a channel, although the window is     *)
(* ready for both (grpcHooks.ts:68-71).                                    *)
WellFormed(p, s) ==
    /\ \A i \in 1..Len(s) : (s[i] = "open") => (i = 1)
    /\ \A i \in 1..Len(s) : (s[i] # "error") => (s[1] = "open")
    /\ \A i \in 1..Len(s) : (s[i] \in Terminal) => (i = Len(s))
    /\ \A i \in 1..Len(s) : (s[i] = "status") => (p \in Grpc /\ i + 1 = Len(s))
    /\ \A i \in 1..Len(s) :
         (s[i] = "closed" /\ p \in Grpc) => (i > 1 /\ s[i - 1] = "status")
    /\ \A i \in 1..Len(s) : (s[i] = "message" /\ p = "unary") => (i = 2)

-----------------------------------------------------------------------------

Init == channel = [c \in Conn |-> <<>>]

Push(c) ==
    /\ channel' \in [Conn -> Seq(Event)]
    /\ \A d \in Conn \ {c} : channel'[d] = channel[d]
    /\ Len(channel'[c]) > Len(channel[c])
    /\ SubSeq(channel'[c], 1, Len(channel[c])) = channel[c]
    /\ WellFormed(Protocol[c], channel'[c])

Next == \E c \in Conn : Push(c)

Spec == Init /\ [][Next]_channel

=============================================================================
