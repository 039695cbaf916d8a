------------------------------ MODULE GrpcCall ------------------------------
(***************************************************************************)
(* One gRPC call from the panel: grpc_connect takes the pool a discovery   *)
(* assembled or compiles uploaded files, opens the transport and drives    *)
(* the call, unary or streaming, against a server that may answer, stop    *)
(* half-way, reset or end early (commands/streaming.rs, engine/grpc).  The *)
(* registry and the disconnect are in Streams; this is what one task does  *)
(* between its connect and its last event.                                 *)
(***************************************************************************)
EXTENDS GrpcReflection, SequencesExt

CONSTANTS KindOf,       \* KindOf[s]: the streaming mode of the method of s
          Ends,         \* Ends[m]: units of the body up to the m-th response's end
          Undecodable,  \* responses that are not of the method's output type
          Links,        \* urls with the workspace's transport settings
          MaxRequests   \* bound: requests queued on one call

(* "client" stands for client-streaming and bidirectional: the task drives *)
(* both alike, drive_streaming_call.                                       *)
Kinds == {"unary", "server", "client"}

ASSUME CallAssumption ==
    /\ KindOf \in [Services -> Kinds]
    /\ Ends \in Seq(Nat \ {0})
    /\ \A m, k \in DOMAIN Ends : m < k => Ends[m] < Ends[k]
    /\ Undecodable \subseteq DOMAIN Ends
    /\ MaxRequests \in Nat

VARIABLES link,         \* the url and settings in use
          layers,       \* what the connection goes through
          call,         \* progress of the task
          kind,         \* streaming mode, from the pool
          server,       \* what the server did: HTTP status, headers, end
          wire,         \* DATA frames on their way to the client
          unframer,     \* FrameUnframer::buf
          pending,      \* GrpcStream::pending
          reply,        \* call_unary's response, before it returns
          outbox,       \* requests queued for the task
          sendingDone,  \* the request side is half-closed
          events        \* GrpcEvents pushed

callVars == <<link, layers, call, kind, server, wire, unframer, pending,
              reply, outbox, sendingDone, events>>
vars == <<discovery, callVars>>

-----------------------------------------------------------------------------
(* transport.rs: the connection.                                           *)

(* parse_target. *)
ParsesTarget(l) == /\ l.scheme \in {"grpc", "grpcs"}
                   /\ l.host
                   /\ l.port \in {"none", "number"}

(* client_config and parse_client_identity; only TLS looks at the cert.    *)
HasConfig(l) == l.scheme = "grpcs" => l.cert # "invalid"

(* GrpcTransport::connect: a CONNECT tunnel first when a proxy is set,     *)
(* then TLS with the certificate.                                          *)
Layers(l) ==
    {IF l.proxy = "http" THEN "tunnel" ELSE "direct"}
      \union (IF l.scheme = "grpcs" THEN {"tls"} ELSE {})
      \union (IF l.scheme = "grpcs" /\ l.cert = "valid" THEN {"cert"} ELSE {})

(* connect_through_proxy speaks to http:// proxies only.                   *)
CanConnect(l) == ParsesTarget(l) /\ l.proxy \in {"none", "http"} /\ HasConfig(l)

-----------------------------------------------------------------------------
(* framing.rs: the body is the server's responses, one after another; a    *)
(* response is a prefix, its first unit, and a payload of none or more.    *)

Stretch(after, upto) == [after |-> after, upto |-> upto]  \* units after+1..upto

BodyLength == IF Ends = <<>> THEN 0 ELSE Last(Ends)
Before(m) == IF m = 1 THEN 0 ELSE Ends[m - 1]

(* How many responses have begun, and how many are whole, in n units.      *)
BegunBy(n) == Cardinality({m \in DOMAIN Ends : Before(m) < n})
WholeBy(n) == Cardinality({m \in DOMAIN Ends : Ends[m] <= n})

(* The responses that begin and end in a stretch, in order. *)
Frames(all) == [i \in 1..(WholeBy(all.upto) - BegunBy(all.after)) |->
                  BegunBy(all.after) + i]

(* Mistake: what is left of a chunk after its last message is dropped.     *)
FeedDropsRest(buf, chunk) ==
    [frames |-> Frames(Stretch(buf.after, chunk.upto)),
     rest |-> Stretch(chunk.upto, chunk.upto)]

(* FrameUnframer::feed: every message complete by now, and the rest. *)
Feed(buf, chunk) ==
    LET frames == Frames(Stretch(buf.after, chunk.upto))
    IN  [frames |-> frames,
         rest |-> Stretch(IF frames = <<>> THEN buf.after ELSE Ends[Last(frames)],
                          chunk.upto)]

-----------------------------------------------------------------------------
(* mod.rs: the verdict.  "none" is an absent grpc-status.                  *)

StatusValues == {"none", "ok", "fail", "junk"}

StatusFromHeaderMap(value) == IF value = "none" THEN "ok" ELSE value

ResolveCallStatus(trailers, headers) ==
    StatusFromHeaderMap(IF trailers # "none" THEN trailers ELSE headers)

Event(type) == [type |-> type]
Status(code) == [type |-> "status", code |-> code]
Response(m) == [type |-> "message", message |-> m]

(* Mistake: closed before the status.                                      *)
VerdictSwapped(code) == IF code = "junk" THEN <<Event("error")>>
                                         ELSE <<Event("closed"), Status(code)>>

(* What a call ends with, given the code it resolved: junk is an error.    *)
Verdict(code) == IF code = "junk" THEN <<Event("error")>>
                                  ELSE <<Status(code), Event("closed")>>

-----------------------------------------------------------------------------

Init ==
    /\ DiscoveryInit
    /\ link \in Links
    /\ layers = {}
    /\ call = "idle"
    /\ kind = "unary"
    /\ server = [http |-> "none", headers |-> "none", sent |-> 0, over |-> "no",
                 trailers |-> "none", last |-> FALSE]
    /\ wire = <<>>
    /\ unframer = Stretch(0, 0)
    /\ pending = <<>>
    /\ reply = <<>>
    /\ outbox = <<>>
    /\ sendingDone = FALSE
    /\ events = <<>>

(* grpc_discover_schema: the target is a bare host, or a url as in Links.  *)
Discover ==
    /\ stage = "idle" /\ call = "idle"
    /\ stage' \in IF CanConnect(link) THEN {"v1", "failed"} ELSE {"failed"}
    /\ peer' \in [Versions -> Answers]
    /\ UNCHANGED <<queryable, asked, ended, collected, short, listed, callVars>>

(* The pool of grpc_connect: the descriptor set of the discovery, or the   *)
(* uploaded files compiled, now or, with the same content, earlier         *)
(* (compile_proto_set_cached).                                             *)
Pool(pool) ==
    \/ stage = "done" /\ pool = collected
    \/ /\ stage = "idle"
       /\ \E uploaded \in SUBSET Files : \E entry \in uploaded :
            Compiles(uploaded, entry) /\ pool = WithImports(entry)

(* grpc_connect with a method of s and a first request: an unknown method  *)
(* is an error of the command; otherwise the task is spawned.              *)
GrpcConnect(s, request) ==
    /\ call = "idle"
    /\ \E pool \in SUBSET Files : Pool(pool) /\ InPool(pool, s)
    /\ call' = "connecting"
    /\ kind' = KindOf[s]
    /\ outbox' = <<request>>
    /\ DiscoveryOver
    /\ UNCHANGED <<link, layers, server, wire, unframer, pending, reply,
                   sendingDone, events>>

(* grpc_send and grpc_finish_sending. *)
GrpcSend(item) ==
    /\ kind = "client"
    /\ call \in {"connecting", "driving"}
    /\ Len(outbox) < MaxRequests
    /\ outbox' = Append(outbox, item)
    /\ UNCHANGED <<discovery, link, layers, call, kind, server, wire, unframer,
                   pending, reply, sendingDone, events>>

-----------------------------------------------------------------------------
(* The server.  It may do anything HTTP/2 allows, at any time.             *)

Reached == call \notin {"idle", "connecting", "over"}

(* Response headers; a Trailers-Only response has its status there, and    *)
(* nothing comes after.                                                    *)
ServerAnswers(http, headers, only) ==
    /\ Reached /\ server.http = "none" /\ server.over = "no"
    /\ only \/ headers = "none"
    /\ server' = [server EXCEPT !.http = http, !.headers = headers,
                                !.over = IF only THEN "ended" ELSE "no",
                                !.last = sendingDone]
    /\ UNCHANGED <<discovery, link, layers, call, kind, wire, unframer, pending,
                   reply, outbox, sendingDone, events>>

(* The next n units of the body, in one DATA frame. *)
ServerSends(n) ==
    /\ Reached /\ server.http # "none" /\ server.over = "no"
    /\ server.sent + n <= BodyLength
    /\ wire' = Append(wire, Stretch(server.sent, server.sent + n))
    /\ server' = [server EXCEPT !.sent = @ + n]
    /\ UNCHANGED <<discovery, link, layers, call, kind, unframer, pending,
                   reply, outbox, sendingDone, events>>

(* Trailers; last: the request side had ended by then. *)
ServerEnds(trailers) ==
    /\ Reached /\ server.http # "none" /\ server.over = "no"
    /\ server' = [server EXCEPT !.over = "ended", !.trailers = trailers,
                                !.last = sendingDone]
    /\ UNCHANGED <<discovery, link, layers, call, kind, wire, unframer, pending,
                   reply, outbox, sendingDone, events>>

ServerResets ==
    /\ Reached /\ server.over = "no"
    /\ server' = [server EXCEPT !.over = "reset"]
    /\ UNCHANGED <<discovery, link, layers, call, kind, wire, unframer, pending,
                   reply, outbox, sendingDone, events>>

-----------------------------------------------------------------------------
(* The task.                                                               *)

Finish(es) == events' = events \o es /\ call' = "over"

(* What the steps of the task below leave alone. *)
TaskUnchanged == UNCHANGED <<discovery, link, kind, server>>

OpenFails ==
    /\ call = "connecting"
    /\ Finish(<<Event("error")>>)
    /\ TaskUnchanged
    /\ UNCHANGED <<layers, wire, unframer, pending, reply, outbox, sendingDone>>

(* GrpcTransport::connect and send succeed. *)
Opens ==
    /\ call = "connecting"
    /\ CanConnect(link)
    /\ layers' = Layers(link)
    /\ call' = IF kind = "unary" THEN "request" ELSE "driving"
    /\ events' = Append(events, Event("open"))
    /\ TaskUnchanged
    /\ UNCHANGED <<wire, unframer, pending, reply, outbox, sendingDone>>

(* call_unary: the request goes with END_STREAM. *)
SendsRequest ==
    /\ call = "request"
    /\ \/ /\ Head(outbox) = "good"
          /\ call' = "headers"
          /\ sendingDone' = TRUE
          /\ UNCHANGED events
       \/ /\ Head(outbox) = "bad" \/ server.over # "no"
          /\ Finish(<<Event("error")>>)
          /\ UNCHANGED sendingDone
    /\ outbox' = <<>>
    /\ TaskUnchanged
    /\ UNCHANGED <<layers, wire, unframer, pending, reply>>

(* Mistake: a unary call does not look at the HTTP status either.          *)
HttpStatusIgnored ==
    /\ call = "headers"
    /\ server.http # "none"
    /\ call' = "reply"
    /\ TaskUnchanged
    /\ UNCHANGED <<layers, wire, unframer, pending, reply, outbox, sendingDone, events>>

(* call_unary: http_status.  drive_streaming_call never asks for it. *)
ChecksHttpStatus ==
    /\ call = "headers"
    /\ server.http # "none"
    /\ IF server.http = "200" THEN call' = "reply" /\ UNCHANGED events
                               ELSE Finish(<<Event("error")>>)
    /\ TaskUnchanged
    /\ UNCHANGED <<layers, wire, unframer, pending, reply, outbox, sendingDone>>

(* recv_frame is awaited: its state is all in the GrpcStream, so a select! *)
(* that drops the future loses nothing.                                    *)
Receiving == call \in {"driving", "reply"} /\ server.http # "none"

(* recv_frame: a DATA frame is unframed. *)
ReceivesData ==
    /\ Receiving /\ pending = <<>> /\ wire # <<>>
    /\ LET fed == Feed(unframer, Head(wire))
       IN  pending' = fed.frames /\ unframer' = fed.rest
    /\ wire' = Tail(wire)
    /\ TaskUnchanged
    /\ UNCHANGED <<layers, call, reply, outbox, sendingDone, events>>

(* recv_frame returns a message: decoded and pushed, or kept by call_unary *)
(* while it goes for the status.                                           *)
DeliversMessage ==
    /\ Receiving /\ pending # <<>>
    /\ pending' = Tail(pending)
    /\ CASE Head(pending) \in Undecodable ->
              Finish(<<Event("error")>>) /\ UNCHANGED reply
         [] Head(pending) \notin Undecodable /\ kind = "unary" ->
              /\ reply' = <<Response(Head(pending))>>
              /\ call' = "status"
              /\ UNCHANGED events
         [] OTHER ->
              /\ events' = Append(events, Response(Head(pending)))
              /\ UNCHANGED <<call, reply>>
    /\ TaskUnchanged
    /\ UNCHANGED <<layers, wire, unframer, outbox, sendingDone>>

(* Mistake: the end of a body is only taken for one with trailers.         *)
BodyEndsByTrailers ==
    /\ Receiving /\ pending = <<>> /\ wire = <<>> /\ server.over = "ended"
    /\ server.trailers # "none"
    /\ Finish(Verdict(ResolveCallStatus(server.trailers, server.headers)))
    /\ TaskUnchanged
    /\ UNCHANGED <<layers, wire, unframer, pending, reply, outbox, sendingDone>>

(* recv_frame returns None, whatever the unframer still holds, and the     *)
(* status is resolved.                                                     *)
BodyEnds ==
    /\ Receiving /\ pending = <<>> /\ wire = <<>> /\ server.over = "ended"
    /\ Finish(Verdict(ResolveCallStatus(server.trailers, server.headers)))
    /\ TaskUnchanged
    /\ UNCHANGED <<layers, wire, unframer, pending, reply, outbox, sendingDone>>

(* call_unary reads the trailers after its one message.  They come behind  *)
(* all DATA, which nothing reads any more.                                 *)
ReadsStatus ==
    /\ call = "status" /\ wire = <<>> /\ server.over = "ended"
    /\ LET code == ResolveCallStatus(server.trailers, server.headers)
       IN  Finish((IF code = "junk" THEN <<>> ELSE reply) \o Verdict(code))
    /\ TaskUnchanged
    /\ UNCHANGED <<layers, wire, unframer, pending, reply, outbox, sendingDone>>

(* Headers, data or trailers end in an error of the stream. *)
Breaks ==
    /\ call \in {"headers", "reply", "status", "driving"}
    /\ server.over = "reset" /\ pending = <<>>
    /\ Finish(<<Event("error")>>)
    /\ TaskUnchanged
    /\ UNCHANGED <<layers, wire, unframer, pending, reply, outbox, sendingDone>>

(* requests.recv() has an item, or no sender is left: grpc_connect drops   *)
(* the one of a server-streaming call.                                     *)
Outgoing == /\ call = "driving" /\ ~sendingDone
            /\ outbox # <<>> \/ kind = "server"

(* Both kinds of None are the end of the requests. *)
NextItem == IF outbox = <<>> THEN "finish" ELSE Head(outbox)

(* The outgoing arm: a request is written. *)
Writes ==
    /\ Outgoing /\ NextItem = "good"
    /\ outbox' = Tail(outbox)
    /\ TaskUnchanged
    /\ UNCHANGED <<layers, call, wire, unframer, pending, reply, sendingDone, events>>

(* Mistake: the arm stays enabled, and the queue's None is taken again.    *)
HalfClosesAgain ==
    /\ call = "driving"
    /\ outbox # <<>> \/ kind = "server"
    /\ NextItem = "finish"
    /\ sendingDone' = TRUE
    /\ outbox' = IF outbox = <<>> THEN outbox ELSE Tail(outbox)
    /\ IF sendingDone THEN Finish(<<Event("error")>>) ELSE UNCHANGED <<call, events>>
    /\ TaskUnchanged
    /\ UNCHANGED <<layers, wire, unframer, pending, reply>>

(* The outgoing arm: END_STREAM, and the arm is disabled for good. *)
HalfCloses ==
    /\ Outgoing /\ NextItem = "finish"
    /\ sendingDone' = TRUE
    /\ outbox' = IF outbox = <<>> THEN outbox ELSE Tail(outbox)
    /\ TaskUnchanged
    /\ UNCHANGED <<layers, call, wire, unframer, pending, reply, events>>

(* The outgoing arm: a request that is not of the input type, or a stream  *)
(* the server has closed.  The status it sent is not read any more.        *)
WriteFails ==
    /\ Outgoing
    /\ server.over # "no" \/ NextItem = "bad"
    /\ Finish(<<Event("error")>>)
    /\ TaskUnchanged
    /\ UNCHANGED <<layers, wire, unframer, pending, reply, outbox, sendingDone>>

-----------------------------------------------------------------------------

Server == \/ \E http \in {"200", "502"}, headers \in StatusValues, only \in BOOLEAN :
                ServerAnswers(http, headers, only)
          \/ \E n \in 1..2 : ServerSends(n)
          \/ \E trailers \in StatusValues : ServerEnds(trailers)
          \/ ServerResets

Window == \/ Discover
          \/ \E s \in Services, request \in {"good", "bad"} : GrpcConnect(s, request)
          \/ \E item \in {"good", "bad", "finish"} : GrpcSend(item)

Incoming == ReceivesData \/ DeliversMessage \/ BodyEnds \/ Breaks

Task == \/ OpenFails \/ Opens \/ SendsRequest \/ ChecksHttpStatus \/ ReadsStatus
        \/ Incoming \/ Writes \/ HalfCloses \/ WriteFails

Next == \/ DiscoveryNext /\ UNCHANGED callVars
        \/ Window \/ Server \/ Task

(* The runtime polls the arm of a select! that is ready: the task goes on  *)
(* when the server has.  Nothing is assumed of the server.                 *)
Fairness == WF_vars(Incoming) /\ WF_vars(SendsRequest \/ ChecksHttpStatus \/ ReadsStatus)

Spec == Init /\ [][Next]_vars /\ Fairness

-----------------------------------------------------------------------------
(* Properties.                                                             *)

Types(es) == [i \in DOMAIN es |-> es[i].type]

(* One life of a connection, in the terms of the panel. *)
Pushed == [k \in Kinds |-> IF k = kind THEN Types(events) ELSE <<>>]

Contract == INSTANCE EventChannel WITH
                Conn <- Kinds,
                Protocol <- [k \in Kinds |-> k],
                channel <- Pushed

(* Each call keeps the contract of the event channel, whatever the server  *)
(* does: model/grpc.rs, GrpcEvent.  kind is set before the first event.    *)
(* The contract is weaker than that file in one place, see EventChannel:   *)
(* a client-streaming call may push more than one response.                *)
KeepsContract == Contract!Spec

(* The verdict shown is one the server gave.  A failure it reported, in    *)
(* trailers or in the headers of a Trailers-Only response, never reads as  *)
(* OK, nor does an OK read as a failure, and a unary call shows a verdict  *)
(* only behind an HTTP status that accepted the request: anything else is  *)
(* an error (model/grpc.rs:60-66, "a non-200 HTTP status").  Excepted by   *)
(* name: a server that says nothing reads as OK, as GrpcEvent::Closed says *)
(* it does, and a streaming call never looks at the HTTP status, so a 502  *)
(* from a proxy before the server reads as a verdict, OK by default.       *)
(* (mod.rs, resolve_call_status: "hiding a real RPC failure".)             *)
VerdictIsTheServers ==
    \A i \in DOMAIN events : events[i].type = "status" =>
        LET said == {server.trailers, server.headers} \ {"none"}
        IN  /\ events[i].code = "ok" => "fail" \notin said
            /\ events[i].code # "ok" => "fail" \in said
            /\ kind = "unary" => server.http = "200"

(* The responses pushed behind the open are the server's first ones, in    *)
(* its order, however DATA frames cut them; a streaming call that ends     *)
(* with a status has pushed every message that came whole.                 *)
(* (transport.rs, recv_frame.)                                             *)
ResponsesInOrder ==
    \A i \in DOMAIN events :
        /\ events[i].type = "message" => events[i].message = i - 1
        /\ (events[i].type = "status" /\ kind # "unary")
             => i - 2 = WholeBy(server.sent)

(* A call whose requests were all sent before the server ended it shows    *)
(* the server's verdict: only a request that crosses the end turns it into *)
(* an error.  (drive_streaming_call, the failed send_frame.)               *)
SentCallSeesVerdict ==
    (/\ call = "over" /\ server.over = "ended" /\ server.last
     /\ server.http = "200"
     /\ \A m \in Undecodable : Ends[m] > server.sent
     /\ "junk" \notin {server.trailers, server.headers})
        => Last(events) = Event("closed")

(* When the server is over with a call, so is the task, unless call_unary  *)
(* was sent more than the one message it reads.                            *)
CallEnds ==
    (server.over # "no" /\ Reached /\ (kind = "unary" => server.sent <= Ends[1]))
        ~> (call = "over")
=============================================================================
