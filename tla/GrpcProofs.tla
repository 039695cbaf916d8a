----------------------------- MODULE GrpcProofs -----------------------------
(***************************************************************************)
(* Proofs about a discovery and the call that follows it: whatever the     *)
(* server does and however its bytes are cut, the schema is complete, the  *)
(* responses come whole and in order, the verdict is the one the server    *)
(* gave, and the events keep the contract of the channel.                  *)
(***************************************************************************)
EXTENDS GrpcCall, SequenceTheorems, FiniteSetTheorems, TLAPS

-----------------------------------------------------------------------------
(* The discovery.                                                          *)

(* What is asked for has come, with its imports, unless the server kept    *)
(* something back.                                                         *)
DiscoveryInv ==
    /\ queryable \subseteq Services \union Versions
    /\ asked \subseteq Services \union Versions
    /\ collected \subseteq Files
    /\ short \in BOOLEAN
    /\ stage \in {"query", "done"} => Services \subseteq queryable
    /\ stage # "failed" =>
         \A s \in asked : short \/ WithImports(Declares[s]) \subseteq collected
    /\ stage = "done" => /\ asked = queryable
                         /\ Complete(collected)
                         /\ listed = {s \in queryable : InPool(collected, s)}

(* A pool that can be built has, with a file, all that it imports. *)
LEMMA PoolHasImports ==
    ASSUME NEW f \in Files, NEW pool \in SUBSET Files, Complete(pool), f \in pool
    PROVE  WithImports(f) \subseteq pool
  BY DEF WithImports

LEMMA OwnImports ==
    ASSUME NEW f \in Files
    PROVE  f \in WithImports(f) /\ WithImports(f) \subseteq Files
  BY DEF WithImports

LEMMA DiscoveryInitially == DiscoveryInit => DiscoveryInv
  BY DEF DiscoveryInit, DiscoveryInv

(* One step of the discovery itself. *)
LEMMA DiscoveryGoesOn == DiscoveryInv /\ DiscoveryNext => DiscoveryInv'
  <1> SUFFICES ASSUME DiscoveryInv, DiscoveryNext PROVE DiscoveryInv'
    OBVIOUS
  <1> USE ReflectionAssumption DEF DiscoveryInv
  <1>1. ASSUME NEW v \in Versions, ListServices(v) PROVE DiscoveryInv'
    <2>1. stage = v /\ stage \notin {"query", "done", "failed"}
      BY <1>1 DEF ListServices, Versions
    <2>2. CASE stage' = "query" /\ queryable' = Registered \ {v}
      <3>1. Services \subseteq queryable' /\ queryable' \subseteq Services \union Versions
        BY <2>2, <1>1 DEF Registered, Versions
      <3> QED BY <3>1, <2>1, <2>2, <1>1 DEF ListServices
    <2>3. CASE stage' \in {"v1alpha", "failed"} /\ queryable' = queryable
      BY <2>1, <2>3, <1>1 DEF ListServices
    <2> QED BY <2>2, <2>3, <1>1, Zenon DEF ListServices
  <1>2. ASSUME NEW s \in queryable, NEW files \in SUBSET WithImports(Declares[s]),
               FileContainingSymbol(s, files)
        PROVE  DiscoveryInv'
    <2>1. Declares[s] \in Files
      OBVIOUS
    <2>2. collected' \subseteq Files
      BY <2>1, OwnImports, <1>2 DEF FileContainingSymbol
    <2>3. \A r \in asked' : short' \/ WithImports(Declares[r]) \subseteq collected'
      <3> SUFFICES ASSUME NEW r \in asked' PROVE short' \/ WithImports(Declares[r]) \subseteq collected'
        OBVIOUS
      <3>1. CASE r = s
        BY <3>1, <1>2 DEF FileContainingSymbol
      <3>2. CASE r \in asked
        BY <3>2, <1>2 DEF FileContainingSymbol
      <3> QED BY <3>1, <3>2, <1>2 DEF FileContainingSymbol
    <2>4. short' \in BOOLEAN
      BY <1>2 DEF FileContainingSymbol
    <2> QED BY <2>2, <2>3, <2>4, <1>2 DEF FileContainingSymbol
  <1>3. ASSUME NEW s \in queryable, SymbolFails(s) PROVE DiscoveryInv'
    BY <1>3 DEF SymbolFails
  <1>4. ASSUME Assemble PROVE DiscoveryInv'
    <2>1. CASE Complete(collected)
      BY <2>1, <1>4 DEF Assemble, InPool, Complete
    <2>2. CASE ~Complete(collected)
      BY <2>2, <1>4 DEF Assemble
    <2> QED BY <2>1, <2>2
  <1> QED BY <1>1, <1>2, <1>3, <1>4 DEF DiscoveryNext

(* A discovery starts once; the window then calls with the pool it left.   *)
LEMMA DiscoveryStarts == DiscoveryInv /\ Discover => DiscoveryInv'
  BY DEF DiscoveryInv, Discover

LEMMA DiscoveryIsForgotten == DiscoveryOver => DiscoveryInv'
  BY DEF DiscoveryInv, DiscoveryOver

LEMMA DiscoveryKeeps == DiscoveryInv /\ UNCHANGED discovery => DiscoveryInv'
  BY DEF DiscoveryInv, discovery, Complete, InPool

LEMMA DiscoveryInvariant == DiscoveryInv /\ [Next]_vars => DiscoveryInv'
  <1> SUFFICES ASSUME DiscoveryInv, [Next]_vars PROVE DiscoveryInv'
    OBVIOUS
  <1>1. CASE DiscoveryNext
    BY <1>1, DiscoveryGoesOn
  <1>2. CASE Window
    <2>1. CASE Discover
      BY <2>1, DiscoveryStarts
    <2>2. CASE \E s \in Services, request \in {"good", "bad"} : GrpcConnect(s, request)
      BY <2>2, DiscoveryIsForgotten DEF GrpcConnect
    <2>3. CASE \E item \in {"good", "bad", "finish"} : GrpcSend(item)
      BY <2>3, DiscoveryKeeps DEF GrpcSend
    <2> QED BY <1>2, <2>1, <2>2, <2>3 DEF Window
  <1>3. CASE Server \/ Task \/ UNCHANGED vars
    <2>1. UNCHANGED discovery
      BY <1>3 DEF Server, ServerAnswers, ServerSends, ServerEnds, ServerResets, Task, vars,
         OpenFails, Opens, SendsRequest, ChecksHttpStatus, ReadsStatus, Incoming,
         ReceivesData, DeliversMessage, BodyEnds, Breaks, Writes, HalfCloses,
         WriteFails, TaskUnchanged
    <2> QED BY <2>1, DiscoveryKeeps
  <1> QED BY <1>1, <1>2, <1>3 DEF Next

LEMMA AssembledIsComplete == DiscoveryInv => DiscoveryIsComplete
  <1> SUFFICES ASSUME DiscoveryInv, stage = "done"
               PROVE  /\ \A s \in listed : WithImports(Declares[s]) \subseteq collected
                      /\ short \/ Services \subseteq listed
    BY DEF DiscoveryIsComplete
  <1> USE ReflectionAssumption DEF DiscoveryInv
  <1>1. ASSUME NEW s \in listed PROVE WithImports(Declares[s]) \subseteq collected
    BY PoolHasImports DEF InPool
  <1>2. ASSUME ~short, NEW s \in Services PROVE s \in listed
    BY <1>2, OwnImports DEF InPool
  <1> QED BY <1>1, <1>2

(* Whatever order the services are asked in, whatever the server leaves    *)
(* out as already sent and however its files import one another, a         *)
(* discovery that succeeds has every file of every service it lists        *)
(* (reflection.rs, discover_schema).                                       *)
THEOREM SchemaIsComplete == Spec => []DiscoveryIsComplete
  <1>1. Init => DiscoveryInv
    BY DiscoveryInitially DEF Init
  <1> QED BY <1>1, DiscoveryInvariant, AssembledIsComplete, PTL DEF Spec

-----------------------------------------------------------------------------
(* The call.                                                               *)

CallStates == {"idle", "connecting", "request", "headers", "reply", "status",
               "driving", "over"}
Codes == StatusValues \ {"none"}

(* The server's side, and which of its two places has the status. *)
ServerInv ==
    /\ sendingDone \in BOOLEAN
    /\ server \in [http : {"none", "200", "502"}, headers : StatusValues,
                   sent : Nat, over : {"no", "ended", "reset"},
                   trailers : StatusValues, last : BOOLEAN]
    /\ server.over = "no" => server.headers = "none" /\ server.trailers = "none"
    /\ server.headers = "none" \/ server.trailers = "none"
    /\ server.last => sendingDone

(* An open and the first n - 1 responses; nothing when n = 0.              *)
Opening(n) == [i \in 1..n |-> IF i = 1 THEN Event("open") ELSE Response(i - 1)]

(* The responses the task has taken off the stream so far. *)
Taken == IF events = <<>> THEN 0 ELSE Len(events) - 1

EndOf(k) == IF k = 0 THEN 0 ELSE Ends[k]

(* From the server to the window: the events are the first responses, then *)
(* come those framed but not delivered, then a stretch that holds no whole *)
(* response, then the DATA frames, one behind the other.                   *)
Flow ==
    /\ wire \in Seq([after : Nat, upto : Nat])
    /\ unframer \in [after : Nat, upto : Nat]
    /\ pending = [i \in 1..Len(pending) |-> Taken + i]
    /\ Len(pending) \in Nat
    /\ Taken + Len(pending) = WholeBy(unframer.upto)
    /\ unframer.after = EndOf(Taken + Len(pending))
    /\ \A j \in 1..Len(wire) :
         /\ wire[j].after = IF j = 1 THEN unframer.upto ELSE wire[j - 1].upto
         /\ wire[j].after <= wire[j].upto
         /\ wire[j].upto <= server.sent
    /\ unframer.upto <= server.sent
    /\ server.sent = IF wire = <<>> THEN unframer.upto ELSE wire[Len(wire)].upto

(* What excuses a call that ends with an error. *)
Excused == ~ /\ server.over = "ended" /\ server.last
             /\ server.http = "200"
             /\ \A m \in Undecodable : Ends[m] > server.sent
             /\ "junk" \notin {server.trailers, server.headers}

Code == ResolveCallStatus(server.trailers, server.headers)

EndsWithError ==
    \E n \in Nat : /\ events = Opening(n) \o <<Event("error")>>
                   /\ kind = "unary" => n <= 2
                   /\ Excused

EndsWithVerdict ==
    \E n \in Nat \ {0} :
        /\ events = Opening(n) \o <<Status(Code), Event("closed")>>
        /\ kind = "unary" => n <= 2
        /\ kind # "unary" => n - 1 = WholeBy(server.sent)
        /\ Code # "junk" /\ server.over = "ended"
        /\ server.http = "200" \/ kind # "unary"

(* What has been pushed, by the progress of the call. *)
Progress ==
    /\ call \in CallStates
    /\ kind \in Kinds
    /\ call \in {"idle", "connecting"} => events = <<>> /\ server.over = "no"
    /\ call \in {"idle", "connecting", "request"} => ~sendingDone
    /\ call \in {"request", "headers", "reply", "status"}
         => kind = "unary" /\ events = Opening(1)
    /\ call = "driving" => /\ kind # "unary"
                           /\ \E n \in Nat \ {0} : events = Opening(n)
    /\ call \in {"reply", "status"} => server.http = "200"
    /\ call = "status" => reply = <<Response(1)>>
    /\ call = "over" => EndsWithError \/ EndsWithVerdict

CallInv == /\ ServerInv
           /\ call \notin {"status", "over"} => Flow
           /\ Progress

-----------------------------------------------------------------------------
(* The responses in a stretch of the body.                                 *)

(* The responses whole in the first n units are the first WholeBy(n).      *)
LEMMA WholeIsAPrefix ==
    ASSUME NEW n \in Nat
    PROVE  /\ WholeBy(n) \in 0..Len(Ends)
           /\ \A m \in DOMAIN Ends : Ends[m] <= n <=> m <= WholeBy(n)
  <1> DEFINE D == {m \in DOMAIN Ends : Ends[m] <= n}
  <1>1. Len(Ends) \in Nat /\ DOMAIN Ends = 1..Len(Ends) /\ \A m \in DOMAIN Ends : Ends[m] \in Nat
    BY CallAssumption
  <1>2. IsFiniteSet(D) /\ Cardinality(D) \in Nat /\ Cardinality(D) <= Len(Ends)
    <2>0. ASSUME NEW k \in Nat PROVE IsFiniteSet(1..k) /\ Cardinality(1..k) = k
      BY FS_Interval
    <2>1. IsFiniteSet(1..Len(Ends)) /\ Cardinality(1..Len(Ends)) = Len(Ends)
      BY <1>1, <2>0
    <2> QED BY <2>1, <1>1, FS_Subset, FS_CardinalityType
  <1>3. ASSUME NEW m \in D PROVE m <= Cardinality(D)
    <2>1. ASSUME NEW k \in 1..m PROVE k \in D
      <3>1. k \in DOMAIN Ends /\ m \in DOMAIN Ends /\ Ends[m] <= n
        BY <1>1
      <3>2. k = m \/ Ends[k] < Ends[m]
        BY <3>1, <1>1, CallAssumption
      <3> QED BY <3>1, <3>2, <1>1
    <2>2. 1..m \subseteq D
      BY <2>1
    <2>3. Cardinality(1..m) = m
      BY <1>1, FS_Interval
    <2> QED BY <2>2, <2>3, <1>2, FS_Subset
  <1>4. D \subseteq 1..Cardinality(D)
    BY <1>1, <1>2, <1>3
  <1>5. D = 1..Cardinality(D)
    <2>1. IsFiniteSet(1..Cardinality(D)) /\ Cardinality(1..Cardinality(D)) = Cardinality(D)
      BY <1>2, FS_Interval
    <2> QED BY <2>1, <1>4, FS_Subset
  <1>6. WholeBy(n) = Cardinality(D)
    BY DEF WholeBy
  <1> HIDE DEF D
  <1>7. \A m \in DOMAIN Ends : Ends[m] <= n <=> m \in D
    BY DEF D
  <1> QED BY <1>1, <1>2, <1>5, <1>6, <1>7

LEMMA NothingIsWhole == WholeBy(0) = 0
  <1>1. WholeBy(0) \in 0..Len(Ends) /\ \A m \in DOMAIN Ends : Ends[m] <= 0 <=> m <= WholeBy(0)
    BY WholeIsAPrefix
  <1> QED BY <1>1, CallAssumption

LEMMA WholeGrows ==
    ASSUME NEW n \in Nat, NEW k \in Nat, n <= k
    PROVE  WholeBy(n) <= WholeBy(k)
  <1>1. /\ WholeBy(n) \in 0..Len(Ends) /\ \A m \in DOMAIN Ends : Ends[m] <= n <=> m <= WholeBy(n)
        /\ WholeBy(k) \in 0..Len(Ends) /\ \A m \in DOMAIN Ends : Ends[m] <= k <=> m <= WholeBy(k)
    BY WholeIsAPrefix
  <1> QED BY <1>1, CallAssumption

(* Up to the end of a response, that response and those before it have     *)
(* begun.                                                                  *)
LEMMA BegunByAnEnd ==
    ASSUME NEW k \in 0..Len(Ends)
    PROVE  BegunBy(EndOf(k)) = k
  <1> DEFINE D == {m \in DOMAIN Ends : Before(m) < EndOf(k)}
  <1>1. Len(Ends) \in Nat /\ DOMAIN Ends = 1..Len(Ends)
        /\ (\A m \in DOMAIN Ends : Ends[m] \in Nat /\ Ends[m] > 0)
        /\ \A m, j \in DOMAIN Ends : m < j => Ends[m] < Ends[j]
    BY CallAssumption
  <1>2. ASSUME NEW m \in DOMAIN Ends PROVE Before(m) < EndOf(k) <=> m <= k
    BY <1>1 DEF Before, EndOf
  <1>3. D = 1..k
    BY <1>1, <1>2
  <1>4. Cardinality(1..k) = k
    BY FS_Interval
  <1> QED BY <1>3, <1>4 DEF BegunBy

-----------------------------------------------------------------------------
(* Sequences of events.                                                    *)

AnyEvent == [type : {"open", "closed", "error"}]
              \union [type : {"status"}, code : StatusValues]
              \union [type : {"message"}, message : Nat]

LEMMA OpeningType ==
    \A n \in Nat : Opening(n) \in Seq(AnyEvent) /\ Len(Opening(n)) = n
  BY DEF Opening, AnyEvent, Event, Response

(* An opening goes on with an open or with the next response. *)
LEMMA OpeningGrows ==
    \A n \in Nat : /\ Opening(0) = <<>>
                   /\ Append(Opening(0), Event("open")) = Opening(1)
                   /\ n > 0 => Append(Opening(n), Response(n)) = Opening(n + 1)
  BY DEF Opening

-----------------------------------------------------------------------------
(* The server's side of the invariant.                                     *)

LEMMA ServerKeepsInv == ServerInv /\ Server => ServerInv'
  <1> SUFFICES ASSUME ServerInv, Server PROVE ServerInv'
    OBVIOUS
  <1> USE DEF ServerInv
  <1>1. CASE \E http \in {"200", "502"}, headers \in StatusValues, only \in BOOLEAN :
                ServerAnswers(http, headers, only)
    <2> PICK http \in {"200", "502"}, headers \in StatusValues, only \in BOOLEAN :
               ServerAnswers(http, headers, only)
      BY <1>1
    <2>1. /\ server.over = "no" /\ server.headers = "none" /\ server.trailers = "none"
          /\ only \/ headers = "none"
          /\ sendingDone' = sendingDone
      BY DEF ServerAnswers
    <2>2. server' = [server EXCEPT !.http = http, !.headers = headers,
                                   !.over = IF only THEN "ended" ELSE "no",
                                   !.last = sendingDone]
      BY DEF ServerAnswers
    <2> QED BY <2>1, <2>2 DEF StatusValues
  <1>2. CASE \E n \in 1..2 : ServerSends(n)
    BY <1>2 DEF ServerSends
  <1>3. CASE \E trailers \in StatusValues : ServerEnds(trailers)
    <2> PICK trailers \in StatusValues : ServerEnds(trailers)
      BY <1>3
    <2>1. server.over = "no" /\ server.headers = "none" /\ sendingDone' = sendingDone
      BY DEF ServerEnds
    <2>2. server' = [server EXCEPT !.over = "ended", !.trailers = trailers,
                                   !.last = sendingDone]
      BY DEF ServerEnds
    <2> QED BY <2>1, <2>2 DEF StatusValues
  <1>4. CASE ServerResets
    BY <1>4 DEF ServerResets
  <1> QED BY <1>1, <1>2, <1>3, <1>4 DEF Server

(* The request side is only ever closed, never opened again. *)
LEMMA ServerIsKept ==
    /\ ServerInv
    /\ UNCHANGED server
    /\ sendingDone' = sendingDone \/ sendingDone' = TRUE
    => ServerInv'
  BY DEF ServerInv

(* At most one of the two places has a status: it is the verdict. *)
LEMMA CodeIsTheServers ==
    ServerInv => /\ Code \in Codes
                 /\ LET said == {server.trailers, server.headers} \ {"none"}
                    IN  Code # "junk" => (Code = "ok" <=> "fail" \notin said)
                 /\ Code = "junk" => "junk" \in {server.trailers, server.headers}
  BY DEF ServerInv, Code, Codes, ResolveCallStatus, StatusFromHeaderMap, StatusValues

-----------------------------------------------------------------------------
(* The flow.                                                               *)

LEMMA FlowIsKept ==
    ASSUME Flow, UNCHANGED <<wire, unframer, pending>>,
           server.sent' = server.sent, Taken' = Taken
    PROVE  Flow'
  BY DEF Flow

(* The server's next DATA frame comes behind all the others. *)
LEMMA FlowGrows ==
    ASSUME Flow, NEW n \in 1..2, ServerSends(n), ServerInv
    PROVE  Flow'
  <1>1. /\ wire' = Append(wire, Stretch(server.sent, server.sent + n))
        /\ server' = [server EXCEPT !.sent = server.sent + n]
        /\ UNCHANGED <<unframer, pending, events>>
    BY DEF ServerSends
  <1>2. server.sent \in Nat /\ server'.sent = server.sent + n
    BY <1>1 DEF ServerInv
  <1>3. Taken' = Taken
    BY <1>1 DEF Taken
  <1>4. /\ wire \in Seq([after : Nat, upto : Nat])
        /\ Stretch(server.sent, server.sent + n) \in [after : Nat, upto : Nat]
        /\ Stretch(server.sent, server.sent + n).after = server.sent
        /\ Stretch(server.sent, server.sent + n).upto = server.sent + n
    BY <1>2 DEF Flow, Stretch
  <1>5. /\ wire' \in Seq([after : Nat, upto : Nat]) /\ Len(wire') = Len(wire) + 1
        /\ wire'[Len(wire) + 1] = Stretch(server.sent, server.sent + n)
        /\ \A j \in 1..Len(wire) : wire'[j] = wire[j]
        /\ Len(wire) \in Nat /\ wire' # <<>>
    BY <1>1, <1>4
  <1>6. ASSUME NEW j \in 1..Len(wire')
        PROVE  /\ wire'[j].after = IF j = 1 THEN unframer'.upto ELSE wire'[j - 1].upto
               /\ wire'[j].after <= wire'[j].upto
               /\ wire'[j].upto <= server'.sent
    <2>1. CASE j = Len(wire) + 1
      <3>1. wire'[j].after = server.sent /\ wire'[j].upto = server.sent + n
        BY <2>1, <1>4, <1>5
      <3>2. CASE wire = <<>>
        BY <3>1, <3>2, <2>1, <1>1, <1>2, <1>5 DEF Flow
      <3>3. CASE wire # <<>>
        <4>1. j # 1 /\ j - 1 = Len(wire) /\ wire'[j - 1] = wire[Len(wire)]
          BY <3>3, <2>1, <1>5
        <4>2. server.sent = wire[Len(wire)].upto
          BY <3>3 DEF Flow
        <4> QED BY <3>1, <4>1, <4>2, <1>2
      <3> QED BY <3>2, <3>3
    <2>2. CASE j \in 1..Len(wire)
      <3>1. wire'[j] = wire[j]
        BY <2>2, <1>5
      <3>2. j # 1 => j - 1 \in 1..Len(wire)
        BY <2>2, <1>5
      <3>3. j # 1 => wire'[j - 1] = wire[j - 1]
        BY <3>2, <1>5
      <3>4. wire[j] \in [after : Nat, upto : Nat]
        BY <2>2, <1>4, ElementOfSeq
      <3>5. /\ wire[j].after = IF j = 1 THEN unframer.upto ELSE wire[j - 1].upto
            /\ wire[j].after <= wire[j].upto
            /\ wire[j].upto <= server.sent
        BY <2>2 DEF Flow
      <3>6. wire[j].upto <= server'.sent
        BY <3>4, <3>5, <1>2
      <3> QED BY <3>1, <3>3, <3>5, <3>6, <1>1
    <2> QED BY <2>1, <2>2, <1>5
  <1>7. unframer'.upto <= server'.sent /\ unframer.upto \in Nat
    BY <1>1, <1>2 DEF Flow
  <1>8. server'.sent = wire'[Len(wire')].upto
    BY <1>2, <1>4, <1>5
  <1> HIDE DEF Stretch
  <1> QED BY <1>1, <1>2, <1>3, <1>5, <1>6, <1>7, <1>8 DEF Flow

(* What the unframer returns are the responses that have become whole, and *)
(* it keeps the one that has begun.                                        *)
LEMMA FeedIsWhole ==
    ASSUME NEW k \in Nat, NEW upto \in Nat, NEW buf, NEW chunk,
           k <= WholeBy(upto), buf.after = EndOf(k), chunk.upto = upto
    PROVE  LET fed == Feed(buf, chunk)
           IN  /\ fed.frames = [i \in 1..(WholeBy(upto) - k) |-> k + i]
               /\ fed.rest = Stretch(EndOf(WholeBy(upto)), upto)
  <1>1. WholeBy(upto) \in 0..Len(Ends) /\ Len(Ends) \in Nat
    BY WholeIsAPrefix, CallAssumption
  <1>2. BegunBy(EndOf(k)) = k
    BY <1>1, BegunByAnEnd
  <1> DEFINE frames == [i \in 1..(WholeBy(upto) - k) |-> k + i]
  <1>3. Frames(Stretch(buf.after, chunk.upto)) = frames
    BY <1>2 DEF Frames, Stretch
  <1>4. Len(frames) = WholeBy(upto) - k
    BY <1>1
  <1>5. CASE k = WholeBy(upto)
    <2>1. frames = <<>>
      BY <1>1, <1>5
    <2> QED BY <2>1, <1>3, <1>5 DEF Feed
  <1>6. CASE k < WholeBy(upto)
    <2>1. frames # <<>> /\ frames[WholeBy(upto) - k] = WholeBy(upto)
      BY <1>1, <1>6
    <2>2. Last(frames) = WholeBy(upto) /\ WholeBy(upto) # 0
      BY <2>1, <1>4, <1>6, <1>1 DEF Last
    <2> HIDE DEF frames
    <2> QED BY <2>1, <2>2, <1>3 DEF Feed, EndOf, frames
  <1> QED BY <1>1, <1>5, <1>6

LEMMA FlowIsUnframed ==
    ASSUME Flow, ReceivesData, ServerInv, Taken \in Nat
    PROVE  Flow'
  <1> DEFINE k == Taken
             first == Head(wire)
             fed == Feed(unframer, first)
  <1>1. /\ pending = <<>> /\ wire # <<>>
        /\ pending' = fed.frames /\ unframer' = fed.rest
        /\ wire' = Tail(wire)
        /\ UNCHANGED <<server, events>>
    BY DEF ReceivesData, TaskUnchanged
  <1>2. Taken' = k
    BY <1>1 DEF Taken
  <1>3. /\ wire \in Seq([after : Nat, upto : Nat]) /\ Len(wire) \in Nat /\ Len(wire) > 0
        /\ first = wire[1] /\ first \in [after : Nat, upto : Nat]
    <2>1. wire \in Seq([after : Nat, upto : Nat])
      BY DEF Flow
    <2>2. Len(wire) \in Nat /\ Len(wire) > 0 /\ first = wire[1]
      BY <2>1, <1>1, EmptySeq
    <2>3. wire[1] \in [after : Nat, upto : Nat]
      <3>1. 1 \in 1..Len(wire)
        BY <2>2
      <3> QED BY <2>1, <3>1, ElementOfSeq
    <2> QED BY <2>1, <2>2, <2>3
  <1>4. /\ first.after = unframer.upto /\ first.after <= first.upto
        /\ first.upto <= server.sent
        /\ first.upto \in Nat /\ unframer.upto \in Nat
    <2>1. 1 \in 1..Len(wire)
      BY <1>3
    <2>2. /\ wire[1].after = unframer.upto /\ wire[1].after <= wire[1].upto
          /\ wire[1].upto <= server.sent /\ unframer.upto \in Nat
      BY <2>1 DEF Flow
    <2> HIDE DEF first
    <2> QED BY <2>2, <1>3
  <1>5. k = WholeBy(unframer.upto) /\ unframer.after = EndOf(k)
    BY <1>1 DEF Flow
  <1> DEFINE upto == first.upto
  <1>6. k <= WholeBy(upto) /\ WholeBy(upto) \in Nat
    <2>1. WholeBy(unframer.upto) <= WholeBy(upto)
      <3>1. upto \in Nat /\ unframer.upto \in Nat /\ unframer.upto <= upto
        BY <1>4
      <3> HIDE DEF upto
      <3> QED BY <3>1, WholeGrows
    <2>2. WholeBy(upto) \in 0..Len(Ends)
      <3>1. upto \in Nat
        BY <1>4
      <3> HIDE DEF upto
      <3> QED BY <3>1, WholeIsAPrefix
    <2>3. Len(Ends) \in Nat
      BY CallAssumption
    <2> HIDE DEF upto, k
    <2> QED BY <2>1, <2>2, <2>3, <1>5
  <1>7. /\ fed.frames = [i \in 1..(WholeBy(upto) - k) |-> k + i]
        /\ fed.rest = Stretch(EndOf(WholeBy(upto)), upto)
    BY <1>4, <1>5, <1>6, FeedIsWhole
  <1> HIDE DEF fed, k, upto, first
  <1>8. /\ Len(pending') = WholeBy(upto) - k
        /\ pending' = [i \in 1..Len(pending') |-> Taken' + i]
        /\ Len(pending') \in Nat /\ Taken' + Len(pending') = WholeBy(upto)
    BY <1>1, <1>2, <1>6, <1>7 DEF k
  <1>9. /\ unframer'.after = EndOf(WholeBy(upto)) /\ unframer'.upto = upto
        /\ unframer' \in [after : Nat, upto : Nat]
    <2>1. EndOf(WholeBy(upto)) \in Nat
      BY <1>4, WholeIsAPrefix, CallAssumption DEF EndOf, upto
    <2> QED BY <2>1, <1>1, <1>4, <1>7 DEF Stretch, upto
  <1>10. /\ wire' \in Seq([after : Nat, upto : Nat]) /\ Len(wire') = Len(wire) - 1
         /\ \A j \in 1..Len(wire') : wire'[j] = wire[j + 1]
    BY <1>1, <1>3, HeadTailProperties
  <1>11. ASSUME NEW j \in 1..Len(wire')
         PROVE  /\ wire'[j].after = IF j = 1 THEN unframer'.upto ELSE wire'[j - 1].upto
                /\ wire'[j].after <= wire'[j].upto
                /\ wire'[j].upto <= server'.sent
    <2>1. j + 1 \in 1..Len(wire) /\ j + 1 # 1 /\ (j + 1) - 1 = j
      BY <1>3, <1>10
    <2>2. /\ wire[j + 1].after = wire[j].upto
          /\ wire[j + 1].after <= wire[j + 1].upto
          /\ wire[j + 1].upto <= server.sent
      BY <2>1 DEF Flow
    <2>3. wire'[j] = wire[j + 1]
      BY <1>10
    <2>4. CASE j = 1
      BY <2>2, <2>3, <2>4, <1>1, <1>3, <1>9 DEF upto, first
    <2>5. CASE j # 1
      <3>1. j - 1 \in 1..Len(wire') /\ (j - 1) + 1 = j
        BY <2>5, <1>3, <1>10
      <3>2. wire'[j - 1] = wire[j]
        BY <3>1, <1>10
      <3> QED BY <2>2, <2>3, <2>5, <3>2, <1>1
    <2> QED BY <2>4, <2>5
  <1>12. server'.sent = IF wire' = <<>> THEN unframer'.upto ELSE wire'[Len(wire')].upto
    <2>1. server.sent = wire[Len(wire)].upto
      BY <1>1 DEF Flow
    <2>2. CASE Len(wire) = 1
      <3>1. wire' = <<>>
        BY <2>2, <1>10, EmptySeq
      <3> QED BY <3>1, <2>1, <2>2, <1>1, <1>3, <1>9 DEF upto, first
    <2>3. CASE Len(wire) > 1
      <3>1. Len(wire') \in 1..Len(wire') /\ Len(wire') + 1 = Len(wire) /\ wire' # <<>>
        BY <2>3, <1>3, <1>10
      <3> QED BY <3>1, <2>1, <1>1, <1>10
    <2>4. Len(wire) = 1 \/ Len(wire) > 1
      <3>1. Len(wire) \in Nat /\ Len(wire) > 0
        BY <1>3, Zenon
      <3>2. \A n \in Nat : n > 0 => n = 1 \/ n > 1
        OBVIOUS
      <3> QED BY <3>1, <3>2, Zenon
    <2> QED BY <2>2, <2>3, <2>4
  <1> QED BY <1>1, <1>4, <1>8, <1>9, <1>10, <1>11, <1>12 DEF Flow, upto

(* The window has one more response, and the pending ones are one fewer.   *)
LEMMA FlowIsTaken ==
    ASSUME Flow, pending # <<>>, pending' = Tail(pending), Taken \in Nat,
           Taken' = Taken + 1, UNCHANGED <<wire, unframer, server>>
    PROVE  Flow'
  <1>1. pending = [i \in 1..Len(pending) |-> Taken + i] /\ Len(pending) \in Nat
    BY DEF Flow
  <1>2. pending \in Seq(Nat) /\ Len(pending) > 0
    BY <1>1
  <1>3. /\ Len(pending') = Len(pending) - 1
        /\ pending' = [i \in 1..Len(pending') |-> Taken' + i]
    <2>1. /\ pending' \in Seq(Nat) /\ Len(pending') = Len(pending) - 1
          /\ \A i \in 1..Len(pending') : pending'[i] = pending[i + 1]
      BY <1>2, HeadTailProperties
    <2>2. ASSUME NEW i \in 1..Len(pending') PROVE pending'[i] = Taken' + i
      BY <2>1, <1>1, <1>2
    <2>3. pending' = [i \in 1..Len(pending') |-> pending'[i]]
      BY <2>1, LenProperties
    <2> QED BY <2>1, <2>2, <2>3
  <1>4. Taken' + Len(pending') = Taken + Len(pending)
    BY <1>1, <1>3
  <1> QED BY <1>1, <1>2, <1>3, <1>4 DEF Flow

(* What is delivered is the next response, and it came whole. *)
LEMMA NextResponse ==
    ASSUME Flow, pending # <<>>, Taken \in Nat, ServerInv
    PROVE  /\ Head(pending) = Taken + 1
           /\ Head(pending) \in DOMAIN Ends
           /\ Ends[Head(pending)] <= server.sent
  <1>1. /\ pending = [i \in 1..Len(pending) |-> Taken + i] /\ Len(pending) \in Nat
        /\ Taken + Len(pending) = WholeBy(unframer.upto)
        /\ unframer.upto \in Nat /\ unframer.upto <= server.sent
        /\ server.sent \in Nat
    BY DEF Flow, ServerInv
  <1>2. Len(pending) > 0 /\ Head(pending) = Taken + 1
    BY <1>1
  <1>3. /\ WholeBy(unframer.upto) \in 0..Len(Ends) /\ Len(Ends) \in Nat
        /\ \A m \in DOMAIN Ends : Ends[m] <= unframer.upto <=> m <= WholeBy(unframer.upto)
        /\ DOMAIN Ends = 1..Len(Ends) /\ \A m \in DOMAIN Ends : Ends[m] \in Nat
    <2>1. unframer.upto \in Nat
      BY <1>1
    <2>2. Len(Ends) \in Nat /\ DOMAIN Ends = 1..Len(Ends) /\ \A m \in DOMAIN Ends : Ends[m] \in Nat
      BY CallAssumption
    <2> HIDE DEF WholeBy
    <2> QED BY <2>1, <2>2, WholeIsAPrefix, Zenon
  <1>4. Taken + 1 \in DOMAIN Ends /\ Taken + 1 <= WholeBy(unframer.upto)
    BY <1>1, <1>2, <1>3
  <1>5. Ends[Taken + 1] <= unframer.upto /\ Ends[Taken + 1] \in Nat
    BY <1>3, <1>4
  <1> QED BY <1>1, <1>2, <1>4, <1>5

-----------------------------------------------------------------------------
(* The call.                                                               *)

(* While a call goes on, its events are an opening.                        *)
LEMMA EventsAreAnOpening ==
    ASSUME Progress, call # "over"
    PROVE  \E n \in Nat : /\ events = Opening(n) /\ Len(events) = n
                          /\ kind = "unary" => n <= 1
                          /\ Taken = IF n = 0 THEN 0 ELSE n - 1
                          /\ Taken \in Nat
                          /\ call \notin {"idle", "connecting"} => n > 0
  <1>1. PICK n \in Nat : /\ events = Opening(n)
                         /\ kind = "unary" => n <= 1
                         /\ call \notin {"idle", "connecting"} => n > 0
    <2>1. CASE call \in {"idle", "connecting"}
      <3>1. events = Opening(0)
        BY <2>1, OpeningGrows DEF Progress
      <3> QED BY <2>1, <3>1
    <2>2. CASE call \in {"request", "headers", "reply", "status"}
      BY <2>2 DEF Progress
    <2>3. CASE call = "driving"
      BY <2>3 DEF Progress
    <2> QED BY <2>1, <2>2, <2>3 DEF Progress, CallStates
  <1>2. Len(events) = n
    BY <1>1, OpeningType
  <1>3. events = <<>> <=> n = 0
    BY <1>1, <1>2, OpeningGrows
  <1> QED BY <1>1, <1>2, <1>3 DEF Taken

(* An error ends a call, once there is an excuse for it. *)
LEMMA EndsInError ==
    ASSUME CallInv, call # "over", Excused, Finish(<<Event("error")>>),
           UNCHANGED <<kind, server, sendingDone>>
    PROVE  CallInv'
  <1>1. PICK n \in Nat : /\ events = Opening(n)
                         /\ kind = "unary" => n <= 1
    BY EventsAreAnOpening DEF CallInv
  <1>2. /\ events' = Opening(n) \o <<Event("error")>>
        /\ kind' = "unary" => n <= 2
        /\ Excused'
    BY <1>1 DEF Finish, Excused
  <1>3. EndsWithError'
    BY <1>2 DEF EndsWithError
  <1>4. ServerInv'
    BY ServerIsKept DEF CallInv
  <1> QED BY <1>3, <1>4 DEF CallInv, Progress, Finish, CallStates

(* A verdict ends a call, behind what has been pushed so far. *)
LEMMA EndsInVerdict ==
    ASSUME CallInv, call # "over", server.over = "ended", Code # "junk",
           server.http = "200" \/ kind # "unary",
           NEW n \in Nat \ {0},
           events' = Opening(n) \o <<Status(Code), Event("closed")>>,
           kind = "unary" => n <= 2,
           kind # "unary" => n - 1 = WholeBy(server.sent),
           call' = "over", UNCHANGED <<kind, server, sendingDone>>
    PROVE  CallInv'
  <1>1. Code' = Code
    BY DEF Code
  <1>2. EndsWithVerdict'
    BY <1>1 DEF EndsWithVerdict
  <1>3. ServerInv'
    BY ServerIsKept DEF CallInv
  <1> QED BY <1>2, <1>3 DEF CallInv, Progress, CallStates

LEMMA CallIsKept ==
    ASSUME CallInv, UNCHANGED <<call, kind, server, wire, unframer, pending,
                                reply, sendingDone, events>>
    PROVE  CallInv'
  <1>1. ServerInv'
    BY ServerIsKept DEF CallInv
  <1>2. call' \notin {"status", "over"} => Flow'
    <2>1. Taken' = Taken
      BY DEF Taken
    <2> QED BY <2>1, FlowIsKept DEF CallInv
  <1>3. Progress'
    BY DEF CallInv, Progress, EndsWithError, EndsWithVerdict, Excused, Code
  <1> QED BY <1>1, <1>2, <1>3 DEF CallInv

LEMMA CallInitially == Init => CallInv
  <1> SUFFICES ASSUME Init PROVE CallInv
    OBVIOUS
  <1>1. ServerInv
    BY DEF Init, ServerInv, StatusValues
  <1>2. Flow
    <2>1. Taken = 0 /\ EndOf(0) = 0
      BY DEF Init, Taken, EndOf
    <2>2. Stretch(0, 0) \in [after : Nat, upto : Nat]
      BY DEF Stretch
    <2>3. pending = <<>> /\ Len(pending) = 0 /\ wire = <<>> /\ server.sent = 0
          /\ unframer = Stretch(0, 0) /\ unframer.upto = 0 /\ unframer.after = 0
      BY DEF Init, Stretch
    <2> QED BY <2>1, <2>2, <2>3, NothingIsWhole DEF Flow
  <1>3. Progress
    BY DEF Init, Progress, CallStates, Kinds
  <1> QED BY <1>1, <1>2, <1>3 DEF CallInv

LEMMA ServerKeepsCall ==
    ASSUME CallInv, Server
    PROVE  CallInv'
  <1>1. /\ Reached
        /\ UNCHANGED <<call, kind, unframer, pending, reply, sendingDone, events>>
    BY DEF Server, ServerAnswers, ServerSends, ServerEnds, ServerResets
  <1>2. ServerInv'
    BY ServerKeepsInv DEF CallInv
  <1>3. call \notin {"status", "over"} => Flow'
    <2> SUFFICES ASSUME call \notin {"status", "over"} PROVE Flow'
      OBVIOUS
    <2>1. Flow /\ ServerInv /\ Taken' = Taken
      BY <1>1 DEF CallInv, Taken
    <2>2. CASE \E n \in 1..2 : ServerSends(n)
      BY <2>1, <2>2, FlowGrows
    <2>3. CASE server'.sent = server.sent /\ wire' = wire
      BY <2>1, <2>3, <1>1, FlowIsKept
    <2>4. (\E n \in 1..2 : ServerSends(n)) \/ (server'.sent = server.sent /\ wire' = wire)
      BY <2>1 DEF Server, ServerAnswers, ServerEnds, ServerResets, ServerInv
    <2> QED BY <2>2, <2>3, <2>4
  <1>4. server.http = "200" => server'.http = "200"
    BY DEF Server, ServerAnswers, ServerSends, ServerEnds, ServerResets, CallInv, ServerInv
  <1>5. Progress'
    BY <1>1, <1>4 DEF CallInv, Progress, Reached
  <1> QED BY <1>1, <1>2, <1>3, <1>5 DEF CallInv

LEMMA WindowKeepsCall ==
    ASSUME CallInv, Window
    PROVE  CallInv'
  <1>1. CASE Discover
    BY <1>1, CallIsKept DEF Discover, callVars
  <1>2. CASE \E s \in Services, request \in {"good", "bad"} : GrpcConnect(s, request)
    <2>1. /\ call = "idle" /\ call' = "connecting" /\ kind' \in Kinds
          /\ UNCHANGED <<server, wire, unframer, pending, reply, sendingDone, events>>
      BY <1>2, CallAssumption DEF GrpcConnect
    <2>2. ServerInv'
      BY <2>1, ServerIsKept DEF CallInv
    <2>3. Flow'
      <3>1. Flow /\ Taken' = Taken
        BY <2>1 DEF CallInv, Taken
      <3> QED BY <3>1, <2>1, FlowIsKept
    <2>4. Progress'
      BY <2>1 DEF CallInv, Progress, CallStates
    <2> QED BY <2>1, <2>2, <2>3, <2>4 DEF CallInv
  <1>3. CASE \E item \in {"good", "bad", "finish"} : GrpcSend(item)
    BY <1>3, CallIsKept DEF GrpcSend
  <1> QED BY <1>1, <1>2, <1>3 DEF Window

LEMMA OpensKeeps ==
    ASSUME CallInv, Opens
    PROVE  CallInv'
  <1>1. /\ call = "connecting" /\ events = <<>> /\ ~sendingDone
        /\ call' = IF kind = "unary" THEN "request" ELSE "driving"
        /\ events' = Append(<<>>, Event("open"))
        /\ UNCHANGED <<kind, server, wire, unframer, pending, reply, sendingDone>>
    BY DEF CallInv, Progress, Opens, TaskUnchanged
  <1>2. events' = Opening(1) /\ Len(events') = 1 /\ events' # <<>>
    <2>1. 0 \in Nat /\ 1 \in Nat
      OBVIOUS
    <2>2. events' = Opening(1) /\ Len(Opening(1)) = 1
      BY <2>1, <1>1, OpeningGrows, OpeningType, Zenon
    <2>3. Len(<<>>) # 1
      OBVIOUS
    <2> QED BY <2>2, <2>3, Zenon
  <1>3. ServerInv'
    BY <1>1, ServerIsKept DEF CallInv
  <1>4. Flow'
    <2>1. Taken' = Taken
      BY <1>1, <1>2 DEF Taken
    <2>2. Flow /\ server.sent' = server.sent
      BY <1>1 DEF CallInv
    <2> QED BY <2>1, <2>2, <1>1, FlowIsKept
  <1>5. Progress'
    <2>1. 1 \in Nat \ {0}
      OBVIOUS
    <2>2. CASE kind = "unary"
      BY <2>2, <1>1, <1>2 DEF CallInv, Progress, CallStates
    <2>3. CASE kind # "unary"
      <3>1. \E n \in Nat \ {0} : events' = Opening(n)
        BY <2>1, <1>2
      <3> QED BY <3>1, <2>3, <1>1 DEF CallInv, Progress, CallStates
    <2> QED BY <2>2, <2>3
  <1> QED BY <1>3, <1>4, <1>5 DEF CallInv

(* A step of the task before any response: the request is sent, or fails.  *)
LEMMA UnaryStarts ==
    ASSUME CallInv, OpenFails \/ SendsRequest \/ ChecksHttpStatus
    PROVE  CallInv'
  <1>1. CASE OpenFails
    <2>1. Excused /\ call # "over"
      BY <1>1 DEF OpenFails, CallInv, Progress, Excused
    <2> QED BY <2>1, <1>1, EndsInError DEF OpenFails, TaskUnchanged
  <1>2. CASE SendsRequest
    <2>1. /\ call = "request" /\ ~sendingDone
          /\ UNCHANGED <<kind, server, wire, unframer, pending, reply>>
      BY <1>2 DEF SendsRequest, TaskUnchanged, CallInv, Progress
    <2>2. CASE call' = "headers" /\ sendingDone' = TRUE /\ UNCHANGED events
      <3>1. ServerInv'
        BY <2>1, <2>2, ServerIsKept DEF CallInv
      <3>2. Flow'
        <4>1. Flow /\ Taken' = Taken /\ server.sent' = server.sent
          BY <2>1, <2>2 DEF CallInv, Taken
        <4> QED BY <4>1, <2>1, FlowIsKept
      <3>3. Progress'
        BY <2>1, <2>2 DEF CallInv, Progress, CallStates
      <3> QED BY <3>1, <3>2, <3>3 DEF CallInv
    <2>3. CASE Finish(<<Event("error")>>) /\ UNCHANGED sendingDone
      <3>1. Excused
        BY <2>1 DEF CallInv, ServerInv, Excused
      <3> QED BY <3>1, <2>1, <2>3, EndsInError
    <2> QED BY <2>2, <2>3, <1>2 DEF SendsRequest
  <1>3. CASE ChecksHttpStatus
    <2>1. /\ call = "headers"
          /\ UNCHANGED <<kind, server, wire, unframer, pending, reply, sendingDone>>
      BY <1>3 DEF ChecksHttpStatus, TaskUnchanged
    <2>2. CASE call' = "reply" /\ server.http = "200" /\ UNCHANGED events
      <3>1. ServerInv'
        BY <2>1, ServerIsKept DEF CallInv
      <3>2. Flow'
        <4>1. Flow /\ Taken' = Taken /\ server.sent' = server.sent
          BY <2>1, <2>2 DEF CallInv, Taken
        <4> QED BY <4>1, <2>1, FlowIsKept
      <3>3. Progress'
        BY <2>1, <2>2 DEF CallInv, Progress, CallStates
      <3> QED BY <3>1, <3>2, <3>3 DEF CallInv
    <2>3. CASE server.http # "200" /\ Finish(<<Event("error")>>)
      <3>1. Excused
        BY <2>3 DEF Excused
      <3> QED BY <3>1, <2>1, <2>3, EndsInError
    <2> QED BY <2>2, <2>3, <1>3 DEF ChecksHttpStatus
  <1> QED BY <1>1, <1>2, <1>3

(* The two ways a task waits for the stream have their flow. *)
LEMMA ReceivingFlows ==
    ASSUME CallInv, Receiving
    PROVE  /\ Flow /\ ServerInv /\ Taken \in Nat
           /\ call \in {"driving", "reply"}
           /\ \E n \in Nat \ {0} : /\ events = Opening(n) /\ Taken = n - 1
                                   /\ kind = "unary" => n = 1
           /\ call = "reply" <=> kind = "unary"
           /\ kind = "unary" => server.http = "200"
  <1>1. call \in {"driving", "reply"}
    BY DEF Receiving
  <1>2. Flow /\ ServerInv /\ Progress
    BY <1>1 DEF CallInv
  <1>3. PICK n \in Nat : /\ events = Opening(n)
                         /\ kind = "unary" => n <= 1
                         /\ Taken = IF n = 0 THEN 0 ELSE n - 1
                         /\ Taken \in Nat
                         /\ call \notin {"idle", "connecting"} => n > 0
    BY <1>1, <1>2, EventsAreAnOpening
  <1>4. n \in Nat \ {0} /\ Taken = n - 1 /\ (kind = "unary" => n = 1)
    BY <1>1, <1>3
  <1>5. (call = "reply" <=> kind = "unary") /\ (kind = "unary" => server.http = "200")
    BY <1>1, <1>2 DEF Progress
  <1> QED BY <1>1, <1>2, <1>3, <1>4, <1>5

LEMMA ReceivesDataKeeps ==
    ASSUME CallInv, ReceivesData
    PROVE  CallInv'
  <1>1. Receiving /\ UNCHANGED <<call, kind, server, reply, sendingDone, events>>
    BY DEF ReceivesData, TaskUnchanged
  <1>2. ServerInv'
    BY <1>1, ServerIsKept DEF CallInv
  <1>3. Flow'
    BY <1>1, ReceivingFlows, FlowIsUnframed
  <1>4. Progress'
    BY <1>1 DEF CallInv, Progress, Receiving
  <1> QED BY <1>2, <1>3, <1>4 DEF CallInv

LEMMA DeliversMessageKeeps ==
    ASSUME CallInv, DeliversMessage
    PROVE  CallInv'
  <1> DEFINE m == Head(pending)
  <1>1. /\ Receiving /\ pending # <<>> /\ pending' = Tail(pending)
        /\ UNCHANGED <<kind, server, wire, unframer, sendingDone>>
    BY DEF DeliversMessage, TaskUnchanged
  <1>2. /\ Flow /\ ServerInv /\ Taken \in Nat
        /\ call \in {"driving", "reply"}
        /\ call = "reply" <=> kind = "unary"
        /\ kind = "unary" => server.http = "200"
    BY <1>1, ReceivingFlows
  <1>3. PICK n \in Nat \ {0} : /\ events = Opening(n) /\ Taken = n - 1
                               /\ kind = "unary" => n = 1
    BY <1>1, ReceivingFlows
  <1>4. m = n /\ m \in DOMAIN Ends /\ Ends[m] <= server.sent
    BY <1>1, <1>2, <1>3, NextResponse
  <1>5. ServerInv'
    BY <1>1, <1>2, ServerIsKept
  <1> HIDE DEF m
  <1>6. CASE m \in Undecodable /\ Finish(<<Event("error")>>)
    <2>1. Excused
      <3>1. server.sent \in Nat /\ Ends[m] \in Nat
        BY <1>2, <1>4, CallAssumption DEF ServerInv
      <3> QED BY <1>4, <1>6, <3>1 DEF Excused
    <2> QED BY <2>1, <1>1, <1>2, <1>6, EndsInError
  <1>7. CASE /\ kind = "unary" /\ reply' = <<Response(m)>>
             /\ call' = "status" /\ UNCHANGED events
    <2>1. Progress'
      <3>1. server'.http = "200"
        BY <1>1, <1>2, <1>7
      <3>2. call' = "status" /\ kind' = "unary" /\ "unary" \in Kinds
        BY <1>1, <1>7 DEF Kinds
      <3>3. events' = Opening(1) /\ reply' = <<Response(1)>>
        BY <1>3, <1>4, <1>7
      <3> QED BY <3>1, <3>2, <3>3 DEF Progress, CallStates
    <2> QED BY <2>1, <1>5, <1>7 DEF CallInv
  <1>8. CASE /\ kind # "unary" /\ events' = Append(events, Response(m))
             /\ UNCHANGED <<call, reply>>
    <2>1. events' = Opening(n + 1) /\ n + 1 \in Nat \ {0}
      <3>1. n > 0 /\ n \in Nat /\ n + 1 \in Nat \ {0}
        OBVIOUS
      <3> QED BY <3>1, <1>3, <1>4, <1>8, OpeningGrows, Zenon
    <2>2. Taken' = Taken + 1
      <3>1. Len(events') = n + 1 /\ events' # <<>>
        BY <2>1, OpeningType, OpeningGrows
      <3> QED BY <3>1, <1>3 DEF Taken
    <2>3. Flow'
      BY <1>1, <1>2, <2>2, FlowIsTaken
    <2>4. Progress'
      BY <2>1, <1>1, <1>2, <1>8 DEF CallInv, Progress, CallStates
    <2> QED BY <2>3, <2>4, <1>5 DEF CallInv
  <1> QED BY <1>6, <1>7, <1>8 DEF DeliversMessage, m

LEMMA BodyEndsKeeps ==
    ASSUME CallInv, BodyEnds
    PROVE  CallInv'
  <1>1. /\ Receiving /\ pending = <<>> /\ wire = <<>> /\ server.over = "ended"
        /\ events' = events \o Verdict(Code) /\ call' = "over"
        /\ UNCHANGED <<kind, server, sendingDone>>
    BY DEF BodyEnds, TaskUnchanged, Finish, Code
  <1>2. /\ Flow /\ ServerInv /\ Taken \in Nat
        /\ call \in {"driving", "reply"}
    BY <1>1, ReceivingFlows
  <1>3. PICK n \in Nat \ {0} : /\ events = Opening(n) /\ Taken = n - 1
                               /\ kind = "unary" => n = 1
    BY <1>1, ReceivingFlows
  <1>4. CASE Code = "junk"
    <2>1. Excused
      BY <1>2, <1>4, CodeIsTheServers DEF Excused
    <2>2. Finish(<<Event("error")>>)
      BY <1>1, <1>4 DEF Verdict, Finish
    <2> QED BY <2>1, <2>2, <1>1, <1>2, EndsInError
  <1>5. CASE Code # "junk"
    <2>1. n - 1 = WholeBy(server.sent)
      BY <1>1, <1>2, <1>3 DEF Flow
    <2>2. events' = Opening(n) \o <<Status(Code), Event("closed")>>
      BY <1>1, <1>3, <1>5 DEF Verdict
    <2>3. /\ kind = "unary" => n <= 2
          /\ server.http = "200" \/ kind # "unary"
      BY <1>1, <1>3, ReceivingFlows
    <2> QED BY <2>1, <2>2, <2>3, <1>1, <1>2, <1>5, EndsInVerdict
  <1> QED BY <1>4, <1>5

LEMMA ReadsStatusKeeps ==
    ASSUME CallInv, ReadsStatus
    PROVE  CallInv'
  <1>1. /\ call = "status" /\ server.over = "ended" /\ call' = "over"
        /\ events' = events \o ((IF Code = "junk" THEN <<>> ELSE reply) \o Verdict(Code))
        /\ UNCHANGED <<kind, server, sendingDone>>
    BY DEF ReadsStatus, TaskUnchanged, Finish, Code
  <1>2. /\ ServerInv /\ kind = "unary" /\ server.http = "200"
        /\ events = Opening(1) /\ reply = <<Response(1)>>
    BY <1>1 DEF CallInv, Progress
  <1>3. CASE Code = "junk"
    <2>1. Excused
      BY <1>2, <1>3, CodeIsTheServers DEF Excused
    <2>2. Finish(<<Event("error")>>)
      BY <1>1, <1>3 DEF Verdict, Finish
    <2> QED BY <2>1, <2>2, <1>1, EndsInError
  <1>4. CASE Code # "junk"
    <2>1. events' = Opening(1) \o (<<Response(1)>> \o <<Status(Code), Event("closed")>>)
      BY <1>1, <1>2, <1>4 DEF Verdict
    <2>2. events' = Opening(2) \o <<Status(Code), Event("closed")>>
      BY <2>1 DEF Opening
    <2>3. /\ 2 \in Nat \ {0} /\ (kind = "unary" => 2 <= 2) /\ ~(kind # "unary")
          /\ server.http = "200" \/ kind # "unary"
      BY <1>2
    <2> QED BY <2>2, <2>3, <1>1, <1>4, EndsInVerdict, Zenon
  <1> QED BY <1>3, <1>4

LEMMA OutgoingKeeps ==
    ASSUME CallInv, Writes \/ HalfCloses \/ WriteFails
    PROVE  CallInv'
  <1>1. CASE Writes
    BY <1>1, CallIsKept DEF Writes, TaskUnchanged
  <1>2. CASE HalfCloses
    <2>1. /\ call = "driving" /\ sendingDone' = TRUE
          /\ UNCHANGED <<call, kind, server, wire, unframer, pending, reply, events>>
      BY <1>2 DEF HalfCloses, Outgoing, TaskUnchanged
    <2>2. ServerInv'
      BY <2>1, ServerIsKept DEF CallInv
    <2>3. Flow'
      <3>1. Flow /\ Taken' = Taken /\ server.sent' = server.sent
        BY <2>1 DEF CallInv, Taken
      <3> QED BY <3>1, <2>1, FlowIsKept
    <2>4. Progress'
      BY <2>1 DEF CallInv, Progress
    <2> QED BY <2>2, <2>3, <2>4 DEF CallInv
  <1>3. CASE WriteFails
    <2>1. call = "driving" /\ ~sendingDone /\ Finish(<<Event("error")>>)
          /\ UNCHANGED <<kind, server, sendingDone>>
      BY <1>3 DEF WriteFails, Outgoing, TaskUnchanged
    <2>2. Excused
      BY <2>1 DEF CallInv, ServerInv, Excused
    <2> QED BY <2>1, <2>2, EndsInError
  <1> QED BY <1>1, <1>2, <1>3

LEMMA BreaksKeeps ==
    ASSUME CallInv, Breaks
    PROVE  CallInv'
  <1>1. /\ call # "over" /\ Finish(<<Event("error")>>) /\ server.over = "reset"
        /\ UNCHANGED <<kind, server, sendingDone>>
    BY DEF Breaks, TaskUnchanged
  <1>2. Excused
    BY <1>1 DEF Excused
  <1> QED BY <1>1, <1>2, EndsInError

LEMMA CallInvariant == CallInv /\ [Next]_vars => CallInv'
  <1> SUFFICES ASSUME CallInv, [Next]_vars PROVE CallInv'
    OBVIOUS
  <1>1. CASE DiscoveryNext /\ UNCHANGED callVars
    BY <1>1, CallIsKept DEF callVars
  <1>2. CASE UNCHANGED vars
    BY <1>2, CallIsKept DEF vars, callVars
  <1>3. CASE Window
    BY <1>3, WindowKeepsCall
  <1>4. CASE Server
    BY <1>4, ServerKeepsCall
  <1>5. CASE Task
    BY <1>5, OpensKeeps, UnaryStarts, ReceivesDataKeeps, DeliversMessageKeeps,
       BodyEndsKeeps, ReadsStatusKeeps, OutgoingKeeps, BreaksKeeps DEF Task, Incoming
  <1> QED BY <1>1, <1>2, <1>3, <1>4, <1>5 DEF Next

-----------------------------------------------------------------------------
(* What the invariant says of the events, one by one.                      *)

LEMMA EventOfOpening ==
    ASSUME NEW n \in Nat, NEW i \in 1..n
    PROVE  Opening(n)[i] = IF i = 1 THEN Event("open") ELSE Response(i - 1)
  BY DEF Opening

LEMMA EventsWithError ==
    ASSUME NEW es, NEW n \in Nat, es = Opening(n) \o <<Event("error")>>
    PROVE  /\ Len(es) = n + 1 /\ DOMAIN es = 1..(n + 1)
           /\ \A i \in 1..n : es[i] = IF i = 1 THEN Event("open") ELSE Response(i - 1)
           /\ es[n + 1] = Event("error")
  <1>1. /\ Opening(n) \in Seq(AnyEvent) /\ Len(Opening(n)) = n
        /\ <<Event("error")>> \in Seq(AnyEvent)
    BY OpeningType DEF AnyEvent, Event
  <1>2. \A i \in 1..n : es[i] = Opening(n)[i]
    BY <1>1
  <1> HIDE DEF Opening
  <1> QED BY <1>1, <1>2, EventOfOpening

LEMMA EventsWithVerdict ==
    ASSUME NEW es, NEW n \in Nat, NEW code \in StatusValues,
           es = Opening(n) \o <<Status(code), Event("closed")>>
    PROVE  /\ Len(es) = n + 2 /\ DOMAIN es = 1..(n + 2)
           /\ \A i \in 1..n : es[i] = IF i = 1 THEN Event("open") ELSE Response(i - 1)
           /\ es[n + 1] = Status(code)
           /\ es[n + 2] = Event("closed")
  <1>1. /\ Opening(n) \in Seq(AnyEvent) /\ Len(Opening(n)) = n
        /\ <<Status(code), Event("closed")>> \in Seq(AnyEvent)
    BY OpeningType DEF AnyEvent, Event, Status
  <1>2. \A i \in 1..n : es[i] = Opening(n)[i]
    BY <1>1
  <1> QED BY <1>1, <1>2, EventOfOpening

LEMMA EventsOfOpening ==
    ASSUME NEW es, NEW n \in Nat, es = Opening(n)
    PROVE  /\ Len(es) = n /\ DOMAIN es = 1..n
           /\ \A i \in 1..n : es[i] = IF i = 1 THEN Event("open") ELSE Response(i - 1)
  BY OpeningType, EventOfOpening DEF Opening

LEMMA TypesOfEvents ==
    /\ \A type : Event(type).type = type
    /\ \A code : Status(code).type = "status" /\ Status(code).code = code
    /\ \A m : Response(m).type = "message" /\ Response(m).message = m
  BY DEF Event, Status, Response

(* At most one status, the one the server gave, behind every response; and *)
(* the i-th event is the (i - 1)-st response, if it is one.                *)
LEMMA EventsOfCall ==
    ASSUME CallInv, NEW i \in DOMAIN events
    PROVE  /\ events[i].type = "status" =>
                /\ events[i] = Status(Code) /\ Code # "junk"
                /\ kind # "unary" => i - 2 = WholeBy(server.sent)
                /\ kind = "unary" => server.http = "200"
           /\ events[i].type = "message" => events[i].message = i - 1
  <1>1. ASSUME NEW n \in Nat, i \in 1..n,
               events[i] = IF i = 1 THEN Event("open") ELSE Response(i - 1)
        PROVE  /\ events[i].type # "status"
               /\ events[i].type = "message" => events[i].message = i - 1
    BY <1>1, TypesOfEvents
  <1>2. ASSUME NEW n \in Nat, events = Opening(n)
        PROVE  /\ events[i].type # "status"
               /\ events[i].type = "message" => events[i].message = i - 1
    <2>1. i \in 1..n /\ events[i] = IF i = 1 THEN Event("open") ELSE Response(i - 1)
      BY <1>2, EventsOfOpening
    <2> QED BY <2>1, <1>1
  <1>3. ASSUME EndsWithError
        PROVE  /\ events[i].type # "status"
               /\ events[i].type = "message" => events[i].message = i - 1
    <2> PICK n \in Nat : events = Opening(n) \o <<Event("error")>>
      BY <1>3 DEF EndsWithError
    <2>1. i \in 1..n \/ i = n + 1
      BY EventsWithError
    <2>2. CASE i \in 1..n
      <3>1. events[i] = IF i = 1 THEN Event("open") ELSE Response(i - 1)
        BY <2>2, EventsWithError
      <3> QED BY <3>1, <2>2, <1>1
    <2>3. CASE i = n + 1
      <3>1. events[i] = Event("error")
        BY <2>3, EventsWithError
      <3> QED BY <3>1, TypesOfEvents
    <2> QED BY <2>1, <2>2, <2>3
  <1>4. CASE EndsWithVerdict
    <2> PICK n \in Nat \ {0} :
               /\ events = Opening(n) \o <<Status(Code), Event("closed")>>
               /\ kind # "unary" => n - 1 = WholeBy(server.sent)
               /\ Code # "junk"
               /\ server.http = "200" \/ kind # "unary"
      BY <1>4 DEF EndsWithVerdict
    <2>1. Code \in StatusValues
      BY CodeIsTheServers DEF CallInv, Codes
    <2>2. /\ DOMAIN events = 1..(n + 2)
          /\ \A j \in 1..n : events[j] = IF j = 1 THEN Event("open") ELSE Response(j - 1)
          /\ events[n + 1] = Status(Code)
          /\ events[n + 2] = Event("closed")
      BY <2>1, EventsWithVerdict
    <2>3. CASE i \in 1..n
      <3>1. events[i] = IF i = 1 THEN Event("open") ELSE Response(i - 1)
        BY <2>3, <2>2
      <3> QED BY <3>1, <2>3, <1>1
    <2>4. CASE i = n + 1
      <3>1. events[i] = Status(Code) /\ events[i].type = "status"
        BY <2>4, <2>2, TypesOfEvents
      <3>2. kind # "unary" => i - 2 = WholeBy(server.sent)
        BY <2>4
      <3> QED BY <3>1, <3>2
    <2>5. CASE i = n + 2
      <3>1. events[i] = Event("closed") /\ events[i].type = "closed"
        BY <2>5, <2>2, TypesOfEvents
      <3> QED BY <3>1
    <2>6. i \in 1..n \/ i = n + 1 \/ i = n + 2
      BY <2>2
    <2> QED BY <2>3, <2>4, <2>5, <2>6
  <1>5. CASE \E n \in Nat : events = Opening(n)
    <2> PICK n \in Nat : events = Opening(n)
      BY <1>5
    <2> QED BY <1>2
  <1>6. CASE EndsWithError
    BY <1>3, <1>6
  <1>7. (\E n \in Nat : events = Opening(n)) \/ EndsWithError \/ EndsWithVerdict
    <2>1. CASE call = "over"
      BY <2>1 DEF CallInv, Progress
    <2>2. CASE call # "over"
      <3>1. PICK n \in Nat : events = Opening(n)
        BY <2>2, EventsAreAnOpening DEF CallInv
      <3> QED BY <3>1
    <2> QED BY <2>1, <2>2
  <1> QED BY <1>4, <1>5, <1>6, <1>7

-----------------------------------------------------------------------------

LEMMA CallAlways == Spec => []CallInv
  BY CallInitially, CallInvariant, PTL DEF Spec

(* For any server, the status the window gets is one it gave: a failure    *)
(* never reads as OK, nor the reverse, and a unary call gets a status only *)
(* under an HTTP 200; a streaming call's may be under any HTTP status, and *)
(* is OK when the server says nothing (mod.rs, resolve_call_status).       *)
THEOREM StatusIsTheServers == Spec => []VerdictIsTheServers
  <1>1. CallInv => VerdictIsTheServers
    <2> SUFFICES ASSUME CallInv, NEW i \in DOMAIN events, events[i].type = "status"
                 PROVE  LET said == {server.trailers, server.headers} \ {"none"}
                        IN  /\ events[i].code = "ok" => "fail" \notin said
                            /\ events[i].code # "ok" => "fail" \in said
                            /\ kind = "unary" => server.http = "200"
      BY DEF VerdictIsTheServers
    <2>1. /\ events[i] = Status(Code) /\ Code # "junk"
          /\ kind = "unary" => server.http = "200"
      BY EventsOfCall
    <2>2. events[i].code = Code
      BY <2>1 DEF Status
    <2> QED BY <2>1, <2>2, CodeIsTheServers DEF CallInv
  <1> QED BY <1>1, CallAlways, PTL

(* However many responses there are and however DATA frames cut them, they *)
(* are pushed whole and in order, and all of them before a status          *)
(* (transport.rs, recv_frame; framing.rs, feed).                           *)
THEOREM ResponsesComeWhole == Spec => []ResponsesInOrder
  <1>1. CallInv => ResponsesInOrder
    BY EventsOfCall DEF ResponsesInOrder
  <1> QED BY <1>1, CallAlways, PTL

(* Only a request that crosses the server's end, a response that cannot be *)
(* decoded, a bad HTTP status or a junk status turns a verdict into an     *)
(* error (mod.rs, drive_streaming_call).                                   *)
THEOREM OnlyExcusesHideAVerdict == Spec => []SentCallSeesVerdict
  <1>1. CallInv => SentCallSeesVerdict
    <2> SUFFICES ASSUME CallInv, call = "over", ~Excused
                 PROVE  Last(events) = Event("closed")
      BY DEF SentCallSeesVerdict, Excused
    <2>1. EndsWithVerdict
      BY DEF CallInv, Progress, EndsWithError
    <2> PICK n \in Nat \ {0} : events = Opening(n) \o <<Status(Code), Event("closed")>>
      BY <2>1 DEF EndsWithVerdict
    <2>2. Code \in StatusValues
      BY CodeIsTheServers DEF CallInv, Codes
    <2> QED BY <2>2, EventsWithVerdict DEF Last
  <1> QED BY <1>1, CallAlways, PTL

-----------------------------------------------------------------------------
(* The contract of the channel.                                            *)

LEMMA VerdictType ==
    ASSUME NEW code \in StatusValues
    PROVE  Verdict(code) \in Seq(AnyEvent) /\ Verdict(code) # <<>>
  <1>1. /\ Event("error") \in AnyEvent /\ Event("closed") \in AnyEvent
        /\ Status(code) \in AnyEvent
    BY DEF AnyEvent, Event, Status
  <1> HIDE DEF AnyEvent
  <1>2. CASE code = "junk"
    BY <1>1, <1>2 DEF Verdict
  <1>3. CASE code # "junk"
    BY <1>1, <1>3 DEF Verdict
  <1> QED BY <1>2, <1>3

(* A step of the call leaves the events alone or puts some behind them.    *)
LEMMA EventsGrow ==
    ASSUME CallInv, [Next]_vars
    PROVE  \/ UNCHANGED events /\ (kind' = kind \/ events = <<>>)
           \/ /\ kind' = kind
              /\ \E es \in Seq(AnyEvent) : es # <<>> /\ events' = events \o es
  <1> DEFINE Grows == /\ kind' = kind
                      /\ \E es \in Seq(AnyEvent) : es # <<>> /\ events' = events \o es
             Stays == UNCHANGED events /\ (kind' = kind \/ events = <<>>)
  <1>0. Progress
    BY DEF CallInv
  <1>1. ASSUME Finish(<<Event("error")>>), kind' = kind PROVE Grows
    <2>1. <<Event("error")>> \in Seq(AnyEvent) /\ <<Event("error")>> # <<>>
      BY DEF AnyEvent, Event
    <2> QED BY <2>1, <1>1 DEF Finish
  <1>2. CASE Window
    <2>1. CASE Discover
      BY <2>1 DEF Discover, callVars
    <2>2. CASE \E s \in Services, request \in {"good", "bad"} : GrpcConnect(s, request)
      BY <2>2, <1>0 DEF GrpcConnect, Progress
    <2>3. CASE \E item \in {"good", "bad", "finish"} : GrpcSend(item)
      BY <2>3 DEF GrpcSend
    <2> QED BY <1>2, <2>1, <2>2, <2>3 DEF Window
  <1>3. CASE Server
    BY <1>3 DEF Server, ServerAnswers, ServerSends, ServerEnds, ServerResets
  <1>4. CASE Task
    <2>1. CASE Opens
      <3>1. kind' = kind /\ events = <<>> /\ events' = Append(<<>>, Event("open"))
        BY <2>1, <1>0 DEF Opens, TaskUnchanged, Progress
      <3>2. events' = events \o <<Event("open")>>
        BY <3>1
      <3>3. <<Event("open")>> \in Seq(AnyEvent) /\ <<Event("open")>> # <<>>
        BY DEF AnyEvent, Event
      <3> QED BY <3>1, <3>2, <3>3
    <2>2. CASE OpenFails
      BY <2>2, <1>1 DEF OpenFails, TaskUnchanged
    <2>3. CASE SendsRequest
      BY <2>3, <1>1 DEF SendsRequest, TaskUnchanged
    <2>4. CASE ChecksHttpStatus
      BY <2>4, <1>1 DEF ChecksHttpStatus, TaskUnchanged
    <2>5. CASE Breaks
      BY <2>5, <1>1 DEF Breaks, TaskUnchanged
    <2>6. CASE WriteFails
      BY <2>6, <1>1 DEF WriteFails, TaskUnchanged
    <2>7. CASE Writes \/ HalfCloses
      BY <2>7 DEF Writes, HalfCloses, TaskUnchanged
    <2>8. CASE ReceivesData
      BY <2>8 DEF ReceivesData, TaskUnchanged
    <2>9. CASE DeliversMessage
      <3>1. Receiving /\ kind' = kind /\ pending # <<>>
        BY <2>9 DEF DeliversMessage, TaskUnchanged
      <3>2. Head(pending) \in Nat
        BY <3>1, ReceivingFlows, NextResponse
      <3>3. PICK n \in Nat \ {0} : events = Opening(n)
        BY <3>1, ReceivingFlows
      <3>4. events \in Seq(AnyEvent)
        BY <3>3, OpeningType
      <3>5. CASE events' = Append(events, Response(Head(pending)))
        <4>1. <<Response(Head(pending))>> \in Seq(AnyEvent) /\ <<Response(Head(pending))>> # <<>>
          BY <3>2 DEF AnyEvent, Response
        <4>2. events' = events \o <<Response(Head(pending))>>
          BY <3>4, <3>5, <4>1, AppendIsConcat, ElementOfSeq DEF AnyEvent, Response
        <4> QED BY <3>1, <4>1, <4>2
      <3> QED BY <2>9, <3>1, <3>5, <1>1 DEF DeliversMessage
    <2>10. CASE BodyEnds
      <3>1. kind' = kind /\ events' = events \o Verdict(Code) /\ Code \in StatusValues
        BY <2>10, CodeIsTheServers, ReceivingFlows
           DEF BodyEnds, TaskUnchanged, Finish, Code, Codes
      <3>2. Verdict(Code) \in Seq(AnyEvent) /\ Verdict(Code) # <<>>
        BY <3>1, VerdictType
      <3> QED BY <3>1, <3>2
    <2>11. CASE ReadsStatus
      <3> DEFINE es == (IF Code = "junk" THEN <<>> ELSE reply) \o Verdict(Code)
      <3>1. kind' = kind /\ events' = events \o es
        BY <2>11 DEF ReadsStatus, TaskUnchanged, Finish, Code
      <3>2. Code \in StatusValues /\ reply = <<Response(1)>>
        BY <2>11, CodeIsTheServers DEF ReadsStatus, CallInv, Progress, Codes
      <3>3. reply \in Seq(AnyEvent) /\ <<>> \in Seq(AnyEvent)
        BY <3>2 DEF AnyEvent, Response
      <3>4. Verdict(Code) \in Seq(AnyEvent) /\ Verdict(Code) # <<>>
        BY <3>2, VerdictType
      <3>5. es \in Seq(AnyEvent) /\ es # <<>>
        BY <3>3, <3>4, ConcatProperties, EmptySeq
      <3> HIDE DEF es
      <3> QED BY <3>1, <3>5
    <2> QED BY <1>4, <2>1, <2>2, <2>3, <2>4, <2>5, <2>6, <2>7, <2>8, <2>9, <2>10,
               <2>11 DEF Task, Incoming
  <1>5. CASE (DiscoveryNext /\ UNCHANGED callVars) \/ UNCHANGED vars
    BY <1>5 DEF callVars, vars
  <1> QED BY <1>2, <1>3, <1>4, <1>5 DEF Next

(* The shapes of what a call of kind k has pushed. *)
Shape(k, es) ==
    \/ \E n \in Nat : es = Opening(n) /\ (k = "unary" => n <= 1)
    \/ \E n \in Nat : /\ es = Opening(n) \o <<Event("error")>>
                      /\ k = "unary" => n <= 2
    \/ \E n \in Nat \ {0}, code \in StatusValues :
            /\ es = Opening(n) \o <<Status(code), Event("closed")>>
            /\ k = "unary" => n <= 2

Shaped == kind \in Kinds /\ Shape(kind, events)

LEMMA CallIsShaped == CallInv => Shaped
  <1> SUFFICES ASSUME CallInv PROVE Shape(kind, events)
    BY DEF Shaped, CallInv, Progress
  <1>1. CASE call # "over"
    <2> PICK n \in Nat : events = Opening(n) /\ (kind = "unary" => n <= 1)
      BY <1>1, EventsAreAnOpening DEF CallInv
    <2> QED BY DEF Shape
  <1>2. CASE EndsWithError
    BY <1>2 DEF EndsWithError, Shape
  <1>3. CASE EndsWithVerdict
    <2>1. Code \in StatusValues
      BY CodeIsTheServers DEF CallInv, Codes
    <2> QED BY <1>3, <2>1 DEF EndsWithVerdict, Shape
  <1> QED BY <1>1, <1>2, <1>3 DEF CallInv, Progress

LEMMA TypesOfOpening ==
    ASSUME NEW es, NEW n \in Nat, NEW i \in 1..n, i \in DOMAIN es,
           es[i] = IF i = 1 THEN Event("open") ELSE Response(i - 1)
    PROVE  Types(es)[i] = IF i = 1 THEN "open" ELSE "message"
  <1>1. Types(es)[i] = es[i].type
    BY DEF Types
  <1>2. CASE i = 1
    BY <1>1, <1>2, TypesOfEvents
  <1>3. CASE i # 1
    BY <1>1, <1>3, TypesOfEvents
  <1> QED BY <1>2, <1>3

(* What a call has pushed is a prefix of the life of a connection. *)
LEMMA ShapesAreWellFormed ==
    ASSUME NEW k \in Kinds, NEW es, Shape(k, es)
    PROVE  Contract!WellFormed(k, Types(es))
  <1> DEFINE ts == Types(es)
  <1>1. \A i \in DOMAIN es : ts[i] = es[i].type
    BY DEF Types
  <1>2. ASSUME NEW n \in Nat, es = Opening(n), k = "unary" => n <= 1
        PROVE  Contract!WellFormed(k, ts)
    <2>1. /\ DOMAIN es = 1..n
          /\ \A i \in 1..n : es[i] = IF i = 1 THEN Event("open") ELSE Response(i - 1)
      BY <1>2, EventsOfOpening
    <2>2. Len(ts) = n
      BY <2>1 DEF Types
    <2> HIDE DEF ts
    <2>3. ASSUME NEW i \in 1..n PROVE ts[i] = IF i = 1 THEN "open" ELSE "message"
      BY <2>1, TypesOfOpening DEF ts
    <2> QED BY <1>2, <2>2, <2>3 DEF Contract!WellFormed, Contract!Terminal
  <1>3. ASSUME NEW n \in Nat, es = Opening(n) \o <<Event("error")>>, k = "unary" => n <= 2
        PROVE  Contract!WellFormed(k, ts)
    <2>1. /\ DOMAIN es = 1..(n + 1)
          /\ \A i \in 1..n : es[i] = IF i = 1 THEN Event("open") ELSE Response(i - 1)
          /\ es[n + 1] = Event("error")
      BY <1>3, EventsWithError
    <2>2. Len(ts) = n + 1
      BY <2>1 DEF Types
    <2> HIDE DEF ts
    <2>3. ASSUME NEW i \in 1..n PROVE ts[i] = IF i = 1 THEN "open" ELSE "message"
      <3>1. i \in DOMAIN es
        BY <2>1
      <3> QED BY <2>1, <3>1, TypesOfOpening DEF ts
    <2>4. ts[n + 1] = "error"
      <3>1. n + 1 \in DOMAIN es
        BY <2>1
      <3> QED BY <1>1, <2>1, <3>1, TypesOfEvents
    <2> QED BY <1>3, <2>2, <2>3, <2>4 DEF Contract!WellFormed, Contract!Terminal
  <1>4. ASSUME NEW n \in Nat \ {0}, NEW code \in StatusValues,
               es = Opening(n) \o <<Status(code), Event("closed")>>,
               k = "unary" => n <= 2
        PROVE  Contract!WellFormed(k, ts)
    <2>1. /\ DOMAIN es = 1..(n + 2)
          /\ \A i \in 1..n : es[i] = IF i = 1 THEN Event("open") ELSE Response(i - 1)
          /\ es[n + 1] = Status(code)
          /\ es[n + 2] = Event("closed")
      BY <1>4, EventsWithVerdict
    <2>2. Len(ts) = n + 2
      BY <2>1 DEF Types
    <2> HIDE DEF ts
    <2>3. ASSUME NEW i \in 1..n PROVE ts[i] = IF i = 1 THEN "open" ELSE "message"
      <3>1. i \in DOMAIN es
        BY <2>1
      <3> QED BY <2>1, <3>1, TypesOfOpening DEF ts
    <2>4. ts[n + 1] = "status" /\ ts[n + 2] = "closed"
      <3>1. n + 1 \in DOMAIN es /\ n + 2 \in DOMAIN es
        BY <2>1
      <3>2. ts[n + 1] = Status(code).type /\ ts[n + 2] = Event("closed").type
        BY <1>1, <2>1, <3>1
      <3> QED BY <3>2, TypesOfEvents
    <2>5. k \in Contract!Grpc /\ n > 0 /\ n \in Nat
      BY DEF Contract!Grpc, Kinds
    <2>6. \A i \in 1..Len(ts) : /\ i \in Nat /\ (i \in 1..n \/ i = n + 1 \/ i = n + 2)
                                /\ ts[i] \in {"open", "message", "status", "closed"}
                                /\ ts[i] = "open" <=> i = 1
                                /\ ts[i] = "message" <=> i \in 2..n
                                /\ ts[i] = "status" <=> i = n + 1
                                /\ ts[i] = "closed" <=> i = n + 2
      BY <2>2, <2>3, <2>4
    <2>7. ts[1] = "open"
      BY <2>3, <2>5
    <2> QED BY <1>4, <2>2, <2>4, <2>5, <2>6, <2>7 DEF Contract!WellFormed, Contract!Terminal
  <1> QED BY <1>2, <1>3, <1>4 DEF Shape

LEMMA EventsType ==
    ASSUME CallInv
    PROVE  events \in Seq(AnyEvent)
  <1> SUFFICES ASSUME TRUE PROVE events \in Seq(AnyEvent)
    OBVIOUS
  <1>1. CASE call # "over"
    <2> PICK n \in Nat : events = Opening(n)
      BY <1>1, EventsAreAnOpening DEF CallInv
    <2> QED BY OpeningType
  <1>2. CASE EndsWithError
    <2> PICK n \in Nat : events = Opening(n) \o <<Event("error")>>
      BY <1>2 DEF EndsWithError
    <2>1. <<Event("error")>> \in Seq(AnyEvent)
      BY DEF AnyEvent, Event
    <2> QED BY <2>1, OpeningType, ConcatProperties
  <1>3. CASE EndsWithVerdict
    <2> PICK n \in Nat \ {0} : /\ events = Opening(n) \o <<Status(Code), Event("closed")>>
                               /\ Code # "junk"
      BY <1>3 DEF EndsWithVerdict
    <2>1. Code \in StatusValues
      BY CodeIsTheServers DEF CallInv, Codes
    <2>2. <<Status(Code), Event("closed")>> \in Seq(AnyEvent)
      BY <2>1, VerdictType DEF Verdict
    <2> QED BY <2>2, OpeningType, ConcatProperties
  <1> QED BY <1>1, <1>2, <1>3 DEF CallInv, Progress

LEMMA TypesOfSeq ==
    ASSUME NEW es \in Seq(AnyEvent)
    PROVE  Types(es) \in Seq(Contract!Event) /\ Len(Types(es)) = Len(es)
  <1>1. es \in [1..Len(es) -> AnyEvent] /\ Len(es) \in Nat /\ DOMAIN es = 1..Len(es)
    BY LenProperties
  <1>2. \A e \in AnyEvent : e.type \in Contract!Event
    BY DEF AnyEvent, Contract!Event, Contract!Terminal
  <1> HIDE DEF AnyEvent
  <1> QED BY <1>1, <1>2 DEF Types

LEMMA CallPushes ==
    ASSUME CallInv, Shaped', [Next]_vars
    PROVE  [Contract!Next]_Pushed
  <1>1. CASE UNCHANGED events /\ (kind' = kind \/ events = <<>>)
    <2>1. CASE kind' = kind
      BY <1>1, <2>1 DEF Types, Pushed
    <2>2. CASE events = <<>>
      BY <1>1, <2>2 DEF Types, Pushed
    <2> QED BY <1>1, <2>1, <2>2
  <1>2. CASE /\ kind' = kind
             /\ \E es \in Seq(AnyEvent) : es # <<>> /\ events' = events \o es
    <2> PICK es \in Seq(AnyEvent) : es # <<>> /\ events' = events \o es
      BY <1>2
    <2>1. events \in Seq(AnyEvent) /\ events' \in Seq(AnyEvent)
      BY EventsType, ConcatProperties
    <2>2. kind \in Kinds /\ kind' = kind
      BY <1>2 DEF CallInv, Progress
    <2> DEFINE old == Types(events)
               new == Types(events')
    <2>3. /\ old \in Seq(Contract!Event) /\ Len(old) = Len(events)
          /\ new \in Seq(Contract!Event) /\ Len(new) = Len(events')
      BY <2>1, TypesOfSeq
    <2>4. Len(new) > Len(old) /\ Len(old) \in Nat
      BY <2>1, <2>3, ConcatProperties, EmptySeq
    <2>5. SubSeq(new, 1, Len(old)) = old
      <3>1. \A i \in 1..Len(old) : new[i] = old[i]
        BY <2>1, <2>3, <2>4 DEF Types
      <3> HIDE DEF old, new
      <3>2. SubSeq(new, 1, Len(old)) \in Seq(Contract!Event)
            /\ Len(SubSeq(new, 1, Len(old))) = Len(old)
            /\ \A i \in 1..Len(old) : SubSeq(new, 1, Len(old))[i] = new[i]
        BY <2>3, <2>4, SubSeqProperties
      <3> QED BY <2>3, <3>1, <3>2, SeqEqual
    <2>6. Contract!WellFormed(kind, new)
      <3>1. Shape(kind', events')
        BY DEF Shaped, Shape
      <3> QED BY <3>1, <2>2, ShapesAreWellFormed
    <2>7. /\ Pushed[kind] = old /\ Pushed'[kind] = new
          /\ \A k \in Kinds \ {kind} : Pushed[k] = <<>> /\ Pushed'[k] = <<>>
          /\ Pushed' = [k \in Kinds |-> IF k = kind THEN new ELSE <<>>]
      BY <2>2 DEF Pushed
    <2> HIDE DEF old, new
    <2>8. Pushed' \in [Kinds -> Seq(Contract!Event)]
      <3>1. <<>> \in Seq(Contract!Event)
        BY EmptySeq
      <3> QED BY <2>3, <2>7, <3>1
    <2>9. Contract!Push(kind)
      BY <2>2, <2>4, <2>5, <2>6, <2>7, <2>8 DEF Contract!Push
    <2> QED BY <2>2, <2>9 DEF Contract!Next
  <1> QED BY <1>1, <1>2, EventsGrow

(* Each call implements the contract of the event channel, whatever the    *)
(* server does (model/grpc.rs, GrpcEvent).                                 *)
THEOREM CallsImplementChannel == Spec => KeepsContract
  <1>1. Init => Contract!Init
    BY DEF Init, Contract!Init, Pushed, Types
  <1>2. CallInv /\ Shaped' /\ [Next]_vars => [Contract!Next]_Pushed
    BY CallPushes
  <1> QED BY <1>1, <1>2, CallAlways, CallIsShaped, PTL DEF Spec, KeepsContract, Contract!Spec

=============================================================================
