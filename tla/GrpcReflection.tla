--------------------------- MODULE GrpcReflection ---------------------------
(***************************************************************************)
(* grpc_discover_schema: asking a server for its schema.  reflection.rs    *)
(* opens one bidirectional stream of grpc.reflection.v1, or of v1alpha     *)
(* when v1 is not there, lists the services, asks for the files of each in *)
(* turn and assembles a descriptor pool from the replies.  A .proto name   *)
(* stands for the file; the reply of a server that follows the protocol    *)
(* may leave out what it sent before, another may leave out anything.      *)
(***************************************************************************)
EXTENDS Naturals, FiniteSets

CONSTANTS Services,     \* the services of the server, reflection aside
          Files,        \* .proto files
          Declares,     \* Declares[s]: the file that declares s
          Imports       \* Imports[f]: the files f imports

(* ReflectionVersion; the meta service of a version is named after it.     *)
Versions == {"v1", "v1alpha"}

ASSUME ReflectionAssumption ==
    /\ IsFiniteSet(Files)
    /\ Services \cap Versions = {}
    /\ Declares \in [Services \union Versions -> Files]
    /\ Imports \in [Files -> SUBSET Files]

VARIABLES peer,         \* how the server answers list_services, per version
          stage,        \* progress of discover_schema
          queryable,    \* the services it found worth asking for
          asked,        \* those it asked for
          ended,        \* END_STREAM is on the wire
          collected,    \* the files received, by name
          short,        \* the server left out a file it never sent
          listed        \* DiscoveredSchema::services

discovery == <<peer, stage, queryable, asked, ended, collected, short, listed>>

-----------------------------------------------------------------------------

(* The answers to list_services: a list, a Trailers-Only response, an      *)
(* error_response, another member of the oneof, a broken stream.           *)
Answers == {"list", "trailers unimplemented", "trailers denied",
            "error unimplemented", "error other", "other member", "broken"}

(* try_list_services: ReflectionAttemptOutcome. *)
Outcome(answer) ==
    CASE answer = "list" -> "success"
      [] answer \in {"trailers unimplemented", "error unimplemented"} -> "unimplemented"
      [] answer = "error other" -> "refused"
      [] OTHER -> "unavailable"

ShouldRetryOnV1alpha(outcome) == outcome \in {"unavailable", "unimplemented"}

(* What the server answers: its services and the reflection services.      *)
Registered == Services \union {v \in Versions : peer[v] = "list"}

(* A pool can be built when it has every import: the order is free.        *)
Complete(pool) == \A f \in pool : Imports[f] \subseteq pool

(* f and all it imports, directly or not: what every pool that has f and   *)
(* can be built has.                                                       *)
WithImports(f) == {g \in Files : \A pool \in SUBSET Files :
                                    f \in pool /\ Complete(pool) => g \in pool}

(* discovered_services_from_pool and resolve_method. *)
InPool(pool, service) == Declares[service] \in pool

(* compile_proto_set: the entry point with its imports, all of which must  *)
(* be among the uploaded files.                                            *)
Compiles(uploaded, entry) == WithImports(entry) \subseteq uploaded

-----------------------------------------------------------------------------

DiscoveryInit ==
    /\ peer = [v \in Versions |-> "list"]     \* not asked yet
    /\ stage = "idle"
    /\ queryable = {}
    /\ asked = {}
    /\ ended = FALSE
    /\ collected = {}
    /\ short = FALSE
    /\ listed = {}

(* open_reflection_session: list_services on a stream of version v. *)
ListServices(v) ==
    /\ stage = v
    /\ CASE Outcome(peer[v]) = "success" ->
              stage' = "query" /\ queryable' = Registered \ {v}
         [] v = "v1" /\ ShouldRetryOnV1alpha(Outcome(peer[v])) ->
              stage' = "v1alpha" /\ UNCHANGED queryable
         [] OTHER -> stage' = "failed" /\ UNCHANGED queryable
    /\ UNCHANGED <<peer, asked, ended, collected, short, listed>>

(* Mistake: each reply replaces the one before.                            *)
KeepsLastReply(s, files) ==
    /\ stage = "query"
    /\ s \in queryable \ asked
    /\ asked' = asked \union {s}
    /\ ended' = (asked' = queryable)
    /\ collected' = files
    /\ short' = (short \/ ~(WithImports(Declares[s]) \subseteq collected \union files))
    /\ UNCHANGED <<peer, stage, queryable, listed>>

(* file_containing_symbol for s, in the order of the list; END_STREAM goes *)
(* with the last request.  The reply carries files.                        *)
FileContainingSymbol(s, files) ==
    /\ stage = "query"
    /\ s \in queryable \ asked
    /\ asked' = asked \union {s}
    /\ ended' = (asked' = queryable)
    /\ collected' = collected \union files
    /\ short' = (short \/ ~(WithImports(Declares[s]) \subseteq collected'))
    /\ UNCHANGED <<peer, stage, queryable, listed>>

(* The reply is an error, something else or the end of the stream: one     *)
(* service that cannot be resolved fails the discovery.                    *)
SymbolFails(s) ==
    /\ stage = "query"
    /\ s \in queryable \ asked
    /\ asked' = asked \union {s}
    /\ ended' = (asked' = queryable)
    /\ stage' = "failed"
    /\ UNCHANGED <<peer, queryable, collected, short, listed>>

(* The tail of discover_schema.  A service whose file did not come is left *)
(* out without an error.                                                   *)
Assemble ==
    /\ stage = "query"
    /\ asked = queryable
    /\ IF Complete(collected)
         THEN /\ stage' = "done"
              /\ listed' = {s \in queryable : InPool(collected, s)}
         ELSE stage' = "failed" /\ UNCHANGED listed
    /\ UNCHANGED <<peer, queryable, asked, ended, collected, short>>

(* Only the descriptor set outlives the discovery, in the window: what the *)
(* locals of discover_schema held is gone when a call is made.             *)
DiscoveryOver ==
    /\ peer' = [v \in Versions |-> "list"]
    /\ stage' = "idle"
    /\ queryable' = {} /\ asked' = {} /\ collected' = {} /\ listed' = {}
    /\ ended' = FALSE /\ short' = FALSE

DiscoveryNext ==
    \/ \E v \in Versions : ListServices(v)
    \/ \E s \in queryable : \/ \E files \in SUBSET WithImports(Declares[s]) :
                                 FileContainingSymbol(s, files)
                            \/ SymbolFails(s)
    \/ Assemble

-----------------------------------------------------------------------------
(* Properties.                                                             *)

(* Whatever order the services are asked in and whatever the server leaves *)
(* out as already sent, a discovery that succeeds has a method for every   *)
(* service it lists, and lists all of the server's unless the server kept  *)
(* a file back (reflection.rs, discover_schema).                           *)
DiscoveryIsComplete ==
    stage = "done" =>
      /\ \A s \in listed : WithImports(Declares[s]) \subseteq collected
      /\ short \/ Services \subseteq listed

=============================================================================
