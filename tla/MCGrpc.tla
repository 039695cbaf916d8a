------------------------------- MODULE MCGrpc -------------------------------
(* A server with a unary, a bidirectional and a server-streaming service,  *)
(* declared in two files that share an import; responses of one unit and   *)
(* of none, the last of which cannot be decoded; links that connect in the *)
(* clear, through a proxy with TLS, and not at all.                        *)
EXTENDS GrpcCall, TLC

DeclaresIn == [greet |-> "g", chat |-> "c", watch |-> "c", v1 |-> "r", v1alpha |-> "r"]
ImportsIn == [g |-> {"w"}, c |-> {"w"}, r |-> {}, w |-> {}]
Kind == [greet |-> "unary", chat |-> "client", watch |-> "server"]
EndsIn == <<2, 3, 4>>
SomeLinks ==
    {[scheme |-> "grpc", host |-> TRUE, port |-> "none", proxy |-> "none", cert |-> "none"],
     [scheme |-> "grpcs", host |-> TRUE, port |-> "number", proxy |-> "http", cert |-> "valid"],
     [scheme |-> "grpcs", host |-> TRUE, port |-> "none", proxy |-> "https", cert |-> "none"],
     [scheme |-> "grpcs", host |-> TRUE, port |-> "none", proxy |-> "none", cert |-> "invalid"],
     [scheme |-> "grpc", host |-> TRUE, port |-> "bad", proxy |-> "none", cert |-> "none"]}
=============================================================================
