----------------------------- MODULE MCStreams -----------------------------
(* Two connections that the window sends on, in the two ways there are to  *)
(* end what it sends.                                                      *)
EXTENDS Streams, TLC

CONSTANTS c1, c2

Sending == (c1 :> "ws") @@ (c2 :> "client")
=============================================================================
