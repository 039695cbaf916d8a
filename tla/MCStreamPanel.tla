--------------------------- MODULE MCStreamPanel ---------------------------
(* Two connect calls of one panel: enough for a second connection to race  *)
(* the first one's late answer.  The hooks of the panels handle their      *)
(* connections alike; the two kinds show a short and a long life.          *)
EXTENDS StreamPanel, TLC

CONSTANTS c1, c2

Panel == (c1 :> "ws") @@ (c2 :> "unary")
=============================================================================
