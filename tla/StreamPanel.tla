----------------------------- MODULE StreamPanel -----------------------------
(***************************************************************************)
(* One streaming panel of the window over the connections of Streams: the  *)
(* hooks useSseConnection, useWsConnection and useGrpcConnection, which    *)
(* share their connection handling.  The panel calls the backend           *)
(* asynchronously; it learns a connection's id when the connect call       *)
(* resolves, and its events as they are delivered.  A call to              *)
(* stream_disconnect is not awaited.                                       *)
(***************************************************************************)
EXTENDS Streams, FiniteSets

CONSTANT NoConn     \* connectionIdRef.current = null

ASSUME NoConnAssumption == NoConn \notin Conn

VARIABLES mounted,  \* the panel is open
          ref,      \* connectionIdRef.current
          status,   \* the hook's status
          asked,    \* connections whose connect was invoked
          resolved, \* connections whose connect promise was handled
          dropping, \* stream_disconnect invoked and not yet run
          read,     \* how many events of a connection were delivered
          raced     \* connections that were pending when the user went on:
                    \* disconnected, connected again or closed the panel

panelVars == <<mounted, ref, status, asked, resolved, dropping, read, raced>>
allVars == <<vars, panelVars>>

Pending == asked \ resolved
Busy == status \in {"connecting", "open"}

PanelInit ==
    /\ Init
    /\ mounted = TRUE
    /\ ref = NoConn
    /\ status = "idle"
    /\ asked = {}
    /\ resolved = {}
    /\ dropping = {}
    /\ read = [c \in Conn |-> 0]
    /\ raced = {}

-----------------------------------------------------------------------------
(* What the user does.                                                     *)

(* stream_disconnect is invoked for the connection the ref holds, if any.  *)
DropRef == dropping' = dropping \union ({ref} \ {NoConn})

(* The Connect button, which Busy replaces by Disconnect. *)
PanelConnect(c) ==
    /\ mounted
    /\ ~Busy
    /\ c \notin asked
    /\ DropRef
    /\ ref' = NoConn
    /\ status' = "connecting"
    /\ asked' = asked \union {c}
    /\ raced' = raced \union Pending
    /\ UNCHANGED <<vars, mounted, resolved, read>>

(* Mistake: the ref is cleared before it is read.                          *)
PanelDisconnectClearsFirst ==
    /\ mounted
    /\ Busy
    /\ ref' = NoConn
    /\ status' = "closed"
    /\ raced' = raced \union Pending
    /\ UNCHANGED <<vars, mounted, asked, resolved, dropping, read>>

PanelDisconnect ==
    /\ mounted
    /\ Busy
    /\ DropRef
    /\ ref' = NoConn
    /\ status' = "closed"
    /\ raced' = raced \union Pending
    /\ UNCHANGED <<vars, mounted, asked, resolved, read>>

(* Mistake: the panel closes without its cleanup.                          *)
UnmountWithoutCleanup ==
    /\ mounted
    /\ mounted' = FALSE
    /\ raced' = raced \union Pending
    /\ UNCHANGED <<vars, ref, status, asked, resolved, dropping, read>>

(* The unmount effect reads the ref as it is now. *)
Unmount ==
    /\ mounted
    /\ mounted' = FALSE
    /\ DropRef
    /\ raced' = raced \union Pending
    /\ UNCHANGED <<vars, ref, status, asked, resolved, read>>

-----------------------------------------------------------------------------
(* What the backend sends back.                                            *)

(* The connect promise: its handler runs whether or not the panel is still *)
(* mounted and whatever was clicked meanwhile.                             *)
ConnectResolves(c) ==
    /\ c \in Pending
    /\ command[c] \in {"returned", "refused"}
    /\ resolved' = resolved \union {c}
    /\ IF command[c] = "returned"
       THEN ref' = c /\ UNCHANGED status
       ELSE status' = "error" /\ UNCHANGED ref
    /\ UNCHANGED <<vars, mounted, asked, dropping, read, raced>>

(* channel.onmessage: no check that c is still the panel's connection.     *)
Deliver(c) ==
    /\ read[c] < Len(channel[c])
    /\ read' = [read EXCEPT ![c] = @ + 1]
    /\ LET event == channel[c][read[c] + 1]
       IN  status' = CASE event \in {"open", "error"} -> event
                       [] event = "closed" ->
                            IF Protocol[c] \in Chan!Grpc /\ status = "error"
                            THEN status ELSE "closed"
                       [] OTHER -> status
    /\ UNCHANGED <<vars, mounted, ref, asked, resolved, dropping, raced>>

(* stream_disconnect runs; an unknown id is not an error. *)
RunDisconnect(c) ==
    /\ c \in dropping
    /\ dropping' = dropping \ {c}
    /\ IF c \in registry THEN Disconnect(c) ELSE UNCHANGED vars
    /\ UNCHANGED <<mounted, ref, status, asked, resolved, read, raced>>

(* The commands and the tasks of Streams. *)
Backend(c) ==
    /\ Command(c) \/ Task(c)
    /\ command[c] = "idle" => c \in asked
    /\ UNCHANGED panelVars

PanelNext ==
    \/ PanelDisconnect
    \/ Unmount
    \/ \E c \in Conn : \/ PanelConnect(c)
                       \/ ConnectResolves(c)
                       \/ Deliver(c)
                       \/ RunDisconnect(c)
                       \/ Backend(c)

PanelSpec == PanelInit /\ [][PanelNext]_allVars

(* Every call is eventually run and every promise handled. *)
PanelFairness ==
    \A c \in Conn : /\ WF_allVars(RunDisconnect(c))
                    /\ WF_allVars(ConnectResolves(c))
                    /\ WF_allVars(Backend(c) /\ AbortTakesEffect(c))
                    /\ WF_allVars(Backend(c) /\ SelfRemove(c))

FairPanelSpec == PanelSpec /\ PanelFairness

-----------------------------------------------------------------------------
(* Properties.                                                             *)

(* c runs and no call to stop it was made that could reach it. *)
Live(c) ==
    /\ c \in resolved
    /\ c \notin dropping
    /\ task[c] \in Running
    /\ ~aborting[c]

(* The panel owns every live connection it knows of; only the user going   *)
(* on while a connect call is pending loses one, and one per such race     *)
(* however disconnects, reconnects and late answers interleave.            *)
RacesBoundLeaks ==
    Cardinality({c \in Conn : Live(c) /\ ~(mounted /\ ref = c)})
        <= Cardinality(raced)

(* A panel closed while it holds a connection stops it.                    *)
ClosingStops ==
    \A c \in Conn :
        (~mounted /\ ref = c /\ c \notin raced) ~> (task[c] \notin Running)

=============================================================================
