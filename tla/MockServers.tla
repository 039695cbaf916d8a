----------------------------- MODULE MockServers ----------------------------
(***************************************************************************)
(* Mock servers: their configured rows (store/mock_servers.rs), the map of *)
(* running ones (AppState.mock_servers) and the loopback sockets behind it *)
(* (engine/mock.rs).  start_mock_server holds neither lock while it binds, *)
(* so another start, a stop, a delete or the deletion of the workspace may *)
(* run between its check and its insert (commands/mock_servers.rs).  A     *)
(* socket is named by the start that opened it.                            *)
(***************************************************************************)
EXTENDS Naturals, FiniteSets

CONSTANTS Servers, Starts,   \* ids of mock servers; start commands
          Ports,             \* fixed ports a server may be configured with
          AnyPort, NoStart

ASSUME MockServersAssumption ==
    /\ Servers # {}
    /\ AnyPort \notin Ports /\ NoStart \notin Starts

VARIABLES rows,      \* the servers that are configured
          port,      \* the port each is configured with
          running,   \* AppState.mock_servers: the start it holds the task of
          deleting,  \* delete commands between their two locks
          start,     \* each start command: its stage, server and port
          socket     \* the socket each opened

vars == <<rows, port, running, deleting, start, socket>>

Configurable == Ports \union {AnyPort}
Stages == {"unborn", "checked", "loaded", "bound", "done", "failed"}

TypeOK ==
    /\ rows \subseteq Servers
    /\ port \in [Servers -> Configurable]
    /\ running \in [Servers -> Starts \union {NoStart}]
    /\ deleting \subseteq Servers
    /\ start \in [Starts -> [stage : Stages, server : Servers, port : Configurable]]
    /\ socket \in [Starts -> {"none", "listening", "closing", "closed"}]

Init ==
    /\ rows = {}
    /\ port = [s \in Servers |-> AnyPort]
    /\ running = [s \in Servers |-> NoStart]
    /\ deleting = {}
    /\ start = [c \in Starts |-> [stage |-> "unborn", server |-> CHOOSE s \in Servers : TRUE,
                                port |-> AnyPort]]
    /\ socket = [c \in Starts |-> "none"]

-----------------------------------------------------------------------------
(* Configuration.                                                          *)

(* create_mock_server, its variants that import, and a restore that brings *)
(* a row back; update_mock_server, which leaves a running socket alone.    *)
Configure(s, p) ==
    /\ rows' = rows \union {s}
    /\ port' = [port EXCEPT ![s] = p]
    /\ UNCHANGED <<running, deleting, start, socket>>

(* RunningMockServer::abort asks; the task lets go of the socket later.    *)
Abort(c) == socket' = [socket EXCEPT ![c] = "closing"]

(* Mistake: the entry goes and the task is not aborted.                    *)
DeleteWithoutAbort(s) ==
    /\ s \in rows \ deleting
    /\ deleting' = deleting \union {s}
    /\ running' = [running EXCEPT ![s] = NoStart]
    /\ UNCHANGED <<rows, port, start, socket>>

(* delete_mock_server: first the running server, under one lock ...        *)
DeleteMockServer(s) ==
    /\ s \in rows \ deleting
    /\ deleting' = deleting \union {s}
    /\ IF running[s] = NoStart
       THEN UNCHANGED <<running, socket>>
       ELSE Abort(running[s]) /\ running' = [running EXCEPT ![s] = NoStart]
    /\ UNCHANGED <<rows, port, start>>

(* ... then the row, under the other.                                      *)
DeleteServerRow(s) ==
    /\ s \in deleting
    /\ deleting' = deleting \ {s}
    /\ rows' = rows \ {s}
    /\ UNCHANGED <<port, running, start, socket>>

(* The foreign key of a deleted workspace takes its servers' rows, and a   *)
(* restore those the archive has not.                                      *)
CascadeRow(s) ==
    /\ s \in rows
    /\ rows' = rows \ {s}
    /\ UNCHANGED <<port, running, deleting, start, socket>>

-----------------------------------------------------------------------------
(* start_mock_server.                                                      *)

CheckNotRunning(c, s) ==
    /\ start[c].stage = "unborn"
    /\ start' = [start EXCEPT ![c] =
         [stage |-> IF running[s] = NoStart THEN "checked" ELSE "failed",
          server |-> s, port |-> AnyPort]]
    /\ UNCHANGED <<rows, port, running, deleting, socket>>

LoadServer(c) ==
    /\ start[c].stage = "checked"
    /\ LET s == start[c].server
       IN start' = [start EXCEPT ![c].stage = IF s \in rows THEN "loaded" ELSE "failed",
                                 ![c].port = IF s \in rows THEN port[s] ELSE @]
    /\ UNCHANGED <<rows, port, running, deleting, socket>>

InUse(p) == \E c \in Starts : socket[c] \in {"listening", "closing"} /\ start[c].port = p

(* serve: bind the configured port, unless it is taken by a socket of ours *)
(* or by another program, and spawn the task.                              *)
Bind(c) ==
    /\ start[c].stage = "loaded"
    /\ \/ /\ start[c].port = AnyPort \/ ~ InUse(start[c].port)
          /\ start' = [start EXCEPT ![c].stage = "bound"]
          /\ socket' = [socket EXCEPT ![c] = "listening"]
       \/ /\ start' = [start EXCEPT ![c].stage = "failed"]
          /\ UNCHANGED socket
    /\ UNCHANGED <<rows, port, running, deleting>>

(* The insert drops what the map held: a dropped handle detaches its task. *)
InsertRunning(c) ==
    /\ start[c].stage = "bound"
    /\ start' = [start EXCEPT ![c].stage = "done"]
    /\ running' = [running EXCEPT ![start[c].server] = c]
    /\ UNCHANGED <<rows, port, deleting, socket>>

(* Mistake: get instead of remove.                                         *)
StopKeepsEntry(s) ==
    /\ running[s] # NoStart
    /\ Abort(running[s])
    /\ UNCHANGED <<rows, port, running, deleting, start>>

StopMockServer(s) ==
    /\ running[s] # NoStart
    /\ Abort(running[s])
    /\ running' = [running EXCEPT ![s] = NoStart]
    /\ UNCHANGED <<rows, port, deleting, start>>

(* An aborted task is dropped, and its listener with it.                   *)
Closes(c) ==
    /\ socket[c] = "closing"
    /\ socket' = [socket EXCEPT ![c] = "closed"]
    /\ UNCHANGED <<rows, port, running, deleting, start>>

Next ==
    \/ \E s \in Servers :
         \/ \E p \in Configurable : Configure(s, p)
         \/ DeleteMockServer(s) \/ DeleteServerRow(s) \/ CascadeRow(s)
         \/ StopMockServer(s)
    \/ \E c \in Starts :
         \/ \E s \in Servers : CheckNotRunning(c, s)
         \/ LoadServer(c) \/ Bind(c) \/ InsertRunning(c) \/ Closes(c)

Spec == Init /\ [][Next]_vars

-----------------------------------------------------------------------------
(* Properties.                                                             *)

(* A server the map lists is up: its entry is the socket of a finished     *)
(* start of that very server, not yet aborted, so a stop stops something   *)
(* and no two servers share an entry.                                      *)
RunningIsListening ==
    \A s \in Servers : running[s] # NoStart =>
        /\ socket[running[s]] = "listening"
        /\ start[running[s]].stage = "done" /\ start[running[s]].server = s

(* A socket that listens but that neither stop nor delete reaches.         *)
Unreachable(c) ==
    /\ socket[c] = "listening" /\ start[c].stage = "done"
    /\ running[start[c].server] # c \/ start[c].server \notin rows

(* Stops, deletes, edits of the port and failed binds never strand a       *)
(* socket.  Only three things do: a start that finishes over another of    *)
(* the same server, a start that finishes after its row was deleted, and   *)
(* a row that goes by cascade or by a delete whose server was started      *)
(* again between its two locks.                                            *)
OnlyRacesStrand ==
    [][\A c \in Starts : (~ Unreachable(c) /\ Unreachable(c)') =>
          LET s == start[c].server
          IN \/ running[s] = c /\ running'[s] \notin {c, NoStart}
             \/ start[c].stage = "bound" /\ s \notin rows
             \/ running[s] = c /\ s \in rows /\ s \notin rows']_vars

=============================================================================
