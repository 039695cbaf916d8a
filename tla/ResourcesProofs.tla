--------------------------- MODULE ResourcesProofs --------------------------
(***************************************************************************)
(* Proofs about two rows that speak of something no transaction covers: a  *)
(* mock server's, of a listening socket (MockServers), and a workspace's   *)
(* settings, of the keychain (ClientCert).  For any servers, ports and     *)
(* start commands, every entry of the map of running servers listens, and  *)
(* only three races strand a socket.  For any number of saves, a masked    *)
(* field is backed and a send presents what the row says.                  *)
(***************************************************************************)
EXTENDS MockServers, ClientCert, SequenceTheorems, FiniteSetTheorems, TLAPS

-----------------------------------------------------------------------------
(* Mock servers.                                                           *)

(* RunningIsListening needs what holds between bind and insert: the socket *)
(* about to be entered listens, since no other command knows of it yet.    *)
BoundIsListening ==
    \A c \in Starts : start[c].stage = "bound" => socket[c] = "listening"

IInv == TypeOK /\ BoundIsListening /\ RunningIsListening

(* Nothing is configured, started or open at first.                        *)
LEMMA InitIInv == Init => IInv
<1> SUFFICES ASSUME Init PROVE IInv
  OBVIOUS
<1> DEFINE first == CHOOSE s \in Servers : TRUE
<1>1. first \in Servers
  BY MockServersAssumption
<1>2. \A c \in Starts : start[c] = [stage |-> "unborn", server |-> first, port |-> AnyPort]
  BY DEF Init
<1> HIDE DEF first
<1>3. start \in [Starts -> [stage : Stages, server : Servers, port : Configurable]]
  BY <1>1, <1>2 DEF Init, Stages, Configurable
<1>4. TypeOK
  BY <1>3 DEF Init, TypeOK, Configurable
<1>5. BoundIsListening
  BY <1>2 DEF BoundIsListening
<1>6. RunningIsListening
  BY DEF Init, RunningIsListening
<1> QED
  BY <1>4, <1>5, <1>6 DEF IInv

(* A command keeps the types.                                              *)
LEMMA TypeStep == TypeOK /\ [Next]_vars => TypeOK'
<1> SUFFICES ASSUME TypeOK, [Next]_vars PROVE TypeOK'
  OBVIOUS
<1> USE DEF TypeOK, Configurable
<1>1. ASSUME NEW s \in Servers, NEW p \in Configurable, Configure(s, p) PROVE TypeOK'
  BY <1>1 DEF Configure
<1>2. ASSUME NEW s \in Servers, DeleteMockServer(s) PROVE TypeOK'
  <2>1. CASE running[s] = NoStart
    BY <1>2, <2>1 DEF DeleteMockServer
  <2>2. CASE running[s] # NoStart
    BY <1>2, <2>2 DEF DeleteMockServer, Abort
  <2> QED
    BY <2>1, <2>2
<1>3. ASSUME NEW s \in Servers, DeleteServerRow(s) PROVE TypeOK'
  BY <1>3 DEF DeleteServerRow
<1>4. ASSUME NEW s \in Servers, CascadeRow(s) PROVE TypeOK'
  BY <1>4 DEF CascadeRow
<1>5. ASSUME NEW s \in Servers, StopMockServer(s) PROVE TypeOK'
  BY <1>5 DEF StopMockServer, Abort
<1>6. ASSUME NEW c \in Starts, NEW s \in Servers, CheckNotRunning(c, s) PROVE TypeOK'
  BY <1>6 DEF CheckNotRunning, Stages
<1>7. ASSUME NEW c \in Starts, LoadServer(c) PROVE TypeOK'
  <2> DEFINE s == start[c].server
             next == [start[c] EXCEPT !.stage = IF s \in rows THEN "loaded" ELSE "failed",
                                      !.port = IF s \in rows THEN port[s] ELSE @]
  <2>1. s \in Servers
    OBVIOUS
  <2>2. next \in [stage : Stages, server : Servers, port : Configurable]
    BY <2>1 DEF Stages
  <2>3. start' = [start EXCEPT ![c] = next]
    BY <1>7 DEF LoadServer
  <2>4. start' \in [Starts -> [stage : Stages, server : Servers, port : Configurable]]
    BY <2>2, <2>3
  <2> QED
    BY <1>7, <2>4 DEF LoadServer
<1>8. ASSUME NEW c \in Starts, Bind(c) PROVE TypeOK'
  BY <1>8 DEF Bind, Stages
<1>9. ASSUME NEW c \in Starts, InsertRunning(c) PROVE TypeOK'
  BY <1>9 DEF InsertRunning, Stages
<1>10. ASSUME NEW c \in Starts, Closes(c) PROVE TypeOK'
  BY <1>10 DEF Closes
<1>11. CASE UNCHANGED vars
  BY <1>11 DEF vars
<1> QED
  BY <1>1, <1>2, <1>3, <1>4, <1>5, <1>6, <1>7, <1>8, <1>9, <1>10, <1>11 DEF Next

(* However commands overlap, a start is of one of the servers,             *)
(* on a port that a user may give, and the map has only such starts.       *)
THEOREM TypeCorrect == Spec => []TypeOK
<1>1. Init => TypeOK
  BY InitIInv DEF IInv
<1> QED
  BY <1>1, TypeStep, PTL DEF Spec

(* An abort names the entry it removes, and no other server has that       *)
(* entry, since the entry's start is of one server.                        *)
LEMMA AbortKeeps ==
  ASSUME IInv, NEW s \in Servers, running[s] # NoStart, Abort(running[s]),
         running' = [running EXCEPT ![s] = NoStart], UNCHANGED start
  PROVE  BoundIsListening' /\ RunningIsListening'
<1> USE DEF IInv, TypeOK
<1>1. start[running[s]].stage = "done" /\ start[running[s]].server = s
  BY DEF RunningIsListening
<1>2. \A c \in Starts : c # running[s] => socket'[c] = socket[c]
  BY DEF Abort
<1>3. BoundIsListening'
  BY <1>1, <1>2 DEF BoundIsListening
<1>4. ASSUME NEW t \in Servers, running'[t] # NoStart
      PROVE  /\ socket'[running'[t]] = "listening"
             /\ start'[running'[t]].stage = "done" /\ start'[running'[t]].server = t
  <2>1. t # s /\ running'[t] = running[t] /\ running[t] \in Starts
    BY <1>4
  <2>2. start[running[t]].server = t
    BY <1>4, <2>1 DEF RunningIsListening
  <2>3. running[t] # running[s]
    BY <1>1, <2>1, <2>2
  <2>4. socket[running[t]] = "listening" /\ start[running[t]].stage = "done"
    BY <1>4, <2>1 DEF RunningIsListening
  <2> QED
    BY <1>2, <2>1, <2>2, <2>3, <2>4
<1> QED
  BY <1>3, <1>4 DEF RunningIsListening

(* A step of a start that is not finished moves no other start and enters  *)
(* nothing: the entries are of finished starts.                            *)
LEMMA StartKeeps ==
  ASSUME IInv, NEW c \in Starts, start[c].stage \notin {"bound", "done"},
         \A d \in Starts \ {c} : start'[d] = start[d] /\ socket'[d] = socket[d],
         start'[c].stage = "bound" => socket'[c] = "listening",
         UNCHANGED running
  PROVE  BoundIsListening' /\ RunningIsListening'
<1> USE DEF IInv, TypeOK
<1>1. BoundIsListening'
  BY DEF BoundIsListening
<1>2. \A s \in Servers : running[s] # c
  BY MockServersAssumption DEF RunningIsListening
<1> QED
  BY <1>1, <1>2 DEF RunningIsListening

(* Every step keeps the entries of the map listening.                      *)
LEMMA RunningStep == IInv /\ [Next]_vars => BoundIsListening' /\ RunningIsListening'
<1> SUFFICES ASSUME IInv, [Next]_vars PROVE BoundIsListening' /\ RunningIsListening'
  OBVIOUS
<1> USE DEF IInv
<1>1. CASE UNCHANGED <<running, start, socket>>
  BY <1>1 DEF BoundIsListening, RunningIsListening
<1>2. CASE \E s \in Servers :
             \/ \E p \in Configurable : Configure(s, p)
             \/ DeleteServerRow(s) \/ CascadeRow(s)
  BY <1>1, <1>2 DEF Configure, DeleteServerRow, CascadeRow
<1>3. ASSUME NEW s \in Servers, DeleteMockServer(s) \/ StopMockServer(s)
      PROVE  BoundIsListening' /\ RunningIsListening'
  <2>1. CASE running[s] = NoStart
    BY <1>1, <1>3, <2>1 DEF DeleteMockServer, StopMockServer
  <2>2. CASE running[s] # NoStart
    BY <1>3, <2>2, AbortKeeps DEF DeleteMockServer, StopMockServer
  <2> QED
    BY <2>1, <2>2
<1>4. ASSUME NEW c \in Starts, NEW s \in Servers, CheckNotRunning(c, s)
      PROVE  BoundIsListening' /\ RunningIsListening'
  BY <1>4, StartKeeps DEF CheckNotRunning, TypeOK
<1>5. ASSUME NEW c \in Starts, LoadServer(c)
      PROVE  BoundIsListening' /\ RunningIsListening'
  <2>1. start'[c].stage \in {"loaded", "failed"}
    BY <1>5 DEF LoadServer, TypeOK
  <2>2. \A d \in Starts \ {c} : start'[d] = start[d] /\ socket'[d] = socket[d]
    BY <1>5 DEF LoadServer, TypeOK
  <2> QED
    BY <1>5, <2>1, <2>2, StartKeeps DEF LoadServer
<1>6. ASSUME NEW c \in Starts, Bind(c)
      PROVE  BoundIsListening' /\ RunningIsListening'
  <2>1. start'[c].stage = "bound" => socket'[c] = "listening"
    BY <1>6 DEF Bind, TypeOK
  <2>2. \A d \in Starts \ {c} : start'[d] = start[d] /\ socket'[d] = socket[d]
    BY <1>6 DEF Bind, TypeOK
  <2> QED
    BY <1>6, <2>1, <2>2, StartKeeps DEF Bind
<1>7. ASSUME NEW c \in Starts, InsertRunning(c)
      PROVE  BoundIsListening' /\ RunningIsListening'
  <2>1. start'[c].stage = "done" /\ start'[c].server = start[c].server
    BY <1>7 DEF InsertRunning, TypeOK
  <2>2. \A d \in Starts \ {c} : start'[d] = start[d]
    BY <1>7 DEF InsertRunning, TypeOK
  <2>3. BoundIsListening'
    BY <1>7, <2>1, <2>2 DEF InsertRunning, BoundIsListening
  <2>4. socket[c] = "listening" /\ UNCHANGED socket
    BY <1>7 DEF InsertRunning, BoundIsListening
  <2>5. \A s \in Servers : running'[s] # NoStart =>
           running'[s] = running[s] \/ (running'[s] = c /\ s = start[c].server)
    BY <1>7 DEF InsertRunning, TypeOK
  <2>6. \A s \in Servers : running[s] # NoStart => running[s] \in Starts \ {c}
    BY <1>7 DEF InsertRunning, TypeOK, RunningIsListening
  <2> QED
    BY <2>1, <2>2, <2>3, <2>4, <2>5, <2>6 DEF RunningIsListening
<1>8. ASSUME NEW c \in Starts, Closes(c)
      PROVE  BoundIsListening' /\ RunningIsListening'
  BY <1>8 DEF Closes, TypeOK, BoundIsListening, RunningIsListening
<1>9. CASE UNCHANGED vars
  BY <1>1, <1>9 DEF vars
<1> QED
  BY <1>2, <1>3, <1>4, <1>5, <1>6, <1>7, <1>8, <1>9 DEF Next

(* Whatever starts, stops and deletes overlap, every running entry is a    *)
(* socket that listens for that server.                                    *)
THEOREM RunningListens == Spec => []RunningIsListening
<1>1. IInv /\ [Next]_vars => IInv'
  BY TypeStep, RunningStep DEF IInv
<1>2. IInv => RunningIsListening
  BY DEF IInv
<1> QED
  BY <1>1, <1>2, InitIInv, PTL DEF Spec

(* How a step strands the socket of start c, as OnlyRacesStrand lists it.  *)
Strands(c) ==
    \/ running[start[c].server] = c /\ running'[start[c].server] \notin {c, NoStart}
    \/ start[c].stage = "bound" /\ start[c].server \notin rows
    \/ /\ running[start[c].server] = c
       /\ start[c].server \in rows /\ start[c].server \notin rows'

(* A socket that a step neither opens nor finishes was reached by its row  *)
(* and its entry, so one of the two has gone.                              *)
LEMMA LosesRowOrEntry ==
  ASSUME NEW c \in Starts, start'[c] = start[c], socket'[c] = socket[c],
         ~ Unreachable(c), Unreachable(c)'
  PROVE  LET s == start[c].server
         IN /\ running[s] = c /\ s \in rows
            /\ running'[s] # c \/ s \notin rows'
  BY DEF Unreachable

(* A step after which a socket is out of reach is one of the three races.  *)
LEMMA StrandStep ==
  ASSUME IInv, Next, NEW c \in Starts, ~ Unreachable(c), Unreachable(c)'
  PROVE  Strands(c)
<1> USE DEF IInv, TypeOK
<1> DEFINE mine == start[c].server
<1>1. socket'[c] = "listening" /\ start'[c].stage = "done" /\ mine \in Servers
  BY DEF Unreachable
<1>2. ASSUME NEW s \in Servers, DeleteServerRow(s) \/ CascadeRow(s) PROVE Strands(c)
  BY <1>2, LosesRowOrEntry DEF DeleteServerRow, CascadeRow, Strands
<1>3. ASSUME NEW s \in Servers, NEW p \in Configurable, Configure(s, p) PROVE FALSE
  BY <1>3, LosesRowOrEntry DEF Configure
<1>4. ASSUME NEW s \in Servers, DeleteMockServer(s) \/ StopMockServer(s) PROVE FALSE
  <2>1. UNCHANGED <<rows, start>> /\ \A t \in Servers \ {s} : running'[t] = running[t]
    BY <1>4 DEF DeleteMockServer, StopMockServer
  <2>2. CASE running[s] = NoStart
    BY <1>4, <2>1, <2>2, LosesRowOrEntry DEF DeleteMockServer, StopMockServer
  <2>3. CASE running[s] # NoStart
    <3>1. socket' = [socket EXCEPT ![running[s]] = "closing"]
      BY <1>4, <2>3 DEF DeleteMockServer, StopMockServer, Abort
    <3>2. c # running[s] /\ socket'[c] = socket[c]
      BY <1>1, <2>3, <3>1
    <3>3. running[mine] = c /\ running'[mine] # c
      BY <2>1, <3>2, LosesRowOrEntry
    <3> QED
      BY <1>1, <2>1, <3>2, <3>3
  <2> QED
    BY <2>2, <2>3
<1>5. ASSUME NEW d \in Starts, LoadServer(d) \/ Bind(d) \/ \E s \in Servers : CheckNotRunning(d, s)
      PROVE  FALSE
  <2>1. UNCHANGED <<rows, running>> /\ start'[d].stage # "done"
    BY <1>5 DEF LoadServer, Bind, CheckNotRunning
  <2>2. c # d
    BY <1>1, <2>1
  <2>3. start'[c] = start[c] /\ socket'[c] = socket[c]
    BY <1>5, <2>2 DEF LoadServer, Bind, CheckNotRunning
  <2> QED
    BY <2>1, <2>3, LosesRowOrEntry
<1>6. ASSUME NEW d \in Starts, InsertRunning(d) PROVE Strands(c)
  <2>1. UNCHANGED <<rows, socket>> /\ start[d].stage = "bound"
    BY <1>6 DEF InsertRunning
  <2>2. CASE c = d
    <3>1. start'[c].server = mine /\ running'[mine] = c
      BY <1>1, <1>6, <2>2 DEF InsertRunning
    <3>2. mine \notin rows
      BY <2>1, <3>1 DEF Unreachable
    <3> QED
      BY <2>1, <2>2, <3>2 DEF Strands
  <2>3. CASE c # d
    <3>1. start'[c] = start[c]
      BY <1>6, <2>3 DEF InsertRunning
    <3>2. running[mine] = c /\ running'[mine] # c
      BY <2>1, <3>1, LosesRowOrEntry
    <3>3. running'[mine] = d
      BY <1>1, <1>6, <3>2 DEF InsertRunning
    <3> QED
      BY <2>3, <3>2, <3>3, MockServersAssumption DEF Strands
  <2> QED
    BY <2>2, <2>3
<1>7. ASSUME NEW d \in Starts, Closes(d) PROVE FALSE
  <2>1. UNCHANGED <<rows, running, start>> /\ c # d
    BY <1>1, <1>7 DEF Closes
  <2>2. socket'[c] = socket[c]
    BY <1>7, <2>1 DEF Closes
  <2> QED
    BY <2>1, <2>2, LosesRowOrEntry
<1> QED
  BY <1>2, <1>3, <1>4, <1>5, <1>6, <1>7 DEF Next

(* However starts, stops, deletes and edits of any number of servers       *)
(* overlap, only the three races strand a socket.                          *)
THEOREM RacesStrand == Spec => OnlyRacesStrand
<1>1. IInv /\ [Next]_vars
        => [\A c \in Starts : (~ Unreachable(c) /\ Unreachable(c)') =>
              LET s == start[c].server
              IN \/ running[s] = c /\ running'[s] \notin {c, NoStart}
                 \/ start[c].stage = "bound" /\ s \notin rows
                 \/ running[s] = c /\ s \in rows /\ s \notin rows']_vars
  BY StrandStep DEF Strands
<1>2. IInv /\ [Next]_vars => IInv'
  BY TypeStep, RunningStep DEF IInv
<1> QED
  BY <1>1, <1>2, InitIInv, PTL DEF Spec, OnlyRacesStrand

-----------------------------------------------------------------------------
(* The client certificate.                                                 *)

(* What the rows and the draft may hold, and the calls a command may have  *)
(* left: of a save, of the deletion of the workspace, of a restore.        *)
Fields == {"empty", "mask"}
Modes == {"none", "paste"}
Certs == [mode : Modes, cert : Fields, key : Fields]
Drafted == [mode : Modes, cert : Fields \union {"typed"}, key : Fields \union {"typed"}]
Lives == {"unborn", "live", "gone"}
Saving == {<<"cert", "key", "upsert">>, <<"key", "upsert">>, <<"upsert">>}
Deleting == {<<"cert", "key", "delete">>, <<"key", "delete">>, <<"delete">>}
Restoring == {<<"cert", "key">>, <<"cert">>, <<"key">>}

Waits(calls, s) == \E i \in 1..Len(calls) : calls[i] = s

(* A slot holds the bytes of some save, and a command that is under way is *)
(* one of the three.                                                       *)
CertType ==
    /\ life \in Lives
    /\ row \in Certs /\ cached \in Certs /\ draft \in Drafted
    /\ keychain \in [Slots -> Nat]
    /\ backup \in [life : Lives, row : Certs, keychain : [Slots -> Nat]]
    /\ todo \in {<<>>} \union Saving \union Deleting \union Restoring
    /\ saves \in Nat
    /\ upsets \subseteq {"fault", "restore"}

(* A certificate whose masked fields are in the keychain; one whose empty  *)
(* fields are not; one that no mode but Paste gives fields.                *)
Backed(c, keys) == \A s \in Slots : c[s] = "mask" => keys[s] # 0
Bare(c, keys) == \A s \in Slots : c[s] = "empty" => keys[s] = 0
Unset(c) == c.mode = "none" => c.cert = "empty" /\ c.key = "empty"

(* What the rows say whatever failed: a workspace that is not there has no *)
(* settings, and only a live one is being saved.                           *)
RowsInv ==
    /\ Unset(row) /\ Unset(draft) /\ Unset(backup.row)
    /\ life # "live" => row = NoCert
    /\ backup.life # "live" => backup.row = NoCert
    /\ life = "unborn" => todo = <<>> /\ keychain = NoKeys /\ cached = NoCert
    /\ todo \in Saving => life = "live" /\ saves > 0

(* MaskIsBacked speaks of the moments between commands; this is what holds *)
(* inside one as well.  A save has dealt with the slots it no longer waits *)
(* for, and its draft marks a field as untouched only where there are      *)
(* bytes.  A restore waits only for slots the archive has bytes for, and   *)
(* has backed the other marked ones.  The archive and the form in the      *)
(* window's cache are as sound as the row they were taken from.            *)
SoundInv ==
    /\ Backed(backup.row, backup.keychain)
    /\ (Idle /\ life = "live") =>
          /\ Backed(row, keychain) /\ Backed(cached, keychain)
          /\ "restore" \notin upsets => Bare(row, keychain)
    /\ todo \in Saving =>
          \A s \in Slots : /\ draft[s] = "mask" => keychain[s] # 0
                           /\ ~ Waits(todo, s) /\ draft[s] = "typed" => keychain[s] # 0
                           /\ ~ Waits(todo, s) /\ draft[s] = "empty" => keychain[s] = 0
    /\ todo \in Restoring =>
          /\ row = backup.row /\ "restore" \in upsets
          /\ \A s \in Slots : /\ Waits(todo, s) => backup.keychain[s] # 0
                              /\ row[s] = "mask" /\ ~ Waits(todo, s) => keychain[s] # 0

(* After a keychain call that failed only the types and the rows are left. *)
CertInv == CertType /\ RowsInv /\ ("fault" \in upsets \/ SoundInv)

(* The last call left tells which command it is.                           *)
LEMMA SavingCalls ==
  ASSUME NEW q \in Saving
  PROVE  /\ q # <<>> /\ q[Len(q)] = "upsert"
         /\ Head(q) \in {"cert", "key", "upsert"}
         /\ Head(q) = "upsert" => q = <<"upsert">>
<1>1. CASE q = <<"cert", "key", "upsert">>
  BY <1>1
<1>2. CASE q = <<"key", "upsert">>
  BY <1>2
<1>3. CASE q = <<"upsert">>
  BY <1>3
<1> QED
  BY <1>1, <1>2, <1>3 DEF Saving

(* The same of a deletion.                                                 *)
LEMMA DeletingCalls ==
  ASSUME NEW q \in Deleting
  PROVE  q # <<>> /\ q[Len(q)] = "delete"
<1>1. CASE q = <<"cert", "key", "delete">>
  BY <1>1
<1>2. CASE q = <<"key", "delete">>
  BY <1>2
<1>3. CASE q = <<"delete">>
  BY <1>3
<1> QED
  BY <1>1, <1>2, <1>3 DEF Deleting

(* The same of a restore, which ends with a slot.                          *)
LEMMA RestoringCalls ==
  ASSUME NEW q \in Restoring
  PROVE  q # <<>> /\ q[Len(q)] \in Slots
<1>1. CASE q = <<"cert", "key">>
  BY <1>1 DEF Slots
<1>2. CASE q = <<"cert">>
  BY <1>2 DEF Slots
<1>3. CASE q = <<"key">>
  BY <1>3 DEF Slots
<1> QED
  BY <1>1, <1>2, <1>3 DEF Restoring

(* So the guards of the keychain calls tell the commands apart.            *)
LEMMA CallsByEnd ==
  ASSUME NEW q \in {<<>>} \union Saving \union Deleting \union Restoring, q # <<>>
  PROVE  /\ q[Len(q)] = "upsert" => q \in Saving
         /\ q[Len(q)] = "delete" => q \in Deleting
         /\ q[Len(q)] \in Slots => q \in Restoring
<1>1. "upsert" # "delete" /\ "upsert" \notin Slots /\ "delete" \notin Slots
  BY DEF Slots
<1> QED
  BY <1>1, SavingCalls, DeletingCalls, RestoringCalls

(* No command is taken for another.                                        *)
LEMMA OtherCalls ==
  ASSUME NEW q
  PROVE  /\ q \in Saving => q \notin Deleting \union Restoring
         /\ q \in Deleting => q \notin Restoring
<1>1. "upsert" # "delete" /\ "upsert" \notin Slots /\ "delete" \notin Slots
  BY DEF Slots
<1> QED
  BY <1>1, SavingCalls, DeletingCalls, RestoringCalls

(* After the call for slot s a save waits for what it waited for but s.    *)
LEMMA SavingGoesOn ==
  ASSUME NEW q \in Saving, NEW s \in Slots, Head(q) = s
  PROVE  /\ Tail(q) \in Saving
         /\ Waits(q, s) /\ ~ Waits(Tail(q), s)
         /\ \A t \in Slots \ {s} : Waits(Tail(q), t) <=> Waits(q, t)
<1> DEFINE rest == Tail(q)
<1>1. CASE q = <<"cert", "key", "upsert">>
  <2>1. s = "cert" /\ rest = <<"key", "upsert">>
    BY <1>1
  <2> QED
    BY <1>1, <2>1 DEF Saving, Slots, Waits
<1>2. CASE q = <<"key", "upsert">>
  <2>1. s = "key" /\ rest = <<"upsert">>
    BY <1>2
  <2> QED
    BY <1>2, <2>1 DEF Saving, Slots, Waits
<1>3. CASE q = <<"upsert">>
  BY <1>3 DEF Slots
<1> QED
  BY <1>1, <1>2, <1>3 DEF Saving

(* After the call for a slot the deletion of the workspace goes on.        *)
LEMMA DeletingGoesOn ==
  ASSUME NEW q \in Deleting, NEW s \in Slots, Head(q) = s
  PROVE  Tail(q) \in Deleting
<1>1. CASE q = <<"cert", "key", "delete">>
  <2>1. Tail(q) = <<"key", "delete">>
    BY <1>1
  <2> QED
    BY <2>1 DEF Deleting
<1>2. CASE q = <<"key", "delete">>
  <2>1. Tail(q) = <<"delete">>
    BY <1>2
  <2> QED
    BY <2>1 DEF Deleting
<1>3. CASE q = <<"delete">>
  BY <1>3 DEF Slots
<1> QED
  BY <1>1, <1>2, <1>3 DEF Deleting

(* After the call for slot s a restore waits for the other slot, if at     *)
(* all.                                                                    *)
LEMMA RestoringGoesOn ==
  ASSUME NEW q \in Restoring, NEW s \in Slots, Head(q) = s
  PROVE  /\ Tail(q) \in {<<>>} \union Restoring
         /\ Waits(q, s) /\ ~ Waits(Tail(q), s)
         /\ \A t \in Slots \ {s} : Waits(Tail(q), t) <=> Waits(q, t)
<1>1. CASE q = <<"cert", "key">>
  <2>1. s = "cert" /\ Tail(q) = <<"key">>
    BY <1>1
  <2> QED
    BY <1>1, <2>1 DEF Restoring, Slots, Waits
<1>2. CASE Len(q) = 1 /\ q = <<s>>
  <2>1. Tail(q) = <<>>
    BY <1>2
  <2> QED
    BY <1>2, <2>1 DEF Restoring, Slots, Waits
<1>3. q \in {<<"cert">>, <<"key">>} => Len(q) = 1 /\ q = <<s>>
  OBVIOUS
<1> QED
  BY <1>1, <1>2, <1>3 DEF Restoring

(* There is no workspace, and nothing in the keychain, at first.           *)
LEMMA InitCertInv == CertInit => CertInv
<1> SUFFICES ASSUME CertInit PROVE CertInv
  OBVIOUS
<1>1. CertType
  BY DEF CertInit, CertType, Lives, Certs, Drafted, Fields, Modes, NoCert, NoKeys, NoBackup
<1>2. todo \notin Saving \union Restoring
  BY SavingCalls, RestoringCalls DEF CertInit
<1>3. RowsInv
  BY <1>2 DEF CertInit, RowsInv, NoCert, NoKeys, NoBackup, Unset
<1>4. SoundInv
  BY <1>2 DEF CertInit, SoundInv, NoCert, NoKeys, NoBackup, Backed, Bare, Idle, Slots
<1> QED
  BY <1>1, <1>3, <1>4 DEF CertInv

(* The commands of one step and the start of a deletion touch no slot; the *)
(* archive and the form take over a sound row.                             *)
LEMMA QuietStep ==
  ASSUME CertInv,
         CreateWorkspace \/ LoadSettings \/ DeleteWorkspace \/ CreateBackup \/ Send
  PROVE  CertInv'
<1> USE DEF CertInv
<1>1. UNCHANGED <<row, keychain, draft, saves, upsets>> /\ Idle
  BY DEF CreateWorkspace, LoadSettings, DeleteWorkspace, CreateBackup, Send
<1>2. todo = <<>> /\ todo \notin Saving \union Restoring
  BY <1>1, SavingCalls, RestoringCalls DEF Idle
<1>3. todo' \notin Saving \union Restoring /\ todo' \in {<<>>} \union Deleting
  <2>1. <<"cert", "key", "delete">> \in Deleting
    BY DEF Deleting
  <2> QED
    BY <1>2, <2>1, OtherCalls DEF CreateWorkspace, LoadSettings, DeleteWorkspace, CreateBackup, Send
<1>4. CASE CreateWorkspace
  <2>1. CertType'
    BY <1>1, <1>3, <1>4 DEF CreateWorkspace, CertType, Lives
  <2>2. RowsInv'
    BY <1>1, <1>2, <1>3, <1>4 DEF CreateWorkspace, RowsInv
  <2>3. ASSUME SoundInv PROVE SoundInv'
    BY <1>1, <1>2, <1>3, <1>4, <2>3 DEF CreateWorkspace, SoundInv, RowsInv, CertType, NoCert, NoKeys, Backed, Bare, Idle, Slots
  <2> QED
    BY <1>1, <2>1, <2>2, <2>3
<1>5. CASE LoadSettings
  <2>1. CertType'
    BY <1>1, <1>3, <1>5 DEF LoadSettings, CertType
  <2>2. RowsInv'
    BY <1>1, <1>2, <1>3, <1>5 DEF LoadSettings, RowsInv
  <2>3. ASSUME SoundInv PROVE SoundInv'
    BY <1>1, <1>2, <1>3, <1>5, <2>3 DEF LoadSettings, SoundInv, Backed, Bare, Idle
  <2> QED
    BY <1>1, <2>1, <2>2, <2>3
<1>6. CASE DeleteWorkspace
  <2>1. CertType'
    BY <1>1, <1>3, <1>6 DEF DeleteWorkspace, CertType
  <2>2. RowsInv'
    BY <1>1, <1>2, <1>3, <1>6 DEF DeleteWorkspace, RowsInv
  <2>3. ASSUME SoundInv PROVE SoundInv'
    BY <1>1, <1>2, <1>3, <1>6, <2>3 DEF DeleteWorkspace, SoundInv, Backed, Bare, Idle
  <2> QED
    BY <1>1, <2>1, <2>2, <2>3
<1>7. CASE CreateBackup
  <2>1. /\ backup'.life = life /\ backup'.row = row
        /\ backup'.keychain = IF life = "live" THEN keychain ELSE NoKeys
    BY <1>7 DEF CreateBackup
  <2>2. CertType'
    <3>1. NoKeys \in [Slots -> Nat]
      BY DEF NoKeys
    <3>2. backup' \in [life : Lives, row : Certs, keychain : [Slots -> Nat]]
      BY <1>7, <3>1 DEF CreateBackup, CertType
    <3> QED
      BY <1>1, <1>3, <1>7, <3>2 DEF CreateBackup, CertType
  <2>3. RowsInv'
    BY <1>1, <1>2, <1>3, <1>7, <2>1 DEF CreateBackup, RowsInv
  <2>4. ASSUME SoundInv PROVE SoundInv'
    <3>1. Backed(backup.row, backup.keychain)'
      <4>1. CASE life = "live"
        BY <1>1, <1>7, <2>1, <2>4, <4>1 DEF CreateBackup, SoundInv, Backed
      <4>2. CASE life # "live"
        BY <2>1, <4>2 DEF RowsInv, Backed, NoCert, Slots
      <4> QED
        BY <4>1, <4>2
    <3> QED
      BY <1>1, <1>2, <1>3, <1>7, <2>4, <3>1 DEF CreateBackup, SoundInv, Backed, Bare, Idle
  <2> QED
    BY <1>1, <2>2, <2>3, <2>4
<1>8. CASE Send
  <2>1. UNCHANGED <<life, row, keychain, cached, backup, todo, draft, saves, upsets>>
    BY <1>8 DEF Send
  <2>2. CertType'
    BY <2>1 DEF CertType
  <2>3. RowsInv'
    BY <2>1 DEF RowsInv
  <2>4. SoundInv => SoundInv'
    BY <2>1 DEF SoundInv, Idle, Backed, Bare, Waits
  <2> QED
    BY <2>1, <2>2, <2>3, <2>4
<1> QED
  BY <1>4, <1>5, <1>6, <1>7, <1>8

(* A save starts from the form, whose marks are backed.                    *)
LEMMA SetStep == ASSUME CertInv, SetWorkspaceSettings PROVE CertInv'
<1> USE DEF CertInv
<1>1. /\ Idle /\ life = "live" /\ saves' = saves + 1
      /\ todo' = <<"cert", "key", "upsert">>
      /\ UNCHANGED <<life, row, keychain, cached, backup, upsets>>
  BY DEF SetWorkspaceSettings
<1>2. /\ draft' \in Drafted /\ Unset(draft')
      /\ \A s \in Slots : draft'[s] = "mask" => cached[s] = "mask"
  BY DEF SetWorkspaceSettings, CertType, Certs, Drafted, Modes, Fields, Unset, NoCert, Slots
<1>3. todo' \in Saving /\ todo' \notin Deleting \union Restoring /\ todo' # <<>>
  <2>1. todo' \in Saving
    BY <1>1 DEF Saving
  <2> QED
    BY <2>1, OtherCalls, SavingCalls
<1>4. \A s \in Slots : Waits(todo', s)
  BY <1>1 DEF Slots, Waits
<1>5. CertType'
  BY <1>1, <1>2, <1>3 DEF CertType
<1>6. RowsInv'
  BY <1>1, <1>2, <1>3 DEF RowsInv, CertType
<1>7. ASSUME SoundInv PROVE SoundInv'
  BY <1>1, <1>2, <1>3, <1>4, <1>7 DEF SoundInv, Backed, Idle
<1> QED
  BY <1>1, <1>5, <1>6, <1>7

(* A save settles one slot: left alone, emptied, or written with the bytes *)
(* of this very save.                                                      *)
LEMMA PersistSlotStep == ASSUME CertInv, NEW s \in Slots, PersistSlot(s) PROVE CertInv'
<1> USE DEF CertInv
<1>1. /\ todo \in Saving /\ Head(todo) = s
      /\ UNCHANGED <<life, row, cached, backup, draft, saves>>
  BY CallsByEnd DEF PersistSlot, Idle, CertType
<1>2. /\ Tail(todo) \in Saving
      /\ Waits(todo, s) /\ ~ Waits(Tail(todo), s)
      /\ \A t \in Slots \ {s} : Waits(Tail(todo), t) <=> Waits(todo, t)
  BY <1>1, SavingGoesOn
<1>3. /\ todo' \in {<<>>, Tail(todo)} /\ upsets' \in {upsets, upsets \union {"fault"}}
      /\ keychain' \in {keychain, [keychain EXCEPT ![s] = 0], [keychain EXCEPT ![s] = saves]}
  BY DEF PersistSlot, DeleteSlot, SlotWritten, SlotFails
<1>4. CertType'
  <2>1. todo' \in {<<>>} \union Saving
    BY <1>2, <1>3
  <2>2. keychain' \in [Slots -> Nat]
    BY <1>3 DEF CertType
  <2>3. upsets' \subseteq {"fault", "restore"}
    BY <1>3 DEF CertType
  <2> QED
    BY <1>1, <2>1, <2>2, <2>3 DEF CertType
<1>5. life = "live" /\ saves > 0
  BY <1>1 DEF RowsInv
<1>6. RowsInv'
  BY <1>1, <1>5 DEF RowsInv
<1>7. ASSUME SoundInv, "fault" \notin upsets' PROVE SoundInv'
  <2>1. todo' = Tail(todo) /\ upsets' = upsets
    BY <1>7 DEF PersistSlot, DeleteSlot, SlotWritten, SlotFails
  <2>2. /\ draft[s] = "mask" => keychain' = keychain
        /\ draft[s] = "typed" => keychain' = [keychain EXCEPT ![s] = saves]
        /\ draft[s] = "empty" => keychain' = [keychain EXCEPT ![s] = 0]
    BY <1>7 DEF PersistSlot, DeleteSlot, SlotWritten, SlotFails
  <2>3. /\ draft[s] = "mask" => keychain'[s] # 0
        /\ draft[s] = "typed" => keychain'[s] # 0
        /\ draft[s] = "empty" => keychain'[s] = 0
    BY <1>1, <1>5, <1>7, <2>2 DEF CertType, SoundInv
  <2>4. \A t \in Slots \ {s} : keychain'[t] = keychain[t]
    BY <1>3 DEF CertType
  <2>5. todo' \in Saving /\ todo' \notin Restoring /\ todo' # <<>>
    BY <1>2, <2>1, OtherCalls, SavingCalls
  <2> QED
    BY <1>1, <1>2, <1>7, <2>1, <2>3, <2>4, <2>5 DEF SoundInv, Idle
<1> QED
  BY <1>3, <1>4, <1>6, <1>7

(* The row of a save marks what was untouched or typed, and that is        *)
(* backed.                                                                 *)
LEMMA PersistRowStep == ASSUME CertInv, PersistRow PROVE CertInv'
<1> USE DEF CertInv
<1> DEFINE masked(v) == IF v = "empty" THEN "empty" ELSE "mask"
<1>1. /\ row' = [mode |-> draft.mode, cert |-> masked(draft.cert), key |-> masked(draft.key)]
      /\ cached' = row' /\ todo' = <<>> /\ draft' = NoCert
      /\ UNCHANGED <<life, keychain, backup, saves, upsets>>
  BY DEF PersistRow
<1>2. todo \in Saving /\ \A s \in Slots : ~ Waits(todo, s)
  BY DEF PersistRow, Saving, Slots, Waits
<1>3. draft \in Drafted /\ Unset(draft)
  BY DEF CertType, RowsInv
<1>4. row' \in Certs /\ Unset(row') /\ NoCert \in Drafted /\ Unset(NoCert)
  BY <1>1, <1>3 DEF Certs, Drafted, Fields, Modes, Unset, NoCert
<1>5. \A s \in Slots : /\ row'[s] = "mask" => draft[s] \in {"mask", "typed"}
                       /\ row'[s] = "empty" => draft[s] = "empty"
  BY <1>1, <1>3 DEF Drafted, Fields, Slots
<1>6. todo' \notin Saving \union Restoring
  BY <1>1, SavingCalls, RestoringCalls
<1>7. CertType'
  BY <1>1, <1>4 DEF CertType
<1>8. life = "live"
  BY <1>2 DEF RowsInv
<1>9. RowsInv'
  BY <1>1, <1>4, <1>6, <1>8 DEF RowsInv
<1>10. ASSUME SoundInv PROVE SoundInv'
  BY <1>1, <1>2, <1>5, <1>6, <1>10 DEF SoundInv, Backed, Bare
<1> QED
  BY <1>1, <1>7, <1>9, <1>10

(* A deletion empties the slots of a row that then goes, or stays by a     *)
(* fault.                                                                  *)
LEMMA DeleteSteps ==
  ASSUME CertInv, DeleteRow \/ \E s \in Slots : DeleteCertSecret(s)
  PROVE  CertInv'
<1> USE DEF CertInv
<1>1. CASE DeleteRow
  <2>1. /\ todo' = <<>> /\ UNCHANGED <<keychain, cached, backup, draft, saves>>
        /\ \/ life' = "gone" /\ row' = NoCert /\ UNCHANGED upsets
           \/ upsets' = upsets \union {"fault"} /\ UNCHANGED <<life, row>>
    BY <1>1 DEF DeleteRow
  <2>2. todo # <<>> /\ todo' \notin Saving \union Restoring
    BY <1>1, <2>1, SavingCalls, RestoringCalls DEF DeleteRow
  <2>3. CertType'
    <3>1. NoCert \in Certs /\ "gone" \in Lives
      BY DEF NoCert, Certs, Modes, Fields, Lives
    <3>2. upsets' \subseteq {"fault", "restore"}
      BY <2>1 DEF CertType
    <3> QED
      BY <2>1, <3>1, <3>2 DEF CertType
  <2>4. RowsInv'
    BY <2>1, <2>2 DEF RowsInv, NoCert, Unset
  <2>5. ASSUME SoundInv, "fault" \notin upsets' PROVE SoundInv'
    BY <2>1, <2>2, <2>5 DEF SoundInv
  <2> QED
    BY <2>1, <2>3, <2>4, <2>5
<1>2. ASSUME NEW s \in Slots, DeleteCertSecret(s) PROVE CertInv'
  <2>1. /\ UNCHANGED <<life, row, cached, backup, draft, saves>> /\ todo' = Tail(todo)
        /\ keychain' \in {keychain, [keychain EXCEPT ![s] = 0]}
        /\ upsets' \in {upsets, upsets \union {"fault"}}
    BY <1>2 DEF DeleteCertSecret, DeleteSlot
  <2>2. todo \in Deleting /\ Head(todo) = s
    BY <1>2, CallsByEnd DEF DeleteCertSecret, Idle, CertType
  <2>3. todo' \in Deleting /\ todo' # <<>> /\ todo' \notin Saving \union Restoring /\ todo # <<>>
    BY <2>1, <2>2, DeletingGoesOn, DeletingCalls, OtherCalls
  <2>4. CertType'
    BY <2>1, <2>3 DEF CertType
  <2>5. RowsInv'
    BY <2>1, <2>3 DEF RowsInv
  <2>6. SoundInv => SoundInv'
    BY <2>1, <2>3 DEF SoundInv, Idle
  <2> QED
    BY <2>1, <2>4, <2>5, <2>6
<1> QED
  BY <1>1, <1>2

(* A restore is to write exactly the slots the archive has bytes for.      *)
LEMMA ArchivedCalls ==
  ASSUME CertType
  PROVE  LET q == Archived("cert") \o Archived("key")
         IN /\ q \in {<<>>} \union Restoring
            /\ \A s \in Slots : Waits(q, s) <=> backup.keychain[s] # 0
<1> DEFINE q == Archived("cert") \o Archived("key")
           has(s) == backup.keychain[s] # 0
<1> SUFFICES /\ q \in {<<>>} \union Restoring
             /\ \A s \in Slots : Waits(q, s) <=> has(s)
  OBVIOUS
<1>1. q = (IF has("cert") THEN <<"cert">> ELSE <<>>) \o (IF has("key") THEN <<"key">> ELSE <<>>)
  BY DEF Archived
<1> HIDE DEF q, has
<1>2. CASE has("cert") /\ has("key")
  <2> DEFINE c == <<"cert">>
             k == <<"key">>
  <2>1. q = c \o k
    BY <1>1, <1>2
  <2>2. c \in Seq(Slots) /\ k \in Seq(Slots) /\ <<"cert", "key">> \in Seq(Slots)
    BY DEF Slots
  <2>3. Len(c) = 1 /\ Len(k) = 1 /\ c[1] = "cert" /\ k[1] = "key"
    OBVIOUS
  <2>4. q = <<"cert", "key">>
    <3> HIDE DEF c, k
    <3>1. q \in Seq(Slots) /\ Len(q) = 2 /\ q[1] = "cert" /\ q[2] = "key"
      BY <2>1, <2>2, <2>3, ConcatProperties
    <3> QED
      BY <2>2, <3>1, SeqEqual
  <2>5. \A s \in Slots : Waits(q, s) /\ has(s)
    BY <1>2, <2>4 DEF Waits, Slots
  <2> QED
    BY <2>4, <2>5 DEF Restoring
<1>3. ASSUME NEW s \in Slots, has(s), \A t \in Slots \ {s} : ~ has(t)
      PROVE  q \in {<<>>} \union Restoring /\ \A t \in Slots : Waits(q, t) <=> has(t)
  <2>1. q = <<s>> \o <<>> \/ q = <<>> \o <<s>>
    BY <1>1, <1>3 DEF Slots
  <2>2. q = <<s>>
    BY <2>1
  <2>3. \A t \in Slots : Waits(q, t) <=> t = s
    BY <2>2 DEF Waits
  <2>4. q \in Restoring
    BY <2>2 DEF Restoring, Slots
  <2> QED
    BY <1>3, <2>3, <2>4
<1>4. CASE ~ has("cert") /\ ~ has("key")
  <2>1. q = <<>> \o <<>>
    BY <1>1, <1>4
  <2>2. q = <<>>
    BY <2>1
  <2> QED
    BY <1>4, <2>2 DEF Waits, Slots
<1>5. has("cert") \in BOOLEAN /\ has("key") \in BOOLEAN
  BY DEF has
<1> QED
  BY <1>2, <1>3, <1>4, <1>5 DEF Slots

(* The row of the archive comes with the calls that will back it.          *)
LEMMA RestoreBackupStep == ASSUME CertInv, RestoreBackup PROVE CertInv'
<1> USE DEF CertInv
<1>1. /\ Idle /\ life # "unborn"
      /\ life' = IF backup.life = "live" THEN "live" ELSE "gone"
      /\ row' = backup.row
      /\ todo' = Archived("cert") \o Archived("key")
      /\ cached' = IF todo' = <<>> THEN NoCert ELSE cached
      /\ upsets' = upsets \union {"restore"}
      /\ UNCHANGED <<keychain, backup, draft, saves>>
  BY DEF RestoreBackup
<1>2. /\ todo' \in {<<>>} \union Restoring
      /\ \A s \in Slots : Waits(todo', s) <=> backup.keychain[s] # 0
  BY <1>1, ArchivedCalls
<1>3. todo' \notin Saving
  BY <1>2, OtherCalls, SavingCalls
<1>4. CertType'
  BY <1>1, <1>2 DEF CertType, Lives, NoCert, Certs, Modes, Fields
<1>5. RowsInv'
  BY <1>1, <1>3 DEF RowsInv
<1>6. ASSUME SoundInv PROVE SoundInv'
  <2>1. \A s \in Slots : row'[s] = "mask" => backup.keychain[s] # 0
    BY <1>1, <1>6 DEF SoundInv, Backed
  <2>2. CASE todo' = <<>>
    <3>1. \A s \in Slots : ~ Waits(todo', s)
      BY <2>2 DEF Waits
    <3>2. Backed(row', keychain') /\ Backed(cached', keychain')
      BY <1>1, <1>2, <2>1, <2>2, <3>1 DEF Backed, NoCert, Slots
    <3> QED
      BY <1>1, <1>3, <1>6, <2>2, <3>2, RestoringCalls DEF SoundInv
  <2>3. CASE todo' \in Restoring
    BY <1>1, <1>2, <1>3, <1>6, <2>1, <2>3, RestoringCalls DEF SoundInv, Idle
  <2> QED
    BY <1>2, <2>2, <2>3
<1> QED
  BY <1>1, <1>4, <1>5, <1>6

(* A call of a restore backs its slot, and the last one drops the form.    *)
LEMMA RestoreSecretStep == ASSUME CertInv, NEW s \in Slots, RestoreSecret(s) PROVE CertInv'
<1> USE DEF CertInv
<1>1. /\ todo \in Restoring /\ Head(todo) = s
      /\ UNCHANGED <<life, row, backup, draft, saves>>
  BY CallsByEnd DEF RestoreSecret, Idle, CertType
<1>2. /\ Tail(todo) \in {<<>>} \union Restoring
      /\ Waits(todo, s) /\ ~ Waits(Tail(todo), s)
      /\ \A t \in Slots \ {s} : Waits(Tail(todo), t) <=> Waits(todo, t)
  BY <1>1, RestoringGoesOn
<1>3. /\ todo' \in {<<>>, Tail(todo)} /\ upsets' \in {upsets, upsets \union {"fault"}}
      /\ keychain' \in {keychain, [keychain EXCEPT ![s] = backup.keychain[s]]}
      /\ cached' \in {NoCert, cached}
  BY DEF RestoreSecret, SlotWritten, SlotFails
<1>4. CertType'
  <2>1. todo' \in {<<>>} \union Restoring
    BY <1>2, <1>3
  <2>2. keychain' \in [Slots -> Nat]
    BY <1>3 DEF CertType
  <2>3. upsets' \subseteq {"fault", "restore"}
    BY <1>3 DEF CertType
  <2>4. NoCert \in Certs
    BY DEF NoCert, Certs, Modes, Fields
  <2> QED
    BY <1>1, <1>3, <2>1, <2>2, <2>3, <2>4 DEF CertType
<1>5. life # "unborn" /\ todo' \notin Saving
  BY <1>1, <1>2, <1>3, OtherCalls, SavingCalls, RestoringCalls DEF RowsInv
<1>6. RowsInv'
  BY <1>1, <1>5 DEF RowsInv
<1>7. ASSUME SoundInv, "fault" \notin upsets' PROVE SoundInv'
  <2>1. /\ todo' = Tail(todo) /\ upsets' = upsets
        /\ keychain' = [keychain EXCEPT ![s] = backup.keychain[s]]
        /\ cached' = IF todo' = <<>> THEN NoCert ELSE cached
    BY <1>7 DEF RestoreSecret, SlotWritten, SlotFails
  <2>2. keychain'[s] = backup.keychain[s] /\ \A t \in Slots \ {s} : keychain'[t] = keychain[t]
    BY <2>1 DEF CertType
  <2>3. /\ row = backup.row /\ "restore" \in upsets
        /\ \A t \in Slots : /\ Waits(todo', t) => backup.keychain[t] # 0
                            /\ row[t] = "mask" /\ ~ Waits(todo', t) => keychain'[t] # 0
    BY <1>1, <1>2, <1>7, <2>1, <2>2 DEF SoundInv
  <2>4. CASE todo' = <<>>
    <3>1. \A t \in Slots : ~ Waits(todo', t)
      BY <2>4 DEF Waits
    <3>2. Backed(row', keychain') /\ Backed(cached', keychain')
      BY <1>1, <2>1, <2>3, <2>4, <3>1 DEF Backed, NoCert, Slots
    <3> QED
      BY <1>1, <1>5, <1>7, <2>1, <2>3, <2>4, <3>2, RestoringCalls DEF SoundInv
  <2>5. CASE todo' \in Restoring
    BY <1>1, <1>5, <1>7, <2>1, <2>3, <2>5, RestoringCalls DEF SoundInv, Idle
  <2> QED
    BY <1>2, <2>1, <2>4, <2>5
<1> QED
  BY <1>3, <1>4, <1>6, <1>7

(* A crash is a fault: the types and the rows are all that is left.        *)
LEMMA CrashStep == ASSUME CertInv, Crash PROVE CertInv'
<1>1. /\ todo' = <<>> /\ todo # <<>> /\ draft' = NoCert /\ cached' = NoCert
      /\ upsets' = upsets \union {"fault"}
      /\ UNCHANGED <<life, row, keychain, backup, saves>>
  BY DEF Crash, Idle
<1>2. todo' \notin Saving
  BY <1>1, SavingCalls
<1>3. CertType'
  BY <1>1 DEF CertInv, CertType, NoCert, Certs, Drafted, Modes, Fields
<1>4. RowsInv'
  BY <1>1, <1>2 DEF CertInv, RowsInv, NoCert, Unset
<1> QED
  BY <1>1, <1>3, <1>4 DEF CertInv

(* Every step keeps the invariant.                                         *)
LEMMA CertStep == CertInv /\ [CertNext]_certVars => CertInv'
<1> SUFFICES ASSUME CertInv, [CertNext]_certVars PROVE CertInv'
  OBVIOUS
<1>1. CASE UNCHANGED certVars
  BY <1>1 DEF certVars, CertInv, CertType, RowsInv, SoundInv, Idle, Backed, Bare, Unset, Waits
<1> QED
  BY <1>1, QuietStep, SetStep, PersistSlotStep, PersistRowStep, DeleteSteps,
     RestoreBackupStep, RestoreSecretStep, CrashStep DEF CertNext

(* For any number of saves and any mix of saves, restores, deletes and     *)
(* sends: without a fault, a masked field of the row has its bytes.        *)
THEOREM MasksAreBacked == CertSpec => []MaskIsBacked
<1>1. CertInv => MaskIsBacked
  BY DEF CertInv, SoundInv, Backed, MaskIsBacked
<1> QED
  BY <1>1, InitCertInv, CertStep, PTL DEF CertSpec

(* How many of the two slots a set holds.                                  *)
LEMMA TwoSlots ==
  ASSUME NEW T \in SUBSET Slots
  PROVE  /\ IsFiniteSet(T)
         /\ T = {} => Cardinality(T) = 0
         /\ T \notin {{}, Slots} => Cardinality(T) = 1
         /\ T = Slots => Cardinality(T) = 2
<1>1. T = {} => Cardinality(T) = 0
  BY FS_EmptySet
<1>2. Cardinality({"cert"}) = 1 /\ Cardinality({"key"}) = 1 /\ IsFiniteSet({"cert"})
  BY FS_Singleton
<1>3. IsFiniteSet({"cert"} \union {"key"}) /\ Cardinality({"cert"} \union {"key"}) = 2
  <2>1. "key" \notin {"cert"}
    OBVIOUS
  <2> QED
    BY <1>2, <2>1, FS_AddElement
<1>4. Slots = {"cert"} \union {"key"}
  BY DEF Slots
<1>5. T \notin {{}, Slots} => T \in {{"cert"}, {"key"}}
  BY DEF Slots
<1> QED
  BY <1>1, <1>2, <1>3, <1>4, <1>5, FS_Subset

(* The marked slots are among those with bytes, and are all of them unless *)
(* a restore brought an older row.                                         *)
LEMMA SendStep ==
  ASSUME CertInv, Send, "fault" \notin upsets
  PROVE  LET outcomes == <<"unsigned", "error", "signed">>
             says == Cardinality({s \in Slots : row[s] = "mask"}) + 1
         IN \E i \in says .. 3 : /\ identity' = outcomes[i]
                                 /\ i > says => "restore" \in upsets
<1> DEFINE outcomes == <<"unsigned", "error", "signed">>
           marked == {s \in Slots : row[s] = "mask"}
           present == {s \in Slots : keychain[s] # 0}
<1>1. /\ marked \subseteq present
      /\ "restore" \notin upsets => marked = present
      /\ row.mode = "none" => marked = {}
      /\ row.mode \in Modes
  BY DEF Send, CertInv, SoundInv, RowsInv, CertType, Backed, Bare, Unset, Certs, Fields, Slots
<1>2. \/ (row.mode = "none" \/ present = {}) /\ identity' = "unsigned"
      \/ row.mode = "paste" /\ present = Slots /\ identity' = "signed"
      \/ row.mode = "paste" /\ present \notin {{}, Slots} /\ identity' = "error"
  BY DEF Send
<1>3. outcomes[1] = "unsigned" /\ outcomes[2] = "error" /\ outcomes[3] = "signed"
  OBVIOUS
<1>4. marked \in SUBSET Slots /\ present \in SUBSET Slots
  OBVIOUS
<1> HIDE DEF outcomes, marked, present
<1> SUFFICES \E i \in Cardinality(marked) + 1 .. 3 :
               /\ identity' = outcomes[i]
               /\ i > Cardinality(marked) + 1 => "restore" \in upsets
  BY DEF outcomes, marked
<1>5. CASE marked = {} /\ identity' = "unsigned"
  <2>1. Cardinality(marked) = 0
    BY <1>4, <1>5, TwoSlots
  <2> QED
    BY <1>3, <1>5, <2>1
<1>6. CASE row.mode = "paste"
  <2>1. identity' = outcomes[Cardinality(present) + 1] /\ Cardinality(present) \in 0..2
    BY <1>2, <1>3, <1>4, <1>6, TwoSlots
  <2>2. Cardinality(marked) \in 0 .. Cardinality(present)
    <3>1. IsFiniteSet(present)
      BY <1>4, TwoSlots
    <3> QED
      BY <1>1, <2>1, <3>1, FS_Subset, FS_CardinalityType
  <2>3. Cardinality(marked) = Cardinality(present) \/ "restore" \in upsets
    BY <1>1
  <2>4. Cardinality(present) + 1 \in Cardinality(marked) + 1 .. 3
    BY <2>1, <2>2
  <2> QED
    BY <2>1, <2>3, <2>4
<1> QED
  BY <1>1, <1>2, <1>5, <1>6 DEF Modes

(* A send presents what the row says, and more only after a restore.       *)
THEOREM SendsFollowTheRow == CertSpec => SendsWhatTheRowSays
<1>1. CertInv => [(Send /\ "fault" \notin upsets)
                    => LET outcomes == <<"unsigned", "error", "signed">>
                           says == Cardinality({s \in Slots : row[s] = "mask"}) + 1
                       IN \E i \in says .. 3 : /\ identity' = outcomes[i]
                                               /\ i > says => "restore" \in upsets]_certVars
  BY SendStep
<1> QED
  BY <1>1, InitCertInv, CertStep, PTL DEF CertSpec, SendsWhatTheRowSays

=============================================================================
