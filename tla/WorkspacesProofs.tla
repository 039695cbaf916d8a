-------------------------- MODULE WorkspacesProofs --------------------------
(***************************************************************************)
(* Proofs about Workspaces for any bound on workspaces and crashes: its    *)
(* type invariant, that two workspaces are never active at once, that a    *)
(* running program always has one, and which steps leave none active.      *)
(***************************************************************************)
EXTENDS Workspaces, FiniteSetTheorems, TLAPS

(* AtMostOneActive is not inductive by itself: at most one is active in    *)
(* the archive too, or a restore would bring two back.                     *)
SingleActive == AtMostOneActive /\ \A v, w \in backup.active : v = w

(* The types hold initially.                                               *)
LEMMA InitType == Init => TypeOK
BY WorkspacesAssumption DEF Init, TypeOK, NoBackup, Nothing, Reactivate, Ids

(* Every step keeps the types: an id is given out once, and a row, a flag  *)
(* or an archive only ever holds ids given out before.                     *)
LEMMA TypeStep == TypeOK /\ [Next]_vars => TypeOK'
<1> SUFFICES ASSUME TypeOK, [Next]_vars PROVE TypeOK'
  OBVIOUS
<1> USE WorkspacesAssumption DEF TypeOK, Ids, Nothing, Reactivate, db, window
<1>1. CASE CreateWorkspace
  BY <1>1 DEF CreateWorkspace, Insert, Free
<1>2. CASE ActivateFirst
  BY <1>2 DEF ActivateFirst, Activate
<1>3. ASSUME NEW w \in Ids, SetActiveWorkspace(w) PROVE TypeOK'
  BY <1>3 DEF SetActiveWorkspace, Activate, Free
<1>4. ASSUME NEW w \in Ids, DeleteWorkspace(w) PROVE TypeOK'
  BY <1>4 DEF DeleteWorkspace, Free
<1>5. CASE CreateBackup
  BY <1>5 DEF CreateBackup, Free
<1>6. CASE RestoreBackup
  BY <1>6 DEF RestoreBackup, Free
<1>7. CASE FetchList
  BY <1>7 DEF FetchList, Free
<1>8. CASE FetchActive
  BY <1>8 DEF FetchActive, Free
<1>9. CASE Crash
  BY <1>9 DEF Crash
<1>10. CASE Boot
  <2>1. UNCHANGED <<active, backup, listed, shown, crashes>>
    BY <1>10 DEF Boot
  <2>2. phase' = "booting" /\ todo' \in {Nothing, Reactivate}
    BY <1>10 DEF Boot
  <2>3. CASE Insert
    <3>1. created' = created + 1 /\ created' \in 0..MaxWs
      BY <2>3 DEF Insert
    <3>2. 1..created \subseteq 1..created' /\ created + 1 \in 1..created'
      BY <3>1
    <3>3. ws' \subseteq 1..created' /\ active' \subseteq ws'
      BY <2>1, <2>3, <3>2 DEF Insert
    <3> QED
      BY <2>1, <2>2, <3>1, <3>2, <3>3
  <2>4. CASE UNCHANGED <<ws, created>>
    BY <2>1, <2>2, <2>4
  <2> QED
    BY <1>10, <2>3, <2>4 DEF Boot
<1>11. CASE BootDone
  BY <1>11 DEF BootDone
<1>12. CASE UNCHANGED vars
  BY <1>12 DEF vars
<1> QED
  BY <1>1, <1>2, <1>3, <1>4, <1>5, <1>6, <1>7, <1>8, <1>9, <1>10, <1>11, <1>12
     DEF Next

(* Type correctness of the workspace commands, the restore and the boot.   *)
THEOREM TypeCorrect == Spec => []TypeOK
BY InitType, TypeStep, PTL DEF Spec

(* Every way the flag is set clears the others, and the one that copies    *)
(* them copies at most one.                                                *)
LEMMA SingleStep == SingleActive /\ [Next]_vars => SingleActive'
<1> SUFFICES ASSUME SingleActive, [Next]_vars PROVE SingleActive'
  OBVIOUS
<1> USE DEF SingleActive, AtMostOneActive, db
<1>1. ASSUME NEW w, Activate(w), UNCHANGED backup PROVE SingleActive'
  BY <1>1 DEF Activate
<1>2. CASE \E w \in Ids : SetActiveWorkspace(w)
  BY <1>1, <1>2 DEF SetActiveWorkspace
<1>3. CASE ActivateFirst
  BY <1>1, <1>3 DEF ActivateFirst
<1>4. CASE \E w \in Ids : DeleteWorkspace(w)
  BY <1>4 DEF DeleteWorkspace
<1>5. CASE CreateBackup
  BY <1>5 DEF CreateBackup
<1>6. CASE RestoreBackup
  BY <1>6 DEF RestoreBackup
<1>7. CASE CreateWorkspace \/ FetchList \/ FetchActive \/ Crash \/ Boot \/ BootDone
           \/ UNCHANGED vars
  BY <1>7 DEF CreateWorkspace, FetchList, FetchActive, Crash, Boot, BootDone, vars
<1> QED
  BY <1>2, <1>3, <1>4, <1>5, <1>6, <1>7 DEF Next

(* No sequence of switches, deletes, restores and crashes leaves two       *)
(* active workspaces.                                                      *)
THEOREM OneActiveAtMost == Spec => []AtMostOneActive
<1>1. Init => SingleActive
  BY DEF Init, SingleActive, AtMostOneActive, NoBackup
<1>2. SingleActive => AtMostOneActive
  BY DEF SingleActive
<1> QED
  BY <1>1, <1>2, SingleStep, PTL DEF Spec

(* A delete that passed the count under the lock leaves a row, whichever   *)
(* row it was asked to delete.                                             *)
LEMMA DeleteLeavesOne ==
  ASSUME TypeOK, NEW w, Cardinality(ws) > 1
  PROVE  ws \ {w} # {}
<1>1. IsFiniteSet(1..created)
  BY FS_Interval DEF TypeOK
<1>2. IsFiniteSet(ws)
  BY <1>1, FS_Subset DEF TypeOK
<1>3. SUFFICES ASSUME ws \subseteq {w} PROVE FALSE
  OBVIOUS
<1>4. Cardinality(ws) <= Cardinality({w}) /\ Cardinality({w}) = 1
  BY <1>3, FS_Singleton, FS_Subset
<1> QED
  BY <1>2, <1>4, FS_CardinalityType

(* A running program keeps a workspace in every step, and its archive one. *)
LEMMA NeverEmptyStep == TypeOK /\ NeverEmpty /\ [Next]_vars => NeverEmpty'
<1> SUFFICES ASSUME TypeOK, NeverEmpty, [Next]_vars PROVE NeverEmpty'
  OBVIOUS
<1> USE DEF NeverEmpty, db
<1>1. CASE \E w \in Ids : DeleteWorkspace(w)
  BY <1>1, DeleteLeavesOne DEF DeleteWorkspace
<1>2. CASE RestoreBackup
  BY <1>2 DEF RestoreBackup
<1>3. CASE Boot
  BY <1>3 DEF Boot, Insert
<1>4. CASE CreateBackup
  BY <1>4 DEF CreateBackup, Free
<1>5. CASE CreateWorkspace \/ \E w \in Ids : SetActiveWorkspace(w)
  BY <1>5 DEF CreateWorkspace, Insert, SetActiveWorkspace, Free
<1>6. CASE ActivateFirst \/ FetchList \/ FetchActive \/ BootDone \/ UNCHANGED vars
  BY <1>6 DEF ActivateFirst, FetchList, FetchActive, BootDone, vars
<1>7. CASE Crash
  BY <1>7 DEF Crash
<1> QED
  BY <1>1, <1>2, <1>3, <1>4, <1>5, <1>6, <1>7 DEF Next

(* A running program always has a workspace: no delete from a stale list,  *)
(* no restore and no crash removes the last one.                           *)
THEOREM AlwaysAWorkspace == Spec => []NeverEmpty
<1>1. Init => NeverEmpty
  BY DEF Init, NeverEmpty
<1> QED
  BY <1>1, TypeCorrect, NeverEmptyStep, PTL DEF Spec

(* A step leaves no workspace active only as the first half of a delete,   *)
(* by restoring a backup in which none was, or by a switch to a workspace  *)
(* that is gone.                                                           *)
THEOREM StaleSwitchDeactivates == Spec => OnlyStaleSwitchDeactivates
<1>1. TypeOK /\ [Next]_vars
        => [(active # {} /\ active' = {})
              => \/ todo' = Reactivate
                 \/ active' = backup.active /\ ws' = backup.ws
                 \/ ~ (listed \subseteq ws)]_vars
  <2> SUFFICES ASSUME TypeOK, Next, active # {}, active' = {}
               PROVE  \/ todo' = Reactivate
                      \/ active' = backup.active /\ ws' = backup.ws
                      \/ ~ (listed \subseteq ws)
    OBVIOUS
  <2>1. ASSUME NEW w \in Ids, SetActiveWorkspace(w) PROVE ~ (listed \subseteq ws)
    BY <2>1 DEF SetActiveWorkspace, Activate
  <2>2. ASSUME NEW w \in Ids, DeleteWorkspace(w) PROVE todo' = Reactivate
    BY <2>2 DEF DeleteWorkspace, TypeOK
  <2>3. ~ ActivateFirst
    BY DEF ActivateFirst, Activate
  <2>4. CASE RestoreBackup
    BY <2>4 DEF RestoreBackup
  <2>5. CASE CreateWorkspace \/ CreateBackup \/ FetchList \/ FetchActive
             \/ Crash \/ Boot \/ BootDone
    BY <2>5 DEF CreateWorkspace, CreateBackup, FetchList, FetchActive, Crash, Boot,
                BootDone, db
  <2> QED
    BY <2>1, <2>2, <2>3, <2>4, <2>5 DEF Next
<1> QED
  BY <1>1, TypeCorrect, PTL DEF Spec, OnlyStaleSwitchDeactivates

=============================================================================
