----------------------------- MODULE Workspaces -----------------------------
(***************************************************************************)
(* The workspaces and which one is active (store/workspaces.rs), with the  *)
(* two things that disturb it: a restore, which replaces the database      *)
(* (backup.rs), and the death of the process between two transactions of a *)
(* command.  A command holds the database lock from start to end.  The     *)
(* window acts on the list and the active workspace it last fetched, which *)
(* the commands do not check again.                                        *)
(***************************************************************************)
EXTENDS Integers, FiniteSets

CONSTANTS MaxWs,       \* bound on the workspaces ever created
          MaxCrashes   \* bound on the number of crashes

ASSUME WorkspacesAssumption == MaxWs \in Nat \ {0} /\ MaxCrashes \in Nat

VARIABLES ws,        \* the rows of workspaces; ids in order of created_at
          created,   \* how many were ever created
          active,    \* the rows with is_active = 1
          backup,    \* the workspaces and active rows in the last archive
          phase,     \* "down", "booting", "up"
          todo,      \* the transaction the command under way has left
          listed,    \* the window's cached list of workspaces
          shown,     \* the window's cached active workspace, none or one
          crashes

db == <<ws, created, active>>
window == <<listed, shown>>
vars == <<db, backup, phase, todo, window, crashes>>

Ids == 1..MaxWs

Nothing == [op |-> "nothing"]
Reactivate == [op |-> "reactivate"]
NoBackup == [ws |-> {}, active |-> {}]

TypeOK ==
    /\ created \in 0..MaxWs
    /\ ws \subseteq 1..created
    /\ active \subseteq ws
    /\ backup \in [ws : SUBSET (1..created), active : SUBSET Ids]
    /\ backup.active \subseteq backup.ws
    /\ phase \in {"down", "booting", "up"}
    /\ todo \in {Nothing, Reactivate}
    /\ listed \subseteq Ids /\ shown \subseteq Ids
    /\ crashes \in 0..MaxCrashes

Init ==
    /\ ws = {} /\ created = 0 /\ active = {}
    /\ backup = NoBackup
    /\ phase = "down"
    /\ todo = Nothing
    /\ listed = {} /\ shown = {}
    /\ crashes = 0

(* A command starts only when no other holds the lock.                     *)
Free == phase = "up" /\ todo = Nothing

-----------------------------------------------------------------------------
(* store::workspaces.                                                      *)

Insert ==
    /\ created < MaxWs
    /\ created' = created + 1
    /\ ws' = ws \union {created + 1}

(* Mistake: the flag of the others is not cleared.                         *)
ActivateToo(w) == active' = active \union ({w} \intersect ws)

(* set_active commits before it looks at how many rows it updated: for an  *)
(* id that is gone it clears the flag of every workspace and then errs.    *)
Activate(w) == active' = {w} \intersect ws

CreateWorkspace ==
    /\ Free
    /\ Insert
    /\ UNCHANGED <<active, backup, phase, todo, window, crashes>>

SetActiveWorkspace(w) ==
    /\ Free
    /\ w \in listed
    /\ Activate(w)
    /\ UNCHANGED <<ws, created, backup, phase, todo, window, crashes>>

(* Mistake: no other workspace takes over.                                 *)
DeleteOnly(w) ==
    /\ Free
    /\ w \in shown /\ Cardinality(listed) > 1
    /\ Cardinality(ws) > 1
    /\ ws' = ws \ {w}
    /\ active' = active \ {w}
    /\ UNCHANGED <<created, backup, phase, todo, window, crashes>>

(* The top bar deletes the workspace it shows as active.  The first        *)
(* transaction deletes the row, and with it the flag ...                   *)
DeleteWorkspace(w) ==
    /\ Free
    /\ w \in shown /\ Cardinality(listed) > 1
    /\ Cardinality(ws) > 1
    /\ ws' = ws \ {w}
    /\ active' = active \ {w}
    /\ todo' = IF w \in ws /\ active' = {} THEN Reactivate ELSE Nothing
    /\ UNCHANGED <<created, backup, phase, window, crashes>>

(* ... and the second, as the last of ensure_default, activates the oldest *)
(* workspace left.                                                         *)
ActivateFirst ==
    /\ todo = Reactivate
    /\ \E first \in ws : (\A w \in ws : first <= w) /\ Activate(first)
    /\ todo' = Nothing
    /\ UNCHANGED <<ws, created, backup, phase, window, crashes>>

-----------------------------------------------------------------------------
(* backup.rs.                                                              *)

CreateBackup ==
    /\ Free
    /\ backup' = [ws |-> ws, active |-> active]
    /\ UNCHANGED <<db, phase, todo, window, crashes>>

(* The database is replaced at once and ensure_default is not run.  When   *)
(* every secret could be written the window reloads; otherwise it reports  *)
(* the error and keeps what it had fetched.                                *)
RestoreBackup ==
    /\ Free
    /\ backup # NoBackup
    /\ ws' = backup.ws /\ active' = backup.active
    /\ \/ listed' = {} /\ shown' = {}
       \/ UNCHANGED window
    /\ UNCHANGED <<created, backup, phase, todo, crashes>>

-----------------------------------------------------------------------------
(* The window and the process.                                             *)

(* Two queries: the list and the active workspace are fetched apart.       *)
FetchList ==
    /\ Free
    /\ listed' = ws
    /\ UNCHANGED <<db, backup, phase, todo, shown, crashes>>

FetchActive ==
    /\ Free
    /\ \/ active = {} /\ shown' = {}
       \/ \E w \in active : shown' = {w}
    /\ UNCHANGED <<db, backup, phase, todo, listed, crashes>>

Crash ==
    /\ phase # "down"
    /\ crashes < MaxCrashes
    /\ crashes' = crashes + 1
    /\ phase' = "down"
    /\ todo' = Nothing
    /\ listed' = {} /\ shown' = {}
    /\ UNCHANGED <<db, backup>>

(* Mistake: only an empty database gets an active workspace.               *)
BootActivatesNew ==
    /\ phase = "down"
    /\ phase' = "booting"
    /\ IF ws = {} THEN Insert ELSE UNCHANGED <<ws, created>>
    /\ todo' = IF ws = {} THEN Reactivate ELSE Nothing
    /\ UNCHANGED <<active, backup, window, crashes>>

(* setup: open the database, then ensure_default.                          *)
Boot ==
    /\ phase = "down"
    /\ phase' = "booting"
    /\ IF ws = {} THEN Insert ELSE UNCHANGED <<ws, created>>
    /\ todo' = IF active = {} THEN Reactivate ELSE Nothing
    /\ UNCHANGED <<active, backup, window, crashes>>

BootDone ==
    /\ phase = "booting"
    /\ todo = Nothing
    /\ phase' = "up"
    /\ UNCHANGED <<db, backup, todo, window, crashes>>

Next ==
    \/ CreateWorkspace \/ ActivateFirst
    \/ \E w \in Ids : SetActiveWorkspace(w) \/ DeleteWorkspace(w)
    \/ CreateBackup \/ RestoreBackup
    \/ FetchList \/ FetchActive
    \/ Crash \/ Boot \/ BootDone

Spec == Init /\ [][Next]_vars

(* A command runs to its end and the process is started again; nothing is  *)
(* assumed of the user.                                                    *)
Fairness == WF_vars(Boot) /\ WF_vars(BootDone) /\ WF_vars(ActivateFirst)

FairSpec == Spec /\ Fairness

-----------------------------------------------------------------------------
(* Properties.                                                             *)

(* No sequence of switches, deletes, restores and crashes leaves two       *)
(* active workspaces: active() and the whole window read only one.         *)
AtMostOneActive == \A v, w \in active : v = w

(* A running program has a workspace, and so the backup of a running       *)
(* program: deletes from stale lists cannot remove the last one.           *)
NeverEmpty == (phase # "down" => ws # {}) /\ (backup # NoBackup => backup.ws # {})

(* A step leaves no workspace active only as the first half of a delete,   *)
(* by restoring a backup in which none was, or by a switch to a workspace  *)
(* that is gone.                                                           *)
OnlyStaleSwitchDeactivates ==
    [][(active # {} /\ active' = {})
         => \/ todo' = Reactivate
            \/ active' = backup.active /\ ws' = backup.ws
            \/ ~ (listed \subseteq ws)]_vars

(* Whatever it died of, and whatever a restore or a stale switch had left, *)
(* the program comes back up with an active workspace.                     *)
RecoversActive == (phase = "down") ~> (phase = "up" /\ active # {})

=============================================================================
