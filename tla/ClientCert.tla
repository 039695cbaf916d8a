----------------------------- MODULE ClientCert -----------------------------
(***************************************************************************)
(* The client certificate of one workspace: a settings row that only says  *)
(* which PEM fields are set (store/workspace_settings.rs) and the bytes,   *)
(* in the OS keychain.  No transaction spans the two.  A save, a delete    *)
(* and a restore each change them one keychain call at a time, any call    *)
(* may fail, and the process can die between two.  A send reads both       *)
(* (workspace.rs).  The passphrase, which no request uses, is left out;    *)
(* "none" stands for the modes that own neither slot, None and Path.       *)
(***************************************************************************)
EXTENDS Integers, Sequences, FiniteSets

CONSTANT MaxSaves   \* bound on saves of the settings dialog

ASSUME ClientCertAssumption == MaxSaves \in Nat

Slots == {"cert", "key"}

VARIABLES life,      \* "unborn", "live", "gone": the workspace's row
          row,       \* the masked certificate of its settings row
          keychain,  \* for each slot the save its bytes are from, 0 if none
          cached,    \* the row the settings dialog starts from
          backup,    \* the last archive
          todo,      \* calls the command holding the database lock has left
          draft,     \* the certificate that command was given
          identity,  \* what the last send presented to the server
          saves,
          upsets     \* "fault" after a keychain call that failed, a death of
                     \* the process or a refused delete; "restore" after one

certVars == <<life, row, keychain, cached, backup, todo, draft, identity,
              saves, upsets>>

NoCert == [mode |-> "none", cert |-> "empty", key |-> "empty"]
NoKeys == [s \in Slots |-> 0]
NoBackup == [life |-> "unborn", row |-> NoCert, keychain |-> NoKeys]

CertInit ==
    /\ life = "unborn" /\ row = NoCert /\ keychain = NoKeys
    /\ cached = NoCert /\ backup = NoBackup
    /\ todo = <<>> /\ draft = NoCert
    /\ identity = "none" /\ saves = 0 /\ upsets = {}

Idle == todo = <<>>

CreateWorkspace ==
    /\ Idle
    /\ life = "unborn"
    /\ life' = "live"
    /\ UNCHANGED <<row, keychain, cached, backup, todo, draft, identity, saves, upsets>>

(* get_workspace_settings into the dialog's query cache.                   *)
LoadSettings ==
    /\ Idle
    /\ life = "live"
    /\ cached' = row
    /\ UNCHANGED <<life, row, keychain, backup, todo, draft, identity, saves, upsets>>

-----------------------------------------------------------------------------
(* store::workspace_settings.                                              *)

(* Each PEM field of the dialog is as loaded, cleared, or pasted anew;     *)
(* another mode empties them.                                              *)
SetWorkspaceSettings ==
    /\ Idle
    /\ life = "live"
    /\ saves < MaxSaves
    /\ saves' = saves + 1
    /\ \/ draft' = NoCert
       \/ \E c, k \in {"empty", "typed"} :
            draft' = [mode |-> "paste", cert |-> c, key |-> k]
       \/ /\ cached.mode = "paste"
          /\ \E c \in {cached.cert, "empty", "typed"}, k \in {cached.key, "empty", "typed"} :
               draft' = [mode |-> "paste", cert |-> c, key |-> k]
    /\ todo' = <<"cert", "key", "upsert">>
    /\ UNCHANGED <<life, row, keychain, cached, backup, identity, upsets>>

(* secrets::delete(..).ok(): a failure leaves the slot and goes on.        *)
DeleteSlot(s) ==
    /\ todo' = Tail(todo)
    /\ \/ keychain' = [keychain EXCEPT ![s] = 0] /\ UNCHANGED upsets
       \/ UNCHANGED keychain /\ upsets' = upsets \cup {"fault"}

(* secrets::set(..)?: a failure ends the command.                          *)
SlotWritten(s, bytes) ==
    /\ keychain' = [keychain EXCEPT ![s] = bytes]
    /\ todo' = Tail(todo)
    /\ UNCHANGED upsets

SlotFails == todo' = <<>> /\ upsets' = upsets \cup {"fault"} /\ UNCHANGED keychain

(* Mistake: an untouched field counts as cleared.                          *)
PersistSlotUnmasked(s) ==
    /\ ~ Idle /\ Head(todo) = s /\ todo[Len(todo)] = "upsert"
    /\ \/ draft[s] \in {"mask", "empty"} /\ DeleteSlot(s)
       \/ draft[s] = "typed" /\ (SlotWritten(s, saves) \/ SlotFails)
    /\ UNCHANGED <<life, row, cached, backup, draft, identity, saves>>

(* Mistake: the sweep forgets a field that was cleared.                    *)
PersistSlotUnswept(s) ==
    /\ ~ Idle /\ Head(todo) = s /\ todo[Len(todo)] = "upsert"
    /\ \/ draft[s] \in {"mask", "empty"} /\ todo' = Tail(todo) /\ UNCHANGED <<keychain, upsets>>
       \/ draft[s] = "typed" /\ (SlotWritten(s, saves) \/ SlotFails)
    /\ UNCHANGED <<life, row, cached, backup, draft, identity, saves>>

(* One round of the sweep or one persist_secret_slot of a save.            *)
PersistSlot(s) ==
    /\ ~ Idle /\ Head(todo) = s /\ todo[Len(todo)] = "upsert"
    /\ \/ draft[s] = "mask" /\ todo' = Tail(todo) /\ UNCHANGED <<keychain, upsets>>
       \/ draft[s] = "empty" /\ DeleteSlot(s)
       \/ draft[s] = "typed" /\ (SlotWritten(s, saves) \/ SlotFails)
    /\ UNCHANGED <<life, row, cached, backup, draft, identity, saves>>

(* The upsert, and the masked row the dialog caches.                       *)
PersistRow ==
    /\ todo = <<"upsert">>
    /\ LET masked(v) == IF v = "empty" THEN "empty" ELSE "mask"
       IN row' = [mode |-> draft.mode, cert |-> masked(draft.cert), key |-> masked(draft.key)]
    /\ cached' = row'
    /\ todo' = <<>> /\ draft' = NoCert
    /\ UNCHANGED <<life, keychain, backup, identity, saves, upsets>>

-----------------------------------------------------------------------------
(* commands::delete_workspace: the slots first, whatever becomes of the    *)
(* row.                                                                    *)

DeleteWorkspace ==
    /\ Idle
    /\ life = "live"
    /\ todo' = <<"cert", "key", "delete">>
    /\ UNCHANGED <<life, row, keychain, cached, backup, draft, identity, saves, upsets>>

DeleteCertSecret(s) ==
    /\ ~ Idle /\ Head(todo) = s /\ todo[Len(todo)] = "delete"
    /\ DeleteSlot(s)
    /\ UNCHANGED <<life, row, cached, backup, draft, identity, saves>>

(* The row and, by cascade, its settings; or, when the window's list of    *)
(* workspaces was out of date and this is the last one, an error.          *)
DeleteRow ==
    /\ todo = <<"delete">>
    /\ todo' = <<>>
    /\ \/ life' = "gone" /\ row' = NoCert /\ UNCHANGED upsets
       \/ upsets' = upsets \cup {"fault"} /\ UNCHANGED <<life, row>>
    /\ UNCHANGED <<keychain, cached, backup, draft, identity, saves>>

-----------------------------------------------------------------------------
(* backup.rs.                                                              *)

CreateBackup ==
    /\ Idle
    /\ backup' = [life |-> life, row |-> row,
                  keychain |-> IF life = "live" THEN keychain ELSE NoKeys]
    /\ UNCHANGED <<life, row, keychain, cached, todo, draft, identity, saves, upsets>>

(* The archive has a slot when there was something in it.                  *)
Archived(s) == IF backup.keychain[s] = 0 THEN <<>> ELSE <<s>>

(* The database is replaced at once; what the archive has of the slots     *)
(* follows one call at a time.                                             *)
RestoreBackup ==
    /\ Idle
    /\ life # "unborn"
    /\ life' = IF backup.life = "live" THEN "live" ELSE "gone"
    /\ row' = backup.row
    /\ todo' = Archived("cert") \o Archived("key")
    /\ cached' = IF todo' = <<>> THEN NoCert ELSE cached
    /\ upsets' = upsets \cup {"restore"}
    /\ UNCHANGED <<keychain, backup, draft, identity, saves>>

(* After the last secret the window reloads; a failure skips the rest and  *)
(* the reload.                                                             *)
RestoreSecret(s) ==
    /\ ~ Idle /\ Head(todo) = s /\ todo[Len(todo)] \in Slots
    /\ \/ /\ SlotWritten(s, backup.keychain[s])
          /\ cached' = IF todo' = <<>> THEN NoCert ELSE cached
       \/ SlotFails /\ UNCHANGED cached
    /\ UNCHANGED <<life, row, backup, draft, identity, saves>>

-----------------------------------------------------------------------------
(* workspace.rs resolve_transport, in a send from this workspace.          *)

Send ==
    /\ Idle
    /\ life = "live"
    /\ LET present == {s \in Slots : keychain[s] # 0}
       IN \/ /\ row.mode = "none" \/ present = {}
             /\ identity' = "unsigned"
          \/ /\ row.mode = "paste" /\ present = Slots
             /\ identity' = "signed"
          \/ /\ row.mode = "paste" /\ present \notin {{}, Slots}
             /\ identity' = "error"
    /\ UNCHANGED <<life, row, keychain, cached, backup, todo, draft, saves, upsets>>

(* The process dies inside a command and is started again.                 *)
Crash ==
    /\ ~ Idle
    /\ todo' = <<>> /\ draft' = NoCert /\ cached' = NoCert
    /\ upsets' = upsets \cup {"fault"}
    /\ UNCHANGED <<life, row, keychain, backup, identity, saves>>

CertNext ==
    \/ CreateWorkspace \/ LoadSettings \/ SetWorkspaceSettings \/ PersistRow
    \/ \E s \in Slots : PersistSlot(s) \/ DeleteCertSecret(s) \/ RestoreSecret(s)
    \/ DeleteWorkspace \/ DeleteRow
    \/ CreateBackup \/ RestoreBackup
    \/ Send \/ Crash

CertSpec == CertInit /\ [][CertNext]_certVars

-----------------------------------------------------------------------------
(* Properties.                                                             *)

(* A masked field means the bytes are in the keychain, which is what lets  *)
(* a save leave them alone: only a failed keychain call, a crash or a      *)
(* refused delete breaks that, no mix of saves from a cached form,         *)
(* backups, restores and deletes.                                          *)
MaskIsBacked ==
    (Idle /\ life = "live" /\ "fault" \notin upsets)
        => \A s \in Slots : row[s] = "mask" => keychain[s] # 0

(* resolve_transport goes by the keychain, not by the row: without a fault *)
(* a send still presents no less than the row says, and no more either,    *)
(* unless a restore brought an older row over bytes it does not delete.    *)
SendsWhatTheRowSays ==
    [][(Send /\ "fault" \notin upsets)
         => LET outcomes == <<"unsigned", "error", "signed">>   \* none, one, both
                says == Cardinality({s \in Slots : row[s] = "mask"}) + 1
            IN \E i \in says .. 3 : /\ identity' = outcomes[i]
                                    /\ i > says => "restore" \in upsets]_certVars

=============================================================================
