----------------------------- MODULE ClientBackups -----------------------------
(***************************************************************************)
(* frontend/src/components/SafeToolsPanel.tsx: snapshots of League's       *)
(* settings, which RiftOps keeps up to a limit, restores in four steps     *)
(* after keeping what is there, and deletes; the pending rewards beside    *)
(* them, read by the same load; and the look-up of a champion's id.        *)
(***************************************************************************)
EXTENDS Naturals, Sequences, Functions

CONSTANTS Limit, MaxMade, Champions

VARIABLES
  page,           \* the tab App.tsx renders
  settings,       \* League's: [general, input]
  stored,         \* RiftOps' snapshots, oldest first: [id, general, input]
  made,           \* history: the snapshots made
  before,         \* history: League's settings when the last restore kept them
  pending,        \* League waits for a reward to be chosen
  backups, rewards,   \* on show
  loading, loads, \* the first or the button's load, and that of a call
  call,           \* what busy stands for: [op, at, id, backup], or No
  restoreDialog, confirmAction,
  championQuery, selectedChampion,
  backupsCrossed  \* history: two loads overlapped, or a change was not reloaded,
                  \* until a load begins beside no other

listVars == <<backups, rewards, loading, loads>>
leagueVars == <<settings, before, pending>>
storeVars == <<stored, made>>
lookup == <<championQuery, selectedChampion>>
dialogs == <<restoreDialog, confirmAction>>
vars == <<page, leagueVars, storeVars, listVars, call, dialogs, lookup, backupsCrossed>>

No == [at |-> "no"]
Asked == [at |-> "asked"]
Shown == page = "utilities"
Values == {1, 2}

Init ==
  /\ settings = [general |-> 1, input |-> 1] /\ before = settings /\ pending = TRUE
  /\ stored = <<>> /\ made = 0
  /\ backups = <<>> /\ rewards = FALSE
  /\ loading = TRUE /\ loads = [shown |-> Asked, call |-> No]
  /\ call = No /\ restoreDialog = No /\ confirmAction = 0
  /\ championQuery = "" /\ selectedChampion = "" /\ backupsCrossed = FALSE

-----------------------------------------------------------------------------
(* load.                                                                   *)

Starts(who) ==
  /\ loads' = [loads EXCEPT ![who] = Asked] /\ loading' = TRUE
  /\ backupsCrossed' = \E w \in {"shown", "call"} : loads[w] # No

(* Both lists are asked for side by side, and either may be refused; one   *)
(* refusal leaves both as they were.                                       *)
LoadRead(who) ==
  /\ Shown /\ loads[who] = Asked
  /\ loads' = [loads EXCEPT ![who] = [at |-> "read", backups |-> stored, rewards |-> pending]]
  /\ UNCHANGED <<page, leagueVars, storeVars, backups, rewards, loading, call, dialogs, lookup,
                 backupsCrossed>>

Loaded(who) ==
  /\ Shown /\ loads[who].at = "read" /\ loads' = [loads EXCEPT ![who] = No] /\ loading' = FALSE
  /\ backups' = loads[who].backups /\ rewards' = loads[who].rewards
  /\ call' = IF who = "call" THEN No ELSE call
  /\ UNCHANGED <<page, leagueVars, storeVars, dialogs, lookup, backupsCrossed>>

LoadFails(who) ==
  /\ Shown /\ loads[who] # No /\ loads' = [loads EXCEPT ![who] = No] /\ loading' = FALSE
  /\ call' = IF who = "call" THEN No ELSE call
  /\ backupsCrossed' = TRUE
  /\ UNCHANGED <<page, leagueVars, storeVars, backups, rewards, dialogs, lookup>>

Refresh ==
  /\ Shown /\ ~loading /\ Starts("shown")
  /\ UNCHANGED <<page, leagueVars, storeVars, backups, rewards, call, dialogs, lookup>>

-----------------------------------------------------------------------------
(* The calls.  Every button is disabled while one of them runs; a dialog   *)
(* covers the buttons.                                                     *)

Idle == Shown /\ call = No /\ restoreDialog = No /\ confirmAction = 0
SnapshotRow(id) == Idle /\ \E i \in DOMAIN backups : backups[i].id = id
Calls(op, id) == call' = [op |-> op, at |-> "sent", id |-> id]

createBackup ==
  /\ Idle /\ made < MaxMade /\ Calls("backup", 0)
  /\ UNCHANGED <<page, leagueVars, storeVars, listVars, dialogs, lookup, backupsCrossed>>

handleOpenRestore(id) ==
  /\ SnapshotRow(id) /\ Calls("preview", id)
  /\ UNCHANGED <<page, leagueVars, storeVars, listVars, dialogs, lookup, backupsCrossed>>

handleDeleteBackup(id) ==
  /\ SnapshotRow(id) /\ confirmAction' = id
  /\ UNCHANGED <<page, leagueVars, storeVars, listVars, call, restoreDialog, lookup, backupsCrossed>>

Confirmed ==
  /\ Shown /\ confirmAction # 0 /\ confirmAction' = 0 /\ Calls("delete", confirmAction)
  /\ UNCHANGED <<page, leagueVars, storeVars, listVars, restoreDialog, lookup, backupsCrossed>>

CloseDialogs ==
  /\ Shown /\ (confirmAction # 0 \/ restoreDialog # No) /\ confirmAction' = 0 /\ restoreDialog' = No
  /\ UNCHANGED <<page, leagueVars, storeVars, listVars, call, lookup, backupsCrossed>>

(* RESTORE SETTINGS is typed into the dialog, and the button is pressed;   *)
(* the dialog may be closed while the restore goes on.                     *)
handleExecuteRestore ==
  /\ Shown /\ restoreDialog # No /\ call = No /\ made < MaxMade
  /\ Calls("restore", restoreDialog.id)
  /\ UNCHANGED <<page, leagueVars, storeVars, listVars, dialogs, lookup, backupsCrossed>>

chooseReward ==
  /\ Idle /\ rewards /\ Calls("reward", 0)
  /\ UNCHANGED <<page, leagueVars, storeVars, listVars, dialogs, lookup, backupsCrossed>>

(* The promise of the call ends: what was done is loaded again, what was   *)
(* refused is only said.                                                   *)
CallDone ==
  /\ Shown /\ call.at = "done" /\ call.op # "preview" /\ call' = [call EXCEPT !.at = "loading"]
  /\ restoreDialog' = IF call.op = "restore" THEN No ELSE restoreDialog
  /\ Starts("call")
  /\ UNCHANGED <<page, leagueVars, storeVars, backups, rewards, confirmAction, lookup>>

PreviewShown ==
  /\ Shown /\ call.at = "done" /\ call.op = "preview" /\ call' = No
  /\ restoreDialog' = [at |-> "open", id |-> call.id]
  /\ UNCHANGED <<page, leagueVars, storeVars, listVars, confirmAction, lookup, backupsCrossed>>

CallFails ==
  /\ Shown /\ call.at = "failed" /\ call' = No
  /\ UNCHANGED <<page, leagueVars, storeVars, listVars, dialogs, lookup, backupsCrossed>>

-----------------------------------------------------------------------------
(* RiftOps.                                                                *)

Retained(snapshots) ==
  IF Len(snapshots) > Limit THEN SubSeq(snapshots, Len(snapshots) - Limit + 1, Len(snapshots))
  ELSE snapshots
Keep ==
  /\ made' = made + 1
  /\ stored' = Retained(Append(stored, [id |-> made', general |-> settings.general,
                                        input |-> settings.input]))
Kept(id) == {b \in Range(stored) : b.id = id}
Ends(how) == call' = [call EXCEPT !.at = how]

BackupArrives ==
  /\ Shown /\ call.at = "sent" /\ call.op = "backup" /\ Keep /\ Ends("done")
  /\ UNCHANGED <<page, leagueVars, listVars, dialogs, lookup, backupsCrossed>>

(* The snapshots are filtered by the id, which one of them has.            *)
DeleteArrives ==
  /\ Shown /\ call.at = "sent" /\ call.op = "delete" /\ Ends("done")
  /\ \E i \in DOMAIN stored :
       stored[i].id = call.id /\ stored' = SubSeq(stored, 1, i - 1) \o SubSeq(stored, i + 1, Len(stored))
  /\ UNCHANGED <<page, made, leagueVars, listVars, dialogs, lookup, backupsCrossed>>

PreviewArrives ==
  /\ Shown /\ call.at = "sent" /\ call.op = "preview" /\ Kept(call.id) # {} /\ Ends("done")
  /\ UNCHANGED <<page, leagueVars, storeVars, listVars, dialogs, lookup, backupsCrossed>>

RewardArrives ==
  /\ Shown /\ call.at = "sent" /\ call.op = "reward" /\ pending /\ Ends("done") /\ pending' = FALSE
  /\ UNCHANGED <<page, settings, before, storeVars, listVars, dialogs, lookup, backupsCrossed>>

(* Not found, or League or the store does not answer.                      *)
ArrivesInVain ==
  /\ Shown /\ call.at = "sent" /\ Ends("failed")
  /\ UNCHANGED <<page, leagueVars, storeVars, listVars, dialogs, lookup, backupsCrossed>>

RestoreKeeps ==
  /\ Shown /\ call.at = "sent" /\ call.op = "restore"
  /\ \E b \in Kept(call.id) : call' = [op |-> "restore", at |-> "kept", id |-> call.id, backup |-> b]
  /\ before' = settings /\ Keep
  /\ UNCHANGED <<page, settings, pending, listVars, dialogs, lookup, backupsCrossed>>

RestoreStep ==
  /\ Shown /\ \/ call.at = "kept" /\ Ends("general")
                 /\ settings' = [settings EXCEPT !.general = call.backup.general]
              \/ call.at = "general" /\ Ends("input")
                 /\ settings' = [settings EXCEPT !.input = call.backup.input]
              \/ call.at = "input" /\ Ends("done") /\ UNCHANGED settings
  /\ UNCHANGED <<page, before, pending, storeVars, listVars, dialogs, lookup, backupsCrossed>>

(* League refuses a step; what was there is put back, as far as League     *)
(* takes it.  Or RiftOps stops, and nothing is put back.                   *)
RestoreFails ==
  /\ Shown /\ call.at \in {"kept", "general", "input"} /\ Ends("failed")
  /\ settings' \in {settings, [settings EXCEPT !.general = before.general], before}
  /\ backupsCrossed' = TRUE   \* the snapshot just kept is not on show
  /\ UNCHANGED <<page, before, pending, storeVars, listVars, dialogs, lookup>>

(* The player, in League.                                                  *)
SettingsChange ==
  /\ Shown /\ call.at \notin {"kept", "general", "input"}
  /\ settings' \in [general : Values, input : Values]
  /\ UNCHANGED <<page, before, pending, storeVars, listVars, call, dialogs, lookup, backupsCrossed>>

-----------------------------------------------------------------------------
(* The look-up: a name is typed, or one of the matches is chosen.          *)

TypeQuery(query) ==
  /\ Idle /\ championQuery' = query /\ selectedChampion' = ""
  /\ UNCHANGED <<page, leagueVars, storeVars, listVars, call, dialogs, backupsCrossed>>

ChooseChampion(champion) ==
  /\ Idle /\ championQuery \in {"part", champion} /\ selectedChampion = ""
  /\ selectedChampion' = champion /\ championQuery' = champion
  /\ UNCHANGED <<page, leagueVars, storeVars, listVars, call, dialogs, backupsCrossed>>

Next ==
  \/ \E who \in {"shown", "call"} : LoadRead(who) \/ Loaded(who) \/ LoadFails(who)
  \/ Refresh \/ createBackup \/ Confirmed \/ CloseDialogs \/ handleExecuteRestore \/ chooseReward
  \/ \E i \in DOMAIN backups : handleOpenRestore(backups[i].id) \/ handleDeleteBackup(backups[i].id)
  \/ CallDone \/ PreviewShown \/ CallFails
  \/ BackupArrives \/ DeleteArrives \/ PreviewArrives \/ RewardArrives \/ ArrivesInVain
  \/ RestoreKeeps \/ RestoreStep \/ RestoreFails \/ SettingsChange
  \/ \E query \in Champions \cup {"", "part"} : TypeQuery(query)
  \/ \E champion \in Champions : ChooseChampion(champion)

Spec == Init /\ page = "utilities" /\ [][Next]_vars

-----------------------------------------------------------------------------
(* Properties.                                                             *)

(* From the moment a restore may touch League's settings until its end is  *)
(* told, the settings it found are among RiftOps' snapshots, although only *)
(* so many are kept and any step may fail.                                 *)
RecoveryPointKept ==
  "backup" \in DOMAIN call =>
    \E b \in Range(stored) : b.general = before.general /\ b.input = before.input

(* The snapshots on show are those RiftOps has when nothing is on its way. *)
(* Loads that overlapped, one that failed, or a restore that failed half   *)
(* way may leave them wrong, but not longer than until the next load that  *)
(* goes well beside no other.                                              *)
ListIsKept ==
  call = No /\ (\A who \in {"shown", "call"} : loads[who] = No) /\ ~backupsCrossed =>
    backups = stored

(* The id on show is that of the champion named in the box.                *)
ResolvedIsNamed == selectedChampion # "" => championQuery = selectedChampion
=============================================================================
