---------------------------- MODULE LaunchAccounts ----------------------------
(***************************************************************************)
(* frontend/src/components/LaunchProfilesPanel.tsx: the Riot accounts on   *)
(* the dashboard, which RiftOps stores with the saved login of each.  One  *)
(* is selected; switching closes Riot and opens it with another, and the   *)
(* signed-in login is saved for the one that is selected in RiftOps, while *)
(* the panel shows what it read before.                                    *)
(***************************************************************************)
EXTENDS Naturals, Sequences, FiniteSets, FiniteSetsExt

CONSTANTS RiotIDs, MaxProfiles

VARIABLES
  page,         \* the tab App.tsx renders
  riot,         \* who is signed in to Riot, "" if nobody
  stored,       \* RiftOps' profiles: their Riot IDs by id
  active,       \* the one selected in RiftOps
  logins,       \* the saved logins: the Riot ID each belongs to
  profiles, connected,   \* on show
  activeProfileId,       \* the selected one, of App.tsx's snapshot
  loading, loads,        \* the first or the button's load, that of a call, and of the ranks
  busy, calls,  \* requests of the panel: [op, id, riotId, at, left]
  editor, confirmation,
  accountsCrossed  \* history: loads crossed a change, or one failed

shownVars == <<profiles, connected, activeProfileId>>
loadVars == <<loading, loads>>
storeVars == <<stored, active, logins>>
callVars == <<busy, calls>>
dialogVars == <<editor, confirmation>>
vars == <<page, riot, storeVars, shownVars, loadVars, callVars, dialogVars, accountsCrossed>>

No == [at |-> "no"]
Asked == [at |-> "asked"]
Shown == page = "accounts"

Init ==
  /\ riot = "a" /\ stored = <<"a", "b">> /\ active = 1 /\ logins = <<>>
  /\ profiles = <<>> /\ connected = "" /\ activeProfileId = 1
  /\ loading = TRUE /\ loads = [shown |-> Asked, call |-> No, ranks |-> No]
  /\ busy = "" /\ calls = {} /\ editor = No /\ confirmation = No /\ accountsCrossed = FALSE

(* The selected profile as it is on show; the first, if it is not known.   *)
activeProfile ==
  IF activeProfileId \in DOMAIN profiles THEN activeProfileId ELSE Min(DOMAIN profiles)
activeRiotIdMismatch == connected # "" /\ profiles[activeProfile] # connected

-----------------------------------------------------------------------------
(* load and refreshRanks.                                                  *)

LoadRead(who) ==
  /\ Shown /\ loads[who] = Asked
  /\ loads' = [loads EXCEPT ![who] = [at |-> "read", profiles |-> stored, connected |-> riot]]
  /\ UNCHANGED <<page, riot, storeVars, shownVars, loading, callVars, dialogVars, accountsCrossed>>

Loaded(who) ==
  /\ Shown /\ who # "ranks" /\ loads[who].at = "read" /\ loads' = [loads EXCEPT ![who] = No]
  /\ profiles' = loads[who].profiles /\ connected' = loads[who].connected /\ loading' = FALSE
  /\ UNCHANGED <<page, riot, storeVars, activeProfileId, callVars, dialogVars, accountsCrossed>>

LoadFails(who) ==
  /\ Shown /\ loads[who] # No /\ loads' = [loads EXCEPT ![who] = No] /\ accountsCrossed' = TRUE
  /\ loading' = (loading /\ who = "ranks")
  /\ UNCHANGED <<page, riot, storeVars, shownVars, callVars, dialogVars>>

Refresh ==
  /\ Shown /\ ~loading /\ busy = "" /\ loading' = TRUE /\ loads' = [loads EXCEPT !.shown = Asked]
  /\ UNCHANGED <<page, riot, storeVars, shownVars, callVars, dialogVars, accountsCrossed>>

(* Every so often, whatever else is going on; its list replaces the shown. *)
refreshRanks ==
  /\ Shown /\ loads.ranks = No /\ loads' = [loads EXCEPT !.ranks = Asked]
  /\ accountsCrossed' = (accountsCrossed \/ calls # {})
  /\ UNCHANGED <<page, riot, storeVars, shownVars, loading, callVars, dialogVars>>

RanksShown ==
  /\ Shown /\ loads.ranks.at = "read" /\ loads' = [loads EXCEPT !.ranks = No]
  /\ profiles' = loads.ranks.profiles
  /\ UNCHANGED <<page, riot, storeVars, connected, activeProfileId, loading, callVars, dialogVars,
                 accountsCrossed>>

(* An event of the engine brings App.tsx another snapshot.                 *)
SnapshotArrives ==
  /\ Shown /\ activeProfileId' = active
  /\ UNCHANGED <<page, riot, storeVars, profiles, connected, loadVars, callVars, dialogVars,
                 accountsCrossed>>

-----------------------------------------------------------------------------
(* The requests.                                                           *)

Free == Shown /\ busy = "" /\ confirmation = No
Sends(op, id, riotId) ==
  /\ busy' = op
  /\ calls' = calls \cup {[op |-> op, id |-> id, riotId |-> riotId, at |-> "sent", left |-> <<>>]}
  /\ accountsCrossed' = (accountsCrossed \/ \E who \in {"shown", "ranks"} : loads[who] # No)

ProfileRow(id) == Free /\ id \in DOMAIN profiles
runSwitch(id) ==
  /\ ProfileRow(id) /\ Sends("switch", id, "")
  /\ UNCHANGED <<page, riot, storeVars, shownVars, loadVars, dialogVars>>

saveCurrentSession ==
  /\ Free /\ profiles # <<>> /\ ~loading /\ ~activeRiotIdMismatch
  /\ Sends("capture", activeProfile, "")
  /\ UNCHANGED <<page, riot, storeVars, shownVars, loadVars, dialogVars>>

openNewProfileEditor ==
  /\ Free /\ editor' = [at |-> "open", id |-> 0, riotId |-> connected]
  /\ UNCHANGED <<page, riot, storeVars, shownVars, loadVars, callVars, confirmation, accountsCrossed>>
openProfileEditor(id) ==
  /\ ProfileRow(id) /\ editor' = [at |-> "open", id |-> id, riotId |-> profiles[id]]
  /\ UNCHANGED <<page, riot, storeVars, shownVars, loadVars, callVars, confirmation, accountsCrossed>>
useConnectedAccount ==
  /\ Free /\ editor # No /\ connected # "" /\ editor' = [editor EXCEPT !.riotId = connected]
  /\ UNCHANGED <<page, riot, storeVars, shownVars, loadVars, callVars, confirmation, accountsCrossed>>
resetDraft ==
  /\ Free /\ editor # No /\ editor' = No
  /\ UNCHANGED <<page, riot, storeVars, shownVars, loadVars, callVars, confirmation, accountsCrossed>>

(* A profile that is no longer on show is added anew.                      *)
EditorForm == Free /\ editor # No
saveProfile ==
  /\ EditorForm /\ editor.riotId # ""
  /\ Sends("save", IF editor.id \in DOMAIN profiles THEN editor.id ELSE 0, editor.riotId)
  /\ UNCHANGED <<page, riot, storeVars, shownVars, loadVars, dialogVars>>

updateDetectedServer(id) ==
  /\ ProfileRow(id) /\ id = activeProfileId /\ connected # "" /\ Sends("region", id, profiles[id])
  /\ UNCHANGED <<page, riot, storeVars, shownVars, loadVars, dialogVars>>

DeleteAsked ==
  /\ EditorForm /\ editor.id \in DOMAIN profiles /\ DOMAIN profiles # {editor.id}
  /\ confirmation' = [at |-> "open", op |-> "delete", id |-> editor.id]
  /\ UNCHANGED <<page, riot, storeVars, shownVars, loadVars, callVars, editor, accountsCrossed>>
Confirmed ==
  /\ Shown /\ confirmation # No /\ confirmation' = No
  /\ Sends(confirmation.op, confirmation.id, "")
  /\ UNCHANGED <<page, riot, storeVars, shownVars, loadVars, editor>>
Dismissed ==
  /\ Shown /\ confirmation # No /\ confirmation' = No
  /\ UNCHANGED <<page, riot, storeVars, shownVars, loadVars, callVars, editor, accountsCrossed>>

-----------------------------------------------------------------------------
(* RiftOps.  What is left for the panel to do once it has answered.        *)

After(op) == CASE op = "switch" -> <<"refresh", "load">>
               [] op \in {"capture", "region"} -> <<"load">>
               [] op = "close" -> <<"load", "refresh">>
               [] op \in {"save", "delete"} -> <<"load", "refresh">>
With(f, id, riotId) == [x \in DOMAIN f \cup {id} |-> IF x = id THEN riotId ELSE f[x]]
Answered(c, how) ==
  calls' = (calls \ {c}) \cup {[c EXCEPT !.at = how, !.left = IF how = "done" THEN After(c.op) ELSE <<>>]}

(* Riot is closed and the profile selected; then Riot is opened with its   *)
(* login, or for a fresh sign-in.                                          *)
SwitchArrives(c) ==
  /\ Shown /\ c.at = "sent" /\ c.op = "switch" /\ c.id \in DOMAIN stored
  /\ active' = c.id /\ \E how \in {"done", "failed"} : Answered(c, how)
  /\ riot' \in {""} \cup (IF c.id \in DOMAIN logins THEN {logins[c.id]} ELSE {})
  /\ UNCHANGED <<page, stored, logins, shownVars, loadVars, busy, dialogVars, accountsCrossed>>

(* The login is saved for the selected profile, if its Riot ID is that of  *)
(* the account, which is looked at again before the save.                  *)
CaptureArrives(c) ==
  /\ Shown /\ c.at = "sent" /\ c.op \in {"capture", "close"} /\ riot # "" /\ stored[active] = riot
  /\ logins' = With(logins, active, riot) /\ Answered(c, "done")
  /\ riot' = IF c.op = "close" THEN "" ELSE riot
  /\ UNCHANGED <<page, stored, active, shownVars, loadVars, busy, dialogVars, accountsCrossed>>

(* Riot has written nothing to save yet.                                   *)
NotPersisted(c) ==
  /\ Shown /\ c.at = "sent" /\ c.op = "capture" /\ stored[active] = riot /\ Answered(c, "unwritten")
  /\ UNCHANGED <<page, riot, storeVars, shownVars, loadVars, busy, dialogVars, accountsCrossed>>

SaveArrives(c) ==
  /\ Shown /\ c.at = "sent" /\ c.op \in {"save", "region"} /\ Answered(c, "done")
  /\ IF c.id = 0
     THEN LET id == Max(DOMAIN stored) + 1 IN
          id <= MaxProfiles /\ stored' = With(stored, id, c.riotId) /\ active' = id
     ELSE stored' = With(stored, c.id, c.riotId) /\ UNCHANGED active
  /\ UNCHANGED <<page, riot, logins, shownVars, loadVars, busy, dialogVars, accountsCrossed>>

DeleteArrives(c) ==
  /\ Shown /\ c.at = "sent" /\ c.op = "delete" /\ c.id \in DOMAIN stored /\ DOMAIN stored # {c.id}
  /\ stored' = Restrict(stored, DOMAIN stored \ {c.id})
  /\ logins' = Restrict(logins, DOMAIN logins \ {c.id})
  /\ active' = (IF active = c.id THEN Min(DOMAIN stored') ELSE active) /\ Answered(c, "done")
  /\ UNCHANGED <<page, riot, shownVars, loadVars, busy, dialogVars, accountsCrossed>>

RiftOpsRefuses(c) ==
  /\ Shown /\ c.at = "sent" /\ Answered(c, "failed")
  /\ UNCHANGED <<page, riot, storeVars, shownVars, loadVars, busy, dialogVars, accountsCrossed>>

(* The player signs in or out in Riot.                                     *)
SignIn ==
  /\ Shown /\ riot' \in (RiotIDs \cup {""}) \ {riot}
  /\ UNCHANGED <<page, storeVars, shownVars, loadVars, callVars, dialogVars, accountsCrossed>>

-----------------------------------------------------------------------------
(* The panel, once it has the answer.                                      *)

Remains(c) == calls' = (calls \ {c}) \cup {[c EXCEPT !.left = Tail(@)]}

(* A snapshot that cannot be read is let go.                               *)
SnapshotRefreshed(c) ==
  /\ Shown /\ c.left # <<>> /\ Head(c.left) = "refresh" /\ Remains(c)
  /\ \/ activeProfileId' = active /\ UNCHANGED accountsCrossed
     \/ accountsCrossed' = TRUE /\ UNCHANGED activeProfileId
  /\ UNCHANGED <<page, riot, storeVars, profiles, connected, loadVars, busy, dialogVars>>

CallLoads(c) ==
  /\ Shown /\ c.left # <<>> /\ Head(c.left) = "load" /\ Remains(c)
  /\ loads' = [loads EXCEPT !.call = Asked] /\ loading' = TRUE
  /\ editor' = IF c.op = "save" THEN No ELSE editor
  /\ accountsCrossed' = (accountsCrossed \/ loads.shown # No)
  /\ UNCHANGED <<page, riot, storeVars, shownVars, busy, confirmation>>

(* A switch that failed may have selected the profile all the same, which  *)
(* the panel learns from the engine.                                       *)
CallEnds(c) ==
  /\ Shown /\ c.at # "sent" /\ c.left = <<>> /\ loads.call = No
  /\ calls' = calls \ {c} /\ busy' = ""
  /\ confirmation' = IF c.at = "unwritten" THEN [at |-> "open", op |-> "close", id |-> c.id]
                     ELSE confirmation
  /\ accountsCrossed' = (accountsCrossed \/ (c.op = "switch" /\ c.at = "failed" /\ activeProfileId # active))
  /\ UNCHANGED <<page, riot, storeVars, shownVars, loadVars, editor>>

Next ==
  \/ \E who \in {"shown", "call", "ranks"} : LoadRead(who) \/ Loaded(who) \/ LoadFails(who)
  \/ Refresh \/ refreshRanks \/ RanksShown \/ SnapshotArrives \/ SignIn
  \/ \E id \in DOMAIN profiles : runSwitch(id) \/ openProfileEditor(id) \/ updateDetectedServer(id)
  \/ saveCurrentSession \/ openNewProfileEditor \/ useConnectedAccount \/ resetDraft \/ saveProfile
  \/ DeleteAsked \/ Confirmed \/ Dismissed
  \/ \E c \in calls : \/ SwitchArrives(c) \/ CaptureArrives(c) \/ NotPersisted(c) \/ SaveArrives(c)
                      \/ DeleteArrives(c) \/ RiftOpsRefuses(c)
                      \/ SnapshotRefreshed(c) \/ CallLoads(c) \/ CallEnds(c)

Spec == Init /\ page = "accounts" /\ [][Next]_vars

-----------------------------------------------------------------------------
(* Properties.                                                             *)

(* One request of the panel is under way at a time, whatever dialogs and   *)
(* confirmations came between: a login is never saved while accounts are   *)
(* being switched.                                                         *)
OneAccountAction == \A c, d \in calls : c = d

(* The profile a login is saved for is the one the panel showed as the     *)
(* selected one, unless its snapshot could not be brought up to date: the  *)
(* request does not name it.                                               *)
SavedForShown ==
  \A c \in calls : c.op \in {"capture", "close"} /\ c.at = "sent" /\ ~accountsCrossed => c.id = active

(* A login is only ever saved for a profile that names its account.        *)
LoginOfItsAccount ==
  [][\A id \in DOMAIN logins' :
       (id \in DOMAIN logins => logins[id] # logins'[id]) => stored'[id] = logins'[id]]_vars
=============================================================================
