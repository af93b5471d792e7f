--------------------------- MODULE PreparationPanel ---------------------------
(***************************************************************************)
(* frontend/src/components/PreparationPanel.tsx: presets of a lobby and of *)
(* a preparation, that are saved, deleted, and applied in two steps with a *)
(* confirmation between, and League's item sets, which RiftOps changes     *)
(* after keeping what was there.  Presets of a preparation belong to the   *)
(* signed-in account; profile presets, which a phone may apply, are like   *)
(* them.  Bots are added as the others act, and change nothing kept.       *)
(***************************************************************************)
EXTENDS Naturals, Sequences, FiniteSets

CONSTANTS MaxPresets, MaxSets

VARIABLES
  page,       \* the tab App.tsx renders
  remoteClient,
  account,    \* who is signed in
  stored,     \* the feature store: [id, kind, account]
  listed,     \* lobbies and preparations: the presets on show
  loading,    \* the first load of the presets: No, Asked or its answer
  effect,     \* the first load of the snapshots
  call,       \* what busy stands for: [op, preset, at, by, grant], or No
  grants,     \* previews RiftOps will honour: [id, preset, account]
  given,      \* history: the number of previews given
  applied,    \* history: [grant, account] of what League was asked to take
  sets,       \* League's item sets
  kept,       \* RiftOps: the snapshots of them, latest first
  snapshots,  \* the snapshots on show
  setsBefore, \* history: the item sets before RiftOps last changed them
  madeSets,   \* history: how many item sets there were
  listCrossed, \* history: the presets on show could not be brought up to date, until
               \* they are
  setsCrossed  \* history: nor could the snapshots, or League refused a change

presetVars == <<stored, listed, loading, grants, given, applied>>
setVars == <<sets, kept, snapshots, effect, setsBefore, madeSets>>
crossedVars == <<listCrossed, setsCrossed>>
vars == <<page, remoteClient, account, presetVars, call, setVars, crossedVars>>

No == [at |-> "no"]
Asked == [at |-> "asked"]
Kinds == {"lobby", "preparation"}
Shown == page = "preparation"

Init ==
  /\ remoteClient \in BOOLEAN /\ account = "a"
  /\ stored = {[id |-> 1, kind |-> "preparation", account |-> "a"]} /\ listed = {}
  /\ loading = Asked /\ call = No /\ grants = {} /\ given = 0 /\ applied = {}
  /\ sets = 0 /\ kept = <<>> /\ snapshots = <<>> /\ effect = Asked /\ setsBefore = 0 /\ madeSets = 0
  /\ listCrossed = FALSE /\ setsCrossed = FALSE

(* What the store has for whoever asks.                                    *)
Owner(kind, who) == IF kind = "lobby" THEN "" ELSE who
Readable(who) == {p \in stored : p.account \in {"", who}}

(* Every button is disabled while anything is going on; a phone is only    *)
(* given the previews.                                                     *)
Idle == Shown /\ call = No
SaveForms == Idle /\ ~remoteClient
LobbyRow(op) == Idle /\ (remoteClient => op = "preview")
PreparationRow(op) == Idle /\ (remoteClient => op = "preview")
RollbackButton == Idle /\ ~remoteClient /\ snapshots # <<>>
Row(p, op) == p \in listed /\ IF p.kind = "lobby" THEN LobbyRow(op) ELSE PreparationRow(op)

(* The promise of the call has come to an end.                             *)
Ends == call' = No

-----------------------------------------------------------------------------
(* load.                                                                   *)

LoadRead ==
  /\ Shown /\ loading = Asked
  /\ loading' = [at |-> "read", presets |-> Readable(account)]
  /\ UNCHANGED <<page, remoteClient, account, stored, listed, grants, given, applied, call, setVars,
                 crossedVars>>

(* Its answer is shown, even after a change made since.                    *)
LoadShown ==
  /\ Shown /\ loading # No /\ loading' = No
  /\ listed' = IF loading.at = "read" THEN loading.presets ELSE listed
  /\ UNCHANGED <<page, remoteClient, account, stored, grants, given, applied, call, setVars, crossedVars>>

(* The effect reads the snapshots beside it; an error leaves none.         *)
EffectRead ==
  /\ Shown /\ effect = Asked /\ effect' = [at |-> "read", snapshots |-> kept]
  /\ UNCHANGED <<page, remoteClient, account, presetVars, call, sets, kept, snapshots, setsBefore,
                 madeSets, crossedVars>>
EffectShown ==
  /\ Shown /\ effect # No /\ effect' = No
  /\ snapshots' = IF effect.at = "read" THEN effect.snapshots ELSE <<>>
  /\ UNCHANGED <<page, remoteClient, account, presetVars, call, sets, kept, setsBefore, madeSets,
                 crossedVars>>

(* The account signs out and another one in.                               *)
SwitchAccount ==
  /\ Shown /\ account' = (IF account = "a" THEN "b" ELSE "a")
  /\ listCrossed' = TRUE /\ setsCrossed' = TRUE
  /\ UNCHANGED <<page, remoteClient, presetVars, call, setVars>>

-----------------------------------------------------------------------------
(* save and remove.  A change is sent, and then the lists are read again.  *)

Save(kind) ==
  /\ SaveForms
  /\ call' = [op |-> "save", preset |-> [id |-> 0, kind |-> kind, account |-> ""], at |-> "sent"]
  /\ listCrossed' = (listCrossed \/ loading # No)
  /\ UNCHANGED <<page, remoteClient, account, presetVars, setVars, setsCrossed>>

(* RiftOps names the preset, and its account, when it gets it.             *)
SaveArrives ==
  /\ Shown /\ call.at = "sent" /\ call.op = "save" /\ Cardinality(stored) < MaxPresets \* bound
  /\ LET p == [id |-> CHOOSE n \in 1..MaxPresets : \A q \in stored : q.id # n,
               kind |-> call.preset.kind, account |-> Owner(call.preset.kind, account)]
     IN stored' = stored \cup {p}
  /\ call' = [call EXCEPT !.at = "reload"]
  /\ UNCHANGED <<page, remoteClient, account, listed, loading, grants, given, applied, setVars, crossedVars>>

Remove(p) ==
  /\ Row(p, "remove")
  /\ call' = [op |-> "remove", preset |-> p, at |-> "sent"]
  /\ listCrossed' = (listCrossed \/ loading # No)
  /\ UNCHANGED <<page, remoteClient, account, presetVars, setVars, setsCrossed>>

(* It must be there, and of the account.                                   *)
RemoveArrives ==
  /\ Shown /\ call.at = "sent" /\ call.op = "remove"
  /\ stored' = stored \ ({call.preset} \cap Readable(account))
  /\ call' = IF call.preset \in Readable(account) THEN [call EXCEPT !.at = "reload"] ELSE No
  /\ UNCHANGED <<page, remoteClient, account, listed, loading, grants, given, applied, setVars, crossedVars>>

Reload ==
  /\ Shown /\ call.at = "reload" /\ Ends
  /\ \/ listed' = Readable(account) /\ listCrossed' = (listCrossed /\ loading # No)
     \/ listCrossed' = TRUE /\ UNCHANGED listed
  /\ UNCHANGED <<page, remoteClient, account, stored, loading, grants, given, applied, setVars, setsCrossed>>

-----------------------------------------------------------------------------
(* apply: the preview, the confirmation and the change.                    *)

Preview(p) ==
  /\ Row(p, "preview")
  /\ call' = [op |-> "preview", preset |-> p, at |-> "sent", grant |-> 0]
  /\ UNCHANGED <<page, remoteClient, account, presetVars, setVars, crossedVars>>

PreviewArrives ==
  /\ Shown /\ call.at = "sent" /\ call.op = "preview" /\ call.preset \in Readable(account)
  /\ given < 2   \* bound
  /\ given' = given + 1
  /\ grants' = grants \cup {[id |-> given', preset |-> call.preset,
                             account |-> Owner(call.preset.kind, account)]}
  /\ call' = [call EXCEPT !.at = "confirm", !.grant = given']
  /\ UNCHANGED <<page, remoteClient, account, stored, listed, loading, applied, setVars, crossedVars>>

(* The browser's own dialog, which holds up the page: yes, or no.          *)
Confirmed ==
  /\ Shown /\ call.at = "confirm"
  /\ call' \in {No, [call EXCEPT !.op = "apply", !.at = "sent"]}
  /\ UNCHANGED <<page, remoteClient, account, presetVars, setVars, crossedVars>>

(* Two minutes.                                                            *)
GrantExpires(g) ==
  /\ Shown /\ grants' = grants \ {g}
  /\ UNCHANGED <<page, remoteClient, account, stored, listed, loading, call, given, applied, setVars,
                 crossedVars>>

(* Faulty consume: whoever is signed in may use it.                        *)
consumeByAnyone(g, p, who) == g.preset = p

consume(g, p, who) == g.preset = p /\ g.account = who

(* The preset is looked up again, and the preview used up.                 *)
ApplyArrives ==
  /\ Shown /\ call.at = "sent" /\ call.op = "apply" /\ Ends
  /\ \E g \in grants :
       /\ g.id = call.grant /\ call.preset \in stored
       /\ consume(g, call.preset, Owner(call.preset.kind, account))
       /\ grants' = grants \ {g}
       /\ applied' = applied \cup {[grant |-> g, account |-> Owner(call.preset.kind, account)]}
  /\ UNCHANGED <<page, remoteClient, account, stored, listed, loading, given, setVars, crossedVars>>

-----------------------------------------------------------------------------
(* Item sets.                                                              *)

CreateItemSet(p) ==
  /\ p.kind = "preparation" /\ Row(p, "itemset") /\ madeSets < MaxSets   \* bound
  /\ call' = [op |-> "itemset", at |-> "sent"]
  /\ setsCrossed' = (setsCrossed \/ effect # No)
  /\ UNCHANGED <<page, remoteClient, account, presetVars, setVars, listCrossed>>

keep(s) == <<s>> \o kept

(* What League has is kept before it is changed; League may refuse.        *)
ItemSetArrives ==
  /\ Shown /\ call.at = "sent" /\ call.op = "itemset"
  /\ kept' = keep(sets) /\ setsBefore' = sets /\ madeSets' = madeSets + 1
  /\ \/ sets' = madeSets' /\ call' = [call EXCEPT !.at = "snapshots"] /\ UNCHANGED setsCrossed
     \/ Ends /\ setsCrossed' = TRUE /\ UNCHANGED sets
  /\ UNCHANGED <<page, remoteClient, account, presetVars, effect, snapshots, listCrossed>>

(* The list of the snapshots is read again, or not: after an error the     *)
(* page offers an older one as the latest.                                 *)
SnapshotsRead ==
  /\ Shown /\ call.at = "snapshots" /\ Ends
  /\ \/ snapshots' = kept /\ UNCHANGED setsCrossed
     \/ setsCrossed' = TRUE /\ UNCHANGED snapshots
  /\ UNCHANGED <<page, remoteClient, account, presetVars, sets, kept, effect, setsBefore, madeSets,
                 listCrossed>>

(* rollbackLatest: the first snapshot on show.                             *)
Rollback ==
  /\ RollbackButton
  /\ call' = [op |-> "rollback", at |-> "sent", to |-> Head(snapshots)]
  /\ UNCHANGED <<page, remoteClient, account, presetVars, setVars, crossedVars>>
RollbackArrives ==
  /\ Shown /\ call.at = "sent" /\ call.op = "rollback" /\ Ends
  /\ sets' = call.to
  /\ UNCHANGED <<page, remoteClient, account, presetVars, kept, snapshots, effect, setsBefore,
                 madeSets, crossedVars>>

(* addBot; and any request that fails before it changed anything.          *)
CallFails ==
  /\ Shown /\ call.at = "sent" /\ Ends
  /\ UNCHANGED <<page, remoteClient, account, presetVars, setVars, crossedVars>>

Next ==
  \/ LoadRead \/ LoadShown \/ EffectRead \/ EffectShown \/ SwitchAccount \/ SaveArrives \/ RemoveArrives \/ Reload
  \/ \E kind \in Kinds : Save(kind)
  \/ \E p \in listed : Remove(p) \/ Preview(p) \/ CreateItemSet(p)
  \/ PreviewArrives \/ Confirmed \/ ApplyArrives \/ \E g \in grants : GrantExpires(g)
  \/ ItemSetArrives \/ SnapshotsRead \/ Rollback \/ RollbackArrives \/ CallFails

Spec == Init /\ page = "preparation" /\ [][Next]_vars

-----------------------------------------------------------------------------
(* Properties.                                                             *)

(* A preparation that the player of one account confirmed is never given   *)
(* to another account that signed in meanwhile (consumePresetPreview).     *)
AppliedToItsAccount == \A a \in applied : a.grant.account = a.account

(* Right after the page changed the item sets, its rollback brings back    *)
(* what League had before, if the list of snapshots is up to date.         *)
RollbackUndoes == [][sets' # sets /\ call.op = "rollback" /\ ~setsCrossed => sets' = setsBefore]_vars

(* The presets on show are those of the signed-in account, after every     *)
(* save and removal.  Another account, a load that was overtaken or one    *)
(* that failed may leave them wrong, but not longer than until the next    *)
(* save or removal has read them again.                                    *)
ListIsStored == loading = No /\ call = No /\ listed # {} /\ ~listCrossed => listed = Readable(account)
=============================================================================
