------------------------------- MODULE QoLPanel --------------------------------
(***************************************************************************)
(* frontend/src/components/QoLPanel.tsx, the Automations page: the rules   *)
(* of what RiftOps does after a match, a status message, and the buttons   *)
(* that act on League at once.  A switch of a rule sends all that the page *)
(* has read of the preferences, the choices of the Play page with them,    *)
(* and RiftOps takes every field that comes (mergeQoLPreferences).         *)
(***************************************************************************)
EXTENDS Naturals

CONSTANTS Rules, Reviewed   \* the rules, and those that are confirmed first

VARIABLES
  page,         \* the tab App.tsx renders
  rulesStored,  \* RiftOps: [rules, play]
  late,         \* the Play page's last save is still on its way
  preferences,  \* what the page shows
  loading,      \* preferencesLoading: No, Asked, or the answer
  ruleSave,     \* the save: No or [at, of, previous, rule]
  confirm,      \* confirmAction: No or [rule, of], what is confirmed
  phase,        \* League: "ChampSelect", "EndOfGame" or "", not connected
  state,        \* the phase and the status on show
  status,       \* League's status message
  statusMessage, statusHydrated, typed,   \* the text; history: the user typed it
  activeAction, \* actionLock: No or [op, at, text, state], the state at the click
  refreshing,   \* the Refresh button: No or [at, state]
  ballot,       \* the honor ballot is on show; it stays for the games to come
  qolCrossed    \* history: a read failed, the answer of a save was lost, or a
                \* choice of the Play page came after the read; until the next save

saved == <<rulesStored, late>>
shown == <<preferences, loading, ruleSave, confirm>>
text == <<statusMessage, statusHydrated, typed>>
game == <<phase, status>>
vars == <<page, saved, shown, game, state, text, activeAction, refreshing, ballot, qolCrossed>>

No == [at |-> "no"]
Asked == [at |-> "asked"]
Shown == page = "qol"
Off == [r \in Rules |-> FALSE]
connected == state.phase # ""

Init ==
  /\ rulesStored \in [rules : [Rules -> BOOLEAN], play : {0}] /\ late \in BOOLEAN
  /\ preferences = [rules |-> Off, play |-> 0] /\ loading = Asked /\ ruleSave = No /\ confirm = No
  /\ phase = "ChampSelect" /\ status = 1 /\ state = [phase |-> "", status |-> 0]
  /\ statusMessage = 0 /\ statusHydrated = FALSE /\ typed = FALSE
  /\ activeAction = No /\ refreshing = No /\ ballot = FALSE /\ qolCrossed = FALSE

-----------------------------------------------------------------------------
(* The rules.                                                              *)

PlaySaved ==
  /\ Shown /\ late /\ late' = FALSE /\ rulesStored' = [rulesStored EXCEPT !.play = 1]
  /\ qolCrossed' = (qolCrossed \/ loading # Asked)
  /\ UNCHANGED <<page, shown, game, state, text, activeAction, refreshing, ballot>>

LoadRead ==
  /\ Shown /\ loading = Asked /\ loading' = [at |-> "read", of |-> rulesStored]
  /\ UNCHANGED <<page, saved, preferences, ruleSave, confirm, game, state, text, activeAction, refreshing, ballot, qolCrossed>>

(* Without an answer the page shows its defaults, and lets them be saved.  *)
LoadEnds ==
  /\ Shown /\ loading # No /\ loading' = No
  /\ IF loading.at = "read" THEN preferences' = loading.of /\ UNCHANGED qolCrossed
     ELSE qolCrossed' = TRUE /\ UNCHANGED preferences
  /\ UNCHANGED <<page, saved, ruleSave, confirm, game, state, text, activeAction, refreshing, ballot>>

Flip(p, rule) == [p EXCEPT !.rules[rule] = ~@]
SwitchRow == Shown /\ loading = No /\ ruleSave = No /\ confirm = No

(* preferencesLock: the page shows the change, and asks for it.            *)
updatePreferences(next, rule) ==
  /\ ruleSave' = [at |-> "sent", of |-> next, previous |-> preferences, rule |-> rule]
  /\ preferences' = next
  /\ UNCHANGED <<page, saved, loading, game, state, text, activeAction, refreshing, ballot, qolCrossed>>

Toggle(rule) ==
  /\ SwitchRow /\ (rule \in Reviewed => preferences.rules[rule])
  /\ updatePreferences(Flip(preferences, rule), rule) /\ UNCHANGED confirm

(* What is to be sent is made when the dialog opens.                       *)
AskGrind(rule) ==
  /\ SwitchRow /\ rule \in Reviewed /\ ~preferences.rules[rule]
  /\ confirm' = [at |-> "open", rule |-> rule, of |-> Flip(preferences, rule)]
  /\ UNCHANGED <<page, saved, preferences, loading, ruleSave, game, state, text, activeAction, refreshing, ballot, qolCrossed>>

ConfirmGrind ==
  /\ Shown /\ confirm # No /\ ruleSave = No /\ confirm' = No
  /\ updatePreferences(confirm.of, confirm.rule)

CancelConfirm ==
  /\ Shown /\ confirm # No /\ confirm' = No
  /\ UNCHANGED <<page, saved, preferences, loading, ruleSave, game, state, text, activeAction, refreshing, ballot, qolCrossed>>

(* Every field of the request, under one lock.                             *)
mergeQoLPreferences ==
  /\ Shown /\ ruleSave.at = "sent" /\ rulesStored' = ruleSave.of /\ ruleSave' = [ruleSave EXCEPT !.at = "stored"]
  /\ qolCrossed' = FALSE
  /\ UNCHANGED <<page, late, preferences, loading, confirm, game, state, text, activeAction, refreshing, ballot>>

RuleSaved ==
  /\ Shown /\ ruleSave.at = "stored" /\ ruleSave' = No /\ preferences' = ruleSave.of
  /\ UNCHANGED <<page, saved, loading, confirm, game, state, text, activeAction, refreshing, ballot, qolCrossed>>

(* Faulty RuleSaveFails: the change stays on show.                         *)
RuleSaveFailsShown ==
  /\ Shown /\ ruleSave # No /\ ruleSave' = No /\ qolCrossed' = (qolCrossed \/ ruleSave.at = "stored")
  /\ UNCHANGED <<page, saved, preferences, loading, confirm, game, state, text, activeAction, refreshing, ballot>>

RuleSaveFails ==
  /\ Shown /\ ruleSave # No /\ ruleSave' = No /\ preferences' = ruleSave.previous
  /\ qolCrossed' = (qolCrossed \/ ruleSave.at = "stored")
  /\ UNCHANGED <<page, saved, loading, confirm, game, state, text, activeAction, refreshing, ballot>>

-----------------------------------------------------------------------------
(* League.                                                                 *)

LeagueMoves(to) ==
  /\ Shown /\ phase # to /\ phase' = to
  /\ UNCHANGED <<page, saved, shown, status, state, text, activeAction, refreshing, ballot, qolCrossed>>

(* The provider's poll; the first state fills in the message.              *)
StateShown ==
  /\ Shown /\ state' = [phase |-> phase, status |-> status]
  /\ statusHydrated' = (statusHydrated \/ phase # "")
  /\ statusMessage' = IF phase # "" /\ ~statusHydrated THEN status ELSE statusMessage
  /\ UNCHANGED <<page, saved, shown, game, activeAction, refreshing, ballot, qolCrossed, typed>>

TypeStatus(m) ==
  /\ Shown /\ connected /\ confirm = No /\ m # statusMessage /\ statusMessage' = m /\ typed' = TRUE
  /\ UNCHANGED <<page, saved, shown, game, state, statusHydrated, activeAction, refreshing, ballot, qolCrossed>>

(* runAction: one at a time.  Enter in the message's box asks the lock,    *)
(* too.  The dodge is confirmed first, in a phase that may be over then.   *)
runAction(op) ==
  /\ Shown /\ activeAction = No /\ confirm = No
  /\ \/ op = "status" /\ connected /\ statusMessage # 0
     \/ op = "dodge" /\ connected
     \/ op \in {"ballot", "again"} /\ state.phase = "EndOfGame"
     \/ op = "honor" /\ state.phase = "EndOfGame" /\ ballot
  /\ activeAction' = [op |-> op, at |-> "sent", text |-> statusMessage, state |-> state]
  /\ UNCHANGED <<page, saved, shown, game, state, text, refreshing, ballot, qolCrossed>>

(* League does it, and the page asks for its state once more.              *)
ActionDone ==
  /\ Shown /\ activeAction.at = "sent" /\ phase # "" /\ activeAction' = [activeAction EXCEPT !.at = "done"]
  /\ status' = IF activeAction.op = "status" THEN activeAction.text ELSE status
  /\ phase' = IF activeAction.op = "dodge" /\ phase = "ChampSelect" THEN "Lobby"
              ELSE IF activeAction.op = "again" /\ phase = "EndOfGame" THEN "Lobby" ELSE phase
  /\ ballot' = (ballot \/ activeAction.op = "ballot")
  /\ UNCHANGED <<page, saved, shown, state, text, refreshing, qolCrossed>>

ActionFails ==
  /\ Shown /\ activeAction.at = "sent" /\ activeAction' = No
  /\ UNCHANGED <<page, saved, shown, game, state, text, refreshing, ballot, qolCrossed>>

(* refreshState waits for the provider's poll and then shows what the      *)
(* provider had when the button was made: the state before the click.      *)
ActionRefreshed ==
  /\ Shown /\ activeAction.at = "done" /\ activeAction' = No /\ state' = activeAction.state
  /\ UNCHANGED <<page, saved, shown, game, text, refreshing, ballot, qolCrossed>>

Refresh ==
  /\ Shown /\ refreshing = No /\ refreshing' = [at |-> "asked", state |-> state]
  /\ UNCHANGED <<page, saved, shown, game, state, text, activeAction, ballot, qolCrossed>>

RefreshEnds ==
  /\ Shown /\ refreshing # No /\ refreshing' = No /\ state' = refreshing.state
  /\ UNCHANGED <<page, saved, shown, game, text, activeAction, ballot, qolCrossed>>

Next ==
  \/ PlaySaved \/ LoadRead \/ LoadEnds
  \/ \E rule \in Rules : Toggle(rule) \/ AskGrind(rule)
  \/ ConfirmGrind \/ CancelConfirm \/ mergeQoLPreferences \/ RuleSaved \/ RuleSaveFails
  \/ \E to \in {"", "Lobby", "ChampSelect", "EndOfGame"} : LeagueMoves(to)
  \/ StateShown \/ \E m \in 0 .. 2 : TypeStatus(m)
  \/ \E op \in {"status", "dodge", "ballot", "again", "honor"} : runAction(op)
  \/ ActionDone \/ ActionFails \/ ActionRefreshed \/ Refresh \/ RefreshEnds

Spec == Init /\ page = "qol" /\ [][Next]_vars

-----------------------------------------------------------------------------
(* Properties.                                                             *)

(* With nothing on the way the rules on show are those RiftOps follows,    *)
(* after refused saves too.  A first read that RiftOps did not answer, a   *)
(* save it stored and could not say it had, or one of the Play page that   *)
(* came later may leave them wrong, but not longer than until the next     *)
(* save of a rule, which stores all of them, is answered.                  *)
RulesShownAreStored == loading = No /\ ruleSave = No /\ ~qolCrossed => preferences = rulesStored

(* A switch changes its own rule only: neither another rule nor a choice   *)
(* of the Play page goes back to what it was when the page read it, though *)
(* every save sends them all.                                              *)
KeepsOtherRules ==
  [][ruleSave # No /\ ~qolCrossed /\ late' = late =>
       rulesStored' \in {rulesStored, [rulesStored EXCEPT !.rules[ruleSave.rule] = rulesStored'.rules[ruleSave.rule]]}]_vars

(* The message that the user typed is not replaced by a poll.              *)
TypedStays == [][typed /\ state' # state => statusMessage' = statusMessage]_vars
=============================================================================
