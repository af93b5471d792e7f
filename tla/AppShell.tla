------------------------------- MODULE AppShell -------------------------------
(***************************************************************************)
(* frontend/src/App.tsx, clientCapabilities.ts and CommandPalette.tsx: what*)
(* the shell offers on a desktop and on a phone, its launch of a game with *)
(* the stages that lock the button, and the lock of Home's other actions.  *)
(* The snapshot on show is whatever SnapshotFeed delivers.                 *)
(***************************************************************************)
EXTENDS Naturals, FiniteSets

CONSTANTS
  AllTabs, PhoneTabs, Desktop,   \* the tabs; a phone's; all commands that it lacks
  MaxLaunches                    \* bound: launches that run, and timers due, at once

VARIABLES
  page,         \* the tab App.tsx renders
  device,       \* what the client is
  clientMode,   \* what the shell takes it for: "loading", "desktop", "phone"
  activeTab, settled,   \* the tab, and whether the effect has looked at it
  commandPaletteOpen, confirmModal,
  phase, chat, lcuConnected,   \* the snapshot on show, and League
  launchStage, launches,   \* the stage on show; where each running launch is
  timers,       \* launches whose 1.8 s timer is still to reset the stage
  homeActions,  \* running stop, presence and masking; homeActionLock unless {}
  crossed       \* history: while a launch ran, the timer of an earlier one reset
                \* the stage, or the palette or the dialog began another; until
                \* none runs

vars == <<page, device, clientMode, activeTab, settled, commandPaletteOpen, confirmModal, phase,
          chat, lcuConnected, launchStage, launches, timers, homeActions, crossed>>
shellVars == <<page, device, clientMode, activeTab, settled, commandPaletteOpen>>
snapshotVars == <<phase, chat, lcuConnected>>
launchVars == <<launchStage, launches, timers, crossed>>

Shown == page = "dashboard"
remoteClient == clientMode = "phone"
availableTabs == IF remoteClient THEN PhoneTabs ELSE AllTabs

isIdle == phase = "idle"
presenceControlsAvailable == isIdle \/ chat
presenceStatusAvailable == presenceControlsAvailable \/ lcuConnected
offlineAvailable == chat \/ (isIdle /\ ~lcuConnected)

Init ==
  /\ device \in {"desktop", "phone"} /\ clientMode = "loading"
  /\ activeTab \in AllTabs /\ settled = FALSE
  /\ commandPaletteOpen = FALSE /\ confirmModal = "none"
  /\ phase = "idle" /\ chat = FALSE /\ lcuConnected = FALSE
  /\ launchStage = "idle" /\ launches = {} /\ timers = 0 /\ homeActions = {} /\ crossed = FALSE

(* The remote status; without an answer the client is taken for a desktop. *)
RemoteStatus ==
  /\ Shown /\ clientMode = "loading" /\ clientMode' \in {device, "desktop"} /\ settled' = FALSE
  /\ UNCHANGED <<page, device, activeTab, commandPaletteOpen, confirmModal, snapshotVars,
                 launchVars, homeActions>>

(* Snapshots come and go: a stream, a poll, the end of an action.          *)
SnapshotShown ==
  /\ Shown /\ clientMode # "loading"
  /\ phase' \in {"idle", "active"} /\ chat' \in BOOLEAN /\ lcuConnected' \in BOOLEAN
  /\ phase' = "idle" => ~chat'
  /\ UNCHANGED <<shellVars, confirmModal, launchVars, homeActions>>

-----------------------------------------------------------------------------
(* Tabs: sidebar, Alt and a digit, riftops:navigate, the palette.          *)

SetActiveTab(tab) ==
  /\ Shown /\ activeTab' = tab /\ settled' = FALSE
  /\ \/ tab \in availableTabs   \* the sidebar, the keyboard
     \/ tab \in AllTabs /\ clientMode # "loading"   \* riftops:navigate
  /\ UNCHANGED <<page, device, clientMode, commandPaletteOpen, confirmModal, snapshotVars,
                 launchVars, homeActions>>

TabEffect ==
  /\ Shown /\ ~settled /\ settled' = TRUE
  /\ activeTab' = IF activeTab \in availableTabs THEN activeTab ELSE "dashboard"
  /\ UNCHANGED <<page, device, clientMode, commandPaletteOpen, confirmModal, snapshotVars,
                 launchVars, homeActions>>

TogglePalette ==
  /\ Shown /\ commandPaletteOpen' = ~commandPaletteOpen
  /\ UNCHANGED <<page, device, clientMode, activeTab, settled, confirmModal, snapshotVars,
                 launchVars, homeActions>>

commandAvailable(command) == ~remoteClient \/ command \notin Desktop

(* The palette hides while the mode loads, and closes with its choice.     *)
Palette(command) ==
  /\ Shown /\ clientMode # "loading" /\ commandPaletteOpen /\ commandAvailable(command)

OnHome == Shown /\ clientMode = "desktop" /\ activeTab = "dashboard"

-----------------------------------------------------------------------------
(* handleLaunch.                                                           *)

launchFrame == <<page, device, clientMode, activeTab, settled, snapshotVars, homeActions>>

Begun(id) == {l \in launches : l.id = id} # {}
Checking(id) == [id |-> id, at |-> "checking"]

Begin ==
  /\ Cardinality(launches) + timers < MaxLaunches
  /\ \E id \in 1 .. MaxLaunches : ~Begun(id) /\ launches' = launches \cup {Checking(id)}
  /\ launchStage' = "checking"

LaunchButton ==
  /\ OnHome /\ isIdle /\ launchStage = "idle" /\ homeActions = {}
  /\ Begin
  /\ UNCHANGED <<launchFrame, commandPaletteOpen, confirmModal, timers, crossed>>

LaunchCommand ==
  /\ Palette("launch") /\ commandPaletteOpen' = FALSE
  /\ Begin /\ crossed' = (crossed \/ launches # {})
  /\ UNCHANGED <<launchFrame, confirmModal, timers>>

(* "Restart & launch"; the timer of the refused launch may still be due.   *)
ConfirmRestart ==
  /\ Shown /\ confirmModal = "restart" /\ confirmModal' = "none"
  /\ Begin /\ crossed' = (crossed \/ launches # {})
  /\ UNCHANGED <<launchFrame, commandPaletteOpen, timers>>

After(at) == IF at = "checking" THEN "starting" ELSE "waiting"

LaunchStep(l) ==
  /\ Shown /\ l.at # "waiting" /\ launchStage' = After(l.at)
  /\ launches' = (launches \ {l}) \cup {[l EXCEPT !.at = After(l.at)]}
  /\ UNCHANGED <<launchFrame, commandPaletteOpen, confirmModal, timers, crossed>>

(* Ended or refused, a launch leaves a timer that is to reset the stage.   *)
Over(l) ==
  /\ launches' = launches \ {l} /\ timers' = timers + 1
  /\ crossed' = (crossed /\ launches' # {})

(* 15 more snapshots at most are waited for.                               *)
LaunchEnds(l) ==
  /\ Shown /\ l.at = "waiting" /\ Over(l) /\ launchStage' = "ready"
  /\ UNCHANGED <<launchFrame, commandPaletteOpen, confirmModal>>

LaunchFails(l) ==
  /\ Shown /\ Over(l) /\ launchStage' = "idle"
  /\ \/ l.at = "starting" /\ confirmModal' = "restart"   \* Riot Client is already running
     \/ UNCHANGED confirmModal
  /\ UNCHANGED <<launchFrame, commandPaletteOpen>>

(* The timer does not ask whether another launch has begun since.          *)
StageTimer ==
  /\ Shown /\ timers > 0 /\ timers' = timers - 1 /\ launchStage' = "idle"
  /\ crossed' = (crossed \/ launches # {})
  /\ UNCHANGED <<launchFrame, commandPaletteOpen, confirmModal, launches>>

-----------------------------------------------------------------------------
(* Home's stop, presence and masking; confirmations.                       *)

homeFrame == <<page, device, clientMode, activeTab, settled, confirmModal, snapshotVars, launchVars>>

HomeAction(name) ==
  homeActions' = IF homeActions = {} THEN {name} ELSE homeActions   \* homeActionLock

HandleStop ==
  /\ \/ OnHome /\ ~isIdle /\ homeActions = {} /\ UNCHANGED commandPaletteOpen
     \/ Palette("stop") /\ commandPaletteOpen' = FALSE
  /\ HomeAction("stop")
  /\ UNCHANGED homeFrame

HandleSetStatus(status) ==
  /\ OnHome /\ presenceStatusAvailable /\ homeActions = {}
  /\ status = "offline" => offlineAvailable
  /\ HomeAction("presence")
  /\ UNCHANGED <<homeFrame, commandPaletteOpen>>

(* Masking may be switched off when its controls are not available.        *)
HandleToggleMasking ==
  /\ \/ OnHome /\ presenceControlsAvailable /\ homeActions = {} /\ UNCHANGED commandPaletteOpen
     \/ Palette("toggle-mask") /\ commandPaletteOpen' = FALSE
  /\ HomeAction("masking")
  /\ UNCHANGED homeFrame

HomeActionEnds(name) ==
  /\ Shown /\ name \in homeActions /\ homeActions' = homeActions \ {name}
  /\ UNCHANGED <<homeFrame, commandPaletteOpen>>

(* There is one dialog: a quit that waits for its answer gives way.        *)
HandleQuit ==
  /\ Shown /\ clientMode = "desktop" /\ activeTab = "settings" /\ confirmModal' = "quit"
  /\ UNCHANGED <<shellVars, snapshotVars, launchVars, homeActions>>

CloseConfirm ==
  /\ Shown /\ confirmModal # "none" /\ confirmModal' = "none"
  /\ UNCHANGED <<shellVars, snapshotVars, launchVars, homeActions>>

Next ==
  \/ RemoteStatus \/ SnapshotShown \/ \E tab \in AllTabs : SetActiveTab(tab)
  \/ TabEffect \/ TogglePalette
  \/ LaunchButton \/ LaunchCommand \/ ConfirmRestart
  \/ \E l \in launches : LaunchStep(l) \/ LaunchEnds(l) \/ LaunchFails(l)
  \/ StageTimer
  \/ HandleStop \/ HandleToggleMasking
  \/ \E status \in {"online", "offline"} : HandleSetStatus(status)
  \/ \E name \in homeActions : HomeActionEnds(name)
  \/ HandleQuit \/ CloseConfirm

(* Requests are answered and timers fire.                                  *)
Fairness ==
  /\ \A id \in 1 .. MaxLaunches :
       WF_vars(\E l \in launches : l.id = id /\ (LaunchStep(l) \/ LaunchEnds(l)))
  /\ WF_vars(StageTimer)

Spec == Init /\ page = "dashboard" /\ [][Next]_vars /\ Fairness

-----------------------------------------------------------------------------
(* Properties.                                                             *)

(* Whatever button, palette or dialog an action of Home comes from, stop,  *)
(* presence and masking do not run beside each other.                      *)
OneHomeAction == \A a, b \in homeActions : a = b

(* A client that is known to be a phone launches, stops and masks nothing, *)
(* and once the effect has looked it is on a tab of a phone.               *)
PhoneKeepsOut ==
  remoteClient =>
    launches = {} /\ homeActions = {} /\ (settled => activeTab \in PhoneTabs)

(* A launch has the stage to itself, which locks the button while it runs, *)
(* also beside the timer of an earlier one that is still due: only once    *)
(* that timer has reset the stage of a running launch, or the palette or   *)
(* the dialog has begun a launch beside one, may the button start another, *)
(* and where no launch is left that is over.                               *)
OneLaunch ==
  ~crossed =>
    /\ \A l, m \in launches : l = m
    /\ launches # {} => launchStage # "idle"

(* Every launch ends, the ones that crossed another as well, and after the *)
(* last the stage goes back to idle unless the next launch begins.         *)
StageEnds ==
  /\ \A id \in 1 .. MaxLaunches : []<>~Begun(id)
  /\ []<>(launches # {} \/ launchStage = "idle")

=============================================================================
