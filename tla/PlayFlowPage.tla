----------------------------- MODULE PlayFlowPage -----------------------------
(***************************************************************************)
(* frontend/src/components/PlayFlowPage.tsx, the Play & Queue page: its    *)
(* choices are kept in the page and saved in RiftOps by a request per      *)
(* edit, and one button starts, stops or accepts, according to what the    *)
(* polls of the phase, the runtime and the restrictions last answered.     *)
(*                                                                         *)
(* The polls overlap and their answers come late, out of order or not at   *)
(* all, so a handler finds any combination of them: they are inputs of the *)
(* handlers and not state.  An edit is known by its number; as the choice  *)
(* "queue" the number is the queue's id, 0 for the current lobby.          *)
(***************************************************************************)
EXTENDS Naturals, FiniteSets

CONSTANTS
  MaxEdits,   \* bound: edits of one visit to the page
  Handlers    \* bound: start handlers that may run at the same time

VARIABLES
  page,       \* the tab App.tsx renders
  prefs,      \* what the page shows
  stored,     \* RiftOps: qolPreferences.playFlow
  saves,      \* save requests and their answers on the way
  hydrate,    \* the first read of the stored choices
  saveState,  \* prefsSaveState
  prefsTouched,    \* prefsTouchedRef
  edits,      \* number of edits so far
  merged,     \* history: some answer's choices were taken over
  overlapped, \* history: saves were on the way together, or the first read
              \* and a save of all the choices, and no save since was alone
  flowMode,   \* "manual" or "full-auto"
  acting,     \* the handler that disables the button, or ""
  starts,     \* primary-start handlers
  other,      \* another handler that runs: "lobby", "stop", ... or ""
  crossed     \* history: a handler that ignores acting ended while a start
              \* ran, and enabled the button; until no start runs

choiceVars == <<prefs, stored, saves, hydrate, saveState, prefsTouched, edits,
                merged, overlapped>>
startVars  == <<flowMode, acting, starts, other, crossed>>
vars == <<page, choiceVars, startVars>>

Keys == {"queue", "picks"}
Prefs == [Keys -> 0 .. MaxEdits]

(* What loadPrefs finds in this browser's storage.                         *)
loadPrefs == [k \in Keys |-> 0]

(* What the polls may have left on the screen: the phase, "" when League   *)
(* does not answer; whether Full Auto runs, false too when RiftOps did not *)
(* answer; a restriction that blocks the queue.                            *)
PhasesSeen == {"", "Lobby", "Matchmaking", "ReadyCheck", "ChampSelect", "EndOfGame"}
autoModes == BOOLEAN
queueStartBlocked == BOOLEAN

CustomQueue == 1
canStartQueue(phase) == phase = "Lobby"

Idle == [at |-> "idle", auto |-> FALSE, clean |-> FALSE]
Busy(i) == starts[i].at # "idle"

Init ==
  /\ prefs = loadPrefs
  /\ stored \in {[k \in Keys |-> 0], [k \in Keys |-> IF k = "picks" THEN 1 ELSE 0]}
  /\ saves = {} /\ hydrate = [at |-> "asked", answer |-> loadPrefs]
  /\ saveState = "saved" /\ prefsTouched = FALSE /\ edits = 0
  /\ merged = FALSE /\ overlapped = FALSE
  /\ flowMode = "manual" /\ acting = "" /\ starts = [i \in Handlers |-> Idle]
  /\ other = "" /\ crossed = FALSE

Shown == page = "play"

-----------------------------------------------------------------------------
(* The choices.                                                            *)

(* A request carries the keys it changes; its answer the whole record.  It *)
(* is alone while no other is sent before it is answered.                  *)
Send(change, by) ==
  LET alone == saves = {} /\ (by \in Handlers => hydrate.at = "done") IN
  /\ saves' = {[s EXCEPT !.alone = FALSE] : s \in saves} \cup
                {[change |-> change, by |-> by, at |-> "sent", answer |-> stored, alone |-> alone]}
  /\ overlapped' = (overlapped \/ ~alone)

(* The page takes over all the choices of an answer.                       *)
TakeOver(s) ==
  /\ prefs' = s.answer /\ saveState' = "saved" /\ merged' = TRUE
  /\ overlapped' = (overlapped /\ ~s.alone)

Override(record, change) ==
  [k \in Keys |-> IF k \in DOMAIN change THEN change[k] ELSE record[k]]

(* RiftOps answers the first read.  An install of before the store existed *)
(* has nothing to answer.                                                  *)
HydrateRead ==
  /\ Shown /\ hydrate.at = "asked"
  /\ \E at \in {"answered", "legacy", "failed"} :
       hydrate' = [at |-> at, answer |-> stored]
  /\ UNCHANGED <<page, prefs, stored, saves, saveState, prefsTouched, edits, merged,
                 overlapped, startVars>>

(* The answer is dropped when the user has edited in the meantime.  With   *)
(* nothing stored the page saves all it has.                               *)
Hydrate ==
  /\ Shown /\ hydrate.at \in {"answered", "legacy", "failed"}
  /\ hydrate' = [at |-> "done", answer |-> loadPrefs]
  /\ IF prefsTouched \/ hydrate.at = "failed"
     THEN UNCHANGED <<prefs, saves, saveState, merged, overlapped>>
     ELSE IF hydrate.at = "answered"
     THEN /\ prefs' = hydrate.answer /\ saveState' = "saved" /\ merged' = TRUE
          /\ UNCHANGED <<saves, overlapped>>
     ELSE /\ saveState' = "saving" /\ Send(prefs, "page")
          /\ UNCHANGED <<prefs, merged>>
  /\ UNCHANGED <<page, stored, prefsTouched, edits, startVars>>

(* update, and updateRolePickPlan through it.  While Full Auto runs the    *)
(* queue and the roles are disabled.                                       *)
update(k) ==
  /\ Shown /\ edits < MaxEdits
  /\ \E autoMode \in autoModes : k = "queue" => ~autoMode
  /\ edits' = edits + 1
  /\ prefs' = [prefs EXCEPT ![k] = edits']
  /\ prefsTouched' = TRUE /\ saveState' = "saving"
  /\ Send([x \in {k} |-> edits'], "page")
  /\ starts' = [i \in Handlers |-> [starts[i] EXCEPT !.clean = FALSE]]
  /\ UNCHANGED <<page, stored, hydrate, merged, flowMode, acting, other, crossed>>

(* RiftOps applies a save, in whatever order saves arrive.                 *)
SaveArrives(s) ==
  /\ Shown /\ s \in saves /\ s.at = "sent"
  /\ stored' = Override(stored, s.change)
  /\ saves' = (saves \ {s}) \cup {[s EXCEPT !.at = "answered", !.answer = stored']}
  /\ UNCHANGED <<page, prefs, hydrate, saveState, prefsTouched, edits, merged,
                 overlapped, startVars>>

SaveAnswered(s) ==
  /\ Shown /\ s \in saves /\ s.at = "answered" /\ s.by = "page"
  /\ saves' = saves \ {s} /\ TakeOver(s)
  /\ UNCHANGED <<page, stored, hydrate, prefsTouched, edits, startVars>>

(* Or no answer comes, and the choices stay in the page only.              *)
SaveFails(s) ==
  /\ Shown /\ s \in saves /\ s.by = "page"
  /\ saves' = saves \ {s}
  /\ saveState' = "local"
  /\ UNCHANGED <<page, prefs, stored, hydrate, prefsTouched, edits, merged,
                 overlapped, startVars>>

-----------------------------------------------------------------------------
(* The primary button.                                                     *)

choiceFrame == <<page, choiceVars>>

ChooseFlowMode(m) ==
  /\ Shown /\ m # flowMode /\ \E autoMode \in autoModes : ~autoMode
  /\ flowMode' = m
  /\ UNCHANGED <<choiceFrame, acting, starts, other, crossed>>

(* Faulty primaryActionDisabled: the running handler is not asked.         *)
DisabledUnlessConnected(phase, autoMode, blocked) ==
  ~autoMode /\ (phase = "" \/ (canStartQueue(phase) /\ blocked) \/ phase = "EndOfGame")
primaryActionDisabled(phase, autoMode, blocked) ==
  \/ acting # ""
  \/ ~autoMode /\ (phase = "" \/ (canStartQueue(phase) /\ blocked) \/ phase = "EndOfGame")

(* handlePrimaryAction stops Full Auto or the queue, or accepts the match. *)
PrimaryOther ==
  /\ Shown /\ other = ""
  /\ \E phase \in PhasesSeen, autoMode \in autoModes, blocked \in queueStartBlocked :
       /\ ~primaryActionDisabled(phase, autoMode, blocked)
       /\ \/ autoMode /\ acting' = "runtime-stop"
          \/ ~autoMode /\ phase = "Matchmaking" /\ acting' = "stop"
          \/ ~autoMode /\ phase = "ReadyCheck" /\ acting' = "accept"
  /\ other' = acting'
  /\ UNCHANGED <<choiceFrame, flowMode, starts, crossed>>

(* Or it starts: whichever mode, the choices are saved first.  The start   *)
(* is clean while no other save is on the way and nothing is edited.       *)
PrimaryStart(i) ==
  /\ Shown /\ ~Busy(i)
  /\ \E phase \in PhasesSeen, blocked \in queueStartBlocked :
       /\ ~primaryActionDisabled(phase, FALSE, blocked)
       /\ canStartQueue(phase) /\ ~blocked
  /\ acting' = "primary-start"
  /\ starts' = [starts EXCEPT ![i] =
                  [at |-> "flush", auto |-> flowMode = "full-auto", clean |-> saves = {} /\ hydrate.at = "done"]]
  /\ Send(prefs, i)
  /\ UNCHANGED <<page, prefs, stored, hydrate, saveState, prefsTouched, edits, merged,
                 flowMode, other, crossed>>

(* The handler of a start is over, and with it whatever acting says.       *)
StartOver(i) ==
  /\ starts' = [starts EXCEPT ![i] = Idle] /\ acting' = ""
  /\ crossed' = (crossed /\ \E j \in Handlers \ {i} : Busy(j))

(* Or it goes on.                                                          *)
StartAt(i, at) == starts' = [starts EXCEPT ![i].at = at] /\ UNCHANGED <<acting, crossed>>

(* flushPlayFlowPreferences got its answer, or none.                       *)
Flushed(i) ==
  /\ Shown /\ starts[i].at = "flush"
  /\ \E s \in saves :
       /\ s.by = i /\ saves' = saves \ {s}
       /\ \/ s.at = "answered" /\ TakeOver(s) /\ StartAt(i, IF starts[i].auto THEN "start" ELSE "lobby")
          \/ StartOver(i) /\ UNCHANGED <<prefs, saveState, merged, overlapped>>
  /\ UNCHANGED <<page, stored, hydrate, prefsTouched, edits, flowMode, other>>

(* startManualFlow creates the lobby of the chosen queue unless League has *)
(* it open, and reads it up to ten times for League's confirmation.        *)
ManualLobby(i) ==
  /\ Shown /\ starts[i].at = "lobby"
  /\ (prefs["queue"] > 0 /\ StartAt(i, "wait")) \/ StartAt(i, "start") \/ StartOver(i)
  /\ UNCHANGED <<choiceFrame, flowMode, other>>

waitForSelectedLobby(i) ==
  /\ Shown /\ starts[i].at = "wait"
  /\ StartAt(i, "start") \/ StartOver(i)
  /\ UNCHANGED <<choiceFrame, flowMode, other>>

(* Full Auto is started with what RiftOps has stored; a manual start asks  *)
(* League.  Accepted or not, the handler is over.                          *)
StartSent(i) ==
  /\ Shown /\ starts[i].at = "start" /\ StartOver(i)
  /\ UNCHANGED <<choiceFrame, flowMode, other>>

(* "Create lobby", for a custom queue, and the role-quest loadout, in      *)
(* champion select: neither button asks acting.                            *)
BesideAStart ==
  /\ Shown /\ other = ""
  /\ \/ flowMode = "manual" /\ prefs["queue"] = CustomQueue /\ acting # "lobby" /\ acting' = "lobby"
     \/ acting # "role-quest" /\ acting' = "role-quest"
  /\ other' = acting'
  /\ UNCHANGED <<choiceFrame, flowMode, starts, crossed>>

(* runStep, and the other handlers: answered or refused.                   *)
OtherOver ==
  /\ Shown /\ other # ""
  /\ other' = "" /\ acting' = ""
  /\ crossed' = (crossed \/ \E i \in Handlers : Busy(i))
  /\ UNCHANGED <<choiceFrame, flowMode, starts>>

StartStep(i) == Flushed(i) \/ ManualLobby(i) \/ waitForSelectedLobby(i) \/ StartSent(i)

Next ==
  \/ HydrateRead \/ Hydrate \/ \E k \in Keys : update(k)
  \/ \E s \in saves : SaveArrives(s) \/ SaveAnswered(s) \/ SaveFails(s)
  \/ \E m \in {"manual", "full-auto"} : ChooseFlowMode(m)
  \/ PrimaryOther \/ BesideAStart \/ OtherOver
  \/ \E i \in Handlers : PrimaryStart(i) \/ StartStep(i)

(* Requests are answered or fail, and timers fire.                         *)
Fairness == WF_vars(OtherOver) /\ \A i \in Handlers : WF_vars(StartStep(i))

Spec == Init /\ page = "play" /\ [][Next]_vars /\ Fairness

-----------------------------------------------------------------------------
(* Properties.                                                             *)

(* Nothing on the way, "Choices saved automatically." is true: the page    *)
(* shows what RiftOps has stored, provided it has had one answer.  Saves   *)
(* on the way together may leave it showing an older answer: then it is    *)
(* true again from the next save that has no other beside it, whatever was *)
(* lost or came late before.                                               *)
SavedIsStored ==
  /\ saveState = "saved" /\ saves = {} /\ hydrate.at = "done"
  /\ merged /\ ~overlapped
  => prefs = stored

(* Full Auto starts with the choices on the screen, unless the user edits  *)
(* while it starts or an earlier save was still on the way.                *)
StartsWithShown ==
  [][\A i \in Handlers :
       starts[i].at = "start" /\ starts[i].auto /\ starts[i].clean /\ StartSent(i)
         => stored = prefs]_vars

(* Two start handlers never run together, whatever else is pressed and     *)
(* ends; only where a handler that ignores acting has ended while a start  *)
(* ran, which enables the button, a second may begin, and where no start   *)
(* is left that is over.                                                   *)
OneStart == crossed \/ \A i, j \in Handlers : Busy(i) /\ Busy(j) => i = j

(* Every start handler ends, two beside each other as well, and the button *)
(* never stays disabled.                                                   *)
ActingEnds ==
  /\ []<>(acting = "")
  /\ \A i \in Handlers : []<>~Busy(i)

=============================================================================
