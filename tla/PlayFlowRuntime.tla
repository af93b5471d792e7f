--------------------------- MODULE PlayFlowRuntime ---------------------------
(***************************************************************************)
(* internal/playflow/runtime.go: the Full Auto service.  One Service       *)
(* serves Start and Stop from any number of HTTP handlers; each Start      *)
(* spawns a goroutine that polls League and acts on the phase it read.     *)
(* A poll is not atomic: the service, League and the player move between   *)
(* the isCurrentRun check, the phase read, each League request and its     *)
(* answer, and between a status change and the hook that reports it to the *)
(* QoL manager (internal/qol/manager.go).                                  *)
(*                                                                         *)
(* Left out: what update only shows (stage, message, countdown), queue      *)
(* metadata beyond what decides the control flow, and what the draft does  *)
(* inside ChampSelect.                                                     *)
(***************************************************************************)
EXTENDS Naturals, Gameflow

CONSTANTS
  MaxRuns,        \* bound on the number of runs ever started
  MaxGames,       \* bound on the number of games League starts
  CycleModes,     \* the cycle modes the handlers pass to Start
  SelectedQueue,  \* TRUE: prefs.SelectedQueue > 0; FALSE: "use current lobby"
  RoleBased       \* TRUE: classifyQueue answers role-based for the lobby

ASSUME BoundsAssumption == MaxRuns \in Nat /\ MaxGames \in Nat
ASSUME PreferencesAssumption ==
  /\ CycleModes \subseteq {"single", "repeat"}
  /\ SelectedQueue \in BOOLEAN
  /\ RoleBased \in BOOLEAN

Runs  == 1 .. MaxRuns
Modes == {"single", "repeat"}
Reasons == {"none", "stopped-by-user", "league-unavailable", "preflight-failed",
            "queue-flow-ended", "queue-cancelled", "matchmaking-unconfirmed",
            "matchmaking-blocked", "draft-blocked", "single-match-complete",
            "gameflow-error"}

(* Where a run's goroutine is.                                             *)
Steps == {"unborn", "spawn", "top", "read", "act", "create", "lobby", "roles",
          "start", "startSent", "again", "finish", "hook", "exit"}

(* runState, and the phase the current poll read (lastPhase).              *)
RunState == [seen : Phases, lobbyCreated : BOOLEAN, rolesApplied : BOOLEAN,
             submitted : BOOLEAN, sawSearching : BOOLEAN, hadGame : BOOLEAN,
             playAgainSent : BOOLEAN]
NewRunState == [seen |-> "None", lobbyCreated |-> FALSE, rolesApplied |-> FALSE,
                submitted |-> FALSE, sawSearching |-> FALSE, hadGame |-> FALSE,
                playAgainSent |-> FALSE]

VARIABLES
  status,        \* Service.status: active, run, reason
  cancelled,     \* run -> its context is cancelled
  mode,          \* run -> its cycle mode
  pc,            \* run -> where its goroutine is
  state,         \* run -> its runState, new again once the run gives up
  outcome,       \* run -> the reason a pending finish will store
  stopHooks,     \* Stop handlers between the status change and hook(false)
  runtimeActive, \* qol.Manager.playFlowRuntimeActive
  phase,         \* League: gameflow phase
  lobbyMatches,  \* League: a lobby is open, and for the selected queue
  games,         \* League: games begun, to bound the model
  sinceGame      \* history: run -> starts it sent since a game last began

goVars      == <<pc, state, outcome>>
leagueVars  == <<phase, lobbyMatches, games>>
hookVars    == <<stopHooks, runtimeActive>>
serviceVars == <<status, cancelled, mode>>
vars == <<serviceVars, goVars, hookVars, leagueVars, sinceGame>>

-----------------------------------------------------------------------------
(* The service's critical sections.                                        *)

Init ==
  /\ status = [active |-> FALSE, run |-> 0, reason |-> "none"]
  /\ cancelled = [r \in Runs |-> FALSE]
  /\ mode = [r \in Runs |-> "single"]
  /\ pc = [r \in Runs |-> "unborn"]
  /\ state = [r \in Runs |-> NewRunState]
  /\ outcome = [r \in Runs |-> "none"]
  /\ stopHooks = 0
  /\ runtimeActive = FALSE
  /\ phase \in {"None", "InProgress"}
  /\ lobbyMatches = FALSE
  /\ games = 0
  /\ sinceGame = [r \in Runs |-> 0]

isCurrentRun(r) == status.active /\ status.run = r

(* Start up to the unlock; hook(true) and the goroutine come after it.     *)
Start(r, m) ==
  /\ r = status.run + 1
  /\ ~status.active
  /\ status' = [active |-> TRUE, run |-> r, reason |-> "none"]
  /\ mode' = [mode EXCEPT ![r] = m]
  /\ pc' = [pc EXCEPT ![r] = "spawn"]
  /\ UNCHANGED <<cancelled, state, outcome, hookVars, leagueVars, sinceGame>>

(* Start's tail: hook(true), then go s.run.                                *)
StartHook(r) ==
  /\ pc[r] = "spawn"
  /\ runtimeActive' = TRUE
  /\ pc' = [pc EXCEPT ![r] = "top"]
  /\ UNCHANGED <<serviceVars, state, outcome, stopHooks, leagueVars, sinceGame>>

(* Faulty Stop: the status changes but the context is left alive.          *)
StopKeepsContext ==
  /\ stopHooks = 0
  /\ stopHooks' = 1
  /\ status' = IF status.active
               THEN [status EXCEPT !.active = FALSE, !.reason = "stopped-by-user"]
               ELSE status
  /\ UNCHANGED <<cancelled, mode, goVars, runtimeActive, leagueVars, sinceGame>>

(* Stop up to the unlock.  finish clears s.cancel together with Active, so *)
(* the only context Stop can cancel is that of the active run.             *)
Stop ==
  /\ stopHooks = 0                \* bound: one Stop handler at a time
  /\ stopHooks' = 1
  /\ \/ /\ status.active
        /\ cancelled' = [cancelled EXCEPT ![status.run] = TRUE]
        /\ status' = [status EXCEPT !.active = FALSE,
                                    !.reason = "stopped-by-user"]
     \/ /\ ~status.active
        /\ UNCHANGED <<cancelled, status>>
  /\ UNCHANGED <<mode, goVars, runtimeActive, leagueVars, sinceGame>>

(* Faulty StopHook: a hook(false) no Stop handler owes.                    *)
StopHookUnowed ==
  /\ stopHooks' = IF stopHooks > 0 THEN stopHooks - 1 ELSE 2
  /\ runtimeActive' = FALSE
  /\ UNCHANGED <<serviceVars, goVars, leagueVars, sinceGame>>

StopHook ==
  /\ stopHooks > 0
  /\ stopHooks' = stopHooks - 1
  /\ runtimeActive' = FALSE
  /\ UNCHANGED <<serviceVars, goVars, leagueVars, sinceGame>>

(* The goroutine goes on to another step of its poll with run state st; a  *)
(* new poll has read no phase yet.                                         *)
Proceed(r, step, st) ==
  /\ pc' = [pc EXCEPT ![r] = step]
  /\ state' = [state EXCEPT ![r] =
                 IF step = "top" THEN [st EXCEPT !.seen = "None"] ELSE st]
  /\ UNCHANGED outcome

(* The goroutine gives up; finish then takes the lock.                     *)
Finishing(r, reason) ==
  /\ pc' = [pc EXCEPT ![r] = "finish"]
  /\ state' = [state EXCEPT ![r] = NewRunState]
  /\ outcome' = [outcome EXCEPT ![r] = reason]

finish(r) ==
  /\ pc[r] = "finish"
  /\ \/ /\ status.run # r
        /\ pc' = [pc EXCEPT ![r] = "exit"]
        /\ UNCHANGED status
     \/ /\ status.run = r
        /\ status' = [active |-> FALSE, run |-> r, reason |-> outcome[r]]
        /\ pc' = [pc EXCEPT ![r] = "hook"]
  /\ outcome' = [outcome EXCEPT ![r] = "none"]
  /\ UNCHANGED <<cancelled, mode, state, hookVars, leagueVars, sinceGame>>

FinishHook(r) ==
  /\ pc[r] = "hook"
  /\ runtimeActive' = FALSE
  /\ pc' = [pc EXCEPT ![r] = "exit"]
  /\ UNCHANGED <<serviceVars, state, outcome, stopHooks, leagueVars, sinceGame>>

-----------------------------------------------------------------------------
(* One poll of a run: step, ensureLobby and prepareAndStartLobby.          *)

(* A poll changes its own goroutine; the status only through finish.       *)
pollFrame == <<serviceVars, hookVars>>

BeginStep(r) ==
  /\ pc[r] = "top"
  /\ \/ /\ cancelled[r] \/ ~isCurrentRun(r)
        /\ Proceed(r, "exit", NewRunState)
     \/ /\ ~cancelled[r] /\ isCurrentRun(r)
        /\ Proceed(r, "read", state[r])
  /\ UNCHANGED <<pollFrame, leagueVars, sinceGame>>

(* GetGameflowPhase answers, or fails: League is gone, the request timed   *)
(* out, or Stop cancelled its context.                                     *)
ReadPhase(r) ==
  /\ pc[r] = "read"
  /\ \/ /\ ~cancelled[r]
        /\ Proceed(r, "act", [state[r] EXCEPT !.seen = phase])
     \/ Finishing(r, "league-unavailable")
  /\ UNCHANGED <<pollFrame, leagueVars, sinceGame>>

(* ensureLobby up to its mutation.                                         *)
ensureLobby(r, st) ==
  \/ /\ ~SelectedQueue \/ ~st.lobbyCreated   \* no queue, or no catalogue
     /\ Finishing(r, "preflight-failed")
  \/ /\ SelectedQueue /\ st.lobbyCreated
     /\ Proceed(r, "top", st)
  \/ /\ SelectedQueue /\ ~st.lobbyCreated
     /\ Proceed(r, "create", st)

ActNone(r) ==
  /\ pc[r] = "act" /\ state[r].seen = "None"
  /\ \/ /\ state[r].submitted \/ state[r].sawSearching
        /\ Finishing(r, "queue-flow-ended")
     \/ /\ ~state[r].submitted /\ ~state[r].sawSearching
        /\ ensureLobby(r, state[r])
  /\ UNCHANGED <<pollFrame, leagueVars, sinceGame>>

(* League opens a lobby of the selected queue when it is in none or in     *)
(* another one.                                                            *)
LobbyOpens ==
  /\ phase \in {"None", "Lobby"}
  /\ phase' = "Lobby"
  /\ lobbyMatches' = TRUE

(* CreateQueueLobby and its variants.  An error may hide a created lobby.  *)
CreateLobby(r) ==
  /\ pc[r] = "create"
  /\ \/ /\ ~cancelled[r]
        /\ LobbyOpens
        /\ Proceed(r, "top", [state[r] EXCEPT !.lobbyCreated = TRUE])
     \/ /\ LobbyOpens \/ UNCHANGED <<phase, lobbyMatches>>
        /\ Finishing(r, "preflight-failed")
  /\ UNCHANGED <<pollFrame, games, sinceGame>>

(* Faulty resetCycle: every lobby opens a new cycle, game or not.          *)
resetCycleAlways(r) ==
  IF mode[r] = "repeat"
  THEN [state[r] EXCEPT !.rolesApplied = FALSE, !.submitted = FALSE,
                        !.sawSearching = FALSE, !.hadGame = FALSE,
                        !.playAgainSent = FALSE]
  ELSE state[r]

(* resetCycle, which the Lobby case applies after a game in repeat mode.   *)
resetCycle(r) ==
  IF mode[r] = "repeat" /\ state[r].hadGame
  THEN [state[r] EXCEPT !.rolesApplied = FALSE, !.submitted = FALSE,
                        !.sawSearching = FALSE, !.hadGame = FALSE,
                        !.playAgainSent = FALSE]
  ELSE state[r]

ActLobby(r) ==
  LET st == resetCycle(r) IN
  /\ pc[r] = "act" /\ state[r].seen = "Lobby"
  /\ \/ /\ st.sawSearching
        /\ Finishing(r, "queue-cancelled")
     \/ /\ ~st.sawSearching /\ st.submitted
        /\ \/ Proceed(r, "top", st)                  \* within 4 s
           \/ Proceed(r, "top", [st EXCEPT !.sawSearching = TRUE])
           \/ Finishing(r, "matchmaking-unconfirmed")
     \/ /\ ~st.sawSearching /\ ~st.submitted
        /\ Proceed(r, "lobby", st)
  /\ UNCHANGED <<pollFrame, leagueVars, sinceGame>>

(* fetchLobby, the checks on the lobby and preflightBlocker, any of which  *)
(* may fail.                                                               *)
PrepareLobby(r) ==
  /\ pc[r] = "lobby"
  /\ \/ Finishing(r, "preflight-failed")
     \/ /\ ~cancelled[r]
        /\ SelectedQueue /\ ~lobbyMatches
        /\ ensureLobby(r, [state[r] EXCEPT !.lobbyCreated = FALSE])
     \/ /\ ~cancelled[r]
        /\ ~SelectedQueue \/ lobbyMatches
        /\ Proceed(r, IF RoleBased /\ ~state[r].rolesApplied
                      THEN "roles" ELSE "start", state[r])
  /\ UNCHANGED <<pollFrame, leagueVars, sinceGame>>

ApplyRoles(r) ==
  /\ pc[r] = "roles"
  /\ \/ /\ ~cancelled[r]
        /\ Proceed(r, "start", [state[r] EXCEPT !.rolesApplied = TRUE])
     \/ Finishing(r, "preflight-failed")
  /\ UNCHANGED <<pollFrame, leagueVars, sinceGame>>

(* AutoRequeue or StartCustomGame leaves the runtime; League rejects it    *)
(* outside a lobby.  A cancelled context sends nothing.                    *)
SendStart(r) ==
  /\ pc[r] = "start"
  /\ \/ /\ cancelled[r]
        /\ Finishing(r, "preflight-failed")
        /\ UNCHANGED sinceGame
     \/ /\ ~cancelled[r]
        /\ sinceGame' = [sinceGame EXCEPT ![r] = @ + 1]
        /\ \/ phase = "Lobby" /\ Proceed(r, "startSent", state[r])
           \/ phase # "Lobby" /\ Finishing(r, "preflight-failed")
  /\ UNCHANGED <<pollFrame, leagueVars>>

(* The answer.  An error, a timeout or Stop may hide an accepted start;    *)
(* League's own move out of the lobby covers that case.                    *)
StartAnswer(r) ==
  /\ pc[r] = "startSent"
  /\ \/ /\ ~cancelled[r]
        /\ Proceed(r, "top", [state[r] EXCEPT !.submitted = TRUE])
     \/ Finishing(r, "preflight-failed")
  /\ UNCHANGED <<pollFrame, leagueVars, sinceGame>>

(* Matchmaking, ReadyCheck and ChampSelect: the queue is running.  The     *)
(* matchmaking blocker or the draft may stop the run.                      *)
ActQueue(r) ==
  /\ pc[r] = "act" /\ state[r].seen \in Queueing
  /\ \/ Proceed(r, "top", [state[r] EXCEPT !.sawSearching = TRUE])
     \/ /\ state[r].seen = "Matchmaking"
        /\ Finishing(r, "matchmaking-blocked")
     \/ /\ state[r].seen = "ChampSelect"
        /\ Finishing(r, "draft-blocked")
  /\ UNCHANGED <<pollFrame, leagueVars, sinceGame>>

(* Faulty ActGame: a one-match run waits in game as a repeat run does.     *)
ActGameAnyMode(r) ==
  /\ pc[r] = "act" /\ state[r].seen \in GamePhases
  /\ Proceed(r, "top", [state[r] EXCEPT !.hadGame = TRUE])
  /\ UNCHANGED <<pollFrame, leagueVars, sinceGame>>

(* A game, or its end.  PlayAgain waits 1.5 s on the post-game screen.     *)
ActGame(r) ==
  LET st == [state[r] EXCEPT !.hadGame = TRUE] IN
  /\ pc[r] = "act" /\ state[r].seen \in GamePhases
  /\ \/ /\ mode[r] = "single"
        /\ Finishing(r, "single-match-complete")
     \/ /\ mode[r] = "repeat"
        /\ \/ Proceed(r, "top", st)
           \/ /\ st.seen = "EndOfGame" /\ ~st.playAgainSent
              /\ Proceed(r, "again", st)
  /\ UNCHANGED <<pollFrame, leagueVars, sinceGame>>

(* PlayAgain: accepted, or an error that may hide an accepted request.     *)
PlayAgain(r) ==
  LET accepted == phase = "EndOfGame" /\ phase' = "Lobby" IN
  /\ pc[r] = "again"
  /\ \/ /\ ~cancelled[r] /\ accepted
        /\ Proceed(r, "top", [state[r] EXCEPT !.playAgainSent = TRUE])
     \/ /\ accepted \/ UNCHANGED phase
        /\ Proceed(r, "top", state[r])
  /\ lobbyMatches' \in IF phase' = phase THEN {lobbyMatches} ELSE BOOLEAN
  /\ UNCHANGED <<pollFrame, games, sinceGame>>

ActError(r) ==
  /\ pc[r] = "act" /\ state[r].seen = "TerminatedInError"
  /\ Finishing(r, "gameflow-error")
  /\ UNCHANGED <<pollFrame, leagueVars, sinceGame>>

(* Everything the goroutine of run r does by itself.                       *)
RunStep(r) ==
  \/ BeginStep(r) \/ ReadPhase(r)
  \/ ActNone(r) \/ CreateLobby(r)
  \/ ActLobby(r) \/ PrepareLobby(r) \/ ApplyRoles(r) \/ SendStart(r)
  \/ StartAnswer(r)
  \/ ActQueue(r) \/ ActGame(r) \/ PlayAgain(r) \/ ActError(r)
  \/ finish(r) \/ FinishHook(r)

-----------------------------------------------------------------------------
(* League, the match maker and the player.                                 *)
LeagueMoves ==
  \E next \in Successors[phase] :
    /\ GameBegins(phase, next) => games < MaxGames
    /\ phase' = next
    /\ games' = IF GameBegins(phase, next) THEN games + 1 ELSE games
    /\ sinceGame' = IF GameBegins(phase, next) THEN [r \in Runs |-> 0]
                    ELSE sinceGame
    /\ lobbyMatches' \in IF next = "Lobby" THEN BOOLEAN ELSE {FALSE}
    /\ UNCHANGED <<serviceVars, goVars, hookVars>>

Next ==
  \/ \E r \in Runs, m \in CycleModes : Start(r, m)
  \/ \E r \in Runs : StartHook(r)
  \/ Stop \/ StopHook
  \/ \E r \in Runs : RunStep(r)
  \/ LeagueMoves

(* Every request has a timeout of its own and the scheduler runs every     *)
(* goroutine, so a run's steps and a handler's tail are never postponed    *)
(* for ever.  Nothing is assumed of League, the player or the user.        *)
Fairness ==
  /\ \A r \in Runs : WF_vars(RunStep(r)) /\ WF_vars(StartHook(r))
  /\ WF_vars(StopHook)

Spec == Init /\ [][Next]_vars /\ Fairness

-----------------------------------------------------------------------------
(* Properties.                                                             *)

(* The types of the service's, the runs' and League's state.               *)
TypeOK ==
  /\ status \in [active : BOOLEAN, run : 0 .. MaxRuns, reason : Reasons]
  /\ cancelled \in [Runs -> BOOLEAN]
  /\ mode \in [Runs -> Modes]
  /\ pc \in [Runs -> Steps]
  /\ state \in [Runs -> RunState]
  /\ outcome \in [Runs -> Reasons]
  /\ stopHooks \in 0 .. 1
  /\ runtimeActive \in BOOLEAN
  /\ phase \in Phases
  /\ lobbyMatches \in BOOLEAN
  /\ games \in Nat
  /\ sinceGame \in [Runs -> Nat]

(* A goroutine that could still send League a request: born, not about to  *)
(* finish, and its context alive.                                          *)
Driving(r) ==
  pc[r] \notin {"unborn", "finish", "hook", "exit"} /\ ~cancelled[r]

(* Whatever Start and Stop did while polls were in flight, only the active *)
(* run can still drive League: a goroutine of an earlier run has lost its  *)
(* context or has nothing left to send (Start, Stop, finish).              *)
SingleDriver == \A r \in Runs : Driving(r) => isCurrentRun(r)

(* A run asks League to start a queue at most once between two games: an   *)
(* unconfirmed, rejected or cancelled start is never submitted a second    *)
(* time (matchmakingSubmitted, resetCycle).                                *)
OneStartPerGame == \A r \in Runs : sinceGame[r] <= 1

(* A step never sends League a start for a run that is not the active one, *)
(* although isCurrentRun was tested several requests earlier.              *)
SendsOnlyWhileCurrent ==
  [][\A r \in Runs : sinceGame'[r] > sinceGame[r] => isCurrentRun(r)]_vars

(* Stop always ends the run's goroutine, whatever request it is in, and a  *)
(* one-match run does not outlive the game it waited for: once League is   *)
(* in a game the run ends, unless the game is over first.                  *)
RunsEndWhenDue ==
  \A r \in Runs :
    /\ (cancelled[r] /\ pc[r] # "unborn") ~> pc[r] = "exit"
    /\ (isCurrentRun(r) /\ mode[r] = "single" /\ phase = "InProgress")
         ~> (~isCurrentRun(r) \/ phase \notin GamePhases)

(* What TestRepeatRuntimeStaysActiveInGameAndStopIsIdempotent expects of   *)
(* every Stop: the stored reason is, and stays, stopped-by-user.           *)
StopReasonKept ==
  \A r \in Runs :
    status.run = r /\ cancelled[r] => status.reason = "stopped-by-user"

(* What the comment on SetPlayFlowRuntimeActive promises: once every hook  *)
(* call has returned, the QoL manager leaves Play Again to an active run.  *)
HooksReturned == stopHooks = 0 /\ \A r \in Runs : pc[r] \notin {"spawn", "hook"}
YieldsWhileActive == HooksReturned /\ status.active => runtimeActive

=============================================================================
