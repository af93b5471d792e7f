------------------------ MODULE PlayFlowRuntimeProofs ------------------------
(***************************************************************************)
(* Proofs about PlayFlowRuntime for any number of runs and games: the type *)
(* invariant, SingleDriver, OneStartPerGame and SendsOnlyWhileCurrent.     *)
(***************************************************************************)
EXTENDS PlayFlowRuntime, TLAPS

(* A goroutine exists for a run once Start made it the service's run.      *)
Born ==
  \A r \in Runs : /\ pc[r] = "unborn" <=> r > status.run
                  /\ pc[r] = "unborn" =>
                       sinceGame[r] = 0 /\ ~state[r].hadGame

(* The steps between a decision to start the queue and League's answer.    *)
Starting == {"lobby", "roles", "start", "startSent"}

(* Where a cycle stands: a run that is about to start the queue has no     *)
(* game behind it and has not submitted; a run that has sent its start is  *)
(* waiting for the answer or remembers it, and League is not in a game.    *)
RunCycle(m, step, st, sent, p) ==
  /\ m = "single" => ~st.hadGame
  /\ step \in Starting =>
       st.seen = "Lobby" /\ ~st.hadGame /\ ~st.submitted
  /\ sent <= 1
  /\ sent = 1 /\ step \notin {"finish", "hook", "exit"} =>
       /\ step = "startSent" \/ st.submitted
       /\ ~st.hadGame
       /\ st.seen \notin GamePhases
       /\ p \notin GamePhases

Cycle ==
  \A r \in Runs : RunCycle(mode[r], pc[r], state[r], sinceGame[r], phase)

IndInv == TypeOK /\ Born /\ SingleDriver /\ Cycle

(* The frames, and the sets every step ranges over.                        *)
USE BoundsAssumption DEF BoundsAssumption, Runs, Modes

LEMMA InitIndInv == Init => IndInv
<1> SUFFICES ASSUME Init PROVE IndInv
  OBVIOUS
<1>1. NewRunState \in RunState
  BY DEF NewRunState, RunState, Phases
<1>2. TypeOK
  <2>1. /\ "none" \in Reasons
        /\ "unborn" \in Steps
        /\ {"None", "InProgress"} \subseteq Phases
    BY DEF Reasons, Steps, Phases, GamePhases
  <2>2. status \in [active : BOOLEAN, run : 0 .. MaxRuns, reason : Reasons]
    BY <2>1 DEF Init
  <2>3. phase \in Phases
    BY <2>1 DEF Init
  <2>4. pc \in [Runs -> Steps] /\ outcome \in [Runs -> Reasons]
    BY <2>1 DEF Init
  <2>5. state \in [Runs -> RunState]
    BY <1>1 DEF Init
  <2>6. mode \in [Runs -> Modes] /\ cancelled \in [Runs -> BOOLEAN]
    BY DEF Init
  <2>7. stopHooks \in 0 .. 1 /\ games \in Nat /\ sinceGame \in [Runs -> Nat]
    BY DEF Init
  <2>8. runtimeActive \in BOOLEAN /\ lobbyMatches \in BOOLEAN
    BY DEF Init
  <2> QED
    BY <2>2, <2>3, <2>4, <2>5, <2>6, <2>7, <2>8 DEF TypeOK
<1>3. Born
  BY DEF Init, Born, NewRunState
<1>4. SingleDriver
  BY DEF Init, SingleDriver, Driving
<1>5. Cycle
  <2> SUFFICES ASSUME NEW r \in Runs
               PROVE  RunCycle(mode[r], pc[r], state[r], sinceGame[r], phase)
    BY DEF Cycle
  <2>1. state[r] = NewRunState /\ pc[r] = "unborn" /\ sinceGame[r] = 0
    BY DEF Init
  <2> QED
    BY <2>1 DEF RunCycle, NewRunState, Starting
<1> QED
  BY <1>2, <1>3, <1>4, <1>5 DEF IndInv

-----------------------------------------------------------------------------
(* The goroutine's steps.                                                  *)

Polling == {"top", "read", "act", "create", "lobby", "roles", "start",
            "startSent", "again"}

PollStep(r) ==
  \/ BeginStep(r) \/ ReadPhase(r) \/ ActNone(r) \/ CreateLobby(r)
  \/ ActLobby(r) \/ PrepareLobby(r) \/ ApplyRoles(r) \/ SendStart(r)
  \/ StartAnswer(r) \/ ActQueue(r) \/ ActGame(r) \/ PlayAgain(r)
  \/ ActError(r)

LEMMA ProceedType ==
  ASSUME TypeOK, NEW r \in Runs, NEW step \in Steps, NEW st \in RunState,
         Proceed(r, step, st)
  PROVE  /\ pc' \in [Runs -> Steps]
         /\ state' \in [Runs -> RunState]
         /\ outcome' \in [Runs -> Reasons]
<1>1. "None" \in Phases
  BY DEF Phases
<1>2. [st EXCEPT !.seen = "None"] \in RunState
  BY <1>1 DEF RunState
<1> QED
  BY <1>2 DEF TypeOK, Proceed

LEMMA FinishingType ==
  ASSUME TypeOK, NEW r \in Runs, NEW reason \in Reasons, Finishing(r, reason)
  PROVE  /\ pc' \in [Runs -> Steps]
         /\ state' \in [Runs -> RunState]
         /\ outcome' \in [Runs -> Reasons]
<1>1. NewRunState \in RunState
  BY DEF NewRunState, RunState, Phases
<1>2. "finish" \in Steps
  BY DEF Steps
<1> QED
  BY <1>1, <1>2 DEF TypeOK, Finishing

(* ensureLobby is one of the two, on the run state it is given.            *)
LEMMA EnsureLobbyType ==
  ASSUME TypeOK, NEW r \in Runs, NEW st \in RunState, ensureLobby(r, st)
  PROVE  /\ pc' \in [Runs -> Steps]
         /\ state' \in [Runs -> RunState]
         /\ outcome' \in [Runs -> Reasons]
<1>1. "preflight-failed" \in Reasons /\ "top" \in Steps /\ "create" \in Steps
  BY DEF Reasons, Steps
<1> QED
  BY <1>1, ProceedType, FinishingType DEF ensureLobby

(* A poll moves its own goroutine from one polling step to another, or out *)
(* of the poll; the service's state it leaves alone.                       *)
LEMMA PollShape ==
  ASSUME NEW r \in Runs, PollStep(r)
  PROVE  /\ pc[r] \in Polling
         /\ \E step \in Polling \cup {"finish", "exit"} :
              pc' = [pc EXCEPT ![r] = step]
         /\ UNCHANGED pollFrame
<1> USE DEF Polling, Proceed, Finishing, pollFrame, ensureLobby
<1>1. CASE BeginStep(r)   BY <1>1 DEF BeginStep
<1>2. CASE ReadPhase(r)   BY <1>2 DEF ReadPhase
<1>3. CASE ActNone(r)     BY <1>3 DEF ActNone
<1>4. CASE CreateLobby(r) BY <1>4 DEF CreateLobby
<1>5. CASE ActLobby(r)    BY <1>5 DEF ActLobby
<1>6. CASE PrepareLobby(r) BY <1>6 DEF PrepareLobby
<1>7. CASE ApplyRoles(r)  BY <1>7 DEF ApplyRoles
<1>8. CASE SendStart(r)   BY <1>8 DEF SendStart
<1>9. CASE StartAnswer(r) BY <1>9 DEF StartAnswer
<1>10. CASE ActQueue(r)   BY <1>10 DEF ActQueue
<1>11. CASE ActGame(r)    BY <1>11 DEF ActGame
<1>12. CASE PlayAgain(r)  BY <1>12 DEF PlayAgain
<1>13. CASE ActError(r)   BY <1>13 DEF ActError
<1> QED
  BY <1>1, <1>2, <1>3, <1>4, <1>5, <1>6, <1>7, <1>8, <1>9, <1>10, <1>11, <1>12,
     <1>13 DEF PollStep

(* A poll touches no other run, and moves League to a lobby at most.       *)
LEMMA PollLocal ==
  ASSUME TypeOK, NEW r \in Runs, PollStep(r)
  PROVE  /\ \A q \in Runs \ {r} : /\ pc'[q] = pc[q]
                                 /\ state'[q] = state[q]
                                 /\ sinceGame'[q] = sinceGame[q]
         /\ phase' \in {phase, "Lobby"}
<1> USE DEF TypeOK, Proceed, Finishing, ensureLobby, leagueVars
<1>1. CASE BeginStep(r) BY <1>1 DEF BeginStep, LobbyOpens
<1>2. CASE ReadPhase(r) BY <1>2 DEF ReadPhase, LobbyOpens
<1>3. CASE ActNone(r) BY <1>3 DEF ActNone, LobbyOpens
<1>4. CASE CreateLobby(r) BY <1>4 DEF CreateLobby, LobbyOpens
<1>5. CASE ActLobby(r) BY <1>5 DEF ActLobby, LobbyOpens
<1>6. CASE PrepareLobby(r) BY <1>6 DEF PrepareLobby, LobbyOpens
<1>7. CASE ApplyRoles(r) BY <1>7 DEF ApplyRoles, LobbyOpens
<1>8. CASE SendStart(r) BY <1>8 DEF SendStart, LobbyOpens
<1>9. CASE StartAnswer(r) BY <1>9 DEF StartAnswer, LobbyOpens
<1>10. CASE ActQueue(r) BY <1>10 DEF ActQueue, LobbyOpens
<1>11. CASE ActGame(r) BY <1>11 DEF ActGame, LobbyOpens
<1>12. CASE PlayAgain(r) BY <1>12 DEF PlayAgain, LobbyOpens
<1>13. CASE ActError(r) BY <1>13 DEF ActError, LobbyOpens
<1> QED
  BY <1>1, <1>2, <1>3, <1>4, <1>5, <1>6, <1>7, <1>8, <1>9, <1>10, <1>11, <1>12,
     <1>13 DEF PollStep

(* The marks of a run may be set one by one.                               *)
LEMMA RunStateEdits ==
  /\ NewRunState \in RunState
  /\ \A st \in RunState :
       /\ \A p \in Phases : [st EXCEPT !.seen = p] \in RunState
       /\ [st EXCEPT !.lobbyCreated = TRUE] \in RunState
       /\ [st EXCEPT !.lobbyCreated = FALSE] \in RunState
       /\ [st EXCEPT !.rolesApplied = TRUE] \in RunState
       /\ [st EXCEPT !.submitted = TRUE] \in RunState
       /\ [st EXCEPT !.sawSearching = TRUE] \in RunState
       /\ [st EXCEPT !.hadGame = TRUE] \in RunState
       /\ [st EXCEPT !.playAgainSent = TRUE] \in RunState
<1>1. NewRunState \in RunState
  BY DEF RunState, NewRunState, Phases
<1>2. ASSUME NEW st \in RunState, NEW p \in Phases PROVE [st EXCEPT !.seen = p] \in RunState
  BY <1>2 DEF RunState
<1>3. ASSUME NEW st \in RunState
      PROVE  /\ [st EXCEPT !.lobbyCreated = TRUE] \in RunState
             /\ [st EXCEPT !.lobbyCreated = FALSE] \in RunState
             /\ [st EXCEPT !.rolesApplied = TRUE] \in RunState
  BY <1>3 DEF RunState
<1>4. ASSUME NEW st \in RunState
      PROVE  /\ [st EXCEPT !.submitted = TRUE] \in RunState
             /\ [st EXCEPT !.sawSearching = TRUE] \in RunState
  BY <1>4 DEF RunState
<1>5. ASSUME NEW st \in RunState
      PROVE  /\ [st EXCEPT !.hadGame = TRUE] \in RunState
             /\ [st EXCEPT !.playAgainSent = TRUE] \in RunState
  BY <1>5 DEF RunState
<1> QED
  BY <1>1, <1>2, <1>3, <1>4, <1>5

LEMMA ResetCycleType ==
  ASSUME TypeOK, NEW r \in Runs
  PROVE  resetCycle(r) \in RunState
<1>1. state[r] \in RunState
  BY DEF TypeOK
<1>2. [state[r] EXCEPT !.rolesApplied = FALSE, !.submitted = FALSE,
                       !.sawSearching = FALSE, !.hadGame = FALSE,
                       !.playAgainSent = FALSE] \in RunState
  BY <1>1 DEF RunState
<1> QED
  BY <1>1, <1>2 DEF resetCycle

LEMMA PollTypeOK ==
  ASSUME TypeOK, NEW r \in Runs, PollStep(r)
  PROVE  TypeOK'
<1> DEFINE GoType == /\ pc' \in [Runs -> Steps]
                     /\ state' \in [Runs -> RunState]
                     /\ outcome' \in [Runs -> Reasons]
<1>1. state[r] \in RunState /\ phase \in Phases /\ resetCycle(r) \in RunState
  BY ResetCycleType DEF TypeOK
<1>2. /\ [state[r] EXCEPT !.seen = phase] \in RunState
      /\ [state[r] EXCEPT !.lobbyCreated = TRUE] \in RunState
      /\ [state[r] EXCEPT !.lobbyCreated = FALSE] \in RunState
      /\ [state[r] EXCEPT !.rolesApplied = TRUE] \in RunState
      /\ [state[r] EXCEPT !.submitted = TRUE] \in RunState
      /\ [state[r] EXCEPT !.sawSearching = TRUE] \in RunState
      /\ [state[r] EXCEPT !.hadGame = TRUE] \in RunState
      /\ [state[r] EXCEPT !.playAgainSent = TRUE] \in RunState
      /\ [resetCycle(r) EXCEPT !.sawSearching = TRUE] \in RunState
      /\ NewRunState \in RunState
  BY <1>1, RunStateEdits
<1>3. Polling \cup {"finish", "exit"} \subseteq Steps
  BY DEF Polling, Steps
<1>4. GoType
  <2>1. /\ {"exit", "read", "act", "top", "lobby", "roles", "start",
            "startSent", "again"} \subseteq Steps
        /\ {"league-unavailable", "queue-flow-ended", "preflight-failed",
            "queue-cancelled", "matchmaking-unconfirmed",
            "matchmaking-blocked", "draft-blocked", "single-match-complete",
            "gameflow-error"} \subseteq Reasons
    BY DEF Steps, Reasons
  <2> USE <1>1, <1>2, <2>1, ProceedType, FinishingType, EnsureLobbyType
  <2> HIDE DEF GoType
  <2>2. CASE BeginStep(r) BY <2>2 DEF BeginStep, GoType
  <2>3. CASE ReadPhase(r) BY <2>3 DEF ReadPhase, GoType
  <2>4. CASE ActNone(r) BY <2>4 DEF ActNone, GoType
  <2>5. CASE CreateLobby(r) BY <2>5 DEF CreateLobby, GoType
  <2>6. CASE ActLobby(r) BY <2>6 DEF ActLobby, GoType
  <2>7. CASE PrepareLobby(r) BY <2>7 DEF PrepareLobby, GoType
  <2>8. CASE ApplyRoles(r) BY <2>8 DEF ApplyRoles, GoType
  <2>9. CASE SendStart(r) BY <2>9 DEF SendStart, GoType
  <2>10. CASE StartAnswer(r) BY <2>10 DEF StartAnswer, GoType
  <2>11. CASE ActQueue(r) BY <2>11 DEF ActQueue, GoType
  <2>12. CASE ActGame(r) BY <2>12 DEF ActGame, GoType
  <2>13. CASE PlayAgain(r) BY <2>13 DEF PlayAgain, GoType
  <2>14. CASE ActError(r) BY <2>14 DEF ActError, GoType
  <2> QED
    BY <2>2, <2>3, <2>4, <2>5, <2>6, <2>7, <2>8, <2>9, <2>10, <2>11, <2>12, <2>13, <2>14 DEF PollStep
<1>5. lobbyMatches' \in BOOLEAN /\ games' \in Nat
  <2> USE DEF TypeOK, leagueVars
  <2>1. CASE BeginStep(r) BY <2>1 DEF BeginStep, LobbyOpens
  <2>2. CASE ReadPhase(r) BY <2>2 DEF ReadPhase, LobbyOpens
  <2>3. CASE ActNone(r) BY <2>3 DEF ActNone, LobbyOpens
  <2>4. CASE CreateLobby(r) BY <2>4 DEF CreateLobby, LobbyOpens
  <2>5. CASE ActLobby(r) BY <2>5 DEF ActLobby, LobbyOpens
  <2>6. CASE PrepareLobby(r) BY <2>6 DEF PrepareLobby, LobbyOpens
  <2>7. CASE ApplyRoles(r) BY <2>7 DEF ApplyRoles, LobbyOpens
  <2>8. CASE SendStart(r) BY <2>8 DEF SendStart, LobbyOpens
  <2>9. CASE StartAnswer(r) BY <2>9 DEF StartAnswer, LobbyOpens
  <2>10. CASE ActQueue(r) BY <2>10 DEF ActQueue, LobbyOpens
  <2>11. CASE ActGame(r) BY <2>11 DEF ActGame, LobbyOpens
  <2>12. CASE PlayAgain(r)
    <3>1. lobbyMatches' \in {lobbyMatches} \cup BOOLEAN /\ games' = games
      BY <2>12 DEF PlayAgain
    <3> QED
      BY <3>1
  <2>13. CASE ActError(r) BY <2>13 DEF ActError, LobbyOpens
  <2> QED
    BY <2>1, <2>2, <2>3, <2>4, <2>5, <2>6, <2>7, <2>8, <2>9, <2>10, <2>11, <2>12, <2>13 DEF PollStep
<1>6. sinceGame' \in [Runs -> Nat]
  <2>1. CASE SendStart(r)
    <3>1. sinceGame \in [Runs -> Nat]
      BY DEF TypeOK
    <3>2. \/ UNCHANGED sinceGame
          \/ sinceGame' = [sinceGame EXCEPT ![r] = sinceGame[r] + 1]
      BY <2>1 DEF SendStart
    <3>3. sinceGame[r] + 1 \in Nat
      BY <3>1
    <3> QED
      BY <3>1, <3>2, <3>3
  <2>2. CASE ~SendStart(r)
    <3>1. UNCHANGED sinceGame
      BY <2>2 DEF PollStep, BeginStep, ReadPhase, ActNone, CreateLobby, ActLobby, PrepareLobby, ApplyRoles, StartAnswer, ActQueue, ActGame, PlayAgain, ActError
    <3> QED
      BY <3>1 DEF TypeOK
  <2> QED
    BY <2>1, <2>2
<1>7. phase' \in Phases
  BY <1>1, PollLocal DEF Phases
<1> QED
  BY <1>4, <1>5, <1>6, <1>7, PollShape
  DEF GoType, TypeOK, pollFrame, serviceVars, hookVars

(* A poll keeps Born and SingleDriver: it bears no goroutine and revives   *)
(* none.                                                                   *)
LEMMA PollDriver ==
  ASSUME IndInv, NEW r \in Runs, PollStep(r)
  PROVE  Born' /\ SingleDriver'
<1>1. pc[r] \in Polling /\ UNCHANGED <<status, cancelled>>
  BY PollShape DEF pollFrame, serviceVars
<1>2. PICK step \in Polling \cup {"finish", "exit"} :
        pc' = [pc EXCEPT ![r] = step]
  BY PollShape
<1>3. pc \in [Runs -> Steps]
  BY DEF IndInv, TypeOK
<1>4. Born'
  <2> SUFFICES ASSUME NEW q \in Runs
               PROVE  /\ pc'[q] = "unborn" <=> q > status'.run
                      /\ pc'[q] = "unborn" =>
                           sinceGame'[q] = 0 /\ ~state'[q].hadGame
    BY DEF Born
  <2>1. CASE q = r
    BY <2>1, <1>1, <1>2, <1>3 DEF Polling, IndInv, Born
  <2>2. CASE q # r
    <3>1. /\ pc'[q] = pc[q] /\ sinceGame'[q] = sinceGame[q]
          /\ state'[q] = state[q]
      BY <2>2, PollLocal DEF IndInv
    <3> QED
      BY <3>1, <1>1 DEF IndInv, Born
  <2> QED
    BY <2>1, <2>2
<1>5. SingleDriver'
  <2> SUFFICES ASSUME NEW q \in Runs, Driving(q)'
               PROVE  isCurrentRun(q)'
    BY DEF SingleDriver
  <2>1. Driving(q)
    BY <1>1, <1>2, <1>3 DEF Driving, Polling
  <2> QED
    BY <2>1, <1>1 DEF IndInv, SingleDriver, isCurrentRun
<1> QED
  BY <1>4, <1>5

(* What the two ways on leave of the run: its step and its run state.      *)
LEMMA ProceedAt ==
  ASSUME TypeOK, NEW r \in Runs, NEW step, NEW st \in RunState,
         Proceed(r, step, st)
  PROVE  /\ pc'[r] = step
         /\ state'[r].hadGame = st.hadGame
         /\ state'[r].submitted = st.submitted
         /\ state'[r].seen = IF step = "top" THEN "None" ELSE st.seen
<1>1. pc'[r] = step
  BY DEF TypeOK, Proceed
<1>2. state'[r] = IF step = "top" THEN [st EXCEPT !.seen = "None"] ELSE st
  BY DEF TypeOK, Proceed
<1> QED
  BY <1>1, <1>2 DEF RunState

LEMMA FinishingAt ==
  ASSUME TypeOK, NEW r \in Runs, NEW reason, Finishing(r, reason)
  PROVE  pc'[r] = "finish" /\ ~state'[r].hadGame
BY DEF TypeOK, Finishing, NewRunState

(* A run that gives up has no cycle left to keep.                          *)
LEMMA GaveUp ==
  ASSUME TypeOK, NEW r \in Runs, sinceGame'[r] <= 1,
         \/ \E reason \in Reasons : Finishing(r, reason)
         \/ Proceed(r, "exit", NewRunState)
  PROVE  RunCycle(mode[r], pc'[r], state'[r], sinceGame'[r], phase')
<1>1. NewRunState \in RunState /\ ~NewRunState.hadGame
  BY DEF NewRunState, RunState, Phases
<1>2. pc'[r] \in {"finish", "exit"} /\ ~state'[r].hadGame
  BY <1>1, FinishingAt, ProceedAt
<1> QED
  BY <1>2 DEF RunCycle, Starting


(* A poll keeps the cycle of its own run.                                  *)
LEMMA PollOwnCycle ==
  ASSUME IndInv, NEW r \in Runs, PollStep(r)
  PROVE  RunCycle(mode[r], pc'[r], state'[r], sinceGame'[r], phase')
<1> DEFINE Own == RunCycle(mode[r], pc'[r], state'[r], sinceGame'[r], phase')
           GivesUp == \/ \E reason \in Reasons : Finishing(r, reason)
                      \/ Proceed(r, "exit", NewRunState)
<1>1. /\ TypeOK
      /\ RunCycle(mode[r], pc[r], state[r], sinceGame[r], phase)
  BY DEF IndInv, Cycle
<1>2. /\ state[r] \in RunState /\ sinceGame[r] \in Nat /\ phase \in Phases
      /\ sinceGame \in [Runs -> Nat] /\ mode[r] \in {"single", "repeat"}
  BY <1>1 DEF TypeOK
<1>3. sinceGame[r] <= 1
  BY <1>1 DEF RunCycle
<1>4. {"league-unavailable", "queue-flow-ended", "preflight-failed",
       "queue-cancelled", "matchmaking-unconfirmed", "matchmaking-blocked",
       "draft-blocked", "single-match-complete", "gameflow-error"}
        \subseteq Reasons
  BY DEF Reasons
<1>5. ASSUME GivesUp, sinceGame'[r] = sinceGame[r]
      PROVE  Own
  BY <1>1, <1>3, <1>5, GaveUp
<1>6. ASSUME NEW step, NEW st \in RunState, Proceed(r, step, st),
             step \notin Starting, sinceGame'[r] = sinceGame[r],
             phase' \in {phase, "Lobby"},
             mode[r] = "single" => ~st.hadGame,
             sinceGame[r] = 1 => /\ st.submitted
                                 /\ ~st.hadGame
                                 /\ phase \notin GamePhases
                                 /\ st.seen \notin GamePhases
      PROVE  Own
  BY <1>1, <1>2, <1>3, <1>6, ProceedAt DEF RunCycle, Starting, GamePhases
<1>7. ASSUME NEW step \in {"lobby", "roles", "start"}, NEW st \in RunState,
             Proceed(r, step, st), sinceGame'[r] = sinceGame[r],
             sinceGame[r] # 1, st.seen = "Lobby", ~st.hadGame, ~st.submitted
      PROVE  Own
  BY <1>1, <1>2, <1>3, <1>7, ProceedAt DEF RunCycle, Starting
<1>8. SUFFICES Own
  BY DEF Own
<1> HIDE DEF Own, GivesUp
<1>11. CASE BeginStep(r)
  BY <1>11, <1>1, <1>2, <1>5, <1>6
     DEF BeginStep, GivesUp, RunCycle, Starting, leagueVars
<1>12. CASE ReadPhase(r)
  <2>1. [state[r] EXCEPT !.seen = phase] \in RunState
    BY <1>2 DEF RunState
  <2> QED
    BY <2>1, <1>12, <1>1, <1>2, <1>4, <1>5, <1>6
       DEF ReadPhase, GivesUp, RunCycle, Starting, RunState, leagueVars
<1>13. CASE ActNone(r)
  BY <1>13, <1>1, <1>2, <1>4, <1>5, <1>6
     DEF ActNone, ensureLobby, GivesUp, RunCycle, Starting, leagueVars,
         GamePhases
<1>14. CASE CreateLobby(r)
  <2>1. [state[r] EXCEPT !.lobbyCreated = TRUE] \in RunState
    BY <1>2 DEF RunState
  <2>2. sinceGame'[r] = sinceGame[r] /\ phase' \in {phase, "Lobby"}
    BY <1>14 DEF CreateLobby, LobbyOpens
  <2>3. CASE Finishing(r, "preflight-failed")
    BY <2>2, <2>3, <1>4, <1>5 DEF GivesUp
  <2>4. CASE Proceed(r, "top", [state[r] EXCEPT !.lobbyCreated = TRUE])
    BY <2>1, <2>2, <2>4, <1>14, <1>1, <1>2, <1>6
       DEF CreateLobby, RunCycle, Starting, RunState
  <2> QED
    BY <2>3, <2>4, <1>14 DEF CreateLobby
<1>15. CASE ActLobby(r)
  <2> DEFINE st == resetCycle(r)
  <2>1. st \in RunState /\ st.seen = state[r].seen
    <3>1. st \in RunState
      BY <1>1, ResetCycleType
    <3>2. st.seen = state[r].seen
      BY <1>2 DEF resetCycle, RunState
    <3> QED
      BY <3>1, <3>2
  <2>2. [st EXCEPT !.sawSearching = TRUE] \in RunState
    BY <2>1 DEF RunState
  <2>3. /\ ~st.hadGame
        /\ sinceGame[r] = 1 => st.submitted /\ phase \notin GamePhases
    BY <1>1, <1>2, <1>15
       DEF resetCycle, RunState, RunCycle, Starting, ActLobby
  <2>4. state[r].seen = "Lobby" /\ sinceGame'[r] = sinceGame[r] /\ phase' = phase
    BY <1>15 DEF ActLobby, leagueVars
  <2> HIDE DEF st
  <2> QED
    BY <2>1, <2>2, <2>3, <2>4, <1>15, <1>1, <1>2, <1>4, <1>5, <1>6, <1>7
       DEF ActLobby, GivesUp, Starting, RunState, GamePhases, st
<1>16. CASE PrepareLobby(r)
  <2>1. [state[r] EXCEPT !.lobbyCreated = FALSE] \in RunState
    BY <1>2 DEF RunState
  <2> QED
    BY <2>1, <1>16, <1>1, <1>2, <1>4, <1>5, <1>6, <1>7
       DEF PrepareLobby, ensureLobby, GivesUp, RunCycle, Starting, RunState,
           leagueVars
<1>17. CASE ApplyRoles(r)
  <2>1. [state[r] EXCEPT !.rolesApplied = TRUE] \in RunState
    BY <1>2 DEF RunState
  <2> QED
    BY <2>1, <1>17, <1>1, <1>2, <1>4, <1>5, <1>7
       DEF ApplyRoles, GivesUp, RunCycle, Starting, RunState, leagueVars
<1>18. CASE SendStart(r)
  <2>1. sinceGame[r] = 0 /\ sinceGame'[r] <= 1
    BY <1>18, <1>1, <1>2 DEF SendStart, RunCycle, Starting
  <2>2. CASE \E reason \in Reasons : Finishing(r, reason)
    BY <2>1, <2>2, <1>1, GaveUp DEF Own
  <2>3. CASE phase = "Lobby" /\ Proceed(r, "startSent", state[r])
    BY <2>1, <2>3, <1>18, <1>1, <1>2, ProceedAt
       DEF SendStart, Own, RunCycle, Starting, GamePhases, leagueVars
  <2> QED
    BY <2>2, <2>3, <1>4, <1>18 DEF SendStart
<1>19. CASE StartAnswer(r)
  <2>1. [state[r] EXCEPT !.submitted = TRUE] \in RunState
    BY <1>2 DEF RunState
  <2> QED
    BY <2>1, <1>19, <1>1, <1>2, <1>4, <1>5, <1>6
       DEF StartAnswer, GivesUp, RunCycle, Starting, RunState, leagueVars
<1>20. CASE ActQueue(r)
  <2>1. [state[r] EXCEPT !.sawSearching = TRUE] \in RunState
    BY <1>2 DEF RunState
  <2> QED
    BY <2>1, <1>20, <1>1, <1>2, <1>4, <1>5, <1>6
       DEF ActQueue, GivesUp, RunCycle, Starting, RunState, leagueVars
<1>21. CASE ActGame(r)
  <2>1. [state[r] EXCEPT !.hadGame = TRUE] \in RunState
    BY <1>2 DEF RunState
  <2> QED
    BY <2>1, <1>21, <1>1, <1>2, <1>4, <1>5, <1>6
       DEF ActGame, GivesUp, RunCycle, Starting, RunState, leagueVars
<1>22. CASE PlayAgain(r)
  <2>1. [state[r] EXCEPT !.playAgainSent = TRUE] \in RunState
    BY <1>2 DEF RunState
  <2> QED
    BY <2>1, <1>22, <1>1, <1>2, <1>6
       DEF PlayAgain, RunCycle, Starting, RunState
<1>23. CASE ActError(r)
  BY <1>23, <1>4, <1>5 DEF ActError, GivesUp
<1> QED
  BY <1>11, <1>12, <1>13, <1>14, <1>15, <1>16, <1>17, <1>18, <1>19, <1>20,
     <1>21, <1>22, <1>23 DEF PollStep

LEMMA PollInv ==
  ASSUME IndInv, NEW r \in Runs, PollStep(r)
  PROVE  IndInv'
<1>1. TypeOK'
  BY PollTypeOK DEF IndInv
<1>2. Born' /\ SingleDriver'
  BY PollDriver
<1>3. Cycle'
  <2> SUFFICES ASSUME NEW q \in Runs
               PROVE  RunCycle(mode'[q], pc'[q], state'[q], sinceGame'[q], phase')
    BY DEF Cycle
  <2>1. UNCHANGED mode
    BY PollShape DEF pollFrame, serviceVars
  <2>2. CASE q = r
    BY <2>1, <2>2, PollOwnCycle
  <2>3. CASE q # r
    BY <2>1, <2>3, PollLocal DEF IndInv, Cycle, RunCycle, GamePhases
  <2> QED
    BY <2>2, <2>3
<1> QED
  BY <1>1, <1>2, <1>3 DEF IndInv

-----------------------------------------------------------------------------
(* The service's steps and League's.                                       *)

LEMMA StartInv ==
  ASSUME IndInv, NEW r \in Runs, NEW m \in CycleModes, Start(r, m)
  PROVE  IndInv'
<1>1. TypeOK /\ Born /\ SingleDriver /\ Cycle
  BY DEF IndInv
<1>2. r > status.run /\ pc[r] = "unborn" /\ sinceGame[r] = 0
  BY <1>1 DEF Start, Born, TypeOK
<1>3. m \in Modes /\ "none" \in Reasons /\ "spawn" \in Steps
  BY PreferencesAssumption DEF PreferencesAssumption, Reasons, Steps
<1>4. TypeOK'
  <2>1. status' \in [active : BOOLEAN, run : 0 .. MaxRuns, reason : Reasons]
    BY <1>3 DEF Start
  <2>2. mode' \in [Runs -> Modes] /\ pc' \in [Runs -> Steps]
    BY <1>1, <1>3 DEF Start, TypeOK
  <2> QED
    BY <1>1, <2>1, <2>2 DEF TypeOK, Start, hookVars, leagueVars
<1>5. Born'
  BY <1>1, <1>2 DEF Born, Start, TypeOK
<1>6. SingleDriver'
  BY <1>1, <1>2 DEF SingleDriver, Driving, isCurrentRun, Start, TypeOK
<1>7. Cycle'
  <2> SUFFICES ASSUME NEW q \in Runs
               PROVE  RunCycle(mode'[q], pc'[q], state'[q], sinceGame'[q], phase')
    BY DEF Cycle
  <2>1. CASE q = r
    BY <2>1, <1>1, <1>2 DEF Born, Start, TypeOK, RunCycle, Starting, leagueVars
  <2>2. CASE q # r
    BY <2>2, <1>1 DEF Cycle, Start, TypeOK, leagueVars
  <2> QED
    BY <2>1, <2>2
<1> QED
  BY <1>4, <1>5, <1>6, <1>7 DEF IndInv

(* A hook call, or the end of a run, moves one goroutine outside its polls.*)
LEMMA HookInv ==
  ASSUME IndInv, StopHook \/ \E r \in Runs : StartHook(r) \/ FinishHook(r)
  PROVE  IndInv'
<1>1. TypeOK /\ Born /\ SingleDriver /\ Cycle
  BY DEF IndInv
<1>2. CASE StopHook
  <2>1. /\ UNCHANGED <<serviceVars, goVars, leagueVars, sinceGame>>
        /\ stopHooks' \in 0 .. 1 /\ runtimeActive' = FALSE
    BY <1>1, <1>2 DEF StopHook, TypeOK
  <2>2. TypeOK'
    BY <1>1, <2>1 DEF TypeOK, serviceVars, goVars, leagueVars
  <2>3. Born' /\ SingleDriver' /\ Cycle'
    BY <1>1, <2>1 DEF Born, SingleDriver, Driving, isCurrentRun, Cycle,
                      serviceVars, goVars, leagueVars
  <2> QED
    BY <2>2, <2>3 DEF IndInv
<1>3. ASSUME NEW r \in Runs, StartHook(r) \/ FinishHook(r)
      PROVE  IndInv'
  <2>1. PICK step \in {"top", "exit"} :
          /\ pc' = [pc EXCEPT ![r] = step]
          /\ step = "top" => pc[r] = "spawn"
    BY <1>3 DEF StartHook, FinishHook
  <2>2. /\ pc[r] \in {"spawn", "hook"} /\ runtimeActive' \in BOOLEAN
        /\ UNCHANGED <<serviceVars, state, outcome, stopHooks, leagueVars,
                       sinceGame>>
    BY <1>3 DEF StartHook, FinishHook
  <2>3. pc \in [Runs -> Steps] /\ step \in Steps
    BY <1>1 DEF TypeOK, Steps
  <2>4. TypeOK'
    BY <1>1, <2>1, <2>2, <2>3 DEF TypeOK, serviceVars, leagueVars
  <2>5. Born'
    BY <1>1, <2>1, <2>2, <2>3 DEF Born, serviceVars
  <2>6. SingleDriver'
    BY <1>1, <2>1, <2>2, <2>3 DEF SingleDriver, Driving, isCurrentRun,
                                  serviceVars
  <2>7. Cycle'
    BY <1>1, <2>1, <2>2, <2>3 DEF Cycle, RunCycle, Starting, serviceVars,
                                  leagueVars
  <2> QED
    BY <2>4, <2>5, <2>6, <2>7 DEF IndInv
<1> QED
  BY <1>2, <1>3

LEMMA StopInv ==
  ASSUME IndInv, Stop
  PROVE  IndInv'
<1>1. TypeOK /\ Born /\ SingleDriver /\ Cycle
  BY DEF IndInv
<1>2. /\ UNCHANGED <<mode, goVars, runtimeActive, leagueVars, sinceGame>>
      /\ stopHooks' = 1
  BY DEF Stop
<1>3. /\ cancelled' \in [Runs -> BOOLEAN]
      /\ status' \in [active : BOOLEAN, run : 0 .. MaxRuns, reason : Reasons]
      /\ status'.run = status.run
  <2>1. "stopped-by-user" \in Reasons
    BY DEF Reasons
  <2>2. CASE status.active
    <3>1. /\ cancelled \in [Runs -> BOOLEAN] /\ status.run \in 0 .. MaxRuns
          /\ status \in [active : BOOLEAN, run : 0 .. MaxRuns, reason : Reasons]
      BY <1>1 DEF TypeOK
    <3>2. /\ cancelled' = [cancelled EXCEPT ![status.run] = TRUE]
          /\ status' = [status EXCEPT !.active = FALSE, !.reason = "stopped-by-user"]
      BY <2>2 DEF Stop
    <3>3. cancelled' \in [Runs -> BOOLEAN]
      BY <3>1, <3>2
    <3>4. /\ status' \in [active : BOOLEAN, run : 0 .. MaxRuns, reason : Reasons]
          /\ status'.run = status.run
      BY <2>1, <3>1, <3>2
    <3> QED
      BY <3>3, <3>4
  <2>3. CASE ~status.active
    BY <1>1, <2>3 DEF Stop, TypeOK
  <2> QED
    BY <2>2, <2>3
<1>4. TypeOK'
  BY <1>1, <1>2, <1>3 DEF TypeOK, goVars, leagueVars
<1>5. Born' /\ Cycle'
  BY <1>1, <1>2, <1>3 DEF Born, Cycle, goVars, leagueVars
<1>6. SingleDriver'
  <2> SUFFICES ASSUME NEW q \in Runs, Driving(q)'
               PROVE  FALSE
    BY DEF SingleDriver
  <2>1. pc'[q] = pc[q]
    BY <1>2 DEF goVars
  <2>2. CASE status.active
    <3>1. Driving(q)
      BY <2>1, <2>2, <1>1 DEF Stop, Driving, TypeOK
    <3>2. q = status.run
      BY <3>1, <1>1 DEF SingleDriver, isCurrentRun
    <3> QED
      BY <3>2, <2>2, <1>1 DEF Stop, Driving, TypeOK
  <2>3. CASE ~status.active
    BY <2>1, <2>3, <1>1 DEF Stop, Driving, SingleDriver, isCurrentRun
  <2> QED
    BY <2>2, <2>3
<1> QED
  BY <1>4, <1>5, <1>6 DEF IndInv

LEMMA FinishInv ==
  ASSUME IndInv, NEW r \in Runs, finish(r)
  PROVE  IndInv'
<1>1. TypeOK /\ Born /\ SingleDriver /\ Cycle
  BY DEF IndInv
<1>2. PICK step \in {"exit", "hook"} : pc' = [pc EXCEPT ![r] = step]
  BY DEF finish
<1>3. /\ pc[r] = "finish" /\ outcome' = [outcome EXCEPT ![r] = "none"]
      /\ UNCHANGED <<cancelled, mode, state, hookVars, leagueVars, sinceGame>>
  BY DEF finish
<1>4. /\ pc \in [Runs -> Steps] /\ step \in Steps /\ "none" \in Reasons
      /\ outcome[r] \in Reasons
  BY <1>1 DEF TypeOK, Steps, Reasons
<1>5. /\ status' \in [active : BOOLEAN, run : 0 .. MaxRuns, reason : Reasons]
      /\ status'.run = status.run
      /\ status' = status \/ status.run = r
  <2>1. r \in 0 .. MaxRuns
        /\ status \in [active : BOOLEAN, run : 0 .. MaxRuns, reason : Reasons]
    BY <1>1 DEF TypeOK
  <2>2. CASE UNCHANGED status
    BY <2>1, <2>2
  <2>3. CASE /\ status.run = r
             /\ status' = [active |-> FALSE, run |-> r, reason |-> outcome[r]]
    BY <2>1, <2>3, <1>4
  <2> QED
    BY <2>2, <2>3 DEF finish
<1>6. TypeOK'
  BY <1>1, <1>2, <1>3, <1>4, <1>5 DEF TypeOK, hookVars, leagueVars
<1>7. Born' /\ Cycle'
  BY <1>1, <1>2, <1>3, <1>4, <1>5
     DEF Born, Cycle, RunCycle, Starting, leagueVars
<1>8. SingleDriver'
  BY <1>1, <1>2, <1>3, <1>4, <1>5 DEF SingleDriver, Driving, isCurrentRun
<1> QED
  BY <1>6, <1>7, <1>8 DEF IndInv

LEMMA LeagueInv ==
  ASSUME IndInv, LeagueMoves
  PROVE  IndInv'
<1>1. TypeOK /\ Born /\ SingleDriver /\ Cycle
  BY DEF IndInv
<1>2. PICK next \in Successors[phase] :
        /\ phase' = next
        /\ games' = IF GameBegins(phase, next) THEN games + 1 ELSE games
        /\ sinceGame' = IF GameBegins(phase, next) THEN [r \in Runs |-> 0]
                        ELSE sinceGame
        /\ lobbyMatches' \in BOOLEAN
        /\ UNCHANGED <<serviceVars, goVars, hookVars>>
  <2>1. {FALSE} \subseteq BOOLEAN
    OBVIOUS
  <2> QED
    BY <2>1, Zenon DEF LeagueMoves
<1>3. next \in Phases
  <2>1. phase \in Phases
    BY <1>1 DEF TypeOK
  <2> QED
    BY <2>1, <1>2 DEF Successors, Phases, Queueing, GamePhases
<1>4. TypeOK'
  <2>1. games' \in Nat /\ sinceGame' \in [Runs -> Nat]
    BY <1>1, <1>2 DEF TypeOK
  <2> QED
    BY <1>1, <1>2, <1>3, <2>1 DEF TypeOK, serviceVars, goVars, hookVars
<1>5. Born' /\ SingleDriver'
  BY <1>1, <1>2 DEF Born, SingleDriver, Driving, isCurrentRun, serviceVars,
                    goVars
<1>6. Cycle'
  BY <1>1, <1>2, <1>3 DEF Cycle, RunCycle, GameBegins, serviceVars, goVars
<1> QED
  BY <1>4, <1>5, <1>6 DEF IndInv

LEMMA StutterInv == IndInv /\ UNCHANGED vars => IndInv'
  BY DEF IndInv, TypeOK, Born, SingleDriver, Driving, isCurrentRun, Cycle, vars,
         serviceVars, goVars, hookVars, leagueVars

LEMMA NextIndInv == IndInv /\ [Next]_vars => IndInv'
<1> SUFFICES ASSUME IndInv, [Next]_vars PROVE IndInv'
  OBVIOUS
<1>1. ASSUME NEW r \in Runs, RunStep(r) PROVE IndInv'
  <2>1. CASE PollStep(r)
    BY <2>1, PollInv
  <2>2. CASE finish(r)
    BY <2>2, FinishInv
  <2>3. CASE FinishHook(r)
    BY <2>3, HookInv
  <2> QED
    BY <2>1, <2>2, <2>3, <1>1 DEF RunStep, PollStep
<1> QED
  BY <1>1, StartInv, HookInv, StopInv, LeagueInv, StutterInv DEF Next

-----------------------------------------------------------------------------
(* The theorems.                                                           *)

(* Type correctness of the Full Auto service, for any number of runs.      *)
THEOREM TypeCorrect == Spec => []TypeOK
<1>1. IndInv => TypeOK
  BY DEF IndInv
<1> QED
  BY <1>1, InitIndInv, NextIndInv, PTL DEF Spec

(* Only the active run can drive League, whatever the order of Start, Stop,*)
(* finish and requests in flight.                                          *)
THEOREM OnlyOneDriver == Spec => []SingleDriver
<1>1. IndInv => SingleDriver
  BY DEF IndInv
<1> QED
  BY <1>1, InitIndInv, NextIndInv, PTL DEF Spec

(* No run submits a second start between two games.                        *)
THEOREM NeverSubmitsTwice == Spec => []OneStartPerGame
<1>1. IndInv => OneStartPerGame
  BY DEF IndInv, Cycle, RunCycle, OneStartPerGame
<1> QED
  BY <1>1, InitIndInv, NextIndInv, PTL DEF Spec

(* A start request only ever leaves for the run that is active.            *)
THEOREM StartsAreCurrent == Spec => SendsOnlyWhileCurrent
<1>1. IndInv /\ [Next]_vars =>
        [\A r \in Runs : sinceGame'[r] > sinceGame[r] => isCurrentRun(r)]_vars
  <2> SUFFICES ASSUME IndInv, Next, NEW q \in Runs,
                      sinceGame'[q] > sinceGame[q]
               PROVE  isCurrentRun(q)
    OBVIOUS
  <2>1. TypeOK /\ SingleDriver /\ sinceGame \in [Runs -> Nat]
    BY DEF IndInv, TypeOK
  <2>2. PICK r \in Runs : PollStep(r)
    <3>1. CASE LeagueMoves
      BY <3>1, <2>1 DEF LeagueMoves
    <3>2. CASE UNCHANGED sinceGame
      BY <3>2, <2>1
    <3> QED
      BY <3>1, <3>2 DEF Next, RunStep, PollStep, Start, StartHook, Stop, StopHook,
                        finish, FinishHook
  <2>3. q = r /\ SendStart(r)
    <3>1. q = r
      BY <2>1, <2>2, PollLocal
    <3>2. CASE UNCHANGED sinceGame
      BY <3>2, <2>1
    <3> QED
      BY <3>1, <3>2, <2>2
         DEF PollStep, BeginStep, ReadPhase, ActNone, CreateLobby, ActLobby,
             PrepareLobby, ApplyRoles, StartAnswer, ActQueue, ActGame,
             PlayAgain, ActError
  <2>4. ~cancelled[q] /\ pc[q] = "start"
    BY <2>1, <2>3 DEF SendStart
  <2> QED
    BY <2>1, <2>4 DEF SingleDriver, Driving
<1> QED
  BY <1>1, InitIndInv, NextIndInv, PTL DEF Spec, SendsOnlyWhileCurrent

=============================================================================
