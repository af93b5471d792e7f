--------------------------- MODULE ClientControlRoom --------------------------
(***************************************************************************)
(* frontend/src/components/ClientControlRoom.tsx: League's phase on the    *)
(* dashboard, the one action it calls for, the roles to queue with, and    *)
(* the activity list.  The roles on show come from League's state, from    *)
(* the presets that RiftOps keeps and from the player, one over the other. *)
(***************************************************************************)
EXTENDS Naturals, Sequences

CONSTANTS Roles, Queues, EventLimit, MaxMoves

VARIABLES
  page,        \* the tab App.tsx renders
  league,      \* League: [phase, roles], roles "" without a lobby's
  moves,       \* how often it has changed by itself
  state,       \* the state on show; phase "" without League
  queue, roles, rolesDirty,
  saved,       \* RiftOps: the presets, "" where there is none
  presets,     \* [at, of]
  presetRead,  \* the effect's request: No, Asked or its answer
  call,        \* busy: [op, at, queue, roles, lobby] or No
  events,      \* the titles of the activity list
  edited,      \* history: what the player chose last
  roomCrossed  \* history: the presets came over an edit, or a profile was half done

choiceVars == <<queue, roles, rolesDirty, edited>>
presetVars == <<saved, presets, presetRead>>
leagueVars == <<league, moves>>
vars == <<page, leagueVars, state, choiceVars, presetVars, call, events, roomCrossed>>

No == [at |-> "no"]
Asked == [at |-> "asked"]
Shown == page = "control-room"
Phases == {"Lobby", "Matchmaking", "ReadyCheck", "EndOfGame"}
connected == state.phase # ""

Init ==
  /\ league \in [phase : {"Lobby"}, roles : Roles] /\ moves = 0
  /\ state = [phase |-> "", roles |-> ""]
  /\ queue \in Queues /\ roles \in Roles /\ rolesDirty = FALSE /\ edited = roles
  /\ saved \in [Queues -> Roles \cup {""}] /\ presets = No /\ presetRead = Asked
  /\ call = No /\ events = <<>> /\ roomCrossed = FALSE

-----------------------------------------------------------------------------
(* The activity list.                                                      *)

recordEvent(list, title) == SubSeq(<<title>> \o list, 1, IF Len(list) < EventLimit THEN Len(list) + 1 ELSE EventLimit)

(* The effect of the phase and of the queue's state.                       *)
PhaseEvent(list, phase) ==
  IF phase = "" \/ (list # <<>> /\ Head(list) = phase) THEN list ELSE recordEvent(list, phase)

-----------------------------------------------------------------------------
(* League's state.                                                         *)

LeagueMoves ==
  /\ Shown /\ moves < MaxMoves /\ moves' = moves + 1
  /\ league' \in [phase : Phases \cup {""}, roles : Roles \cup {""}] \ {league}
  /\ (league'.roles = "") = (league'.phase = "")
  /\ UNCHANGED <<page, state, choiceVars, presetVars, call, events, roomCrossed>>

(* The effect runs when League's roles change and when an edit is over.    *)
RolesEffect(given, next, dirty) ==
  roles' = IF ~dirty /\ next.roles # "" /\ (rolesDirty \/ next.roles # state.roles) THEN next.roles ELSE given

(* LCUProvider's poll; its queue state may have changed beside the phase.  *)
StateShown ==
  /\ Shown /\ state' = league
  /\ RolesEffect(roles, league, rolesDirty)
  /\ events' \in {PhaseEvent(events, league.phase)} \cup (IF league.phase = state.phase THEN {events} ELSE {})
  /\ UNCHANGED <<page, leagueVars, queue, rolesDirty, edited, presetVars, call, roomCrossed>>

-----------------------------------------------------------------------------
(* The roles to queue with.                                                *)

PresetsRead ==
  /\ Shown /\ presetRead = Asked /\ presetRead' = [at |-> "read", of |-> saved]
  /\ UNCHANGED <<page, leagueVars, state, choiceVars, saved, presets, call, events, roomCrossed>>

(* The roles of a preset are shown, over an edit, too; without an answer   *)
(* there are no presets.                                                   *)
PresetsShown ==
  /\ Shown /\ presetRead # No /\ presetRead' = No
  /\ \/ presetRead.at = "read" /\ presets' = [at |-> "shown", of |-> presetRead.of]
     \/ presets' = [at |-> "shown", of |-> [q \in Queues |-> ""]]
  /\ roles' \in IF \E q \in Queues : presets'.of[q] # "" THEN {presets'.of[q] : q \in Queues} \ {""} ELSE {roles}
  /\ roomCrossed' = (roomCrossed \/ rolesDirty \/ presetRead = Asked \/ call # No \/ presets'.of # saved)
  /\ UNCHANGED <<page, leagueVars, state, queue, rolesDirty, edited, saved, call, events>>

(* Another queue ends an edit, and League's roles replace the preset's.    *)
ChooseQueue(q) ==
  LET preset == IF presets # No /\ presets.of[q] # "" THEN presets.of[q] ELSE roles IN
  /\ Shown /\ q # queue /\ queue' = q /\ rolesDirty' = FALSE /\ RolesEffect(preset, state, FALSE)
  /\ UNCHANGED <<page, leagueVars, state, edited, presetVars, call, events, roomCrossed>>

EditRoles(r) ==
  /\ Shown /\ r # roles /\ roles' = r /\ edited' = r /\ rolesDirty' = TRUE
  /\ UNCHANGED <<page, leagueVars, state, queue, presetVars, call, events, roomCrossed>>

-----------------------------------------------------------------------------
(* The requests, one at a time.                                            *)

Free == Shown /\ call = No
Sends(op, at) ==
  /\ call' = [op |-> op, at |-> at, queue |-> queue, roles |-> roles, lobby |-> state.phase = "Lobby"]
  /\ UNCHANGED <<page, leagueVars, state, choiceVars, presetVars, events, roomCrossed>>

applyQueueProfile == Free /\ connected /\ Sends("profile", "save")

(* The action that the phase on show calls for.                            *)
primaryAction ==
  CASE state.phase = "Lobby" -> "start" [] state.phase = "Matchmaking" -> "stop"
    [] state.phase = "ReadyCheck" -> "accept" [] state.phase = "EndOfGame" -> "again" [] OTHER -> "refresh"

runPrimary ==
  /\ Free
  /\ Sends(primaryAction, IF primaryAction = "start" /\ rolesDirty /\ queue # "aram" THEN "roles" ELSE "send")
claimRewards == Free /\ state.phase = "EndOfGame" /\ Sends("rewards", "send")

(* What League does of a request, if it does anything.                     *)
Done(op) ==
  CASE op = "start" /\ league.phase = "Lobby" -> "Matchmaking"
    [] op = "stop" /\ league.phase = "Matchmaking" -> "Lobby"
    [] op = "again" /\ league.phase = "EndOfGame" -> "Lobby"
    [] OTHER -> league.phase

(* saveQueuePreset; in a lobby the roles are set next.                     *)
PresetSaved ==
  /\ Shown /\ call.at = "save" /\ saved' = [saved EXCEPT ![call.queue] = call.roles]
  /\ call' = [call EXCEPT !.at = IF call.lobby THEN "roles" ELSE "done"]
  /\ UNCHANGED <<page, leagueVars, state, choiceVars, presets, presetRead, events, roomCrossed>>

(* lcuAutoRoles.                                                           *)
RolesSet ==
  /\ Shown /\ call.at = "roles" /\ league.phase = "Lobby" /\ league' = [league EXCEPT !.roles = call.roles]
  /\ call' = [call EXCEPT !.at = IF call.op = "start" THEN "send" ELSE "done"]
  /\ IF call.op = "start" THEN rolesDirty' = FALSE /\ RolesEffect(roles, state, FALSE)
     ELSE UNCHANGED <<rolesDirty, roles>>
  /\ UNCHANGED <<page, moves, state, queue, edited, presetVars, events, roomCrossed>>

(* The roles are an optional preflight of the start.                       *)
RolesSkipped ==
  /\ Shown /\ call.at = "roles" /\ call.op = "start" /\ call' = [call EXCEPT !.at = "send"]
  /\ events' = recordEvent(events, "skipped")
  /\ UNCHANGED <<page, leagueVars, state, choiceVars, presetVars, roomCrossed>>

(* Then the page asks for the state once more, which is a poll.            *)
RunEnds ==
  /\ Shown /\ call.at = "send" /\ league' = [league EXCEPT !.phase = Done(call.op)] /\ call' = No
  /\ events' = recordEvent(events, "done")
  /\ UNCHANGED <<page, moves, state, choiceVars, presetVars, roomCrossed>>

(* What was edited since the click is no longer held for an edit, either.  *)
ProfileApplied ==
  /\ Shown /\ call.at = "done" /\ call' = No
  /\ presets' = IF presets = No THEN No ELSE [presets EXCEPT !.of[call.queue] = call.roles]
  /\ rolesDirty' = FALSE /\ RolesEffect(roles, state, FALSE)
  /\ events' = recordEvent(events, "done")
  /\ UNCHANGED <<page, leagueVars, state, queue, edited, saved, presetRead, roomCrossed>>

(* Refused at any step, with what was done before left done.               *)
CallFails ==
  /\ Shown /\ call # No /\ (call.at = "roles" => call.op = "profile") /\ call' = No
  /\ events' = recordEvent(events, "failed")
  /\ roomCrossed' = (roomCrossed \/ (call.op = "profile" /\ call.at # "save"))
  /\ UNCHANGED <<page, leagueVars, state, choiceVars, presetVars>>

Next ==
  \/ LeagueMoves \/ StateShown \/ PresetsRead \/ PresetsShown
  \/ \E q \in Queues : ChooseQueue(q)
  \/ \E r \in Roles : EditRoles(r)
  \/ applyQueueProfile \/ runPrimary \/ claimRewards
  \/ PresetSaved \/ RolesSet \/ RolesSkipped \/ RunEnds \/ ProfileApplied \/ CallFails

Spec == Init /\ page = "control-room" /\ [][Next]_vars

-----------------------------------------------------------------------------
(* Properties.                                                             *)

(* What the player chose stays on show through every poll, until a queue   *)
(* is chosen or a request took it; unless the presets came only then.      *)
EditStays == rolesDirty /\ ~roomCrossed => roles = edited

(* The presets on show are those RiftOps keeps, once no request is under   *)
(* way, unless a profile was saved and could not be applied.               *)
PresetsAreSaved == presets # No /\ call = No /\ ~roomCrossed => presets.of = saved

(* Whatever changes beside it, a phase is not listed twice in a row.       *)
PhaseListedOnce ==
  \A i \in 1 .. Len(events) - 1 : events[i] \in Phases => events[i + 1] # events[i]
=============================================================================
