------------------------- MODULE ChampSelectWorkspace -------------------------
(***************************************************************************)
(* frontend/src/components/ChampSelectWorkspace.tsx with champSelectFlow.ts*)
(* and arenaBravery.ts: the draft as the page shows it, and the picks, bans*)
(* and locks it sends.  The session is polled, and read once more after    *)
(* every request; nothing orders the answers, so the page may go back to   *)
(* any earlier view: a view is an input and not state.  Champions are told *)
(* apart from Bravery only, and a request that is no pick, ban or lock is  *)
(* "tool".                                                                 *)
(***************************************************************************)
EXTENDS Naturals, FiniteSets

CONSTANT Games   \* bound: drafts, one after the other

VARIABLES
  page,             \* the tab App.tsx renders
  draft,            \* League's champion select session
  session,          \* the view on show, or NoSession
  selectedChampion,
  requests,         \* requests sent and not answered
  busy,             \* the kind of request that disables the buttons, or ""
  braverySelected, braverySessionKey,
  braved            \* history: the drafts in which Bravery was chosen

vars == <<page, draft, session, selectedChampion, requests, busy,
          braverySelected, braverySessionKey, braved>>
flags == <<braverySelected, braverySessionKey>>

ARENA_BRAVERY_CHAMPION_ID == "bravery"
NoChampion == "none"
Champion == "champion"
NoSession == [game |-> 0]

(* The actions in the order of their turns; `over` says how many are over. *)
Actions == <<"ban", "other", "pick">>
Local == {1, 3}

Shown == page = "champ-select"
Turn(s) == s.over + 1

(* A phase comes in more than one spelling, or not at all.                 *)
normalizeChampSelectPhase(phase) == IF phase = "BANPICK" THEN "BAN_PICK" ELSE phase

normalizeChampSelectSession(raw) == [raw EXCEPT !.phase = normalizeChampSelectPhase(raw.phase)]

(* The action of the local player that is live now, or 0.                  *)
liveLocalChampSelectAction(s) ==
  IF s.phase \in {"", "BAN_PICK"} /\ Turn(s) \in Local THEN Turn(s) ELSE 0

(* While planning the first pick may be declared.                          *)
firstLocalPendingPick(s) == IF s.phase = "PLANNING" /\ s.over < 3 THEN 3 ELSE 0

(* The first that exists of these two and of any local action not over.    *)
pending(s) ==
  IF liveLocalChampSelectAction(s) # 0 THEN liveLocalChampSelectAction(s)
  ELSE IF firstLocalPendingPick(s) # 0 THEN 3
  ELSE IF s.over = 0 THEN 1
  ELSE IF s.over < 3 THEN 3 ELSE 0

isLocalTurn == session # NoSession /\ liveLocalChampSelectAction(session) # 0
canChooseChampion == isLocalTurn \/ (session # NoSession /\ firstLocalPendingPick(session) # 0)
canControlAction == canChooseChampion /\ isLocalTurn
braveryAvailable == canChooseChampion /\ Actions[pending(session)] = "pick"

NewDraft(n) == [game |-> n, phase |-> "PLANNING", over |-> 0, intent |-> NoChampion]

Init ==
  /\ draft = NewDraft(1)
  /\ session = NoSession /\ selectedChampion = NoChampion
  /\ requests = {} /\ busy = ""
  /\ braverySelected = FALSE /\ braverySessionKey = 0 /\ braved = {}

-----------------------------------------------------------------------------
(* refresh.                                                                *)

(* What League may have answered, now or before: any view of this draft,   *)
(* the last ones of an earlier.  (Without a phase, later views are alike.) *)
Views ==
  {v \in [game : 1 .. draft.game, phase : {"PLANNING", "BANPICK", ""}, over : 0 .. 3,
          intent : {NoChampion, Champion, ARENA_BRAVERY_CHAMPION_ID}] :
     /\ IF v.game # draft.game THEN v.over = 3
        ELSE v.over <= draft.over /\ (draft.phase = "PLANNING" => v.phase # "BANPICK")
     /\ v.phase # "BANPICK" => v.over = 0
     /\ v.intent = ARENA_BRAVERY_CHAMPION_ID => v.game \in braved}

Bravery(s) ==
  \/ braverySelected /\ s.game = braverySessionKey
  \/ s # NoSession /\ s.intent = ARENA_BRAVERY_CHAMPION_ID

(* Whatever session is set, the effect of it selects what League has for   *)
(* the pending action.                                                     *)
Render(s) ==
  /\ session' = s /\ braverySessionKey' = s.game
  /\ braverySelected' = Bravery(s)
  /\ selectedChampion' \in IF s = NoSession \/ pending(s) = 0 THEN {NoChampion}
                           ELSE IF pending(s) = 3 THEN {s.intent}
                           ELSE {NoChampion, Champion}

(* The answer of a poll, shown also after the phase made the page inactive;*)
(* an error, or the end of the phase, leaves no session.                   *)
refresh ==
  /\ Shown
  /\ Render(NoSession) \/ \E raw \in Views : Render(normalizeChampSelectSession(raw))
  /\ UNCHANGED <<page, draft, requests, busy, braved>>

-----------------------------------------------------------------------------
(* Requests.  runAction sends one, and disables what asks busy.            *)

runAction(key, request) == busy' = key /\ requests' = requests \cup {request}
Submit(champion, lock) ==
  [id |-> pending(session), champion |-> champion, lock |-> lock, game |-> session.game]

(* The grid is disabled only while another champion of it is sent.         *)
chooseChampion ==
  /\ Shown /\ canChooseChampion /\ busy # "champion"
  /\ selectedChampion' = Champion /\ runAction("champion", Submit(Champion, FALSE))
  /\ UNCHANGED <<page, draft, session, flags, braved>>

chooseBravery ==
  /\ Shown /\ braveryAvailable /\ busy = ""
  /\ braverySelected' = TRUE /\ braved' = braved \cup {session.game}
  /\ selectedChampion' = ARENA_BRAVERY_CHAMPION_ID
  /\ runAction("bravery", Submit(ARENA_BRAVERY_CHAMPION_ID, FALSE))
  /\ UNCHANGED <<page, draft, session, braverySessionKey>>

lockChampion ==
  /\ Shown /\ canControlAction /\ selectedChampion # NoChampion /\ busy = ""
  /\ runAction("lock-champion", Submit(selectedChampion, TRUE))
  /\ UNCHANGED <<page, draft, session, selectedChampion, flags, braved>>

(* Spells, skin, runes, swaps, the bench and mutes.                        *)
Tool ==
  /\ Shown /\ session # NoSession /\ busy = ""
  /\ runAction("tool", [id |-> 0, champion |-> NoChampion, lock |-> FALSE, game |-> session.game])
  /\ UNCHANGED <<page, draft, session, selectedChampion, flags, braved>>

(* League knows an action by its id only: a request for a draft that is    *)
(* over is taken for the draft that is on.  It refuses a choice for an     *)
(* action that is over and a lock out of turn.                             *)
Accepts(r) ==
  /\ r.id \in Local /\ r.id > draft.over
  /\ r.lock => r.id = Turn(draft) /\ draft.phase # "PLANNING"

(* Accepted or refused, no button is disabled any more.                    *)
ActionEnds(r) ==
  /\ Shown /\ requests' = requests \ {r} /\ busy' = ""
  /\ \/ /\ Accepts(r)
        /\ draft' = [draft EXCEPT !.intent = IF r.id = 3 THEN r.champion ELSE @,
                                  !.over = IF r.lock THEN r.id ELSE @]
        /\ braved' = IF r.champion = ARENA_BRAVERY_CHAMPION_ID THEN braved \cup {draft.game} ELSE braved
     \/ UNCHANGED <<draft, braved>>
  /\ UNCHANGED <<page, session, selectedChampion, flags>>

(* The draft goes on: its turns begin, an action ends by its player or its *)
(* timer, Bravery becomes a champion, or the next draft begins.            *)
LeagueMoves ==
  /\ Shown
  /\ \/ draft.phase = "PLANNING" /\ draft' = [draft EXCEPT !.phase = "BANPICK"]
     \/ draft.phase # "PLANNING" /\ draft.over < 3 /\ draft' = [draft EXCEPT !.over = @ + 1]
     \/ /\ draft.over = 3 /\ draft.intent = ARENA_BRAVERY_CHAMPION_ID
        /\ draft' = [draft EXCEPT !.intent = Champion]
     \/ draft.game < Games /\ draft' = NewDraft(draft.game + 1)
  /\ UNCHANGED <<page, session, selectedChampion, requests, busy, flags, braved>>

Next ==
  \/ refresh \/ chooseChampion \/ chooseBravery \/ lockChampion \/ Tool
  \/ \E r \in requests : ActionEnds(r)
  \/ LeagueMoves

Spec == Init /\ page = "champ-select" /\ [][Next]_vars

-----------------------------------------------------------------------------
(* Properties.                                                             *)

(* However old the view on show, a lock on its way names no action whose   *)
(* turn has not come in the draft it was meant for.  (That the turns have  *)
(* begun is left to League: a view without a phase is taken for one in     *)
(* which they have.)                                                       *)
LocksInTurn ==
  \A r \in requests : r.lock /\ r.game = draft.game => r.id <= Turn(draft)

(* The note that League resolved Bravery, and the Bravery skins, are shown *)
(* only in a draft in which Bravery was chosen.                            *)
BraveryOfThisDraft == braverySelected /\ session # NoSession => session.game \in braved

=============================================================================
