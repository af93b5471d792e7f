----------------------------- MODULE LiveSession -----------------------------
(***************************************************************************)
(* frontend/src/components/LCUProvider.tsx, which polls /api/lcu/overview  *)
(* for the whole interface, and LiveSessionPage.tsx with liveSession.ts,   *)
(* which turns the last answer into the phase on show and its buttons.     *)
(***************************************************************************)
EXTENDS Naturals, FiniteSets

CONSTANT MaxChanges   \* bound: changes of League's state

VARIABLES
  page,       \* the tab App.tsx renders
  league,     \* [n, is]: how often League's state has changed, and what it is
  reads,      \* overviews read and still on their way to the page
  inFlight,   \* LCUProvider's guard
  overview, stale,
  phase,      \* the phase on show; previousPhase after its effect
  lastActivePhase,
  action,     \* busy: the request the page says is running, or ""
  running,    \* the requests that are
  besides     \* history: a request ended beside another, which runs on while
              \* the page says that nothing does; until none runs

vars == <<page, league, reads, inFlight, overview, stale, phase, lastActivePhase,
          action, running, besides>>
feed == <<league, reads, inFlight, overview, stale, phase, lastActivePhase>>
buttons == <<action, running, besides>>

Shown == page = "live"

(* "off" without Riot Client, "client" with Riot Client only, or a phase.  *)
Phases == {"Lobby", "Matchmaking", "ReadyCheck", "ChampSelect", "InProgress", "EndOfGame"}
NoOverview == [n |-> 0, is |-> "off", session |-> TRUE]

(* The session of a game may be missing from an overview.                  *)
normalizeLivePhase(o) ==
  CASE o.is = "Matchmaking" -> "QUEUE"
    [] o.is = "ReadyCheck"  -> "READY_CHECK"
    [] o.is = "ChampSelect" -> "CHAMP_SELECT"
    [] o.is = "InProgress"  -> "IN_GAME"
    [] o.is = "EndOfGame"   -> "POST_GAME"
    [] OTHER                -> "IDLE"

isActiveLivePhase(p) == p # "IDLE"

(* While nothing new is heard, a phase that was active is being restored.  *)
PhaseShown(o, isStale) ==
  IF \/ isStale /\ isActiveLivePhase(lastActivePhase)
     \/ normalizeLivePhase(o) = "IN_GAME" /\ ~o.session
  THEN "RECONNECTING" ELSE normalizeLivePhase(o)

Init ==
  /\ league = [n |-> 1, is |-> "off"]
  /\ reads = {} /\ inFlight = FALSE /\ overview = NoOverview /\ stale = FALSE
  /\ phase = "IDLE" /\ lastActivePhase = "IDLE"
  /\ action = "" /\ running = {} /\ besides = FALSE

LeagueMoves ==
  /\ Shown /\ league.n < MaxChanges
  /\ \E is \in (Phases \cup {"off", "client"}) \ {league.is} :
       league' = [n |-> league.n + 1, is |-> is]
  /\ UNCHANGED <<page, reads, inFlight, overview, stale, phase, lastActivePhase, buttons>>

-----------------------------------------------------------------------------
(* LCUProvider.                                                            *)

Ask ==
  /\ inFlight' = TRUE
  /\ \E session \in BOOLEAN :
       reads' = reads \cup {[n |-> league.n, is |-> league.is, session |-> session]}

(* Faulty refresh: a poll is sent while another is on its way.             *)
RefreshBeside ==
  /\ Shown /\ Cardinality(reads) < 2 /\ Ask
  /\ UNCHANGED <<page, league, overview, stale, phase, lastActivePhase, buttons>>

(* The timer, the focus of the window, a button or the end of a request.   *)
refresh ==
  /\ Shown /\ ~inFlight /\ Ask
  /\ UNCHANGED <<page, league, overview, stale, phase, lastActivePhase, buttons>>

(* The effect of a phase remembers it when it is active.                   *)
Render(o, isStale) ==
  /\ overview' = o /\ stale' = isStale
  /\ phase' = PhaseShown(o, isStale)
  /\ lastActivePhase' = IF phase' # phase /\ isActiveLivePhase(phase') THEN phase' ELSE lastActivePhase

(* An answer is taken over; an error keeps the last one, as stale.         *)
OverviewRead(o) ==
  /\ Shown /\ reads' = reads \ {o} /\ inFlight' = FALSE
  /\ Render(o, o.is = "off") \/ Render(overview, TRUE)
  /\ UNCHANGED <<page, league, buttons>>

-----------------------------------------------------------------------------
(* The page's buttons.  Each is disabled while it runs, those of the ready *)
(* check while anything runs.                                              *)

(* A custom game can be left from every panel that may show one.           *)
IdleCockpit == {"launch", "quit-custom"}
QueuePanel == {"stop"}
ReadyCard == {"accept", "decline"}
ChampSelectPanel == {"quit-custom"}
GamePanel(p) ==
  (IF p = "POST_GAME" THEN {"again"} ELSE {"quit-custom"})
    \cup (IF p = "RECONNECTING" THEN {"refresh"} ELSE {})
Keys(p) ==
  CASE p = "IDLE"         -> IdleCockpit
    [] p = "QUEUE"        -> QueuePanel
    [] p = "READY_CHECK"  -> ReadyCard
    [] p = "CHAMP_SELECT" -> ChampSelectPanel
    [] OTHER              -> GamePanel(p)

Enabled(key) == IF key \in ReadyCard THEN action = "" ELSE action # key

run(key) ==
  /\ Shown /\ key \in Keys(phase) /\ Enabled(key) /\ key \notin running
  /\ action' = key /\ running' = running \cup {key}
  /\ UNCHANGED <<page, feed, besides>>

(* Answered or refused; whatever else runs, nothing is busy.               *)
RunEnds(key) ==
  /\ Shown /\ running' = running \ {key} /\ action' = ""
  /\ besides' = (running' # {})
  /\ UNCHANGED <<page, feed>>

Next ==
  \/ LeagueMoves \/ refresh \/ \E o \in reads : OverviewRead(o)
  \/ \E key \in Keys(phase) : run(key)
  \/ \E key \in running : RunEnds(key)

Spec == Init /\ page = "live" /\ [][Next]_vars

-----------------------------------------------------------------------------
(* Properties.                                                             *)

(* What the interface knows of League never goes back in time.             *)
NeverBack == [][overview'.n >= overview.n]_vars

(* "RiftOps is preserving the last known phase while it retries": an       *)
(* active phase gives way to no phase only when an answer of a running     *)
(* client says so.                                                         *)
KeepsThePhase ==
  [][isActiveLivePhase(phase) /\ ~isActiveLivePhase(phase')
       => ~stale' /\ overview'.is \in {"client", "Lobby"}]_vars

(* A ready check is never accepted and declined at the same time, whatever *)
(* else runs: only while a request runs on beside which another ended, and *)
(* so enabled the buttons, are the two not kept apart.                     *)
OneAnswer == besides \/ ~({"accept", "decline"} \subseteq running)

=============================================================================
