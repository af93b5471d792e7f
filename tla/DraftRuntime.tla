---------------------------- MODULE DraftRuntime ----------------------------
(***************************************************************************)
(* internal/playflow/draft.go: what Full Auto does in champion select.     *)
(* Every poll reads the session, then a list of champions, then may hover, *)
(* read again, lock and read once more, each a request of its own; in      *)
(* between League, the team and the player go on.  A request may be        *)
(* applied late, or never, whatever its answer said.                       *)
(*                                                                         *)
(* One champion select, in which automatic bans and role-aware picks are   *)
(* on.  Left out: rune pages, the pick-order swap, the arithmetic of the   *)
(* draft timer (a lock may be due at any poll), and the texts.             *)
(***************************************************************************)
EXTENDS Integers, Sequences

CONSTANTS
  Champions,
  NoChampion,      \* no choice: id 0
  Bravery,         \* Arena's random pick, an id below 0
  FirstAvailable,  \* an entry of Arena's priority list
  Roles,
  NoRole,      \* no lane assigned yet
  Kinds,       \* kinds of queue: draft, arena, aram
  BanPlan,     \* the configured ban and its fallback
  PickPlan,    \* role -> the configured pick and its fallback
  ArenaPlan,   \* ArenaPickPriority
  AramPlan     \* ARAMChampionPriority

ASSUME PlansAssumption ==
  /\ NoChampion \notin Champions /\ Bravery \notin Champions \cup {NoChampion}
  /\ FirstAvailable \notin Champions \cup {NoChampion, Bravery}
  /\ NoRole \notin Roles
  /\ Kinds \subseteq {"draft", "arena", "aram"}
  /\ BanPlan \in Seq(Champions) /\ PickPlan \in [Roles -> Seq(Champions)]
  /\ ArenaPlan \in Seq(Champions \cup {Bravery, FirstAvailable}) /\ AramPlan \in Seq(Champions)

Acts    == {"ban", "pick"}
Choices == Champions \cup {Bravery, NoChampion}
Places  == {"idle", "swap", "fetch", "hover", "confirm", "recheck", "refetch", "lock",
            "confirmLock"}

VARIABLES
  kind,      \* League: the kind of queue
  turn,      \* the player's action that is not completed
  at,        \* is it its turn: waiting, listed, active (in progress)
  timer,     \* the phase of the draft timer
  role,      \* the lane assigned to the player
  shown,     \* action -> the champion it shows
  member,    \* the player's pick intent; in ARAM the champion dealt
  taken,     \* champions of the others' actions and intents; it only grows
  bench,     \* ARAM's bench
  inflight,  \* requests that League may still apply
  attempt,   \* draftRuntime.attempt
  manual,    \* manualActions: actions left to the player
  rejected,  \* braveryRejected
  aram,      \* the aram fields of draftRuntime
  pc,        \* where the poll is
  seen,      \* what the poll remembers of the session it read
  owner,     \* history: action -> who made the choice it shows (late: a hover
             \* that RiftOps had given up)
  dealer,    \* history: who chose the ARAM champion
  raced,     \* history: the player chose since the session was last read
  locks      \* history: action -> how many locks were submitted

league  == <<kind, turn, at, timer, role, shown, member, taken, bench, inflight>>
draft   == <<attempt, manual, rejected, aram, pc, seen>>
history == <<owner, dealer, raced, locks>>
vars    == <<league, draft, history>>

NoAttempt == [act |-> "none", role |-> NoRole, champion |-> NoChampion,
              own |-> NoChampion, hovered |-> FALSE, blocked |-> FALSE, locking |-> FALSE]
Unseen    == [taken |-> {}, banPick |-> FALSE, active |-> FALSE, target |-> NoChampion]

Init ==
  /\ kind \in Kinds
  /\ turn = "ban" /\ at = "waiting" /\ timer = "PLANNING" /\ role = NoRole
  /\ shown = [a \in Acts |-> NoChampion] /\ member = NoChampion
  /\ taken = {} /\ bench = {} /\ inflight = {}
  /\ attempt = NoAttempt /\ manual = {} /\ rejected = FALSE
  /\ aram = [last |-> NoChampion, asked |-> NoChampion, manual |-> FALSE, tried |-> {}]
  /\ pc = "idle" /\ seen = Unseen
  /\ owner = [a \in Acts |-> "none"] /\ dealer = "none" /\ raced = FALSE
  /\ locks = [a \in Acts |-> 0]

-----------------------------------------------------------------------------
(* League, the team and the player.                                        *)

AfterTurn == IF turn = "ban" THEN "pick" ELSE "over"

LeagueMoves ==
  /\ \/ /\ at = "waiting" /\ turn # "over" /\ at' \in {"listed", "active"}
        /\ UNCHANGED <<timer, role>>
     \/ at = "listed" /\ at' = "active" /\ UNCHANGED <<timer, role>>
     \/ timer' = "BAN_PICK" /\ UNCHANGED <<at, role>>
     \/ kind = "draft" /\ role' \in Roles /\ UNCHANGED <<at, timer>>
  /\ UNCHANGED <<kind, turn, shown, member, taken, bench, inflight, draft, history>>

(* A request for an action whose turn is over is as good as lost.         *)
InTime(requests) == {r \in requests : r.act # turn}

(* The player locks, or the time is up.                                    *)
TurnEnds ==
  /\ at = "active" \/ (at = "listed" /\ kind = "aram")
  /\ turn' = AfterTurn /\ at' = "waiting" /\ inflight' = InTime(inflight)
  /\ UNCHANGED <<kind, timer, role, shown, member, taken, bench, draft, history>>

TeamMoves ==
  /\ \E c \in Champions :
       \/ kind # "aram" /\ taken' = taken \cup {c} /\ UNCHANGED <<bench, member>>
       \/ kind = "aram" /\ c # member
          /\ bench' \in {bench \cup {c}, bench \ {c}} /\ UNCHANGED <<taken, member>>
       \/ kind = "aram" /\ member = NoChampion /\ c \notin bench
          /\ member' = c /\ UNCHANGED <<taken, bench>>
  /\ UNCHANGED <<kind, turn, at, timer, role, shown, inflight, draft, history>>

(* Going back to the champion RiftOps hovered leaves the turn to it.       *)
PlayerHovers ==
  /\ at # "waiting"
  /\ \E c \in Champions \cup (IF kind = "arena" /\ turn = "pick" THEN {Bravery} ELSE {}) :
       /\ c # shown[turn]
       /\ shown' = [shown EXCEPT ![turn] = c]
       /\ owner' = [owner EXCEPT ![turn] =
                      IF attempt.act = turn /\ c = attempt.own THEN "riftops" ELSE "player"]
  /\ raced' = TRUE
  /\ UNCHANGED <<kind, turn, at, timer, role, member, taken, bench, inflight, draft,
                 dealer, locks>>

PlayerDeclares ==
  /\ kind = "draft" /\ timer = "PLANNING"
  /\ member' \in Champions
  /\ UNCHANGED <<kind, turn, at, timer, role, shown, taken, bench, inflight, draft, history>>

Swapped(c) ==
  /\ kind = "aram" /\ member # NoChampion /\ c \in bench
  /\ member' = c /\ bench' = (bench \ {c}) \cup {member}

(* A swap back, or to what RiftOps asks for, looks like none; so does one  *)
(* before the first poll.                                                  *)
PlayerSwaps ==
  /\ \E c \in Champions :
       /\ Swapped(c)
       /\ dealer' = IF aram.last = NoChampion \/ c \in {aram.last, aram.asked, seen.target}
                      THEN "none" ELSE "player"
  /\ raced' = TRUE
  /\ UNCHANGED <<kind, turn, at, timer, role, shown, taken, inflight, draft, owner, locks>>

(* League applies a hover or a lock to the action it is about, a swap to   *)
(* the bench, and drops what came too late.                                *)
Applied(r) ==
  \/ /\ r.what \in {"hover", "lock"} /\ turn = r.act /\ at # "waiting"
     /\ r.champion \notin taken
     /\ shown' = [shown EXCEPT ![turn] = r.champion]
     /\ owner' = [owner EXCEPT ![turn] = IF shown[turn] = r.champion THEN @
                                         ELSE IF r.champion = attempt.champion THEN "riftops"
                                         ELSE "late"]
     /\ IF r.what = "lock" THEN turn' = AfterTurn /\ at' = "waiting" ELSE UNCHANGED <<turn, at>>
     /\ UNCHANGED <<member, bench, dealer>>
  \/ /\ r.what = "swap" /\ Swapped(r.champion)
     /\ dealer' = "riftops"
     /\ UNCHANGED <<turn, at, shown, owner>>
  \/ UNCHANGED <<turn, at, shown, owner, member, bench, dealer>>

RequestArrives ==
  /\ \E r \in inflight :
       /\ Applied(r)
       /\ inflight' = IF turn' = turn THEN inflight \ {r} ELSE InTime(inflight \ {r})
  /\ UNCHANGED <<kind, timer, role, taken, draft, raced, locks>>

Environment ==
  \/ LeagueMoves \/ TurnEnds \/ TeamMoves \/ PlayerHovers \/ PlayerDeclares
  \/ PlayerSwaps \/ RequestArrives

-----------------------------------------------------------------------------
(* The poll.                                                               *)

(* Faulty localPickIntent: reads the player's entry and not the action.    *)
IntentOfMember(a) == member

(* localPickIntent                                                         *)
Intent(a) == IF shown[a] # NoChampion THEN shown[a] ELSE member

(* Faulty choice: the place in the plan for the champion.                  *)
FirstIndex(plan, ok) ==
  LET first == {i \in 1 .. Len(plan) :
                  plan[i] \in ok /\ \A j \in 1 .. i - 1 : plan[j] \notin ok}
  IN IF first = {} THEN NoChampion ELSE CHOOSE i \in first : TRUE

(* The first choice of a plan that passes, NoChampion if there is none.    *)
First(plan, ok) ==
  LET first == {i \in 1 .. Len(plan) :
                  plan[i] \in ok /\ \A j \in 1 .. i - 1 : plan[j] \notin ok}
  IN IF first = {} THEN NoChampion ELSE plan[CHOOSE i \in first : TRUE]

(* currentLocalAction, and what step does not touch: ARAM's placeholder    *)
(* ban, and a ban before its phase.                                        *)
Actionable ==
  /\ turn # "over" /\ at # "waiting"
  /\ turn = "ban" => kind # "aram" /\ timer = "BAN_PICK"

(* Faulty context: a lane that League publishes late is part of a ban's.   *)
ContextWithRole(a) == role

(* A ban is the same attempt whatever lane is assigned; a pick is not.     *)
Context(a) == IF a = "ban" THEN NoRole ELSE role

CurrentAttempt ==
  IF attempt.act = turn /\ attempt.role = Context(turn)
    THEN attempt
    ELSE [NoAttempt EXCEPT !.act = turn, !.role = Context(turn)]

(* Faulty bench: forgets a swap that was not RiftOps'.                     *)
BenchUnaware == IF kind = "aram" THEN [aram EXCEPT !.last = member] ELSE aram

(* maybeSwapARAMBench: what a poll learns of the champion dealt.           *)
BenchSeen ==
  LET changed == aram.last # NoChampion /\ member # aram.last
  IN IF kind # "aram" \/ member = NoChampion THEN aram
     ELSE [aram EXCEPT !.last   = member,
                       !.asked  = IF changed /\ @ = member THEN NoChampion ELSE @,
                       !.manual = @ \/ (changed /\ aram.asked # member)]

(* The first champion of the priority list on the bench, if it is ahead of *)
(* the one dealt.                                                          *)
BenchTarget ==
  LET best == First(AramPlan, bench \cup {member})
  IN IF best \in bench \ aram.tried THEN best ELSE NoChampion

BenchActs == kind = "aram" /\ member # NoChampion /\ (BenchSeen.manual \/ BenchTarget # NoChampion)

Reads == raced' = FALSE /\ UNCHANGED <<league, owner, dealer>>

PollBench ==
  /\ BenchActs
  /\ IF BenchSeen.manual
       THEN aram' = BenchSeen /\ UNCHANGED <<pc, seen>>
       ELSE /\ aram' = [BenchSeen EXCEPT !.tried = @ \cup {BenchTarget}]
            /\ seen' = [Unseen EXCEPT !.target = BenchTarget]
            /\ pc' = "swap"
  /\ UNCHANGED <<attempt, manual>>

(* A champion that RiftOps did not hover is the player's choice.           *)
PollManual ==
  /\ ~BenchActs /\ Actionable /\ turn \notin manual
  /\ Intent(turn) \in Champions /\ Intent(turn) # CurrentAttempt.own
  /\ manual' = manual \cup {turn} /\ attempt' = CurrentAttempt /\ aram' = BenchSeen
  /\ UNCHANGED <<pc, seen>>

PollWaits ==
  /\ ~BenchActs /\ aram' = BenchSeen
  /\ IF ~Actionable
       THEN UNCHANGED attempt
       ELSE /\ turn \in manual \/ (CurrentAttempt.blocked
                 /\ ~(Intent(turn) \in Champions /\ Intent(turn) # CurrentAttempt.own))
            /\ attempt' = CurrentAttempt
  /\ UNCHANGED <<manual, pc, seen>>

PollProceeds ==
  /\ ~BenchActs /\ Actionable /\ turn \notin manual
  /\ ~(Intent(turn) \in Champions /\ Intent(turn) # CurrentAttempt.own)
  /\ ~CurrentAttempt.blocked
  /\ attempt' = CurrentAttempt /\ aram' = BenchSeen
  /\ seen' = [Unseen EXCEPT !.taken = taken \cup {shown[a] : a \in Acts \ {turn}},
                            !.banPick = (timer = "BAN_PICK"), !.active = (at = "active")]
  /\ pc' = "fetch"
  /\ UNCHANGED manual

Poll ==
  /\ pc = "idle" /\ ~attempt.locking
  /\ PollBench \/ PollManual \/ PollWaits \/ PollProceeds
  /\ Reads
  /\ UNCHANGED <<rejected, locks>>

(* Faulty observeSubmittedLock: a lock that is not confirmed is tried again. *)
ObserveRetries ==
  /\ pc = "idle" /\ attempt.locking
  /\ attempt' = IF turn # attempt.act THEN NoAttempt ELSE [attempt EXCEPT !.locking = FALSE]
  /\ Reads /\ UNCHANGED <<manual, rejected, aram, pc, seen, locks>>

(* Faulty observeSubmittedLock: waits for League for ever.                 *)
ObserveWaits ==
  /\ pc = "idle" /\ attempt.locking /\ turn # attempt.act
  /\ attempt' = NoAttempt
  /\ Reads /\ UNCHANGED <<manual, rejected, aram, pc, seen, locks>>

(* The action is completed, or was not within pendingLockConfirmationTimeout. *)
ObserveSubmittedLock ==
  /\ pc = "idle" /\ attempt.locking
  /\ attempt' = IF turn # attempt.act THEN NoAttempt
                ELSE [attempt EXCEPT !.locking = FALSE, !.blocked = TRUE]
  /\ Reads /\ UNCHANGED <<manual, rejected, aram, pc, seen, locks>>

SwapBenchChampion ==
  /\ pc = "swap"
  /\ inflight' = inflight \cup {[what |-> "swap", act |-> "none", champion |-> seen.target]}
  /\ aram' \in {aram, [aram EXCEPT !.asked = seen.target]}
  /\ pc' = "idle" /\ seen' = Unseen
  /\ UNCHANGED <<kind, turn, at, timer, role, shown, member, taken, bench,
                 attempt, manual, rejected, history>>

(* fetchDraftAvailability: nothing, or what is still free.                 *)
Lists == {{}, Champions \ taken}

(* chooseCandidate                                                         *)
Candidates(list) ==
  LET free == list \ seen.taken
      arena == First(ArenaPlan, free \cup (IF rejected THEN {} ELSE {Bravery})
                                     \cup (IF free = {} THEN {} ELSE {FirstAvailable}))
      dealt == First(AramPlan, free)
  IN IF attempt.act = "ban" THEN {First(BanPlan, free)}
     ELSE IF kind = "arena" THEN (IF arena = FirstAvailable THEN free ELSE {arena})
     ELSE IF kind = "aram"
       THEN (IF dealt = NoChampion /\ free # {} THEN free ELSE {dealt})
     ELSE {IF attempt.role = NoRole THEN NoChampion
                                    ELSE First(PickPlan[attempt.role], free)}

Special == kind \in {"arena", "aram"}

FetchAvailability ==
  /\ pc = "fetch"
  /\ \E list \in Lists : \E c \in Candidates(list) :
       IF c = NoChampion \/ (list = {} /\ kind # "arena")
         THEN pc' = "idle" /\ UNCHANGED attempt
         ELSE LET next == IF attempt.champion = c THEN attempt
                          ELSE [attempt EXCEPT !.champion = c, !.own = NoChampion,
                                               !.hovered = FALSE]
              IN /\ attempt' = next
                 /\ pc' \in IF Special /\ ~seen.active THEN {"idle"}
                           ELSE IF ~next.hovered THEN {"hover"}
                           ELSE IF Special THEN {"recheck"}
                           ELSE IF seen.banPick /\ seen.active THEN {"idle", "refetch"}
                           ELSE {"idle"}
  /\ seen' = Unseen
  /\ UNCHANGED <<league, manual, rejected, aram, history>>

Send(what) ==
  inflight' = IF turn # attempt.act THEN inflight
              ELSE inflight \cup {[what     |-> what, act |-> attempt.act,
                                  champion |-> attempt.champion]}

Hover ==
  /\ pc = "hover" /\ Send("hover") /\ pc' = "confirm"
  /\ UNCHANGED <<kind, turn, at, timer, role, shown, member, taken, bench,
                 attempt, manual, rejected, aram, seen, history>>

(* Arena's next priority after a Bravery that League did not take.         *)
RejectBravery ==
  /\ rejected' = TRUE
  /\ attempt' = [NoAttempt EXCEPT !.act = attempt.act, !.role = attempt.role]

NotConfirmed ==
  /\ IF kind = "arena" /\ attempt.champion = Bravery
       THEN RejectBravery
       ELSE attempt' = [attempt EXCEPT !.blocked = TRUE] /\ UNCHANGED rejected
  /\ pc' = "idle"

(* The read after a hover.  Where the player chose the same champion, the  *)
(* choice counts as RiftOps' own from here on.                             *)
HoverAndConfirm ==
  /\ pc = "confirm"
  /\ \/ /\ Intent(attempt.act) = attempt.champion
        /\ attempt' = [attempt EXCEPT !.own = attempt.champion, !.hovered = TRUE]
        /\ pc' = IF Special THEN "recheck" ELSE "idle"
        /\ raced' = FALSE /\ owner' = [owner EXCEPT ![attempt.act] = "riftops"]
        /\ UNCHANGED <<league, dealer, rejected>>
     \/ Intent(attempt.act) # attempt.champion /\ NotConfirmed /\ Reads
     \/ NotConfirmed /\ UNCHANGED <<league, owner, dealer, raced>> \* the read fails
  /\ UNCHANGED <<manual, aram, seen, locks>>

Current == turn = attempt.act /\ at # "waiting"

(* The read of executeSpecialPick before the lock.                         *)
ExecuteSpecialPick ==
  /\ pc = "recheck"
  /\ \/ pc' = "idle" /\ UNCHANGED <<attempt, rejected>> \* the read fails, or advanced
     \/ /\ Current /\ Intent(attempt.act) = attempt.champion
        /\ pc' = "refetch" /\ UNCHANGED <<attempt, rejected>>
     \/ Current /\ Intent(attempt.act) # attempt.champion /\ NotConfirmed
  /\ Reads
  /\ UNCHANGED <<manual, aram, seen, locks>>

(* The read of lockAfterRefetch.  Arena's bans come here as picks.         *)
LockAfterRefetch ==
  /\ pc = "refetch"
  /\ \/ pc' = "idle" /\ UNCHANGED <<attempt, manual>> \* fails, advanced, not in progress
     \/ /\ Current /\ at = "active" /\ ~(kind = "arena" /\ attempt.act = "ban")
        /\ IF Intent(attempt.act) \in {NoChampion, attempt.champion}
             THEN /\ attempt' = [attempt EXCEPT !.locking = TRUE]
                  /\ pc' = "lock" /\ UNCHANGED manual
             ELSE manual' = manual \cup {attempt.act} /\ pc' = "idle" /\ UNCHANGED attempt
  /\ Reads
  /\ UNCHANGED <<rejected, aram, seen, locks>>

SubmitLock ==
  /\ pc = "lock" /\ Send("lock") /\ pc' = "confirmLock"
  /\ locks' = [locks EXCEPT ![attempt.act] = IF @ < 2 THEN @ + 1 ELSE @]
  /\ UNCHANGED <<kind, turn, at, timer, role, shown, member, taken, bench,
                 attempt, manual, rejected, aram, seen, owner, dealer, raced>>

(* The read after the lock, and the answer of the request if it shows no   *)
(* completed action.                                                       *)
ConfirmLock ==
  /\ pc = "confirmLock" /\ pc' = "idle"
  /\ attempt' \in {attempt, [attempt EXCEPT !.locking = FALSE, !.blocked = TRUE]}
  /\ Reads
  /\ UNCHANGED <<manual, rejected, aram, seen, locks>>

Step ==
  \/ Poll \/ ObserveSubmittedLock \/ SwapBenchChampion \/ FetchAvailability
  \/ Hover \/ HoverAndConfirm \/ ExecuteSpecialPick \/ LockAfterRefetch
  \/ SubmitLock \/ ConfirmLock

Next == Step \/ Environment

Spec == Init /\ [][Next]_vars
(* A run polls champion select again and again; its requests time out.     *)
FairSpec == Spec /\ WF_vars(Step)

-----------------------------------------------------------------------------
(* Properties.                                                             *)

Requests == [what : {"hover", "lock", "swap"}, act : Acts \cup {"none"}, champion : Choices]
Attempts == [act : Acts \cup {"none"}, role : Roles \cup {NoRole}, champion : Choices,
             own : Choices, hovered : BOOLEAN, blocked : BOOLEAN, locking : BOOLEAN]
Benches  == [last : Champions \cup {NoChampion}, asked : Champions \cup {NoChampion},
             manual : BOOLEAN, tried : SUBSET Champions]
Sights   == [taken : SUBSET Choices, banPick : BOOLEAN, active : BOOLEAN,
             target : Champions \cup {NoChampion}]

TypeLeague ==
  /\ kind \in Kinds /\ turn \in Acts \cup {"over"} /\ at \in {"waiting", "listed", "active"}
  /\ timer \in {"PLANNING", "BAN_PICK"} /\ role \in Roles \cup {NoRole}
  /\ shown \in [Acts -> Choices] /\ member \in Champions \cup {NoChampion}
  /\ taken \subseteq Champions /\ bench \subseteq Champions /\ inflight \subseteq Requests

TypeDraft ==
  /\ attempt \in Attempts /\ manual \subseteq Acts /\ rejected \in BOOLEAN
  /\ aram \in Benches /\ pc \in Places /\ seen \in Sights

TypeHistory ==
  /\ owner \in [Acts -> {"none", "riftops", "late", "player"}]
  /\ dealer \in {"none", "riftops", "player"} /\ raced \in BOOLEAN
  /\ locks \in [Acts -> 0 .. 2]

TypeOK == TypeLeague /\ TypeDraft /\ TypeHistory

(* However late or unclear League's answers are, and whatever lanes it     *)
(* assigns meanwhile, an action is locked by one request at most.          *)
LockedOnce == \A a \in Acts : locks[a] <= 1

(* A hover or a lock is sent over a champion the player chose only if the  *)
(* player chose it after the session was last read.                        *)
Sends == pc \in {"hover", "lock"} /\ pc' # pc
PlayerKept ==
  [][Sends /\ turn = attempt.act /\ owner[turn] = "player" /\ shown[turn] \in Champions
       => raced \/ shown[turn] = attempt.champion]_vars

(* ARAM's bench is not swapped again once the player swapped: manual swaps *)
(* end bench automation.                                                   *)
BenchKept == [][pc = "swap" /\ pc' # "swap" /\ dealer = "player" => raced]_vars

(* The ban is left to the player only if the player chose or declared a    *)
(* champion, or a hover of RiftOps was not confirmed or was applied after  *)
(* it gave it up: a lane that League publishes after the hover never costs *)
(* the ban.                                                                *)
BanLeftIfChosen ==
  [][manual' # manual /\ turn = "ban"
       => owner["ban"] \in {"player", "late"} \/ member # NoChampion \/ attempt.blocked]_vars

(* A lock that was submitted is settled: League completes it, or RiftOps   *)
(* gives it up.                                                            *)
LockSettles == attempt.locking ~> ~attempt.locking
=============================================================================
