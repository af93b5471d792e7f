------------------------- MODULE DraftRuntimeProofs -------------------------
(***************************************************************************)
(* Proofs about DraftRuntime for any set of champions, any lanes and any   *)
(* configured plans: the type invariant, LockedOnce, PlayerKept, BenchKept *)
(* and BanLeftIfChosen.                                                    *)
(***************************************************************************)
EXTENDS DraftRuntime, TLAPS

-----------------------------------------------------------------------------
(* The inductive invariant.                                                *)

Unlocked == {"fetch", "hover", "confirm", "recheck", "refetch", "lock"}
Sending  == {"recheck", "refetch", "lock", "confirmLock"}

(* Only a draft assigns lanes; an attempt is about an action that came.    *)
Attempted ==
  /\ kind # "draft" => role = NoRole /\ attempt.role = NoRole
  /\ attempt.act = "pick" => turn # "ban"
  /\ attempt.act = "ban" => attempt.role = NoRole
  /\ pc \notin {"idle", "swap"} => attempt.act \in Acts

(* Until it is submitted a lock leaves no trace but locking.               *)
Undecided ==
  /\ pc \in Unlocked => locks[attempt.act] = 0 /\ ~attempt.blocked
  /\ pc \in Unlocked => (attempt.locking <=> pc = "lock")
  /\ pc = "confirmLock" => attempt.locking

(* In a draft, what is hovered is a champion, and an action that shows one *)
(* goes on doing so.                                                       *)
Chosen ==
  kind = "draft" =>
    /\ \A a \in Acts : shown[a] # Bravery
    /\ \A r \in inflight : r.champion \in Champions
    /\ pc \in {"hover", "confirm"} \cup Sending => attempt.champion \in Champions
    /\ pc \in Sending => attempt.hovered
    /\ attempt.hovered => attempt.act \in Acts /\ Intent(attempt.act) \in Champions
    /\ pc # "swap"

Passed(a) == turn = "over" \/ (a = "ban" /\ turn = "pick")

(* What keeps an action that was locked from being locked again.           *)
Settled(a) ==
  \/ Passed(a)
  \/ a \in manual
  \/ /\ attempt.act = a /\ (attempt.locking \/ attempt.blocked)
     /\ kind = "draft" => Intent(a) \in Champions

LocksSettled == \A a \in Acts : locks[a] = 0 \/ (locks[a] = 1 /\ Settled(a))

(* What RiftOps takes for its own choice is not the player's.              *)
Owned ==
  attempt.act \in Acts /\ attempt.own # NoChampion /\ shown[attempt.act] = attempt.own
    => owner[attempt.act] # "player"

(* The player's choice for the action that a request is about to change.   *)
Overwrites == attempt.act = turn /\ owner[turn] = "player" /\ shown[turn] \in Champions

Fresh ==
  /\ pc \in {"fetch", "hover"} /\ Overwrites => raced
  /\ pc = "lock" /\ Overwrites => raced \/ shown[turn] = attempt.champion

(* After a swap of the player, the poll knows or is going to see it.       *)
Dealt ==
  dealer = "player" =>
    /\ kind = "aram" /\ member # NoChampion /\ aram.last # NoChampion
    /\ aram.manual \/ (member # aram.last /\ member # aram.asked)
    /\ pc = "swap" => raced /\ member # seen.target

(* No hover was sent for the ban, which Arena hovers only in its turn.     *)
Untouched ==
  /\ \A r \in inflight : r.act # "ban"
  /\ owner["ban"] \notin {"riftops", "late"}
  /\ attempt.act = "ban" => attempt.own = NoChampion

ArenaBan ==
  turn = "ban" /\ kind # "draft" =>
    /\ at # "active" \/ (pc = "fetch" /\ ~seen.active) => Untouched
    /\ pc \in {"hover", "confirm"} \cup Sending \/ (pc = "fetch" /\ seen.active) => at = "active"

(* Whom a ban that shows a champion is known to be from.                   *)
BanKnown ==
  /\ shown["ban"] # NoChampion => owner["ban"] # "none"
  /\ attempt.act = "ban" => attempt.champion # Bravery
  /\ attempt.hovered => attempt.own = attempt.champion
  /\ pc \in Sending => attempt.hovered
  /\ turn = "ban" =>
       /\ \A r \in inflight : r.act = "ban" => attempt.act = "ban"
       /\ attempt.act = "ban" /\ pc \in {"idle", "swap", "fetch"} =>
            attempt.blocked \/ attempt.own = attempt.champion \/ Untouched
       /\ owner["ban"] = "riftops" =>
            /\ attempt.act = "ban"
            /\ \/ attempt.blocked \/ shown["ban"] \in {NoChampion, attempt.own}
               \/ pc \in {"hover", "confirm"}

IndInv ==
  /\ TypeOK /\ Attempted /\ Undecided /\ Chosen /\ LocksSettled
  /\ Owned /\ Fresh /\ Dealt /\ ArenaBan /\ BanKnown

-----------------------------------------------------------------------------
(* The choices.                                                            *)

USE PlansAssumption DEF PlansAssumption

(* The first champion of a plan that passes is one of the plan.            *)
LEMMA FirstType ==
  ASSUME NEW S, NEW plan \in Seq(S), NEW ok, First(plan, ok) # NoChampion
  PROVE  First(plan, ok) \in S \cap ok
<1> DEFINE first == {i \in 1 .. Len(plan) :
                       plan[i] \in ok /\ \A j \in 1 .. i - 1 : plan[j] \notin ok}
           chosen == CHOOSE i \in first : TRUE
<1>1. first # {} /\ First(plan, ok) = plan[chosen]
  BY DEF First
<1>2. chosen \in first
  BY <1>1
<1> HIDE DEF chosen
<1>3. chosen \in 1 .. Len(plan) /\ plan[chosen] \in ok
  BY <1>2
<1>4. plan[chosen] \in S
  BY <1>3
<1> QED
  BY <1>1, <1>3, <1>4

(* What a poll may choose: in a draft, and for a ban, a champion; Bravery  *)
(* only for Arena.                                                         *)
LEMMA CandidatesType ==
  ASSUME TypeOK, attempt.act \in Acts, NEW list \in Lists, NEW c \in Candidates(list)
  PROVE  /\ c \in Choices
         /\ kind = "draft" \/ attempt.act = "ban" => c \in Champions \cup {NoChampion}
<1> DEFINE free == list \ seen.taken
<1>1. free \subseteq Champions
  BY DEF Lists, TypeOK, TypeLeague
<1>2. Champions \subseteq Choices /\ {Bravery, NoChampion} \subseteq Choices
  BY DEF Choices
<1> HIDE DEF free
<1>3. CASE attempt.act = "ban"
  <2>1. c = First(BanPlan, free)
    BY <1>3 DEF Candidates, free
  <2> QED
    BY <1>2, <2>1, FirstType
<1>4. CASE attempt.act # "ban" /\ kind = "arena"
  <2> DEFINE ok == free \cup (IF rejected THEN {} ELSE {Bravery})
                        \cup (IF free = {} THEN {} ELSE {FirstAvailable})
             best == First(ArenaPlan, ok)
  <2>1. c \in (IF best = FirstAvailable THEN free ELSE {best})
    BY <1>4 DEF Candidates, free
  <2>2. best = NoChampion \/ best \in ok
    BY FirstType
  <2> HIDE DEF best
  <2>3. c \in free \cup {NoChampion, Bravery}
    BY <2>1, <2>2
  <2> QED
    BY <1>1, <1>2, <1>4, <2>3
<1>5. CASE attempt.act # "ban" /\ kind = "aram"
  <2>1. c \in free \/ c = First(AramPlan, free)
    BY <1>5 DEF Candidates, free
  <2> QED
    BY <1>1, <1>2, <1>5, <2>1, FirstType
<1>6. CASE attempt.act # "ban" /\ kind = "draft"
  <2>1. c = NoChampion
          \/ (attempt.role # NoRole /\ c = First(PickPlan[attempt.role], free))
    BY <1>6 DEF Candidates, free
  <2>2. attempt.role # NoRole => PickPlan[attempt.role] \in Seq(Champions)
    BY DEF TypeOK, TypeDraft, Attempts
  <2> QED
    BY <1>2, <2>1, <2>2, FirstType
<1> QED
  BY <1>3, <1>4, <1>5, <1>6 DEF TypeOK, TypeLeague

(* The bench only ever offers a champion that is on it.                    *)
LEMMA TargetType ==
  ASSUME TypeOK PROVE BenchTarget \in Champions \cup {NoChampion}
BY DEF BenchTarget, TypeOK, TypeLeague

(* A poll goes on with its attempt or begins one without a choice.         *)
LEMMA CurrentType ==
  ASSUME TypeOK, turn \in Acts
  PROVE  /\ CurrentAttempt \in Attempts
         /\ CurrentAttempt.act = turn /\ CurrentAttempt.role = Context(turn)
         /\ \/ CurrentAttempt = attempt
            \/ /\ ~(attempt.act = turn /\ attempt.role = Context(turn))
               /\ CurrentAttempt.champion = NoChampion /\ CurrentAttempt.own = NoChampion
               /\ ~CurrentAttempt.hovered /\ ~CurrentAttempt.blocked
               /\ ~CurrentAttempt.locking
<1> DEFINE same == attempt.act = turn /\ attempt.role = Context(turn)
<1>1. attempt \in Attempts /\ Context(turn) \in Roles \cup {NoRole}
  BY DEF TypeOK, TypeLeague, TypeDraft, Context
<1>2. CASE same
  BY <1>1, <1>2 DEF CurrentAttempt
<1>3. CASE ~same
  <2>1. CurrentAttempt = [NoAttempt EXCEPT !.act = turn, !.role = Context(turn)]
    BY <1>3 DEF CurrentAttempt
  <2> QED
    BY <1>1, <1>3, <2>1 DEF Attempts, NoAttempt, Choices
<1> QED
  BY <1>2, <1>3

LEMMA BenchSeenType ==
  ASSUME TypeOK PROVE BenchSeen \in Benches
BY DEF BenchSeen, TypeOK, TypeLeague, TypeDraft, Benches

-----------------------------------------------------------------------------
(* The type invariant.                                                     *)

(* What the steps make of an attempt x, and that it is one.                *)
Blocked(x)    == [x EXCEPT !.blocked = TRUE]
Locking(x)    == [x EXCEPT !.locking = TRUE]
GivenUp(x)    == [x EXCEPT !.locking = FALSE, !.blocked = TRUE]
Hovered(x)    == [x EXCEPT !.own = x.champion, !.hovered = TRUE]
Chooses(x, c) == [x EXCEPT !.champion = c, !.own = NoChampion, !.hovered = FALSE]
Restarted(x)  == [NoAttempt EXCEPT !.act = x.act, !.role = x.role]

LEMMA AttemptEdits ==
  /\ NoAttempt \in Attempts
  /\ \A x \in Attempts :
       /\ Blocked(x) \in Attempts /\ Locking(x) \in Attempts /\ GivenUp(x) \in Attempts
       /\ Hovered(x) \in Attempts /\ Restarted(x) \in Attempts
       /\ \A c \in Choices : Chooses(x, c) \in Attempts
<1>1. NoAttempt \in Attempts
  BY DEF Attempts, NoAttempt, Choices
<1>2. ASSUME NEW x \in Attempts
      PROVE  Blocked(x) \in Attempts /\ Locking(x) \in Attempts /\ GivenUp(x) \in Attempts
  BY <1>2 DEF Attempts, Blocked, Locking, GivenUp
<1>3. ASSUME NEW x \in Attempts PROVE Hovered(x) \in Attempts
  BY <1>3 DEF Attempts, Hovered
<1>4. ASSUME NEW x \in Attempts PROVE Restarted(x) \in Attempts
  BY <1>1, <1>4 DEF Attempts, Restarted
<1>5. ASSUME NEW x \in Attempts, NEW c \in Choices PROVE Chooses(x, c) \in Attempts
  BY <1>5 DEF Attempts, Chooses, Choices
<1> QED
  BY <1>1, <1>2, <1>3, <1>4, <1>5

LEMMA BenchEdits ==
  \A x \in Benches :
    /\ \A c \in Champions \cup {NoChampion} : [x EXCEPT !.asked = c] \in Benches
    /\ \A c \in Champions : [x EXCEPT !.tried = @ \cup {c}] \in Benches
BY DEF Benches

LEMMA InitType == Init => TypeOK
<1> SUFFICES ASSUME Init PROVE TypeOK
  OBVIOUS
<1>1. attempt \in Attempts
  BY AttemptEdits DEF Init
<1>2. aram \in Benches
  BY DEF Init, Benches
<1>3. seen \in Sights
  BY DEF Init, Unseen, Sights
<1>4. rejected \in BOOLEAN /\ raced \in BOOLEAN
  BY DEF Init
<1> QED
  BY <1>1, <1>2, <1>3, <1>4 DEF Init, TypeOK, TypeLeague, TypeDraft, TypeHistory, Choices,
                                Acts, Places

(* What does not change keeps its type.                                    *)
LEMMA LeagueKept == TypeLeague /\ UNCHANGED league => TypeLeague'
BY DEF TypeLeague, league

LEMMA DraftKept == TypeDraft /\ UNCHANGED draft => TypeDraft'
BY Zenon DEF TypeDraft, draft

LEMMA HistoryKept == TypeHistory /\ UNCHANGED history => TypeHistory'
BY Zenon DEF TypeHistory, history

(* A hover or a lock that League applies, and a swap.                      *)
LEMMA RequestType ==
  ASSUME TypeOK, RequestArrives
  PROVE  TypeLeague' /\ TypeHistory'
<1> PICK r \in inflight : Applied(r) /\ inflight' \subseteq inflight
  BY DEF RequestArrives, InTime
<1>1. r.champion \in Choices
  BY DEF TypeOK, TypeLeague, Requests
<1>2. UNCHANGED <<kind, timer, role, taken, raced, locks>>
  BY DEF RequestArrives
<1>3. /\ turn' \in Acts \cup {"over"} /\ at' \in {"waiting", "listed", "active"}
      /\ shown' \in [Acts -> Choices]
      /\ member' \in Champions \cup {NoChampion} /\ bench' \subseteq Champions
  <2>1. /\ turn \in Acts \cup {"over"} /\ at \in {"waiting", "listed", "active"}
        /\ shown \in [Acts -> Choices]
        /\ member \in Champions \cup {NoChampion} /\ bench \subseteq Champions
    BY DEF TypeOK, TypeLeague
  <2>2. CASE UNCHANGED <<turn, at>>
    <3>1. shown' \in [Acts -> Choices]
      BY <1>1, <2>1 DEF Applied
    <3>2. member' \in Champions \cup {NoChampion} /\ bench' \subseteq Champions
      BY <2>1 DEF Applied, Swapped
    <3> QED
      BY <2>1, <2>2, <3>1, <3>2
  <2>3. CASE ~UNCHANGED <<turn, at>>
    <3>1. /\ shown' = [shown EXCEPT ![turn] = r.champion]
          /\ turn' = AfterTurn /\ at' = "waiting" /\ UNCHANGED <<member, bench>>
      BY <2>3 DEF Applied
    <3>2. turn' \in Acts \cup {"over"}
      BY <3>1 DEF AfterTurn, Acts
    <3>3. shown' \in [Acts -> Choices]
      BY <1>1, <2>1, <3>1
    <3> QED
      BY <2>1, <3>1, <3>2, <3>3
  <2> QED
    BY <2>2, <2>3
<1>4. /\ owner' \in [Acts -> {"none", "riftops", "late", "player"}]
      /\ dealer' \in {"none", "riftops", "player"}
  BY DEF Applied, TypeOK, TypeHistory
<1>5. TypeLeague'
  BY <1>2, <1>3 DEF TypeOK, TypeLeague
<1>6. raced' \in BOOLEAN
  BY <1>2, Zenon DEF TypeOK, TypeHistory
<1>7. locks' \in [Acts -> 0 .. 2]
  BY <1>2 DEF TypeOK, TypeHistory
<1> QED
  BY <1>4, <1>5, <1>6, <1>7 DEF TypeHistory

LEMMA EnvironmentType == TypeOK /\ Environment => TypeOK'
<1> SUFFICES ASSUME TypeOK, Environment PROVE TypeLeague' /\ TypeDraft' /\ TypeHistory'
  BY DEF TypeOK
<1>1. TypeDraft'
  <2>1. UNCHANGED draft
    BY DEF Environment, LeagueMoves, TurnEnds, TeamMoves, PlayerHovers, PlayerDeclares,
           PlayerSwaps, RequestArrives
  <2> QED
    BY <2>1, DraftKept DEF TypeOK
<1>2. CASE LeagueMoves \/ TurnEnds \/ TeamMoves \/ PlayerDeclares
  <2>1. TypeLeague'
    <3> USE DEF TypeOK, TypeLeague
    <3>1. CASE LeagueMoves
      BY <3>1 DEF LeagueMoves
    <3>2. CASE TurnEnds
      BY <3>2 DEF TurnEnds, InTime, AfterTurn, Acts
    <3>3. CASE TeamMoves
      BY <3>3 DEF TeamMoves
    <3>4. CASE PlayerDeclares
      BY <3>4 DEF PlayerDeclares
    <3> QED
      BY <1>2, <3>1, <3>2, <3>3, <3>4
  <2>2. UNCHANGED history
    BY <1>2 DEF LeagueMoves, TurnEnds, TeamMoves, PlayerDeclares
  <2> QED
    BY <1>1, <2>1, <2>2, HistoryKept DEF TypeOK
<1>3. CASE PlayerHovers
  <2>1. TypeLeague'
    <3>1. \E c \in Champions \cup {Bravery} : shown' = [shown EXCEPT ![turn] = c]
      BY <1>3 DEF PlayerHovers
    <3>2. shown' \in [Acts -> Choices]
      BY <3>1 DEF TypeOK, TypeLeague, Choices
    <3>3. UNCHANGED <<kind, turn, at, timer, role, member, taken, bench, inflight>>
      BY <1>3 DEF PlayerHovers
    <3> QED
      BY <3>2, <3>3 DEF TypeOK, TypeLeague
  <2>2. TypeHistory'
    BY <1>3 DEF PlayerHovers, TypeOK, TypeHistory
  <2> QED
    BY <1>1, <2>1, <2>2
<1>4. CASE PlayerSwaps
  <2>1. TypeLeague'
    <3>1. member' \in Champions /\ bench' \subseteq Champions
      BY <1>4 DEF PlayerSwaps, Swapped, TypeOK, TypeLeague
    <3> QED
      BY <1>4, <3>1 DEF PlayerSwaps, TypeOK, TypeLeague
  <2>2. TypeHistory'
    BY <1>4 DEF PlayerSwaps, TypeOK, TypeHistory
  <2> QED
    BY <1>1, <2>1, <2>2
<1>5. CASE RequestArrives
  BY <1>1, <1>5, RequestType
<1> QED
  BY <1>2, <1>3, <1>4, <1>5 DEF Environment

(* What a poll does to RiftOps' own state.                                 *)
LEMMA PollType == TypeOK /\ Poll => TypeOK'
<1> SUFFICES ASSUME TypeOK, Poll PROVE TypeLeague' /\ TypeDraft' /\ TypeHistory'
  BY DEF TypeOK
<1>1. UNCHANGED league /\ UNCHANGED <<rejected, owner, dealer, locks>> /\ raced' = FALSE
  BY DEF Poll, Reads
<1>2. BenchSeen \in Benches
  BY BenchSeenType
<1>3. Unseen \in Sights /\ attempt \in Attempts /\ aram \in Benches /\ seen \in Sights
      /\ manual \subseteq Acts /\ pc \in Places
  BY DEF Unseen, Sights, TypeOK, TypeDraft
<1>4. Actionable => turn \in Acts /\ CurrentAttempt \in Attempts
  BY CurrentType DEF Actionable, TypeOK, TypeLeague
<1>5. attempt' \in Attempts
  BY <1>3, <1>4 DEF Poll, PollBench, PollManual, PollWaits, PollProceeds
<1>6. manual' \subseteq Acts /\ pc' \in Places
  BY <1>3, <1>4 DEF Poll, PollBench, PollManual, PollWaits, PollProceeds, Places
<1>7. aram' \in Benches
  <2>1. CASE PollBench
    <3>1. BenchSeen.manual \/ BenchTarget \in Champions
      BY <2>1, TargetType DEF PollBench, BenchActs
    <3> QED
      BY <1>2, <2>1, <3>1, BenchEdits DEF PollBench
  <2> QED
    BY <1>2, <2>1 DEF Poll, PollManual, PollWaits, PollProceeds
<1>8. seen' \in Sights
  <2>1. [Unseen EXCEPT !.target = BenchTarget] \in Sights
    BY <1>3, TargetType DEF Sights
  <2>2. [Unseen EXCEPT !.taken = taken \cup {shown[a] : a \in Acts \ {turn}},
                       !.banPick = (timer = "BAN_PICK"), !.active = (at = "active")] \in Sights
    <3>1. \A t \in SUBSET Choices, b1, b2 \in BOOLEAN :
            [Unseen EXCEPT !.taken = t, !.banPick = b1, !.active = b2] \in Sights
      BY <1>3 DEF Sights
    <3>2. taken \cup {shown[a] : a \in Acts \ {turn}} \in SUBSET Choices
      BY DEF TypeOK, TypeLeague, Choices
    <3>3. (timer = "BAN_PICK") \in BOOLEAN /\ (at = "active") \in BOOLEAN
      OBVIOUS
    <3> QED
      BY <3>1, <3>2, <3>3
  <2> QED
    BY <1>3, <2>1, <2>2 DEF Poll, PollBench, PollManual, PollWaits, PollProceeds
<1>9. rejected' \in BOOLEAN
  BY <1>1, Zenon DEF TypeOK, TypeDraft
<1>10. TypeHistory'
  BY <1>1 DEF TypeOK, TypeHistory
<1> QED
  BY <1>1, <1>5, <1>6, <1>7, <1>8, <1>9, <1>10, LeagueKept DEF TypeOK, TypeDraft

LEMMA FetchType ==
  ASSUME TypeOK, Attempted, FetchAvailability
  PROVE  attempt' \in Attempts /\ pc' \in Places /\ seen' \in Sights
<1> PICK list \in Lists : \E c \in Candidates(list) :
      IF c = NoChampion \/ (list = {} /\ kind # "arena")
        THEN pc' = "idle" /\ UNCHANGED attempt
        ELSE /\ attempt' = (IF attempt.champion = c THEN attempt
                            ELSE [attempt EXCEPT !.champion = c, !.own = NoChampion,
                                                 !.hovered = FALSE])
             /\ pc' \in {"idle", "hover", "recheck", "refetch"}
  BY DEF FetchAvailability
<1>1. attempt.act \in Acts /\ attempt \in Attempts
  BY DEF FetchAvailability, Attempted, TypeOK, TypeDraft
<1>2. attempt' \in Attempts
  <2> PICK c \in Candidates(list) :
        attempt' = attempt \/ attempt' = Chooses(attempt, c)
    BY DEF Chooses
  <2>1. c \in Choices
    BY <1>1, CandidatesType
  <2>2. Chooses(attempt, c) \in Attempts
    BY <1>1, <2>1, AttemptEdits
  <2> QED
    BY <1>1, <2>2
<1>3. pc' \in Places
  BY DEF Places
<1>4. seen' = Unseen
  BY DEF FetchAvailability
<1> QED
  BY <1>2, <1>3, <1>4 DEF Unseen, Sights

(* What the answers do to an attempt.                                      *)
LEMMA AnswerEdits ==
  /\ ObserveSubmittedLock => attempt' = NoAttempt \/ attempt' = GivenUp(attempt)
  /\ HoverAndConfirm =>
       attempt' \in {Hovered(attempt), Blocked(attempt), Restarted(attempt)}
  /\ ExecuteSpecialPick => attempt' \in {attempt, Blocked(attempt), Restarted(attempt)}
  /\ LockAfterRefetch => attempt' \in {attempt, Locking(attempt)}
  /\ ConfirmLock => attempt' \in {attempt, GivenUp(attempt)}
BY DEF ObserveSubmittedLock, HoverAndConfirm, ExecuteSpecialPick, LockAfterRefetch,
       ConfirmLock, NotConfirmed, RejectBravery, Hovered, Blocked, Locking, GivenUp, Restarted

LEMMA StepType == TypeOK /\ Attempted /\ Step => TypeOK'
<1> SUFFICES ASSUME TypeOK, Attempted, Step PROVE TypeLeague' /\ TypeDraft' /\ TypeHistory'
  BY DEF TypeOK
<1>1. attempt \in Attempts /\ aram \in Benches /\ seen \in Sights /\ manual \subseteq Acts
  BY DEF TypeOK, TypeDraft
<1>2. Unseen \in Sights
  BY DEF Unseen, Sights
<1>3. CASE Poll
  BY <1>3, PollType DEF TypeOK
<1>4. CASE ObserveSubmittedLock \/ HoverAndConfirm \/ ExecuteSpecialPick \/ LockAfterRefetch
             \/ ConfirmLock
  <2>1. attempt' \in Attempts
    BY <1>1, <1>4, AnswerEdits, AttemptEdits
  <2>2. pc' \in Places /\ manual' \subseteq Acts /\ aram' \in Benches /\ seen' \in Sights
    BY <1>1, <1>4 DEF ObserveSubmittedLock, HoverAndConfirm, ExecuteSpecialPick,
          LockAfterRefetch, ConfirmLock, NotConfirmed, Attempted, Places
  <2>3. rejected' \in BOOLEAN
    BY <1>4, Zenon DEF ObserveSubmittedLock, HoverAndConfirm, ExecuteSpecialPick,
          LockAfterRefetch, ConfirmLock, NotConfirmed, RejectBravery, TypeOK, TypeDraft
  <2>4. UNCHANGED league
    BY <1>4 DEF ObserveSubmittedLock, HoverAndConfirm, ExecuteSpecialPick,
          LockAfterRefetch, ConfirmLock, Reads
  <2>5. TypeHistory'
    <3>1. owner' \in [Acts -> {"none", "riftops", "late", "player"}]
      BY <1>4 DEF ObserveSubmittedLock, HoverAndConfirm, ExecuteSpecialPick,
          LockAfterRefetch, ConfirmLock, Reads, TypeOK, TypeHistory
    <3>2. dealer' = dealer /\ locks' = locks
      BY <1>4 DEF ObserveSubmittedLock, HoverAndConfirm, ExecuteSpecialPick,
          LockAfterRefetch, ConfirmLock, Reads
    <3>3. raced' \in BOOLEAN
      BY <1>4, Zenon DEF ObserveSubmittedLock, HoverAndConfirm, ExecuteSpecialPick,
          LockAfterRefetch, ConfirmLock, Reads, TypeOK, TypeHistory
    <3> QED
      BY <3>1, <3>2, <3>3 DEF TypeOK, TypeHistory
  <2> QED
    BY <2>1, <2>2, <2>3, <2>4, <2>5, LeagueKept DEF TypeOK, TypeDraft
<1>5. CASE SwapBenchChampion
  <2>1. TypeLeague'
    BY <1>1, <1>5 DEF SwapBenchChampion, Requests, Sights, Choices, TypeOK, TypeLeague
  <2>2. aram' \in Benches
    BY <1>1, <1>5, BenchEdits DEF SwapBenchChampion, Sights
  <2>3. rejected' \in BOOLEAN
    BY <1>5, Zenon DEF SwapBenchChampion, TypeOK, TypeDraft
  <2>4. TypeDraft'
    BY <1>1, <1>2, <1>5, <2>2, <2>3 DEF SwapBenchChampion, TypeDraft, Places
  <2> QED
    BY <1>5, <2>1, <2>4, HistoryKept DEF SwapBenchChampion, TypeOK
<1>6. CASE FetchAvailability
  <2>1. UNCHANGED <<league, manual, rejected, aram, history>>
    BY <1>6 DEF FetchAvailability
  <2>2. rejected' \in BOOLEAN
    BY <2>1, Zenon DEF TypeOK, TypeDraft
  <2> QED
    BY <1>1, <1>6, <2>1, <2>2, FetchType, LeagueKept, HistoryKept DEF TypeOK, TypeDraft
<1>7. CASE Hover \/ SubmitLock
  <2>1. UNCHANGED <<attempt, manual, rejected, aram, seen>> /\ pc' \in {"confirm", "confirmLock"}
    BY <1>7 DEF Hover, SubmitLock
  <2>2. rejected' \in BOOLEAN
    BY <2>1, Zenon DEF TypeOK, TypeDraft
  <2>3. TypeDraft'
    BY <1>1, <2>1, <2>2 DEF TypeDraft, Places
  <2>4. TypeLeague'
    <3>1. inflight' \subseteq Requests
      BY <1>1, <1>7 DEF Hover, SubmitLock, Send, Requests, Attempts, TypeOK, TypeLeague
    <3> QED
      BY <1>7, <3>1 DEF Hover, SubmitLock, TypeOK, TypeLeague
  <2>5. TypeHistory'
    <3>1. UNCHANGED <<owner, dealer, raced>>
      BY <1>7 DEF Hover, SubmitLock, history
    <3>2. raced' \in BOOLEAN
      BY <3>1, Zenon DEF TypeOK, TypeHistory
    <3>3. locks' \in [Acts -> 0 .. 2]
      BY <1>7 DEF Hover, SubmitLock, history, TypeOK, TypeHistory
    <3> QED
      BY <3>1, <3>2, <3>3 DEF TypeOK, TypeHistory
  <2> QED
    BY <2>3, <2>4, <2>5
<1> QED
  BY <1>3, <1>4, <1>5, <1>6, <1>7 DEF Step

-----------------------------------------------------------------------------
(* What the steps do, in the terms of the invariant.                       *)

(* What an edited attempt keeps and what it sets.                          *)
LEMMA EditFields ==
  /\ ~NoAttempt.hovered /\ ~NoAttempt.blocked /\ ~NoAttempt.locking
  /\ NoAttempt.act = "none" /\ NoAttempt.role = NoRole
  /\ NoAttempt.champion = NoChampion /\ NoAttempt.own = NoChampion
  /\ \A x \in Attempts :
       /\ \A y \in {Blocked(x), Locking(x), GivenUp(x)} :
            /\ y.act = x.act /\ y.role = x.role /\ y.champion = x.champion /\ y.own = x.own
            /\ y.hovered <=> x.hovered
       /\ Blocked(x).blocked /\ (Blocked(x).locking <=> x.locking)
       /\ Locking(x).locking /\ (Locking(x).blocked <=> x.blocked)
       /\ GivenUp(x).blocked /\ ~GivenUp(x).locking
       /\ Hovered(x).act = x.act /\ Hovered(x).role = x.role
       /\ Hovered(x).champion = x.champion /\ Hovered(x).own = x.champion
       /\ Hovered(x).hovered
       /\ (Hovered(x).blocked <=> x.blocked) /\ (Hovered(x).locking <=> x.locking)
       /\ Restarted(x).act = x.act /\ Restarted(x).role = x.role
       /\ Restarted(x).champion = NoChampion /\ Restarted(x).own = NoChampion
       /\ ~Restarted(x).hovered /\ ~Restarted(x).blocked /\ ~Restarted(x).locking
       /\ \A c \in Choices :
            /\ Chooses(x, c).act = x.act /\ Chooses(x, c).role = x.role
            /\ Chooses(x, c).champion = c /\ Chooses(x, c).own = NoChampion
            /\ ~Chooses(x, c).hovered
            /\ Chooses(x, c).blocked <=> x.blocked
            /\ Chooses(x, c).locking <=> x.locking
BY DEF Attempts, NoAttempt, Blocked, Locking, GivenUp, Hovered, Chooses, Restarted

Takes   == Intent(turn) \in Champions /\ Intent(turn) # CurrentAttempt.own
Rests ==
  /\ attempt' = attempt /\ manual' = manual
  /\ pc' = "idle" \/ (pc' = "swap" /\ kind = "aram")
Resumes ==
  /\ Actionable /\ attempt' = CurrentAttempt /\ pc' = "idle"
  /\ \/ turn \in manual /\ manual' = manual
     \/ CurrentAttempt.blocked /\ ~Takes /\ manual' = manual
     \/ Takes /\ manual' = manual \cup {turn}
Proceeds ==
  /\ Actionable /\ attempt' = CurrentAttempt /\ pc' = "fetch" /\ manual' = manual
  /\ turn \notin manual /\ ~Takes /\ ~CurrentAttempt.blocked
  /\ seen'.active <=> at = "active"

LEMMA PollEdits ==
  ASSUME TypeOK, Poll
  PROVE  /\ pc = "idle" /\ ~attempt.locking
         /\ UNCHANGED <<league, rejected, owner, dealer, locks>> /\ raced' = FALSE
         /\ Rests \/ Resumes \/ Proceeds
<1>1. /\ pc = "idle" /\ ~attempt.locking
      /\ UNCHANGED <<league, rejected, owner, dealer, locks>> /\ raced' = FALSE
  BY DEF Poll, Reads
<1>2. Rests \/ Resumes \/ Proceeds
  <2>1. CASE PollBench
    BY <1>1, <2>1 DEF PollBench, BenchActs, Rests
  <2>2. CASE PollManual
    BY <1>1, <2>2 DEF PollManual, Resumes, Takes
  <2>3. CASE PollWaits
    <3>1. manual' = manual /\ pc' = "idle"
      BY <1>1, <2>3 DEF PollWaits
    <3>2. CASE Actionable
      <4>1. /\ turn \in manual \/ (CurrentAttempt.blocked /\ ~Takes)
            /\ attempt' = CurrentAttempt
        BY <2>3, <3>2 DEF PollWaits, Takes
      <4> QED
        BY <3>1, <3>2, <4>1 DEF Resumes
    <3>3. CASE ~Actionable
      <4>1. attempt' = attempt
        BY <2>3, <3>3 DEF PollWaits
      <4> QED
        BY <3>1, <4>1 DEF Rests
    <3> QED
      BY <3>2, <3>3
  <2>4. CASE PollProceeds
    <3>1. seen'.active <=> at = "active"
      BY <2>4 DEF PollProceeds, Unseen
    <3>2. /\ Actionable /\ attempt' = CurrentAttempt /\ pc' = "fetch" /\ manual' = manual
          /\ turn \notin manual /\ ~Takes /\ ~CurrentAttempt.blocked
      BY <2>4 DEF PollProceeds, Takes
    <3> QED
      BY <3>1, <3>2 DEF Proceeds
  <2> QED
    BY <2>1, <2>2, <2>3, <2>4 DEF Poll
<1> QED
  BY <1>1, <1>2

(* What becomes of the choice c.                                           *)
Fetches(c) ==
  /\ \/ attempt.champion = c /\ attempt' = attempt
     \/ attempt.champion # c /\ attempt' = Chooses(attempt, c)
  /\ \/ pc' = "idle" /\ ((attempt.champion = c /\ attempt.hovered) \/ (Special /\ ~seen.active))
     \/ /\ pc' = "hover" /\ ~(attempt.champion = c /\ attempt.hovered)
        /\ Special => seen.active
     \/ /\ pc' \in {"recheck", "refetch"} /\ attempt.champion = c /\ attempt.hovered
        /\ Special => seen.active

LEMMA FetchEdits ==
  ASSUME TypeOK, Attempted, FetchAvailability
  PROVE  /\ pc = "fetch" /\ attempt.act \in Acts
         /\ UNCHANGED <<league, manual, rejected, aram, history>>
         /\ \/ pc' = "idle" /\ attempt' = attempt
            \/ \E c \in Champions \cup {Bravery} :
                 /\ kind = "draft" \/ attempt.act = "ban" => c \in Champions
                 /\ Fetches(c)
<1>1. pc = "fetch" /\ UNCHANGED <<league, manual, rejected, aram, history>>
  BY DEF FetchAvailability
<1>2. attempt.act \in Acts /\ attempt \in Attempts
  BY <1>1 DEF Attempted, TypeOK, TypeDraft
<1> PICK list \in Lists : \E c \in Candidates(list) :
       IF c = NoChampion \/ (list = {} /\ kind # "arena")
         THEN pc' = "idle" /\ UNCHANGED attempt
         ELSE LET next == IF attempt.champion = c THEN attempt
                          ELSE [attempt EXCEPT !.champion = c, !.own = NoChampion,
                                               !.hovered = FALSE]
              IN /\ attempt' = next
                 /\ pc' \in IF Special /\ ~seen.active THEN {"idle"}
                           ELSE IF ~next.hovered THEN {"hover"}
                           ELSE IF Special THEN {"recheck"}
                           ELSE IF seen.banPick /\ seen.active THEN {"idle", "refetch"}
                           ELSE {"idle"}
  BY DEF FetchAvailability
<1> PICK c \in Candidates(list) :
       IF c = NoChampion \/ (list = {} /\ kind # "arena")
         THEN pc' = "idle" /\ UNCHANGED attempt
         ELSE LET next == IF attempt.champion = c THEN attempt ELSE Chooses(attempt, c)
              IN /\ attempt' = next
                 /\ pc' \in IF Special /\ ~seen.active THEN {"idle"}
                           ELSE IF ~next.hovered THEN {"hover"}
                           ELSE IF Special THEN {"recheck"}
                           ELSE IF seen.banPick /\ seen.active THEN {"idle", "refetch"}
                           ELSE {"idle"}
  BY DEF Chooses
<1>3. c \in Choices /\ (kind = "draft" \/ attempt.act = "ban" => c \in Champions \cup {NoChampion})
  BY <1>2, CandidatesType
<1>4. ~Chooses(attempt, c).hovered
  BY <1>2, <1>3, EditFields
<1>5. CASE c = NoChampion \/ (list = {} /\ kind # "arena")
  BY <1>1, <1>2, <1>5
<1>6. CASE ~(c = NoChampion \/ (list = {} /\ kind # "arena"))
  <2>1. Fetches(c)
    BY <1>4, <1>6 DEF Fetches
  <2> QED
    BY <1>1, <1>2, <1>3, <1>6, <2>1 DEF Choices
<1> QED
  BY <1>5, <1>6

(* League, the team and the player leave RiftOps' state alone, only go     *)
(* forward, and assign lanes only in a draft.                              *)
LEMMA EnvironmentFrame ==
  ASSUME Environment
  PROVE  /\ UNCHANGED draft /\ UNCHANGED <<kind, locks>>
         /\ turn' = turn \/ turn' = AfterTurn
         /\ role' = role \/ kind = "draft"
         /\ inflight' \subseteq inflight
         /\ raced' = raced \/ raced' = TRUE
<1> USE DEF draft, history
<1>1. CASE TurnEnds
  BY <1>1 DEF TurnEnds, InTime
<1>2. CASE RequestArrives
  <2>1. inflight' \subseteq inflight
    BY <1>2 DEF RequestArrives, InTime
  <2> QED
    BY <1>2, <2>1 DEF RequestArrives, Applied
<1> QED
  BY <1>1, <1>2 DEF Environment, LeagueMoves, TeamMoves, PlayerHovers, PlayerDeclares,
                    PlayerSwaps

(* Where the other steps go, and that they read League or send to it.      *)
LEMMA StepMoves ==
  /\ ObserveSubmittedLock =>
       /\ pc = "idle" /\ pc' = "idle" /\ attempt.locking
       /\ turn # attempt.act => attempt' = NoAttempt
       /\ turn = attempt.act => attempt' = GivenUp(attempt)
  /\ SwapBenchChampion =>
       pc = "swap" /\ pc' = "idle" /\ UNCHANGED attempt
  /\ Hover => pc = "hover" /\ pc' = "confirm" /\ UNCHANGED <<attempt, locks>> /\ Send("hover")
  /\ HoverAndConfirm =>
       /\ pc = "confirm"
       /\ \/ /\ attempt' = Hovered(attempt) /\ Intent(attempt.act) = attempt.champion
             /\ pc' = IF Special THEN "recheck" ELSE "idle"
             /\ owner' = [owner EXCEPT ![attempt.act] = "riftops"]
          \/ /\ UNCHANGED owner /\ pc' = "idle"
             /\ IF kind = "arena" /\ attempt.champion = Bravery
                  THEN attempt' = Restarted(attempt) ELSE attempt' = Blocked(attempt)
  /\ ExecuteSpecialPick =>
       /\ pc = "recheck"
       /\ \/ pc' \in {"idle", "refetch"} /\ UNCHANGED attempt
          \/ /\ pc' = "idle"
             /\ IF kind = "arena" /\ attempt.champion = Bravery
                  THEN attempt' = Restarted(attempt) ELSE attempt' = Blocked(attempt)
  /\ LockAfterRefetch =>
       /\ pc = "refetch"
       /\ \/ pc' = "idle" /\ UNCHANGED attempt
          \/ /\ pc' = "lock" /\ attempt' = Locking(attempt)
             /\ Intent(attempt.act) \in {NoChampion, attempt.champion} /\ raced' = FALSE
  /\ SubmitLock => pc = "lock" /\ pc' = "confirmLock" /\ UNCHANGED attempt /\ Send("lock")
  /\ ConfirmLock =>
       /\ pc = "confirmLock" /\ pc' = "idle"
       /\ attempt' = attempt \/ attempt' = GivenUp(attempt)
BY DEF ObserveSubmittedLock, SwapBenchChampion, Hover, HoverAndConfirm, ExecuteSpecialPick,
       LockAfterRefetch, SubmitLock, ConfirmLock, NotConfirmed, RejectBravery, Reads,
       Hovered, Blocked, Locking, GivenUp, Restarted, history

LEMMA StepFrame ==
  /\ ObserveSubmittedLock \/ HoverAndConfirm \/ ExecuteSpecialPick \/ LockAfterRefetch
       \/ ConfirmLock => UNCHANGED <<league, locks, dealer, aram, seen>>
  /\ ObserveSubmittedLock \/ ExecuteSpecialPick \/ LockAfterRefetch \/ ConfirmLock =>
       UNCHANGED owner
  /\ ObserveSubmittedLock \/ HoverAndConfirm \/ ExecuteSpecialPick \/ ConfirmLock
       \/ SwapBenchChampion \/ Hover \/ SubmitLock => UNCHANGED manual
  /\ LockAfterRefetch => manual \subseteq manual'
  /\ SwapBenchChampion \/ Hover \/ SubmitLock =>
       UNCHANGED <<kind, turn, at, role, shown, member, owner, dealer, raced>>
  /\ Hover \/ SubmitLock => UNCHANGED <<aram, seen>>
  /\ SwapBenchChampion => UNCHANGED locks
BY DEF ObserveSubmittedLock, SwapBenchChampion, Hover, HoverAndConfirm, ExecuteSpecialPick,
       LockAfterRefetch, SubmitLock, ConfirmLock, Reads, history

-----------------------------------------------------------------------------
(* The strengthening.                                                      *)

LEMMA AttemptedStep == ASSUME TypeOK, Attempted, Next PROVE Attempted'
<1>1. attempt \in Attempts /\ pc \in Places
  BY DEF TypeOK, TypeDraft
<1>2. CASE Environment
  BY <1>2, EnvironmentFrame DEF Attempted, AfterTurn, draft
<1>3. CASE Poll
  <2>1. attempt' = attempt \/ (turn \in Acts /\ attempt' = CurrentAttempt)
    BY <1>3, PollEdits DEF Rests, Resumes, Proceeds, Actionable, TypeOK, TypeLeague
  <2>2. pc' \in {"idle", "swap"} \/ (turn \in Acts /\ attempt' = CurrentAttempt)
    BY <1>3, PollEdits DEF Rests, Resumes, Proceeds, Actionable, TypeOK, TypeLeague
  <2>3. UNCHANGED <<kind, role, turn>>
    BY <1>3, PollEdits DEF league
  <2> QED
    BY <2>1, <2>2, <2>3, CurrentType DEF Attempted, Context, Acts
<1>4. CASE FetchAvailability
  <2>1. attempt'.act = attempt.act /\ attempt'.role = attempt.role
    BY <1>1, <1>4, FetchEdits, EditFields DEF Fetches, Choices
  <2>2. UNCHANGED <<kind, role, turn>> /\ attempt.act \in Acts
    BY <1>4, FetchEdits DEF league
  <2> QED
    BY <2>1, <2>2 DEF Attempted
<1>5. CASE ~(Environment \/ Poll \/ FetchAvailability)
  <2>1. /\ UNCHANGED <<kind, role, turn>>
        /\ \/ attempt'.act = attempt.act /\ attempt'.role = attempt.role
           \/ attempt'.act = "none" /\ attempt'.role = NoRole /\ pc' = "idle"
    BY <1>1, <1>5, StepMoves, StepFrame, EditFields DEF Next, Step, league
  <2>2. pc' \notin {"idle", "swap"} => pc \notin {"idle", "swap"}
    BY <1>5, StepMoves DEF Next, Step
  <2> QED
    BY <2>1, <2>2 DEF Attempted
<1> QED
  BY <1>2, <1>3, <1>4, <1>5 DEF Next

LEMMA UndecidedStep ==
  ASSUME TypeOK, Attempted, Undecided, LocksSettled, Next PROVE Undecided'
<1>1. attempt \in Attempts /\ pc \in Places
  BY DEF TypeOK, TypeDraft
<1>2. CASE Environment
  BY <1>2, EnvironmentFrame DEF Undecided, draft
<1>3. CASE Poll
  <2>1. CASE Rests \/ Resumes
    BY <2>1 DEF Undecided, Rests, Resumes, Unlocked
  <2>2. CASE Proceeds
    <3>1. turn \in Acts /\ ~attempt.locking
      BY <1>3, <2>2, PollEdits DEF Proceeds, Actionable, TypeOK, TypeLeague
    <3>2. ~(attempt.act = turn /\ attempt.role = Context(turn)) /\ attempt.act = turn
            => kind = "draft" /\ CurrentAttempt.own = NoChampion
      BY <3>1, CurrentType DEF Attempted, Context, Acts, TypeOK, TypeLeague
    <3>3. ~Settled(turn)
      BY <2>2, <3>1, <3>2, CurrentType DEF Settled, Passed, Proceeds, Takes, Acts
    <3>4. locks[turn] = 0
      BY <3>1, <3>3 DEF LocksSettled
    <3> QED
      BY <1>3, <2>2, <3>1, <3>4, PollEdits, CurrentType DEF Undecided, Unlocked, Proceeds
  <2> QED
    BY <1>3, <2>1, <2>2, PollEdits
<1>4. CASE FetchAvailability
  <2>1. /\ attempt'.act = attempt.act /\ pc = "fetch"
        /\ pc' \in {"idle", "hover", "recheck", "refetch"}
        /\ attempt'.blocked <=> attempt.blocked
        /\ attempt'.locking <=> attempt.locking
        /\ UNCHANGED locks
    BY <1>1, <1>4, FetchEdits, EditFields DEF Fetches, Choices, history
  <2> QED
    BY <2>1 DEF Undecided, Unlocked
<1>5. CASE SubmitLock
  BY <1>5, StepMoves DEF Undecided, Unlocked
<1>6. CASE ~(Environment \/ Poll \/ FetchAvailability \/ SubmitLock)
  <2>1. /\ UNCHANGED locks
        /\ \/ pc' = "idle"
           \/ /\ pc \in {"hover", "confirm", "recheck"} /\ pc' \in {"confirm", "recheck", "refetch"}
              /\ attempt'.act = attempt.act
              /\ attempt'.blocked <=> attempt.blocked
              /\ attempt'.locking <=> attempt.locking
           \/ /\ pc = "refetch" /\ pc' = "lock" /\ attempt'.locking
              /\ attempt'.act = attempt.act
              /\ attempt'.blocked <=> attempt.blocked
    BY <1>1, <1>6, StepMoves, StepFrame, EditFields DEF Next, Step
  <2> QED
    BY <2>1 DEF Undecided, Unlocked
<1> QED
  BY <1>2, <1>3, <1>4, <1>5, <1>6

(* Who may change what an action shows: the player, or a request.          *)
PlayerChose(a) ==
  /\ turn = a /\ at # "waiting" /\ raced' = TRUE
  /\ shown'[a] \in Champions \/ (shown'[a] = Bravery /\ kind = "arena")
  /\ owner'[a] = IF attempt.act = a /\ shown'[a] = attempt.own THEN "riftops" ELSE "player"

RequestChose(a) ==
  /\ turn = a
  /\ \E r \in inflight :
       /\ r.act = a /\ shown'[a] = r.champion /\ shown[a] # r.champion
       /\ owner'[a] = IF r.champion = attempt.champion THEN "riftops" ELSE "late"

LEMMA Choice ==
  ASSUME TypeOK, Environment, NEW a \in Acts
  PROVE  \/ shown'[a] = shown[a] /\ owner'[a] = owner[a]
         \/ PlayerChose(a) \/ RequestChose(a)
<1>1. DOMAIN shown = Acts /\ DOMAIN owner = Acts
  BY DEF TypeOK, TypeLeague, TypeHistory
<1>2. CASE PlayerHovers
  <2> PICK c \in Champions \cup (IF kind = "arena" /\ turn = "pick" THEN {Bravery} ELSE {}) :
        /\ shown' = [shown EXCEPT ![turn] = c]
        /\ owner' = [owner EXCEPT ![turn] =
                       IF attempt.act = turn /\ c = attempt.own THEN "riftops" ELSE "player"]
    BY <1>2 DEF PlayerHovers
  <2> QED
    BY <1>1, <1>2 DEF PlayerHovers, PlayerChose
<1>3. CASE RequestArrives
  <2> PICK r \in inflight : Applied(r)
    BY <1>3 DEF RequestArrives
  <2> QED
    BY <1>1 DEF Applied, RequestChose
<1>4. CASE ~(PlayerHovers \/ RequestArrives)
  BY <1>4 DEF Environment, LeagueMoves, TurnEnds, TeamMoves, PlayerDeclares, PlayerSwaps, history
<1> QED
  BY <1>2, <1>3, <1>4

(* In a draft, an action that shows a champion goes on doing so.           *)
LEMMA IntentKept ==
  ASSUME TypeOK, Chosen, kind = "draft", Environment, NEW a \in Acts
  PROVE  /\ shown'[a] # Bravery
         /\ Intent(a) \in Champions => Intent(a)' \in Champions
<1>1. member' = member \/ member' \in Champions
  BY DEF Environment, LeagueMoves, TurnEnds, TeamMoves, PlayerHovers, PlayerDeclares,
         PlayerSwaps, RequestArrives, Applied, Swapped
<1>2. shown'[a] = shown[a] \/ shown'[a] \in Champions
  <2>1. CASE PlayerChose(a)
    BY <2>1 DEF PlayerChose
  <2>2. CASE RequestChose(a)
    <3>1. \A q \in inflight : q.champion \in Champions
      BY DEF Chosen
    <3> QED
      BY <2>2, <3>1 DEF RequestChose
  <2>3. CASE shown'[a] = shown[a]
    BY <2>3
  <2> QED
    BY <2>1, <2>2, <2>3, Choice
<1>3. shown[a] \in Champions \cup {NoChampion}
  BY DEF Chosen, TypeOK, TypeLeague, Choices
<1>4. shown'[a] # Bravery
  BY <1>2, <1>3, Choice
<1>5. CASE shown'[a] = NoChampion
  <2>1. shown[a] = NoChampion
    BY <1>2, <1>5, Choice
  <2> QED
    BY <1>1, <1>4, <1>5, <2>1 DEF Intent
<1>6. CASE shown'[a] # NoChampion
  <2>1. shown'[a] \in Champions
    BY <1>2, <1>3, <1>6
  <2> QED
    BY <1>4, <1>6, <2>1 DEF Intent
<1> QED
  BY <1>5, <1>6

LEMMA ChosenStep == ASSUME TypeOK, Attempted, Chosen, Next PROVE Chosen'
<1>1. attempt \in Attempts /\ pc \in Places
  BY DEF TypeOK, TypeDraft
<1>2. SUFFICES ASSUME kind' = "draft"
               PROVE  /\ \A a \in Acts : shown'[a] # Bravery
                      /\ \A r \in inflight' : r.champion \in Champions
                      /\ pc' \in {"hover", "confirm"} \cup Sending =>
                           attempt'.champion \in Champions
                      /\ pc' \in Sending => attempt'.hovered
                      /\ attempt'.hovered =>
                           attempt'.act \in Acts /\ Intent(attempt.act)' \in Champions
                      /\ pc' # "swap"
  BY DEF Chosen, Sending
<1>3. CASE Environment
  <2>1. kind = "draft"
    BY <1>2, <1>3, EnvironmentFrame
  <2>2. UNCHANGED <<attempt, pc>> /\ inflight' \subseteq inflight
    BY <1>3, EnvironmentFrame DEF draft
  <2>3. Intent(attempt.act)' = IF shown'[attempt.act] # NoChampion THEN shown'[attempt.act]
                                                                  ELSE member'
    BY <2>2 DEF Intent
  <2>4. attempt.hovered => attempt.act \in Acts /\ Intent(attempt.act)' \in Champions
    <3> SUFFICES ASSUME attempt.hovered
                 PROVE  attempt.act \in Acts /\ Intent(attempt.act)' \in Champions
      OBVIOUS
    <3> DEFINE a == attempt.act
    <3>1. a \in Acts /\ Intent(a) \in Champions
      BY <2>1 DEF Chosen
    <3> HIDE DEF a
    <3>2. (IF shown'[a] # NoChampion THEN shown'[a] ELSE member') \in Champions
      BY <1>3, <2>1, <3>1, IntentKept DEF Intent
    <3> QED
      BY <2>3, <3>1, <3>2 DEF a
  <2>5. \A a \in Acts : shown'[a] # Bravery
    BY <1>3, <2>1, IntentKept
  <2> QED
    BY <2>1, <2>2, <2>4, <2>5 DEF Chosen, Sending
<1>4. CASE Step
  <2>1. kind = "draft"
    BY <1>2, <1>4, PollEdits, FetchEdits, StepFrame DEF Step, league
  <2>2. UNCHANGED <<shown, member>>
    BY <1>4, PollEdits, FetchEdits, StepFrame DEF Step, league
  <2>3. \A a \in Acts : shown'[a] # Bravery /\ Intent(a)' = Intent(a)
    BY <2>1, <2>2 DEF Chosen, Intent
  <2>4. \A r \in inflight' : r.champion \in Champions
    <3>1. CASE Hover \/ SubmitLock
      BY <2>1, <3>1, StepMoves DEF Send, Chosen, Sending
    <3>2. CASE ~(Hover \/ SubmitLock)
      <4>1. UNCHANGED inflight
        BY <1>4, <2>1, <3>2, PollEdits, FetchEdits, StepFrame, StepMoves DEF Step, league, Chosen
      <4> QED
        BY <2>1, <4>1 DEF Chosen
    <3> QED
      BY <3>1, <3>2
  <2>5. /\ pc' \in {"hover", "confirm"} \cup Sending => attempt'.champion \in Champions
        /\ pc' \in Sending => attempt'.hovered
        /\ attempt'.hovered => attempt'.act \in Acts /\ Intent(attempt'.act) \in Champions
        /\ pc' # "swap"
    <3> USE DEF Chosen, Sending
    <3>1. CASE Poll
      <4>1. CASE Rests
        BY <2>1, <1>1, <3>1, <4>1, PollEdits DEF Rests
      <4>2. CASE ~Rests
        <5>1. attempt' = CurrentAttempt /\ pc' \in {"idle", "fetch"} /\ turn \in Acts
          BY <3>1, <4>2, PollEdits DEF Resumes, Proceeds, Actionable, TypeOK, TypeLeague
        <5> QED
          BY <2>1, <5>1, CurrentType
      <4> QED
        BY <4>1, <4>2
    <3>2. CASE FetchAvailability
      BY <1>1, <2>1, <3>2, FetchEdits, EditFields DEF Fetches, Choices
    <3>3. CASE HoverAndConfirm
      <4>1. pc = "confirm" /\ attempt.act \in Acts /\ attempt.champion \in Champions
        BY <2>1, <3>3, StepMoves DEF Attempted
      <4>2. pc' = "idle"
        BY <2>1, <3>3, StepMoves DEF Special
      <4> QED
        BY <1>1, <2>1, <3>3, <4>1, <4>2, StepMoves, EditFields
    <3>4. CASE ObserveSubmittedLock \/ SwapBenchChampion \/ Hover \/ ExecuteSpecialPick
                 \/ LockAfterRefetch \/ SubmitLock \/ ConfirmLock
      BY <1>1, <2>1, <3>4, StepMoves, EditFields
    <3> QED
      BY <1>4, <3>1, <3>2, <3>3, <3>4 DEF Step
  <2>6. attempt'.hovered => Intent(attempt.act)' \in Champions
    <3>1. Intent(attempt.act)' = IF shown[attempt'.act] # NoChampion THEN shown[attempt'.act]
                                                                   ELSE member
      BY <2>2 DEF Intent
    <3> QED
      BY <2>5, <3>1 DEF Intent
  <2> QED
    BY <2>3, <2>4, <2>5, <2>6
<1> QED
  BY <1>3, <1>4 DEF Next

(* An action that was locked stays settled.                                *)
LEMMA LocksSettledStep ==
  ASSUME TypeOK, Attempted, Undecided, Chosen, LocksSettled, Next PROVE LocksSettled'
<1>1. attempt \in Attempts /\ pc \in Places /\ turn \in Acts \cup {"over"}
  BY DEF TypeOK, TypeDraft, TypeLeague
<1>2. CASE Environment
  <2> SUFFICES ASSUME NEW a \in Acts, locks[a] = 1, Settled(a) PROVE Settled(a)'
    BY <1>2, EnvironmentFrame DEF LocksSettled
  <2>1. UNCHANGED <<attempt, manual, kind>> /\ (turn' = turn \/ turn' = AfterTurn)
    BY <1>2, EnvironmentFrame DEF draft
  <2>2. Passed(a) => Passed(a)'
    BY <2>1 DEF Passed, AfterTurn
  <2>3. kind = "draft" /\ Intent(a) \in Champions => Intent(a)' \in Champions
    BY <1>2, IntentKept
  <2> QED
    BY <2>1, <2>2, <2>3 DEF Settled
<1>3. CASE Poll
  <2> SUFFICES ASSUME NEW a \in Acts, locks[a] = 1, Settled(a) PROVE Settled(a)'
    BY <1>3, PollEdits DEF LocksSettled
  <2>1. UNCHANGED <<kind, turn, shown, member>> /\ manual \subseteq manual' /\ ~attempt.locking
    BY <1>3, PollEdits DEF league, Rests, Resumes, Proceeds
  <2>2. (Passed(a)' <=> Passed(a)) /\ Intent(a)' = Intent(a)
    BY <2>1 DEF Passed, Intent
  <2>3. CASE Passed(a) \/ a \in manual \/ attempt' = attempt
    BY <2>1, <2>2, <2>3 DEF Settled
  <2>4. CASE ~Passed(a) /\ a \notin manual /\ attempt' # attempt
    <3>1. /\ attempt.act = a /\ attempt.blocked
          /\ kind = "draft" => Intent(a) \in Champions
      BY <2>1, <2>4 DEF Settled
    <3>2. turn = a /\ attempt' = CurrentAttempt
      <4>1. attempt' = CurrentAttempt /\ turn # "over"
        BY <1>3, <2>4, PollEdits DEF Rests, Resumes, Proceeds, Actionable
      <4>2. turn = a
        BY <1>1, <2>4, <3>1, <4>1 DEF Passed, Attempted, Acts
      <4> QED
        BY <4>1, <4>2
    <3>3. ~(attempt.role = Context(turn)) /\ CurrentAttempt.own = NoChampion
          /\ ~CurrentAttempt.blocked
      BY <2>4, <3>1, <3>2, CurrentType
    <3>4. kind = "draft"
      BY <3>1, <3>2, <3>3 DEF Attempted, Context
    <3>5. Takes
      BY <3>1, <3>2, <3>3, <3>4 DEF Takes
    <3>6. a \in manual'
      BY <1>3, <2>4, <3>2, <3>3, <3>5, PollEdits DEF Rests, Resumes, Proceeds
    <3> QED
      BY <3>6 DEF Settled
  <2> QED
    BY <2>3, <2>4
<1>4. CASE FetchAvailability
  <2>1. /\ attempt'.act = attempt.act /\ UNCHANGED <<kind, turn, shown, member, manual, locks>>
        /\ attempt'.blocked <=> attempt.blocked
        /\ attempt'.locking <=> attempt.locking
    BY <1>1, <1>4, FetchEdits, EditFields DEF Fetches, Choices, league, history
  <2> QED
    BY <2>1 DEF LocksSettled, Settled, Passed, Intent
<1>5. CASE ObserveSubmittedLock \/ ConfirmLock
  <2>1. UNCHANGED <<kind, turn, shown, member, manual, locks>>
    BY <1>5, StepFrame DEF league
  <2>2. \/ attempt' = NoAttempt /\ turn # attempt.act
        \/ attempt' = attempt
        \/ attempt'.act = attempt.act /\ attempt'.blocked
    BY <1>1, <1>5, StepMoves, EditFields
  <2> SUFFICES ASSUME NEW a \in Acts, locks[a] = 1, Settled(a) PROVE Settled(a)'
    BY <2>1 DEF LocksSettled
  <2>3. (Passed(a)' <=> Passed(a)) /\ Intent(a)' = Intent(a)
    BY <2>1 DEF Passed, Intent
  <2>4. attempt.act = a /\ turn # attempt.act => Passed(a)
    BY <1>1 DEF Attempted, Passed, Acts
  <2> QED
    BY <2>1, <2>2, <2>3, <2>4 DEF Settled
<1>6. CASE SwapBenchChampion \/ Hover
  BY <1>6, StepMoves, StepFrame DEF LocksSettled, Settled, Passed, Intent
<1>7. CASE HoverAndConfirm \/ ExecuteSpecialPick \/ LockAfterRefetch
  <2>1. UNCHANGED <<kind, turn, locks>> /\ manual \subseteq manual' /\ locks[attempt.act] = 0
    BY <1>7, StepMoves, StepFrame DEF league, Undecided, Unlocked
  <2> QED
    BY <2>1 DEF LocksSettled, Settled, Passed
<1>8. CASE SubmitLock
  <2>1. /\ pc = "lock" /\ UNCHANGED <<kind, turn, shown, member, manual, attempt>>
        /\ attempt.act \in Acts /\ locks[attempt.act] = 0 /\ attempt.locking
        /\ kind = "draft" => Intent(attempt.act) \in Champions
    BY <1>8, StepMoves, StepFrame DEF Undecided, Unlocked, Attempted, Chosen, Sending
  <2>2. \A a \in Acts : locks'[a] = IF a = attempt.act THEN 1 ELSE locks[a]
    BY <1>8, <2>1 DEF SubmitLock, TypeOK, TypeHistory
  <2>3. \A a \in Acts : Settled(a) => Settled(a)'
    BY <2>1 DEF Settled, Passed, Intent
  <2>4. Settled(attempt.act)
    BY <2>1 DEF Settled
  <2> QED
    BY <2>1, <2>2, <2>3, <2>4 DEF LocksSettled
<1> QED
  BY <1>2, <1>3, <1>4, <1>5, <1>6, <1>7, <1>8 DEF Next, Step

LEMMA OwnedStep == ASSUME TypeOK, Attempted, Owned, Next PROVE Owned'
<1>1. attempt \in Attempts /\ pc \in Places
  BY DEF TypeOK, TypeDraft
<1>2. CASE Environment
  <2>1. UNCHANGED attempt
    BY <1>2, EnvironmentFrame DEF draft
  <2> DEFINE a == attempt.act
  <2> SUFFICES ASSUME a \in Acts, attempt.own # NoChampion, shown'[a] = attempt.own
               PROVE  owner'[a] # "player"
    BY <2>1 DEF Owned
  <2>2. CASE shown'[a] = shown[a] /\ owner'[a] = owner[a]
    BY <2>2 DEF Owned
  <2>3. CASE PlayerChose(a) \/ RequestChose(a)
    BY <2>3 DEF PlayerChose, RequestChose
  <2> QED
    BY <1>2, <2>2, <2>3, Choice
<1>3. CASE Poll
  <2>1. UNCHANGED <<shown, owner, turn>>
    BY <1>3, PollEdits DEF league
  <2>2. attempt' = attempt \/ attempt'.own = NoChampion
    BY <1>3, PollEdits, CurrentType DEF Rests, Resumes, Proceeds, Actionable, TypeOK, TypeLeague
  <2> QED
    BY <2>1, <2>2 DEF Owned
<1>4. CASE FetchAvailability
  <2>1. UNCHANGED <<shown, owner>>
    BY <1>4, FetchEdits DEF league, history
  <2>2. attempt' = attempt \/ attempt'.own = NoChampion
    BY <1>1, <1>4, FetchEdits, EditFields DEF Fetches, Choices
  <2> QED
    BY <2>1, <2>2 DEF Owned
<1>5. CASE HoverAndConfirm
  <2>1. UNCHANGED shown /\ attempt.act \in Acts
    BY <1>5, StepMoves, StepFrame DEF league, Attempted
  <2>2. CASE attempt' = Hovered(attempt) /\ owner' = [owner EXCEPT ![attempt.act] = "riftops"]
    BY <1>1, <2>1, <2>2, EditFields DEF Owned, TypeOK, TypeHistory
  <2>3. CASE UNCHANGED owner /\ attempt' \in {Restarted(attempt), Blocked(attempt)}
    BY <1>1, <2>1, <2>3, EditFields DEF Owned
  <2> QED
    BY <1>5, <2>2, <2>3, StepMoves
<1>6. CASE ~(Environment \/ Poll \/ FetchAvailability \/ HoverAndConfirm)
  <2>1. UNCHANGED <<shown, owner>>
    BY <1>6, StepFrame DEF Next, Step, league
  <2>2. \/ attempt'.act = attempt.act /\ attempt'.own = attempt.own
        \/ attempt'.own = NoChampion
    BY <1>1, <1>6, StepMoves, EditFields DEF Next, Step
  <2> QED
    BY <2>1, <2>2 DEF Owned
<1> QED
  BY <1>2, <1>3, <1>4, <1>5, <1>6

LEMMA FreshStep == ASSUME TypeOK, Attempted, Owned, Fresh, Next PROVE Fresh'
<1>1. attempt \in Attempts /\ pc \in Places
  BY DEF TypeOK, TypeDraft
<1>2. CASE Environment
  <2>1. UNCHANGED <<attempt, pc>> /\ (raced' = raced \/ raced' = TRUE)
        /\ (turn' = turn \/ turn' = AfterTurn)
    BY <1>2, EnvironmentFrame DEF draft
  <2> SUFFICES ASSUME Overwrites', ~raced'
               PROVE  /\ pc \notin {"fetch", "hover"}
                      /\ pc = "lock" => shown'[turn'] = attempt.champion
    BY <2>1 DEF Fresh
  <2>2. turn' = turn /\ turn \in Acts
    BY <1>1, <2>1 DEF Overwrites, AfterTurn, Attempted, Attempts, TypeOK, TypeLeague, Acts
  <2>3. shown'[turn] = shown[turn] /\ owner'[turn] = owner[turn]
    BY <1>2, <2>2, Choice DEF PlayerChose, RequestChose, Overwrites
  <2>4. Overwrites /\ ~raced
    BY <2>1, <2>2, <2>3 DEF Overwrites
  <2> QED
    BY <2>2, <2>3, <2>4 DEF Fresh
<1>3. CASE Poll
  <2>1. UNCHANGED <<shown, owner, turn>>
    BY <1>3, PollEdits DEF league
  <2>2. CASE Rests \/ Resumes
    BY <2>2 DEF Rests, Resumes, Fresh
  <2>3. CASE Proceeds
    <3>1. turn \in Acts
      BY <2>3 DEF Proceeds, Actionable, TypeOK, TypeLeague
    <3>2. shown[turn] \in Champions => shown[turn] = CurrentAttempt.own
      BY <2>3, <3>1 DEF Proceeds, Takes, Intent
    <3>3. shown[turn] \in Champions => owner[turn] # "player"
      BY <3>1, <3>2, CurrentType DEF Owned
    <3> QED
      BY <2>1, <2>3, <3>3 DEF Proceeds, Fresh, Overwrites
  <2> QED
    BY <1>3, <2>2, <2>3, PollEdits
<1>4. CASE FetchAvailability
  <2>1. UNCHANGED <<shown, owner, turn, raced>> /\ pc = "fetch" /\ pc' # "lock"
        /\ attempt'.act = attempt.act
    BY <1>1, <1>4, FetchEdits, EditFields DEF league, history, Fetches, Choices
  <2> QED
    BY <2>1 DEF Fresh, Overwrites
<1>5. CASE LockAfterRefetch
  <2>1. UNCHANGED <<shown, member, owner, turn>>
    BY <1>5, StepFrame DEF league
  <2>2. CASE pc' = "idle"
    BY <2>2 DEF Fresh
  <2>3. CASE pc' = "lock" /\ attempt' = Locking(attempt)
             /\ Intent(attempt.act) \in {NoChampion, attempt.champion}
    BY <1>1, <2>1, <2>3, EditFields DEF Fresh, Overwrites, Intent
  <2> QED
    BY <1>5, <2>2, <2>3, StepMoves
<1>6. CASE ~(Environment \/ Poll \/ FetchAvailability \/ LockAfterRefetch)
  <2>1. pc' \notin {"fetch", "hover", "lock"}
    BY <1>6, StepMoves DEF Next, Step
  <2> QED
    BY <2>1 DEF Fresh
<1> QED
  BY <1>2, <1>3, <1>4, <1>5, <1>6

(* After a swap of the player, the poll knows or is going to see it.       *)
LEMMA DealtStep == ASSUME TypeOK, Dealt, Next PROVE Dealt'
<1>1. aram \in Benches /\ pc \in Places /\ seen \in Sights
  BY DEF TypeOK, TypeDraft
<1>2. CASE PlayerSwaps
  <2>1. PICK c \in Champions :
          /\ kind = "aram" /\ member' = c
          /\ dealer' = IF aram.last = NoChampion \/ c \in {aram.last, aram.asked, seen.target}
                         THEN "none" ELSE "player"
    BY <1>2 DEF PlayerSwaps, Swapped
  <2>2. UNCHANGED <<kind, aram, pc, seen>> /\ raced' = TRUE
    BY <1>2 DEF PlayerSwaps, draft
  <2> QED
    BY <2>1, <2>2 DEF Dealt
<1>3. CASE RequestArrives
  <2>1. dealer' = "riftops" \/ UNCHANGED <<kind, aram, pc, seen, member, dealer, raced>>
    BY <1>3 DEF RequestArrives, Applied, draft
  <2> QED
    BY <2>1 DEF Dealt
<1>4. CASE LeagueMoves \/ TurnEnds \/ TeamMoves \/ PlayerHovers \/ PlayerDeclares
  <2>1. /\ UNCHANGED <<kind, aram, pc, seen, dealer>> /\ (raced' = raced \/ raced' = TRUE)
        /\ member' = member \/ kind = "draft" \/ member = NoChampion
    BY <1>4 DEF LeagueMoves, TurnEnds, TeamMoves, PlayerHovers, PlayerDeclares, draft, history
  <2> QED
    BY <2>1 DEF Dealt
<1>5. CASE Poll
  <2>1. UNCHANGED <<kind, member, dealer>>
    BY <1>5, PollEdits DEF league
  <2> SUFFICES ASSUME dealer = "player"
               PROVE  aram'.last # NoChampion /\ aram'.manual /\ pc' # "swap"
    BY <2>1 DEF Dealt
  <2>2. BenchSeen.manual /\ BenchSeen.last # NoChampion
    BY <1>1 DEF Dealt, BenchSeen, Benches
  <2> QED
    BY <1>5, <2>2, PollEdits DEF Poll, PollBench, PollManual, PollWaits, PollProceeds
<1>6. CASE SwapBenchChampion
  <2>1. pc = "swap" /\ pc' = "idle" /\ UNCHANGED <<kind, member, dealer>>
    BY <1>6, StepMoves, StepFrame
  <2>2. aram' = aram \/ aram' = [aram EXCEPT !.asked = seen.target]
    BY <1>6 DEF SwapBenchChampion
  <2>3. aram'.last = aram.last /\ (aram'.manual <=> aram.manual)
        /\ aram'.asked \in {aram.asked, seen.target}
    BY <1>1, <2>2 DEF Benches
  <2> QED
    BY <2>1, <2>3 DEF Dealt
<1>7. CASE FetchAvailability
  <2>1. UNCHANGED <<kind, aram, member, dealer>> /\ pc' # "swap"
    BY <1>7, FetchEdits DEF league, history, Fetches, FetchAvailability
  <2> QED
    BY <2>1 DEF Dealt
<1>8. CASE ~(Environment \/ Poll \/ SwapBenchChampion \/ FetchAvailability)
  <2>1. UNCHANGED <<kind, aram, member, dealer>> /\ pc' # "swap"
    BY <1>8, StepMoves, StepFrame DEF Next, Step, league
  <2> QED
    BY <2>1 DEF Dealt
<1> QED
  BY <1>2, <1>3, <1>4, <1>5, <1>6, <1>7, <1>8 DEF Environment, Next

(* While no hover was sent for the ban, no one but the player chooses it.  *)
LEMMA UntouchedKept ==
  ASSUME TypeOK, Untouched, Environment PROVE Untouched'
<1>1. UNCHANGED attempt /\ inflight' \subseteq inflight
  BY EnvironmentFrame DEF draft
<1>2. owner'["ban"] \notin {"riftops", "late"}
  <2>1. Bravery # NoChampion /\ NoChampion \notin Champions
    OBVIOUS
  <2> QED
    BY <2>1, Choice DEF Untouched, PlayerChose, RequestChose, Acts
<1> QED
  BY <1>1, <1>2 DEF Untouched

(* An action's turn ends with its being in progress.                       *)
LEMMA ActiveKept ==
  ASSUME TypeOK, Environment, turn' = "ban"
  PROVE  turn = "ban" /\ (at = "active" => at' = "active")
<1>1. turn' # AfterTurn
  BY DEF AfterTurn
<1> QED
  BY <1>1 DEF Environment, LeagueMoves, TurnEnds, TeamMoves, PlayerHovers, PlayerDeclares,
       PlayerSwaps, RequestArrives, Applied

LEMMA ArenaBanStep == ASSUME TypeOK, Attempted, ArenaBan, Next PROVE ArenaBan'
<1>1. attempt \in Attempts /\ pc \in Places /\ kind \in {"draft", "arena", "aram"}
  BY DEF TypeOK, TypeDraft, TypeLeague
<1>2. CASE Environment
  <2>1. UNCHANGED <<kind, pc, seen>>
    BY <1>2, EnvironmentFrame DEF draft
  <2> QED
    BY <1>2, <2>1, ActiveKept, UntouchedKept DEF ArenaBan, Sending
<1>3. CASE Poll
  <2>1. UNCHANGED <<kind, turn, at, inflight, owner>>
    BY <1>3, PollEdits DEF league
  <2>2. Untouched => Untouched'
    <3>1. attempt' = attempt \/ attempt'.own = NoChampion
      BY <1>3, PollEdits, CurrentType DEF Rests, Resumes, Proceeds, Actionable, TypeOK, TypeLeague
    <3> QED
      BY <2>1, <3>1 DEF Untouched
  <2>3. CASE Rests \/ Resumes
    BY <2>1, <2>2, <2>3 DEF Rests, Resumes, ArenaBan, Sending
  <2>4. CASE Proceeds
    BY <2>1, <2>2, <2>4 DEF Proceeds, ArenaBan, Sending
  <2> QED
    BY <1>3, <2>3, <2>4, PollEdits
<1>4. CASE FetchAvailability
  <2>1. UNCHANGED <<kind, turn, at, inflight, owner>> /\ pc = "fetch" /\ pc' # "fetch"
    BY <1>4, FetchEdits DEF league, history, Fetches
  <2>2. Untouched => Untouched'
    <3>1. attempt' = attempt \/ attempt'.own = NoChampion
      BY <1>1, <1>4, FetchEdits, EditFields DEF Fetches, Choices
    <3> QED
      BY <2>1, <3>1 DEF Untouched
  <2>3. pc' = "idle" \/ kind = "draft" \/ seen.active
    BY <1>1, <1>4, FetchEdits DEF Fetches, Special
  <2> QED
    BY <2>1, <2>2, <2>3 DEF ArenaBan, Sending
<1>5. CASE ObserveSubmittedLock \/ SwapBenchChampion
  <2>1. UNCHANGED <<kind, turn, at, owner>> /\ pc' = "idle"
    BY <1>5, StepMoves, StepFrame DEF league
  <2>2. \A r \in inflight' : r.act = "ban" => r \in inflight
    BY <1>5, StepFrame DEF SwapBenchChampion, league
  <2>3. \/ attempt'.act = attempt.act /\ attempt'.own = attempt.own
        \/ attempt'.own = NoChampion
    BY <1>1, <1>5, StepMoves, EditFields
  <2> QED
    BY <2>1, <2>2, <2>3 DEF ArenaBan, Untouched, Sending
<1>6. CASE ~(Environment \/ Poll \/ FetchAvailability \/ ObserveSubmittedLock
               \/ SwapBenchChampion)
  <2>1. UNCHANGED <<kind, turn, at>> /\ pc \in {"hover", "confirm"} \cup Sending /\ pc' # "fetch"
    BY <1>6, StepMoves, StepFrame DEF Next, Step, league, Sending
  <2> QED
    BY <2>1 DEF ArenaBan, Sending
<1> QED
  BY <1>2, <1>3, <1>4, <1>5, <1>6

LEMMA BanKnownStep ==
  ASSUME TypeOK, Attempted, Chosen, ArenaBan, BanKnown, Next PROVE BanKnown'
<1>1. /\ attempt \in Attempts /\ pc \in Places /\ kind \in {"draft", "arena", "aram"}
      /\ owner \in [Acts -> {"none", "riftops", "late", "player"}]
      /\ shown \in [Acts -> Choices] /\ "ban" \in Acts
  BY DEF TypeOK, TypeDraft, TypeLeague, TypeHistory, Acts
<1>2. CASE Environment
  <2>1. UNCHANGED <<attempt, pc>> /\ inflight' \subseteq inflight
    BY <1>2, EnvironmentFrame DEF draft
  <2>2. turn' = "ban" => turn = "ban"
    BY <1>2, ActiveKept
  <2>3. Untouched => Untouched'
    BY <1>2, UntouchedKept
  <2>4. \/ shown'["ban"] = shown["ban"] /\ owner'["ban"] = owner["ban"]
        \/ PlayerChose("ban") \/ RequestChose("ban")
    BY <1>1, <1>2, Choice
  <2>5. shown'["ban"] # NoChampion => owner'["ban"] # "none"
    BY <2>4 DEF BanKnown, PlayerChose, RequestChose
  <2>6. ASSUME turn = "ban", owner'["ban"] = "riftops"
        PROVE  /\ attempt.act = "ban"
               /\ \/ attempt.blocked \/ shown'["ban"] \in {NoChampion, attempt.own}
                  \/ pc \in {"hover", "confirm"}
    <3>1. CASE shown'["ban"] = shown["ban"] /\ owner'["ban"] = owner["ban"]
      BY <2>6, <3>1 DEF BanKnown
    <3>2. CASE PlayerChose("ban")
      BY <2>6, <3>2 DEF PlayerChose
    <3>3. CASE RequestChose("ban")
      <4> PICK r \in inflight :
            /\ r.act = "ban" /\ shown'["ban"] = r.champion
            /\ owner'["ban"] = IF r.champion = attempt.champion THEN "riftops" ELSE "late"
        BY <3>3 DEF RequestChose
      <4>1. attempt.act = "ban" /\ shown'["ban"] = attempt.champion
        BY <2>6 DEF BanKnown
      <4>2. ~Untouched
        BY DEF Untouched
      <4>3. pc \in {"hover", "confirm"} \/ attempt.blocked \/ attempt.own = attempt.champion
        BY <1>1, <2>6, <4>1, <4>2 DEF BanKnown, Sending, Places
      <4> QED
        BY <4>1, <4>3
    <3> QED
      BY <2>4, <3>1, <3>2, <3>3
  <2> QED
    BY <2>1, <2>2, <2>3, <2>5, <2>6 DEF BanKnown, Sending
<1>3. CASE Poll
  <2>1. UNCHANGED <<turn, shown, inflight, owner>> /\ pc = "idle"
    BY <1>3, PollEdits DEF league
  <2>2. pc' \in {"idle", "swap", "fetch"}
    BY <1>3, PollEdits DEF Rests, Resumes, Proceeds
  <2>3. \/ attempt' = attempt
        \/ /\ ~attempt'.hovered /\ attempt'.own = NoChampion /\ attempt'.champion = NoChampion
           /\ attempt'.act = turn
           /\ turn = "ban" => attempt.act # "ban"
    BY <1>3, PollEdits, CurrentType DEF Rests, Resumes, Proceeds, Actionable, TypeOK,
          TypeLeague, Attempted, Context
  <2>4. attempt' = attempt => (Untouched => Untouched')
    BY <2>1 DEF Untouched
  <2>5. CASE attempt' = attempt
    BY <2>1, <2>2, <2>4, <2>5 DEF BanKnown, Sending
  <2>6. CASE attempt' # attempt
    BY <2>1, <2>2, <2>3, <2>6 DEF BanKnown, Sending
  <2> QED
    BY <2>5, <2>6
<1>4. CASE FetchAvailability
  <2>1. UNCHANGED <<kind, turn, shown, inflight, owner>> /\ pc = "fetch"
    BY <1>4, FetchEdits DEF league, history
  <2>2. CASE attempt' = attempt /\ (pc' \in {"idle", "hover"} \/ attempt.hovered)
             /\ pc' \in {"idle", "hover", "recheck", "refetch"}
    <3>1. Untouched => Untouched'
      BY <2>1, <2>2 DEF Untouched
    <3> QED
      BY <2>1, <2>2, <3>1 DEF BanKnown, Sending
  <2>3. ASSUME NEW c \in Champions \cup {Bravery}, attempt' = Chooses(attempt, c),
               attempt.act = "ban" => c \in Champions,
               pc' = "hover" \/ (pc' = "idle" /\ kind # "draft" /\ ~seen.active)
        PROVE  BanKnown'
    <3>1. /\ attempt'.act = attempt.act /\ attempt'.champion = c /\ attempt'.own = NoChampion
          /\ ~attempt'.hovered
      BY <1>1, <2>3, EditFields DEF Choices
    <3>2. Untouched => Untouched'
      BY <2>1, <3>1 DEF Untouched
    <3>3. turn = "ban" /\ pc' = "idle" => Untouched
      BY <2>1, <2>3 DEF ArenaBan
    <3> QED
      BY <2>1, <2>3, <3>1, <3>2, <3>3 DEF BanKnown, Sending, Untouched
  <2> QED
    BY <1>1, <1>4, <2>2, <2>3, FetchEdits DEF Fetches, Special
<1>5. CASE HoverAndConfirm
  <2>1. UNCHANGED <<kind, turn, shown, member, inflight>> /\ pc = "confirm" /\ attempt.act \in Acts
    BY <1>5, StepMoves, StepFrame DEF league, Attempted
  <2>2. CASE /\ attempt' = Hovered(attempt) /\ Intent(attempt.act) = attempt.champion
             /\ pc' \in {"idle", "recheck"}
             /\ owner' = [owner EXCEPT ![attempt.act] = "riftops"]
    <3>1. /\ attempt'.act = attempt.act /\ attempt'.champion = attempt.champion
          /\ attempt'.own = attempt.champion /\ attempt'.hovered
      BY <1>1, <2>2, EditFields
    <3>2. owner'["ban"] = IF attempt.act = "ban" THEN "riftops" ELSE owner["ban"]
      BY <1>1, <2>2
    <3>3. attempt.act = "ban" => shown["ban"] \in {NoChampion, attempt.champion}
      BY <2>2 DEF Intent
    <3> QED
      BY <2>1, <2>2, <3>1, <3>2, <3>3 DEF BanKnown, Sending
  <2>3. CASE /\ UNCHANGED owner /\ pc' = "idle" /\ attempt.champion = Bravery
             /\ attempt' = Restarted(attempt)
    <3>1. attempt'.act = attempt.act /\ attempt'.champion = NoChampion /\ ~attempt'.hovered
      BY <1>1, <2>3, EditFields
    <3> QED
      BY <2>1, <2>3, <3>1 DEF BanKnown, Sending
  <2>4. CASE UNCHANGED owner /\ pc' = "idle" /\ attempt' = Blocked(attempt)
    <3>1. /\ attempt'.act = attempt.act /\ attempt'.champion = attempt.champion
          /\ attempt'.own = attempt.own /\ (attempt'.hovered <=> attempt.hovered)
          /\ attempt'.blocked
      BY <1>1, <2>4, EditFields
    <3> QED
      BY <2>1, <2>4, <3>1 DEF BanKnown, Sending
  <2> QED
    BY <1>5, <2>2, <2>3, <2>4, StepMoves
<1>6. CASE ExecuteSpecialPick \/ LockAfterRefetch \/ ConfirmLock
  <2>1. UNCHANGED <<kind, turn, shown, inflight, owner>> /\ pc \in Sending
    BY <1>6, StepMoves, StepFrame DEF league, Sending
  <2>2. CASE /\ attempt'.act = attempt.act /\ attempt'.champion = attempt.champion
             /\ attempt'.own = attempt.own /\ (attempt'.hovered <=> attempt.hovered)
             /\ attempt.blocked => attempt'.blocked
             /\ pc' \in {"idle", "refetch", "lock"}
    BY <2>1, <2>2 DEF BanKnown, Sending
  <2>3. CASE pc' = "idle" /\ attempt.champion = Bravery /\ attempt' = Restarted(attempt)
    <3>1. attempt'.act = attempt.act /\ attempt'.champion = NoChampion /\ ~attempt'.hovered
      BY <1>1, <2>3, EditFields
    <3> QED
      BY <2>1, <2>3, <3>1 DEF BanKnown, Sending
  <2> QED
    BY <1>1, <1>6, <2>2, <2>3, StepMoves, EditFields
<1>7. CASE ObserveSubmittedLock
  <2>1. UNCHANGED <<kind, turn, shown, inflight, owner>> /\ pc' = "idle"
    BY <1>7, StepMoves, StepFrame DEF league
  <2>2. CASE attempt' = NoAttempt /\ turn # attempt.act
    BY <2>1, <2>2, EditFields DEF BanKnown, Sending
  <2>3. CASE attempt' = GivenUp(attempt)
    <3>1. /\ attempt'.act = attempt.act /\ attempt'.champion = attempt.champion
          /\ attempt'.own = attempt.own /\ (attempt'.hovered <=> attempt.hovered)
          /\ attempt'.blocked
      BY <1>1, <2>3, EditFields
    <3> QED
      BY <2>1, <3>1 DEF BanKnown, Sending
  <2> QED
    BY <1>7, <2>2, <2>3, StepMoves
<1>8. CASE SwapBenchChampion
  <2>1. UNCHANGED <<kind, turn, shown, owner, attempt>> /\ pc = "swap" /\ pc' = "idle"
    BY <1>8, StepMoves, StepFrame
  <2>2. \A r \in inflight' : r.act = "ban" => r \in inflight
    BY <1>8 DEF SwapBenchChampion
  <2>3. Untouched => Untouched'
    BY <2>1, <2>2 DEF Untouched
  <2> QED
    BY <2>1, <2>2, <2>3 DEF BanKnown, Sending
<1>9. CASE Hover \/ SubmitLock
  <2>1. /\ UNCHANGED <<kind, turn, shown, owner, attempt>>
        /\ (pc = "hover" /\ pc' = "confirm") \/ (pc = "lock" /\ pc' = "confirmLock")
    BY <1>9, StepMoves, StepFrame
  <2>2. \A r \in inflight' : r \in inflight \/ r.act = attempt.act
    BY <1>9, StepMoves DEF Send
  <2> QED
    BY <2>1, <2>2 DEF BanKnown, Sending
<1> QED
  BY <1>2, <1>3, <1>4, <1>5, <1>6, <1>7, <1>8, <1>9 DEF Next, Step

-----------------------------------------------------------------------------
(* The theorems.                                                           *)

LEMMA InitIndInv == Init => IndInv
<1> SUFFICES ASSUME Init PROVE IndInv
  OBVIOUS
<1>1. TypeOK
  BY InitType
<1>2. Attempted /\ Undecided
  BY DEF Init, Attempted, Undecided, Unlocked, NoAttempt
<1>3. Chosen
  BY DEF Init, Chosen, Sending, NoAttempt
<1>4. LocksSettled /\ Owned /\ Fresh /\ Dealt
  BY DEF Init, LocksSettled, Owned, Fresh, Overwrites, Dealt, NoAttempt
<1>5. ArenaBan
  BY DEF Init, ArenaBan, Untouched, Sending, NoAttempt, Acts
<1>6. BanKnown
  BY DEF Init, BanKnown, Sending, NoAttempt, Acts
<1> QED
  BY <1>1, <1>2, <1>3, <1>4, <1>5, <1>6 DEF IndInv

LEMMA StepIndInv == IndInv /\ [Next]_vars => IndInv'
<1> SUFFICES ASSUME IndInv, [Next]_vars PROVE IndInv'
  OBVIOUS
<1>1. CASE Next
  <2>1. TypeOK'
    BY <1>1, EnvironmentType, StepType DEF IndInv, Next
  <2>2. Attempted' /\ Undecided' /\ Chosen' /\ LocksSettled'
    BY <1>1, AttemptedStep, UndecidedStep, ChosenStep, LocksSettledStep DEF IndInv
  <2>3. Owned' /\ Fresh' /\ Dealt' /\ ArenaBan' /\ BanKnown'
    BY <1>1, OwnedStep, FreshStep, DealtStep, ArenaBanStep, BanKnownStep DEF IndInv
  <2> QED
    BY <2>1, <2>2, <2>3 DEF IndInv
<1>2. CASE UNCHANGED vars
  <2>1. UNCHANGED league /\ UNCHANGED draft /\ UNCHANGED history
    BY <1>2 DEF vars
  <2>2. TypeOK'
    BY <2>1, LeagueKept, DraftKept, HistoryKept DEF IndInv, TypeOK
  <2> USE DEF league, draft, history, IndInv
  <2>3. Attempted' /\ Undecided'
    BY <2>1 DEF Attempted, Undecided, Unlocked
  <2>4. Chosen'
    BY <2>1 DEF Chosen, Sending, Intent
  <2>5. LocksSettled'
    BY <2>1 DEF LocksSettled, Settled, Passed, Intent
  <2>6. Owned' /\ Fresh'
    BY <2>1 DEF Owned, Fresh, Overwrites
  <2>7. Dealt'
    BY <2>1 DEF Dealt
  <2>8. ArenaBan'
    BY <2>1 DEF ArenaBan, Untouched, Sending
  <2>9. BanKnown'
    BY <2>1 DEF BanKnown, Untouched, Sending
  <2> QED
    BY <2>2, <2>3, <2>4, <2>5, <2>6, <2>7, <2>8, <2>9
<1> QED
  BY <1>1, <1>2

LEMMA Inductive == Spec => []IndInv
BY InitIndInv, StepIndInv, PTL DEF Spec

(* Type correctness of the draft runtime, whatever plans are configured.   *)
THEOREM TypeCorrect == Spec => []TypeOK
<1>1. IndInv => TypeOK
  BY DEF IndInv
<1> QED
  BY <1>1, Inductive, PTL

(* draft.go submits one lock for an action at most: locking and blocked    *)
(* outlive every late or unclear answer, and a pick whose attempt is begun *)
(* again for a new lane is taken for the player's choice.                  *)
THEOREM LocksOnce == Spec => []LockedOnce
<1>1. IndInv => LockedOnce
  BY DEF IndInv, LocksSettled, LockedOnce
<1> QED
  BY <1>1, Inductive, PTL

(* draft.go sends no hover and no lock over a champion that the player     *)
(* chose before the last read of the session.                              *)
THEOREM KeepsPlayersChoice == Spec => PlayerKept
<1>1. IndInv /\ [Next]_vars =>
        [Sends /\ turn = attempt.act /\ owner[turn] = "player" /\ shown[turn] \in Champions
           => raced \/ shown[turn] = attempt.champion]_vars
  BY DEF IndInv, Fresh, Overwrites, Sends
<1> QED
  BY <1>1, Inductive, PTL DEF Spec, PlayerKept

(* maybeSwapARAMBench does not swap again once the player swapped, unless  *)
(* the swap came after its last read or was the one it was asking for.     *)
THEOREM KeepsPlayersSwap == Spec => BenchKept
<1>1. IndInv /\ [Next]_vars => [pc = "swap" /\ pc' # "swap" /\ dealer = "player" => raced]_vars
  BY DEF IndInv, Dealt
<1> QED
  BY <1>1, Inductive, PTL DEF Spec, BenchKept

(* step and lockAfterRefetch leave the ban to the player only for a choice *)
(* of the player, or after a hover that was not confirmed or given up.     *)
THEOREM BanIsTaken == Spec => BanLeftIfChosen
<1> DEFINE Left == manual' # manual /\ turn = "ban"
                    => owner["ban"] \in {"player", "late"} \/ member # NoChampion
                         \/ attempt.blocked
<1>1. ASSUME IndInv, Next PROVE Left
  <2> SUFFICES ASSUME manual' # manual, turn = "ban", member = NoChampion, ~attempt.blocked,
                      owner["ban"] \notin {"player", "late"}
               PROVE  FALSE
    OBVIOUS
  <2>1. attempt \in Attempts /\ owner["ban"] \in {"none", "riftops"} /\ "ban" \in Acts
    BY <1>1 DEF IndInv, TypeOK, TypeDraft, TypeHistory, Acts
  <2>2. shown["ban"] # NoChampion =>
          attempt.act = "ban" /\ (shown["ban"] = attempt.own \/ pc \in {"hover", "confirm"})
    BY <1>1, <2>1 DEF IndInv, BanKnown
  <2>3. CASE Poll
    <3>1. Takes /\ turn \in Acts /\ pc = "idle"
      BY <1>1, <2>1, <2>3, PollEdits DEF IndInv, Rests, Resumes, Proceeds
    <3>2. shown["ban"] # NoChampion /\ shown["ban"] # CurrentAttempt.own
      BY <3>1 DEF Takes, Intent
    <3>3. CurrentAttempt = attempt
      BY <1>1, <2>2, <3>1, <3>2 DEF IndInv, Attempted, CurrentAttempt, Context
    <3> QED
      BY <2>2, <3>1, <3>2, <3>3
  <2>4. CASE LockAfterRefetch
    <3>1. /\ pc = "refetch" /\ attempt.act = "ban"
          /\ Intent("ban") \notin {NoChampion, attempt.champion}
      BY <2>4 DEF LockAfterRefetch, Current
    <3>2. attempt.own = attempt.champion
      BY <1>1, <3>1 DEF IndInv, BanKnown, Sending
    <3> QED
      BY <2>2, <3>1, <3>2 DEF Intent
  <2>5. CASE ~(Poll \/ LockAfterRefetch)
    <3>1. manual' = manual
      BY <1>1, <2>5, StepFrame, FetchEdits, EnvironmentFrame DEF IndInv, Next, Step, draft
    <3> QED
      BY <3>1
  <2> QED
    BY <2>3, <2>4, <2>5
<1>2. IndInv /\ [Next]_vars => [Left]_vars
  BY <1>1
<1> QED
  BY <1>2, Inductive, PTL DEF Spec, BanLeftIfChosen
=============================================================================
