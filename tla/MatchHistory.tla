----------------------------- MODULE MatchHistory -----------------------------
(***************************************************************************)
(* frontend/src/components/MatchHistory.tsx: the games on show, loaded page*)
(* by page while new games come in, their streak, and the replay of a game.*)
(* Games are numbered as they are played; the list is newest first.  The   *)
(* page size is 50 in the code and the limit 500.                          *)
(***************************************************************************)
EXTENDS Integers, Sequences, FiniteSets

CONSTANTS
  PageSize, Limit,
  MaxGames   \* bound: games played

VARIABLES
  page,      \* the tab App.tsx renders
  played,    \* number of games played
  won,       \* the games that were won
  matches, hasMore,
  dataSource,   \* "LCU", or "Riot API" when League did not answer
  loading,   \* the refresh: [at, rows]
  more,      \* appendPage: [at, begin, combined, loadAll]
  replay,    \* League's replay of one game
  replayShown,  \* replayStatus of it
  replayRead    \* status requests answered and still on their way

vars == <<page, played, won, matches, hasMore, dataSource, loading, more, replay, replayShown,
          replayRead>>
listVars == <<played, won, matches, hasMore, dataSource, loading, more>>
replayVars == <<replay, replayShown, replayRead>>

Shown == page = "history"
NoAppend == [at |-> "idle", combined |-> <<>>]

(* Games begin .. begin + PageSize - 1 of League's history, newest first.  *)
Rows(begin) ==
  [k \in 1 .. (IF played <= begin THEN 0
               ELSE IF played - begin < PageSize THEN played - begin ELSE PageSize)
     |-> played - begin - k + 1]

Init ==
  /\ played \in 0 .. MaxGames /\ won \in SUBSET (1 .. MaxGames)
  /\ matches = <<>> /\ hasMore = TRUE /\ dataSource = "LCU"
  /\ loading = [at |-> "asked", rows |-> <<>>] /\ more = NoAppend
  /\ replay = "absent" /\ replayShown = "none" /\ replayRead = {}

(* Bound: a list on show or on its way is at most a page behind.           *)
GameEnds ==
  /\ Shown /\ played < MaxGames /\ played' = played + 1
  /\ \A list \in {matches, loading.rows, more.combined} :
       list # <<>> => played < list[1] + PageSize
  /\ UNCHANGED <<page, won, matches, hasMore, dataSource, loading, more, replayVars>>

-----------------------------------------------------------------------------
(* loadData: the newest page replaces the list, or an error hides it.      *)

refreshFrame == <<page, played, won, more, replayVars>>

Refresh ==
  /\ Shown /\ loading.at \in {"no", "error"} /\ loading' = [at |-> "asked", rows |-> <<>>]
  /\ UNCHANGED <<refreshFrame, matches, hasMore, dataSource>>

RefreshRead ==
  /\ Shown /\ loading.at = "asked"
  /\ \/ loading' = [at |-> "read", rows |-> Rows(0)] /\ dataSource' = "LCU"
     \/ /\ Rows(0) # <<>> /\ dataSource' = "Riot API"
        /\ loading' = [at |-> "read", rows |-> <<played>>]
     \/ loading' = [at |-> "error", rows |-> <<>>] /\ UNCHANGED dataSource
  /\ UNCHANGED <<refreshFrame, matches, hasMore>>

Refreshed ==
  /\ Shown /\ loading.at = "read" /\ loading' = [at |-> "no", rows |-> <<>>]
  /\ matches' = loading.rows /\ hasMore' = (Len(loading.rows) = PageSize)
  /\ UNCHANGED <<refreshFrame, dataSource>>

(* appendPage works on the list it was started with: the next page, or all *)
(* pages up to the limit.                                                  *)
AppendPage ==
  /\ Shown /\ more = NoAppend /\ hasMore /\ loading.at = "no"
  /\ \E loadAll \in BOOLEAN :
       more' = [at |-> "read", begin |-> Len(matches), combined |-> matches, loadAll |-> loadAll]
  /\ UNCHANGED <<page, played, won, matches, hasMore, dataSource, loading, replayVars>>

(* A page's games that are in the list already are left out.               *)
Appended(rows) ==
  LET unique == {k \in DOMAIN rows : \A i \in DOMAIN more.combined : more.combined[i] # rows[k]}
      Nth(n) == CHOOSE k \in unique : Cardinality({j \in unique : j <= k}) = n
  IN  more.combined \o [n \in 1 .. Cardinality(unique) |-> rows[Nth(n)]]

(* Faulty PageRead: the next page is looked for behind the list.           *)
PageReadBehindList ==
  /\ Shown /\ more.at = "read" /\ more.begin < Limit
  /\ LET rows == Rows(more.begin)
         begin == Len(Appended(rows)) + (IF rows = <<>> THEN 0 ELSE 1)
     IN IF Len(rows) < PageSize \/ ~more.loadAll \/ begin >= Limit
        THEN /\ matches' = Appended(rows) /\ more' = NoAppend
             /\ hasMore' = (Len(rows) = PageSize /\ begin < Limit)
        ELSE /\ more' = [more EXCEPT !.begin = begin, !.combined = Appended(rows)]
             /\ UNCHANGED <<matches, hasMore>>
  /\ UNCHANGED <<page, played, won, dataSource, loading, replayVars>>

PageRead ==
  /\ Shown /\ more.at = "read" /\ more.begin < Limit
  /\ LET rows == Rows(more.begin)
         begin == more.begin + Len(rows)
     IN IF Len(rows) < PageSize \/ ~more.loadAll \/ begin >= Limit
        THEN /\ matches' = Appended(rows) /\ more' = NoAppend
             /\ hasMore' = (Len(rows) = PageSize /\ begin < Limit)
        ELSE /\ more' = [more EXCEPT !.begin = begin, !.combined = Appended(rows)]
             /\ UNCHANGED <<matches, hasMore>>
  /\ UNCHANGED <<page, played, won, dataSource, loading, replayVars>>

(* At the limit nothing is read; after an error the list stays.            *)
AppendStops ==
  /\ Shown /\ more.at = "read" /\ more' = NoAppend
  /\ hasMore' = (hasMore /\ more.begin < Limit)
  /\ matches' = IF more.begin >= Limit THEN more.combined ELSE matches
  /\ UNCHANGED <<page, played, won, dataSource, loading, replayVars>>

-----------------------------------------------------------------------------
(* The streak of the games on show.                                        *)

Result(g) == IF g \in won THEN 1 ELSE -1

StreakStep(s, g) ==
  IF s.direction = 0 THEN [direction |-> Result(g), n |-> 1, ended |-> FALSE]
  ELSE IF ~s.ended /\ Result(g) = s.direction THEN [s EXCEPT !.n = @ + 1]
  ELSE [s EXCEPT !.ended = TRUE]

streak ==
  LET After[n \in 0 .. Len(matches)] ==
        IF n = 0 THEN [direction |-> 0, n |-> 0, ended |-> FALSE] ELSE StreakStep(After[n - 1], matches[n])
  IN  After[Len(matches)]

-----------------------------------------------------------------------------
(* The replay of a game: asked for, downloaded by League, and its status   *)
(* read every second while it says that it is being downloaded.            *)

replayFrame == <<page, listVars>>

HandleReplay ==
  /\ Shown /\ replayShown \notin {"downloading", "ready"}
  /\ \/ replay' = (IF replay = "absent" THEN "downloading" ELSE replay) /\ replayShown' = replay'
     \/ replayShown' = "failed" /\ replay' \in {replay, "downloading"}
  /\ UNCHANGED <<replayFrame, replayRead>>

ReplayMoves ==
  /\ Shown /\ replay = "downloading" /\ replay' \in {"ready", "absent"}
  /\ UNCHANGED <<replayFrame, replayShown, replayRead>>

PollReplay ==
  /\ Shown /\ replayShown = "downloading"
  /\ replayRead' = replayRead \cup {replay}
  /\ UNCHANGED <<replayFrame, replay, replayShown>>

(* The answers of an effect that has ended are aborted.                    *)
ReplayRead(status) ==
  /\ Shown
  /\ replayShown' = (IF status = "absent" THEN "none" ELSE status)
  /\ replayRead' = IF replayShown' = "downloading" THEN replayRead \ {status} ELSE {}
  /\ UNCHANGED <<replayFrame, replay>>

Next ==
  \/ GameEnds \/ Refresh \/ RefreshRead \/ Refreshed
  \/ AppendPage \/ PageRead \/ AppendStops
  \/ HandleReplay \/ ReplayMoves \/ PollReplay \/ \E s \in replayRead : ReplayRead(s)

(* The interval fires and its requests are answered.                       *)
Fairness ==
  /\ WF_vars(PollReplay)
  /\ WF_vars(\E s \in replayRead : s # "downloading" /\ ReplayRead(s))

Spec == Init /\ page = "history" /\ [][Next]_vars /\ Fairness

-----------------------------------------------------------------------------
(* Properties.                                                             *)

(* Whatever is played and read again between two pages, the list is newest *)
(* first without a gap, and when League offers nothing more it ends with   *)
(* the first game or beyond the limit.                                     *)
NoGap ==
  /\ \A k \in 2 .. Len(matches) : matches[k] = matches[k - 1] - 1
  /\ ~hasMore /\ matches # <<>> /\ dataSource = "LCU" /\ loading.at # "read" =>
       LET last == matches[Len(matches)] IN last = 1 \/ played - last + 1 >= Limit

(* The streak is the run of equal results at the head of the list.         *)
StreakIsTheRun ==
  matches # <<>> =>
    \E k \in 1 .. Len(matches) :
      /\ streak.n = k /\ streak.direction = Result(matches[1])
      /\ \A j \in 1 .. k : Result(matches[j]) = Result(matches[1])
      /\ k < Len(matches) => Result(matches[k + 1]) # Result(matches[1])

(* A replay that League has downloaded does not stay in its download.      *)
ReplayReadyIsSeen == []<>~(replay = "ready" /\ replayShown = "downloading")

=============================================================================
