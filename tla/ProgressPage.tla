------------------------------ MODULE ProgressPage ------------------------------
(***************************************************************************)
(* frontend/src/components/ProgressPage.tsx: the rewards League waits to be*)
(* chosen, the choice made on the page, its review, and the reviewed       *)
(* operation that sends it; and the missions, champion mastery and rewards *)
(* that one refresh reads side by side.  The page is replaced by a notice  *)
(* while League is away, the dialog with it, but not what it is about.     *)
(***************************************************************************)
EXTENDS Integers, Sequences, FiniteSets

CONSTANTS
  Grants, Options, MaxPreviews,
  Champions,   \* League's mastery: [name, points, level, until, played]
  PageSize     \* how many champions are shown at first, and added

VARIABLES
  page,        \* the tab App.tsx renders
  remoteClient, connected,
  pending,     \* League: the grants that wait for a choice
  selectedIds, \* League: what is chosen of each
  notification,\* League: mastery to be acknowledged
  rewards,     \* on show: the pending grants with what is chosen, by grant
  mastery,     \* on show: the notification
  loading, loads,     \* refreshes by what asked for them
  selectedRewards,    \* the choices made here, by grant
  preview,     \* the request for a preview: No or [grant, selections]
  operations,  \* RiftOps: [grant, selections, state], by preview
  review,      \* the preview the dialog is about, 0 for none
  watching,    \* confirmations under way: [id, at]
  sent,        \* history: the selections sent to League: [grant, selections, id] -> times
  masterySort, masterySearch, masteryLimit,
  progressCrossed  \* history: refreshes overlapped or failed, until one begins beside no
                   \* other and no operation runs

leagueVars == <<pending, selectedIds, notification, sent>>
shownVars == <<rewards, mastery>>
loadVars == <<loading, loads, progressCrossed>>
choiceVars == <<selectedRewards, preview, operations, review, watching>>
masteryVars == <<masterySort, masterySearch, masteryLimit>>
vars == <<page, remoteClient, connected, leagueVars, shownVars, loadVars, choiceVars, masteryVars>>

No == [at |-> "no"]
Asked == [at |-> "asked"]
Shown == page = "progress"
Online == Shown /\ connected
Whos == {"effect", "confirm", "acknowledge"}

Init ==
  /\ remoteClient \in BOOLEAN /\ connected = TRUE
  /\ pending = Grants /\ selectedIds = [g \in Grants |-> {}] /\ notification = TRUE
  /\ sent = [id \in 1..MaxPreviews |-> 0]
  /\ rewards = <<>> /\ mastery = FALSE
  /\ loading = TRUE /\ loads = [who \in Whos |-> IF who = "effect" THEN Asked ELSE No]
  /\ progressCrossed = FALSE
  /\ selectedRewards = <<>> /\ preview = No /\ operations = <<>> /\ review = 0 /\ watching = {}
  /\ masterySort = "points" /\ masterySearch = {} /\ masteryLimit = PageSize

-----------------------------------------------------------------------------
(* refresh.                                                                *)

Refreshes(who) ==
  /\ loads' = [loads EXCEPT ![who] = Asked] /\ loading' = TRUE
  /\ progressCrossed' = \/ \E w \in Whos : loads[w] # No
                        \/ progressCrossed /\ \E id \in DOMAIN operations : operations[id].state = "running"

(* The effect of the connection; nothing is asked without League.          *)
ConnectionEffect ==
  /\ Shown /\ connected' = ~connected
  /\ IF connected' THEN Refreshes("effect") ELSE UNCHANGED loadVars
  /\ UNCHANGED <<page, remoteClient, leagueVars, shownVars, choiceVars, masteryVars>>

RefreshButton ==
  /\ Online /\ ~loading /\ Refreshes("effect")
  /\ UNCHANGED <<page, remoteClient, connected, leagueVars, shownVars, choiceVars, masteryVars>>

RefreshRead(who) ==
  /\ Shown /\ loads[who] = Asked
  /\ loads' = [loads EXCEPT ![who] = [at |-> "read", mastery |-> notification,
                                      rewards |-> [g \in pending |-> selectedIds[g]]]]
  /\ UNCHANGED <<page, remoteClient, connected, leagueVars, shownVars, loading, progressCrossed,
                 choiceVars, masteryVars>>

(* Each part is shown if its own request came through.                     *)
Refreshed(who) ==
  /\ Shown /\ loads[who] # No /\ loads' = [loads EXCEPT ![who] = No] /\ loading' = FALSE
  /\ \/ loads[who].at = "read" /\ rewards' = loads[who].rewards /\ mastery' = loads[who].mastery
        /\ UNCHANGED progressCrossed
     \/ progressCrossed' = TRUE /\ UNCHANGED rewards
        /\ mastery' = IF loads[who].at = "read" THEN loads[who].mastery ELSE mastery
  /\ UNCHANGED <<page, remoteClient, connected, leagueVars, choiceVars, masteryVars>>

-----------------------------------------------------------------------------
(* The choice.                                                             *)

(* How many of a grant's options may be chosen.                            *)
minimum == 1
maximum(g) == IF g = CHOOSE first \in Grants : TRUE THEN 1 ELSE Cardinality(Options)
selectedForGrant(g) == IF g \in DOMAIN selectedRewards THEN selectedRewards[g] ELSE rewards[g]

(* Nothing of the page can be used under the dialog, or on a phone.        *)
Choosing(g) == Online /\ ~remoteClient /\ review = 0 /\ g \in DOMAIN rewards

toggleReward(g, option) ==
  LET current == selectedForGrant(g) IN
  /\ Choosing(g) /\ (option \in current \/ Cardinality(current) < maximum(g))
  /\ selectedRewards' = [h \in DOMAIN selectedRewards \cup {g} |->
                           IF h # g THEN selectedRewards[h]
                           ELSE IF option \in current THEN current \ {option} ELSE current \cup {option}]
  /\ UNCHANGED <<page, remoteClient, connected, leagueVars, shownVars, loadVars, preview, operations,
                 review, watching, masteryVars>>

ReviewButton(g) ==
  Choosing(g) /\ Cardinality(selectedForGrant(g)) \in minimum..maximum(g)
reviewReward(g) ==
  /\ ReviewButton(g) /\ preview = No
  /\ preview' = [at |-> "asked", grant |-> g, selections |-> selectedForGrant(g)]
  /\ UNCHANGED <<page, remoteClient, connected, leagueVars, shownVars, loadVars, selectedRewards,
                 operations, review, watching, masteryVars>>

(* RiftOps keeps the selections and gives them a name; the dialog opens,   *)
(* when the page is there again if it is not now.                          *)
PreviewAnswered ==
  /\ Shown /\ preview # No /\ preview' = No
  /\ \/ /\ Cardinality(DOMAIN operations) < MaxPreviews /\ review' = Cardinality(DOMAIN operations) + 1
        /\ operations' = [id \in DOMAIN operations \cup {review'} |->
                            IF id \in DOMAIN operations THEN operations[id]
                            ELSE [state |-> "preview", grant |-> preview.grant,
                                  selections |-> preview.selections]]
     \/ UNCHANGED <<operations, review>>
  /\ UNCHANGED <<page, remoteClient, connected, leagueVars, shownVars, loadVars, selectedRewards, watching, masteryVars>>

-----------------------------------------------------------------------------
(* The dialog.  Its own state goes with the page: after the connection has *)
(* come back it may be confirmed again, while the first confirmation goes on.*)

Confirm ==
  /\ Online /\ review # 0 /\ Cardinality(watching) < 2
  /\ \A w \in watching : w.left
  /\ watching' = watching \cup {[id |-> review, at |-> "asked", left |-> FALSE]}
  /\ UNCHANGED <<page, remoteClient, connected, leagueVars, shownVars, loadVars, selectedRewards,
                 preview, operations, review, masteryVars>>
DialogGone ==
  /\ Shown /\ ~connected /\ \E w \in watching : ~w.left
  /\ watching' = {[w EXCEPT !.left = TRUE] : w \in watching}
  /\ UNCHANGED <<page, remoteClient, connected, leagueVars, shownVars, loadVars, selectedRewards,
                 preview, operations, review, masteryVars>>
CloseReview ==
  /\ Online /\ review # 0 /\ (\A w \in watching : w.left) /\ review' = 0
  /\ UNCHANGED <<page, remoteClient, connected, leagueVars, shownVars, loadVars, selectedRewards,
                 preview, operations, watching, masteryVars>>

Becomes(w, at) == watching' = (watching \ {w}) \cup {[w EXCEPT !.at = at]}

(* runReviewedOperation submits what it finds in preview, and watches it.  *)
StatusRead(w) ==
  /\ Shown /\ w.at = "asked"
  /\ Becomes(w, IF operations[w.id].state = "preview" THEN "submits" ELSE "watches")
  /\ UNCHANGED <<page, remoteClient, connected, leagueVars, shownVars, loadVars, selectedRewards,
                 preview, operations, review, masteryVars>>

Executes(w) ==
  /\ Shown /\ w.at = "submits" /\ operations[w.id].state = "preview" /\ Becomes(w, "watches")
  /\ operations' = [operations EXCEPT ![w.id].state = "running"]
  /\ UNCHANGED <<page, remoteClient, connected, leagueVars, shownVars, loadVars, selectedRewards,
                 preview, review, masteryVars>>

(* League takes the selections, or refuses them.                           *)
Runs(id) ==
  LET op == operations[id] IN
  /\ Shown /\ op.state = "running"
  /\ \/ op.grant \in pending /\ pending' = pending \ {op.grant}
        /\ selectedIds' = [selectedIds EXCEPT ![op.grant] = op.selections]
        /\ operations' = [operations EXCEPT ![id].state = "complete"]
     \/ UNCHANGED <<pending, selectedIds>> /\ operations' = [operations EXCEPT ![id].state = "failed"]
  /\ sent' = [sent EXCEPT ![id] = @ + 1]
  /\ UNCHANGED <<page, remoteClient, connected, notification, shownVars, loadVars, selectedRewards,
                 preview, review, watching, masteryVars>>

(* Every choice is forgotten, of other grants too; the dialog on show is   *)
(* closed, whichever it is.                                                *)
Completed(w) ==
  /\ Shown /\ w.at = "watches" /\ operations[w.id].state = "complete"
  /\ selectedRewards' = <<>> /\ review' = 0 /\ watching' = watching \ {w}
  /\ Refreshes("confirm")
  /\ UNCHANGED <<page, remoteClient, connected, leagueVars, shownVars, preview, operations, masteryVars>>

(* It failed, it was refused, it cannot be read, or it takes too long.     *)
ConfirmThrows(w) ==
  /\ Shown /\ watching' = watching \ {w}
  /\ progressCrossed' = (progressCrossed \/ operations[w.id].state \in {"running", "complete"})
  /\ UNCHANGED <<page, remoteClient, connected, leagueVars, shownVars, loading, loads, selectedRewards,
                 preview, operations, review, masteryVars>>

(* acknowledge: done at once, then all is read again.                      *)
acknowledge ==
  /\ Online /\ ~remoteClient /\ review = 0 /\ mastery /\ notification' = FALSE /\ Refreshes("acknowledge")
  /\ UNCHANGED <<page, remoteClient, connected, pending, selectedIds, sent, shownVars, choiceVars, masteryVars>>

-----------------------------------------------------------------------------
(* The mastery list: the champions found, in the order chosen, as many as  *)
(* asked for.                                                              *)

By(a, b) == IF a > b THEN -1 ELSE IF a < b THEN 1 ELSE 0
(* Those that have a next level come first.                                *)
Closest(a, b) ==
  IF a.until > 0 /\ b.until > 0 THEN By(b.until, a.until)
  ELSE IF a.until > 0 THEN -1 ELSE IF b.until > 0 THEN 1 ELSE By(a.points, b.points)
Order(a, b) ==
  CASE masterySort = "points" -> By(a.points, b.points)
    [] masterySort = "level" -> IF a.level # b.level THEN By(a.level, b.level) ELSE By(a.points, b.points)
    [] masterySort = "closest" -> Closest(a, b)
    [] masterySort = "recent" -> By(a.played, b.played)
filteredMastery ==
  LET found == {c \in Champions : masterySearch = {} \/ c.name \in masterySearch}
  IN  CHOOSE list \in [1 .. Cardinality(found) -> found] :
        \A i, j \in DOMAIN list : i < j => list[i] # list[j] /\ Order(list[j], list[i]) # -1
displayedMastery ==
  SubSeq(filteredMastery, 1, IF masteryLimit < Len(filteredMastery) THEN masteryLimit
                             ELSE Len(filteredMastery))

(* The controls of the list.                                               *)
MasteryView ==
  /\ Online /\ review = 0
  /\ \/ masterySort' \in {"points", "level", "closest", "recent"} /\ UNCHANGED <<masterySearch, masteryLimit>>
     \/ masterySearch' \in {{}} \cup {{c.name} : c \in Champions} /\ UNCHANGED <<masterySort, masteryLimit>>
     \/ Len(filteredMastery) > Len(displayedMastery) /\ masteryLimit' = masteryLimit + PageSize
        /\ UNCHANGED <<masterySort, masterySearch>>
  /\ UNCHANGED <<page, remoteClient, connected, leagueVars, shownVars, loadVars, choiceVars>>

Next ==
  \/ MasteryView \/ ConnectionEffect \/ RefreshButton \/ PreviewAnswered \/ Confirm \/ DialogGone \/ CloseReview
  \/ \E who \in Whos : RefreshRead(who) \/ Refreshed(who)
  \/ \E g \in Grants : reviewReward(g) \/ \E option \in Options : toggleReward(g, option)
  \/ \E w \in watching : StatusRead(w) \/ Executes(w) \/ Completed(w) \/ ConfirmThrows(w)
  \/ \E id \in DOMAIN operations : Runs(id)
  \/ acknowledge

Spec == Init /\ page = "progress" /\ [][Next]_vars

-----------------------------------------------------------------------------
(* Properties.                                                             *)

(* What was reviewed is sent to League once at most, although the dialog   *)
(* forgets that it was confirmed when the connection comes and goes, and   *)
(* two confirmations may both find the operation in preview.               *)
SentOnce == \A id \in DOMAIN sent : sent[id] <= 1

(* The rewards on show are those League waits for when nothing is on its   *)
(* way.  Refreshes that overlapped or failed, or an operation whose end    *)
(* was not seen, may leave them wrong, but not longer than until the next  *)
(* refresh that goes well, beside no other and with no operation running.  *)
PendingIsShown ==
  watching = {} /\ (\A who \in Whos : loads[who] = No) /\ ~progressCrossed
    /\ (\A id \in DOMAIN operations : operations[id].state # "running") =>
      DOMAIN rewards = pending

(* By "closest to next level" a champion that is nearer to its next level  *)
(* is above one that is farther, and one without a next level is below all *)
(* that have one, on the part of the list that is shown.                   *)
ClosestFirst ==
  masterySort = "closest" =>
    \A i, j \in DOMAIN displayedMastery :
      i < j /\ displayedMastery[j].until > 0 =>
        displayedMastery[i].until \in 1..displayedMastery[j].until
=============================================================================
