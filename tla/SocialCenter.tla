----------------------------- MODULE SocialCenter -----------------------------
(***************************************************************************)
(* The Social page: frontend/src/components/SocialCenter.tsx.  It polls    *)
(* League's friends and friend requests, keeps a selection of each, treats *)
(* a selection by a reviewed operation or a single entry directly, and     *)
(* mutes a friend.  Invitations, which change no list, are like removals;  *)
(* "remove", "accept" and "decline" all take entries off their list.       *)
(***************************************************************************)
EXTENDS Naturals, FiniteSets

CONSTANTS Friends, Requests

VARIABLES
  page,         \* the tab App.tsx renders
  have,         \* League: list -> its entries
  mutes,        \* League: the muted friends
  live,         \* connected /\ pageVisible
  snapshot,     \* list -> the entries on show
  selected,     \* list -> the selected entries, shown or not any more
  polls,        \* "timer" or "own" -> No, Asked or the answer; "own" is awaited
  busy,         \* "", "prepare", "act" or "mute": what disables the buttons
  acting,       \* the entry run() acts on: [list, entry, at], or No
  review,       \* the review being prepared or shown: [list, ids, at, done], or No
  mutedPuuids,
  muteRead,     \* the effect's request: No, Asked or its answer
  mutesFailed   \* history: the last read of the mutes failed

Lists == {"friends", "requests"}
No == [at |-> "no"]
Asked == [at |-> "asked"]

reviewVars == <<acting, review>>
muteVars == <<mutes, mutedPuuids>>
vars == <<page, have, mutes, live, snapshot, selected, polls, busy, acting, review, mutedPuuids,
          muteRead, mutesFailed>>

Init ==
  /\ have = [l \in Lists |-> IF l = "friends" THEN Friends ELSE Requests]
  /\ mutes \in SUBSET Friends /\ live = TRUE
  /\ snapshot = [l \in Lists |-> {}] /\ selected = [l \in Lists |-> {}]
  /\ polls = [p \in {"timer", "own"} |-> IF p = "timer" THEN Asked ELSE No]
  /\ busy = "" /\ acting = No /\ review = No
  /\ mutedPuuids = {} /\ muteRead = Asked /\ mutesFailed = FALSE

Shown == page = "social"

(* The dialog covers the page.                                             *)
Reachable == Shown /\ (review = No \/ review.at = "preparing")

(* The effect that depends on busy cancels its request and sends another.  *)
BusyIs(b) ==
  /\ busy' = b
  /\ muteRead' = IF b = busy THEN muteRead ELSE IF live THEN Asked ELSE No

-----------------------------------------------------------------------------
(* The lists.                                                              *)

(* refresh, by the timer, the effect or the button.                        *)
Poll ==
  /\ Shown /\ live /\ polls["timer"] = No
  /\ polls' = [polls EXCEPT !["timer"] = Asked]
  /\ UNCHANGED <<page, have, live, snapshot, selected, busy, reviewVars, muteVars, muteRead, mutesFailed>>

PollRead(p) ==
  /\ Shown /\ polls[p] = Asked
  /\ polls' = [polls EXCEPT ![p] = [at |-> "read", have |-> have]]
  /\ UNCHANGED <<page, have, live, snapshot, selected, busy, reviewVars, muteVars, muteRead, mutesFailed>>

(* The answer is shown whenever it comes; an error leaves what is shown.   *)
(* What waited for its own refresh ends: the dialog or the single action.  *)
PollAnswered(p) ==
  /\ Shown /\ polls[p] # No
  /\ polls' = [polls EXCEPT ![p] = No]
  /\ \/ polls[p].at = "read" /\ snapshot' = polls[p].have
     \/ UNCHANGED snapshot
  /\ IF p = "timer" THEN UNCHANGED <<busy, muteRead, review>>
     ELSE IF busy = "" THEN review' = No /\ UNCHANGED <<busy, muteRead>>
     ELSE BusyIs("") /\ UNCHANGED review
  /\ acting' = IF p = "own" THEN No ELSE acting
  /\ UNCHANGED <<page, have, live, selected, muteVars, mutesFailed>>

(* Its own refresh, or none at all: refresh returns at once while the page *)
(* is hidden or League is gone.                                            *)
OwnPoll == polls' = [polls EXCEPT !["own"] = IF live THEN Asked ELSE [at |-> "skipped"]]

(* League is started or stopped, or the window is hidden or shown.         *)
LiveChanges ==
  /\ Shown /\ live' = ~live
  /\ muteRead' = IF live' THEN Asked ELSE No
  /\ mutedPuuids' = IF live' THEN mutedPuuids ELSE {}
  /\ UNCHANGED <<page, have, mutes, snapshot, selected, polls, busy, reviewVars, mutesFailed>>

(* Somebody else ends the friendship, or the player does in the client.    *)
LeagueChanges(l, x) ==
  /\ Shown /\ x \in have[l] /\ have' = [have EXCEPT ![l] = @ \ {x}]
  /\ UNCHANGED <<page, live, snapshot, selected, polls, busy, reviewVars, muteVars, muteRead, mutesFailed>>

-----------------------------------------------------------------------------
(* The selections.                                                         *)

toggleSelected(l, x) ==
  /\ Reachable /\ x \in snapshot[l]
  /\ selected' = [selected EXCEPT ![l] = IF x \in @ THEN @ \ {x} ELSE @ \cup {x}]
  /\ UNCHANGED <<page, have, live, snapshot, polls, busy, reviewVars, muteVars, muteRead, mutesFailed>>

(* The heading of a group selects all of it, or lets all of it go.         *)
toggleGroup(group) ==
  /\ Reachable /\ group # {} /\ group \subseteq snapshot["friends"]
  /\ selected' = [selected EXCEPT !["friends"] = IF group \subseteq @ THEN @ \ group ELSE @ \cup group]
  /\ UNCHANGED <<page, have, live, snapshot, polls, busy, reviewVars, muteVars, muteRead, mutesFailed>>

ClearSelection ==
  /\ Reachable /\ selected["friends"] # {}
  /\ selected' = [selected EXCEPT !["friends"] = {}]
  /\ UNCHANGED <<page, have, live, snapshot, polls, busy, reviewVars, muteVars, muteRead, mutesFailed>>

-----------------------------------------------------------------------------
(* Reviewed operations on a selection.                                     *)

(* removeSelected, inviteSelected and batchRequests ask for the preview.   *)
startReview(l) ==
  /\ Reachable /\ busy = "" /\ selected[l] # {} /\ BusyIs("prepare")
  /\ review' = [list |-> l, ids |-> selected[l], at |-> "preparing", done |-> {}]
  /\ UNCHANGED <<page, have, live, snapshot, selected, polls, acting, muteVars, mutesFailed>>

PreviewAnswered ==
  /\ Shown /\ busy = "prepare" /\ BusyIs("")
  /\ review' \in {No, [review EXCEPT !.at = "shown"]}
  /\ UNCHANGED <<page, have, live, snapshot, selected, polls, acting, muteVars, mutesFailed>>

Confirm ==
  /\ Shown /\ review.at = "shown" /\ review' = [review EXCEPT !.at = "running"]
  /\ UNCHANGED <<page, have, live, snapshot, selected, polls, busy, acting, muteVars, muteRead, mutesFailed>>

CloseReview ==
  /\ Shown /\ review.at = "shown" /\ review' = No
  /\ UNCHANGED <<page, have, live, snapshot, selected, polls, busy, acting, muteVars, muteRead, mutesFailed>>

(* The operation treats a target, once, and League agrees or does not.     *)
OperationTreats(x) ==
  /\ Shown /\ review.at = "running" /\ x \in review.ids \ review.done
  /\ review' = [review EXCEPT !.done = @ \cup {x}]
  /\ have' \in {have, [have EXCEPT ![review.list] = @ \ {x}]}
  /\ UNCHANGED <<page, live, snapshot, selected, polls, busy, acting, muteVars, muteRead, mutesFailed>>

Watched == Shown /\ review.at = "running" /\ polls["own"] = No

(* executePendingReview: a complete operation, its failures included,      *)
(* empties the selection, what was added to it since included.  The dialog *)
(* closes after the lists were read again.                                 *)
ReviewComplete ==
  /\ Watched /\ review.done = review.ids /\ OwnPoll
  /\ selected' = [selected EXCEPT ![review.list] = {}]
  /\ UNCHANGED <<page, have, live, snapshot, busy, reviewVars, muteVars, muteRead, mutesFailed>>

(* It failed, was cancelled, or the page lost sight of it: the dialog is   *)
(* there for another look at the same operation.                           *)
ReviewFails ==
  /\ Watched /\ review' = [review EXCEPT !.at = "shown"]
  /\ UNCHANGED <<page, have, live, snapshot, selected, polls, busy, acting, muteVars, muteRead, mutesFailed>>

-----------------------------------------------------------------------------
(* Single actions: run().                                                  *)

(* Accept, decline; and mute or unmute, by what the page takes the friend  *)
(* for.                                                                    *)
Act(l, x) ==
  /\ Reachable /\ busy = "" /\ x \in snapshot[l]
  /\ BusyIs(IF l = "friends" THEN "mute" ELSE "act")
  /\ acting' = [at |-> "sent", list |-> l, entry |-> x, on |-> x \notin mutedPuuids]
  /\ UNCHANGED <<page, have, live, snapshot, selected, polls, review, muteVars, mutesFailed>>

ActArrives ==
  /\ Shown /\ acting.at = "sent" /\ acting' = [acting EXCEPT !.at = "done"]
  /\ IF busy = "mute"
     THEN mutes' = (IF acting.on THEN mutes \cup {acting.entry} ELSE mutes \ {acting.entry}) /\ UNCHANGED have
     ELSE have' = [have EXCEPT ![acting.list] = @ \ {acting.entry}] /\ UNCHANGED mutes
  /\ UNCHANGED <<page, live, snapshot, selected, polls, busy, review, mutedPuuids, muteRead, mutesFailed>>

ActAnswered ==
  /\ Shown /\ acting.at = "done" /\ polls["own"] = No /\ OwnPoll
  /\ mutedPuuids' = IF busy # "mute" THEN mutedPuuids
                    ELSE IF acting.on THEN mutedPuuids \cup {acting.entry} ELSE mutedPuuids \ {acting.entry}
  /\ UNCHANGED <<page, have, mutes, live, snapshot, selected, busy, reviewVars, muteRead, mutesFailed>>

(* Refused, or done with the answer lost.                                  *)
ActFails ==
  /\ Shown /\ acting # No /\ polls["own"] = No /\ acting' = No /\ BusyIs("")
  /\ UNCHANGED <<page, have, live, snapshot, selected, polls, review, muteVars, mutesFailed>>

MutesRead ==
  /\ Shown /\ muteRead = Asked /\ muteRead' = [at |-> "read", mutes |-> mutes]
  /\ UNCHANGED <<page, have, live, snapshot, selected, polls, busy, reviewVars, muteVars, mutesFailed>>

(* A failed read shows nobody as muted.                                    *)
MutesShown ==
  /\ Shown /\ muteRead # No /\ muteRead' = No
  /\ mutedPuuids' = IF muteRead.at = "read" THEN muteRead.mutes ELSE {}
  /\ mutesFailed' = (muteRead.at # "read")
  /\ UNCHANGED <<page, have, mutes, live, snapshot, selected, polls, busy, reviewVars>>

Next ==
  \/ Poll \/ LiveChanges \/ ClearSelection
  \/ \E p \in {"timer", "own"} : PollRead(p) \/ PollAnswered(p)
  \/ \E l \in Lists : startReview(l) \/ \E x \in snapshot[l] : toggleSelected(l, x) \/ Act(l, x)
  \/ \E l \in Lists : \E x \in have[l] : LeagueChanges(l, x)
  \/ \E group \in SUBSET snapshot["friends"] : toggleGroup(group)
  \/ PreviewAnswered \/ Confirm \/ CloseReview \/ ReviewComplete \/ ReviewFails
  \/ \E x \in IF review = No THEN {} ELSE review.ids : OperationTreats(x)
  \/ ActArrives \/ ActAnswered \/ ActFails \/ MutesRead \/ MutesShown

Spec == Init /\ page = "social" /\ [][Next]_vars

-----------------------------------------------------------------------------
(* Properties.                                                             *)

(* The dialog's end empties a selection only when the operation has        *)
(* treated every target the dialog named (executePendingReview): what it   *)
(* stopped short of stays selected for another try.                        *)
EmptiedWhenTreated ==
  [][\A l \in Lists : review.at = "running" /\ selected'[l] # selected[l] =>
       review.list = l /\ review.done = review.ids]_vars

(* With no request on its way, the mute buttons say what League has; a     *)
(* mute sent while an older read was on its way included.  A read that     *)
(* failed shows nobody as muted, until the next action reads them again.   *)
MutesShowLeague ==
  live /\ busy = "" /\ muteRead = No /\ ~mutesFailed => mutedPuuids = mutes
=============================================================================
