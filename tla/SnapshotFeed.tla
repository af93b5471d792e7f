----------------------------- MODULE SnapshotFeed -----------------------------
(***************************************************************************)
(* frontend/src/App.tsx: how the engine's snapshot reaches the screen: an  *)
(* event stream that may lose events, a poll beside it, and the reads that *)
(* the user's actions end with.  Whichever answer comes last is on show.   *)
(***************************************************************************)
EXTENDS Naturals, Sequences

CONSTANT MaxChanges   \* bound: the engine's changes and the window's

VARIABLES
  page,        \* the tab App.tsx renders
  engine, changes,   \* the engine's snapshot, numbered as it changes
  snapshot,    \* what is on show
  pageVisible,
  schedule,    \* the effect's loop: "off", "due", "awaits" its poll, "waits" for its timer
  poll,        \* its fetch: "no", "asked", "failed", or [read |-> the snapshot]
  left,        \* the fetch of an effect that has ended
  user,        \* the fetch of an action or of Refresh
  events       \* events of the stream on their way

vars == <<page, engine, changes, snapshot, pageVisible, schedule, poll, left, user, events>>
fetches == <<poll, left, user>>

Shown == page = "feed"
No == [at |-> "no"]
Asked == [at |-> "asked"]
Failed == [at |-> "failed"]
Read == [at |-> "read", snap |-> engine]

Init ==
  /\ engine = 0 /\ changes = 0 /\ snapshot = 0 /\ pageVisible = TRUE
  /\ schedule = "due" /\ poll = No /\ left = No /\ user = No /\ events = <<>>

(* Every change is an event, which a restart of the stream loses.          *)
EngineChanges ==
  /\ Shown /\ changes < MaxChanges /\ changes' = changes + 1
  /\ engine' = engine + 1
  /\ events' = IF pageVisible THEN Append(events, engine') ELSE <<>>
  /\ UNCHANGED <<page, snapshot, pageVisible, schedule, fetches>>

EventShown ==
  /\ Shown /\ events # <<>> /\ snapshot' = Head(events) /\ events' = Tail(events)
  /\ UNCHANGED <<page, engine, changes, pageVisible, schedule, fetches>>

(* source.onerror polls, unless the effect polls already.                  *)
StreamBreaks ==
  /\ Shown /\ events # <<>> /\ events' = <<>>
  /\ poll' = IF poll = No THEN Asked ELSE poll
  /\ UNCHANGED <<page, engine, changes, snapshot, pageVisible, schedule, left, user>>

(* schedule(): the poll, awaited if it is not running already.             *)
Schedule ==
  /\ Shown /\ schedule = "due"
  /\ IF poll = No THEN poll' = Asked /\ schedule' = "awaits"
     ELSE schedule' = "waits" /\ UNCHANGED poll
  /\ UNCHANGED <<page, engine, changes, snapshot, pageVisible, left, user, events>>

ScheduleTimer ==
  /\ Shown /\ schedule = "waits" /\ schedule' = "due"
  /\ UNCHANGED <<page, engine, changes, snapshot, pageVisible, fetches, events>>

PollRead ==
  /\ Shown /\ poll = Asked /\ poll' = Read
  /\ UNCHANGED <<page, engine, changes, snapshot, pageVisible, schedule, left, user, events>>

PollFails ==
  /\ Shown /\ poll = Asked /\ poll' = Failed
  /\ UNCHANGED <<page, engine, changes, snapshot, pageVisible, schedule, left, user, events>>

(* Faulty PollEnds: a failed poll keeps `polling`.                         *)
PollEndsIfRead ==
  /\ Shown /\ poll.at \in {"read", "failed"}
  /\ snapshot' = IF poll.at = "read" THEN poll.snap ELSE snapshot
  /\ poll' = IF poll.at = "read" THEN No ELSE poll
  /\ schedule' = IF schedule = "awaits" THEN "waits" ELSE schedule
  /\ UNCHANGED <<page, engine, changes, pageVisible, left, user, events>>

PollEnds ==
  /\ Shown /\ poll.at \in {"read", "failed"} /\ poll' = No
  /\ snapshot' = IF poll.at = "read" THEN poll.snap ELSE snapshot
  /\ schedule' = IF schedule = "awaits" THEN "waits" ELSE schedule
  /\ UNCHANGED <<page, engine, changes, pageVisible, left, user, events>>

(* The effect ends with the page's visibility; its fetch goes on.          *)
VisibilityChanges ==
  /\ Shown /\ changes < MaxChanges /\ changes' = changes + 1 /\ left = No
  /\ pageVisible' = ~pageVisible /\ left' = poll /\ poll' = No /\ events' = <<>>
  /\ schedule' = IF pageVisible THEN "off" ELSE "due"
  /\ UNCHANGED <<page, engine, snapshot, user>>

LeftRead ==
  /\ Shown /\ left = Asked /\ left' \in {Read, Failed}
  /\ UNCHANGED <<page, engine, changes, snapshot, pageVisible, schedule, poll, user, events>>

LeftEnds ==
  /\ Shown /\ left.at \in {"read", "failed"} /\ left' = No
  /\ snapshot' = IF left.at = "read" THEN left.snap ELSE snapshot
  /\ UNCHANGED <<page, engine, changes, pageVisible, schedule, poll, user, events>>

UserAsks ==
  /\ Shown /\ pageVisible /\ user = No /\ user' = Asked
  /\ UNCHANGED <<page, engine, changes, snapshot, pageVisible, schedule, poll, left, events>>

UserRead ==
  /\ Shown /\ user = Asked /\ user' \in {Read, No}
  /\ UNCHANGED <<page, engine, changes, snapshot, pageVisible, schedule, poll, left, events>>

UserEnds ==
  /\ Shown /\ user.at = "read" /\ user' = No /\ snapshot' = user.snap
  /\ UNCHANGED <<page, engine, changes, pageVisible, schedule, poll, left, events>>

Next ==
  \/ EngineChanges \/ EventShown \/ StreamBreaks
  \/ Schedule \/ ScheduleTimer \/ PollRead \/ PollFails \/ PollEnds
  \/ VisibilityChanges \/ LeftRead \/ LeftEnds
  \/ UserAsks \/ UserRead \/ UserEnds

(* Timers fire, what was answered is handled, the stream delivers or       *)
(* breaks, and of the polls made again and again one is answered.          *)
Fairness ==
  /\ WF_vars(Schedule) /\ WF_vars(ScheduleTimer) /\ WF_vars(PollEnds) /\ SF_vars(PollRead)
  /\ WF_vars(PollRead \/ PollFails) /\ WF_vars(EventShown)
  /\ WF_vars(LeftRead) /\ WF_vars(LeftEnds) /\ WF_vars(UserRead) /\ WF_vars(UserEnds)

Spec == Init /\ page = "feed" /\ [][Next]_vars /\ Fairness

-----------------------------------------------------------------------------
(* Properties.                                                             *)

(* Whatever was lost, failed or answered late: when the engine no longer   *)
(* changes and the page stays visible, its snapshot comes to be on show and*)
(* stays there.                                                            *)
EngineIsShown ==
  <>[](pageVisible /\ changes = MaxChanges) => <>[](snapshot = engine)

=============================================================================
