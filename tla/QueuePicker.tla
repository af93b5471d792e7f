------------------------------ MODULE QueuePicker ------------------------------
(***************************************************************************)
(* The queue picker of PlayFlowPage.tsx: a button and, under it, the       *)
(* queues that League offers, in groups, through which the mouse and the   *)
(* arrow keys move.  The page's poll replaces the queues while the list is *)
(* open.  A queue is [id, group, name, hidden]: hidden are the queues that *)
(* isSelectableQueue sorts out by their text, and names are compared by    *)
(* number.  As an option, 0 stands for the current lobby.                  *)
(***************************************************************************)
EXTENDS Integers, Sequences, FiniteSets, Functions

CONSTANTS Answers    \* what League may answer: sequences of queues

VARIABLES
  page,      \* the tab App.tsx renders
  queues,    \* League's last answer
  value,     \* the page's choice, by id; it may be a queue of another day
  open, activeId,
  offered,   \* history: the options there were since the list was opened
  chosen     \* history: the option taken last, 0 at first

vars == <<page, queues, value, open, activeId, offered, chosen>>

Shown == page = "queue-picker"
QUEUE_GROUP_ORDER == <<"ranked", "standard", "special", "bots", "practice">>
Rank(q) == CHOOSE i \in 1 .. 5 : QUEUE_GROUP_ORDER[i] = q.group

isSelectableQueue(q) == q.id > 0 /\ ~q.hidden

Before(a, b) == IF Rank(a) # Rank(b) THEN Rank(a) < Rank(b) ELSE a.name < b.name

(* sortQueues: of the queues with one id the first is kept; the sort is    *)
(* stable.                                                                 *)
sortQueues(list) ==
  LET kept == {i \in DOMAIN list : isSelectableQueue(list[i]) /\
                 \A j \in 1 .. i - 1 : isSelectableQueue(list[j]) => list[j].id # list[i].id}
      Place(i) == Cardinality({j \in kept : Before(list[j], list[i]) \/
                                            (j <= i /\ ~Before(list[i], list[j]))})
  IN  [n \in 1 .. Cardinality(kept) |-> list[CHOOSE i \in kept : Place(i) = n]]

(* The menu: group after group, in each the queues as they are sorted.     *)
groupedQueues(options) ==
  LET sorted == sortQueues(options)
      Place(i) == Cardinality({j \in DOMAIN sorted : \/ Rank(sorted[j]) < Rank(sorted[i])
                                                     \/ Rank(sorted[j]) = Rank(sorted[i]) /\ j <= i})
  IN  [n \in DOMAIN sorted |-> sorted[CHOOSE i \in DOMAIN sorted : Place(i) = n]]

Ids(list) == {q.id : q \in Range(sortQueues(list))}
optionIds == <<0>> \o [i \in DOMAIN sortQueues(queues) |-> sortQueues(queues)[i].id]
Selected(list, v) == v \in Ids(list)

Init ==
  /\ queues \in Answers /\ value \in {0} \cup UNION {Ids(list) : list \in Answers}
  /\ open = FALSE /\ activeId = 0 /\ offered = {} /\ chosen = 0

-----------------------------------------------------------------------------
(* A render, and its effect.  The options are made anew by every render,   *)
(* so as long as the value is one of them the effect always runs, and the  *)
(* active option is the value again; otherwise it runs when the list opens *)
(* and when the value changes or is no longer an option.                   *)
Render(list, v, isOpen, active) ==
  /\ queues' = list /\ value' = v /\ open' = isOpen
  /\ activeId' = IF isOpen /\ Selected(list, v) THEN v
                 ELSE IF isOpen /\ (~open \/ v # value \/ Selected(queues, value)) THEN 0 ELSE active
  /\ offered' = IF ~isOpen THEN {} ELSE (IF open THEN offered ELSE {}) \cup {0} \cup Ids(list)

Active(id) == Render(queues, value, open, id) /\ UNCHANGED <<page, chosen>>

(* The page's poll of the queues, and a choice taken over from RiftOps.    *)
QueuesRead(list) == Shown /\ Render(list, value, open, activeId) /\ UNCHANGED <<page, chosen>>
ValueChanges(v) == Shown /\ v # value /\ Render(queues, v, open, activeId) /\ UNCHANGED <<page, chosen>>

(* The trigger; its keys only open.                                        *)
Trigger == Shown /\ Render(queues, value, ~open, activeId) /\ UNCHANGED <<page, chosen>>

(* A click beside the list, or Escape.                                     *)
close == Shown /\ open /\ Render(queues, value, FALSE, activeId) /\ UNCHANGED <<page, chosen>>

(* An arrow key; it wraps around, and from an option that is gone it       *)
(* starts at the first.                                                    *)
moveActive(direction) ==
  LET n == Len(optionIds)
      current == IF \E i \in 1 .. n : optionIds[i] = activeId THEN CHOOSE i \in 1 .. n : optionIds[i] = activeId ELSE 1
  IN  Shown /\ open /\ Active(optionIds[((current - 1 + direction + n) % n) + 1])

HomeOrEnd == Shown /\ open /\ (Active(optionIds[1]) \/ Active(optionIds[Len(optionIds)]))
MouseEnter(id) == Shown /\ open /\ id \in Range(optionIds) /\ Active(id)

choose(id) == chosen' = id /\ Render(queues, id, FALSE, activeId) /\ UNCHANGED page

(* Enter takes the active option, on show or not.                          *)
Enter == Shown /\ open /\ choose(activeId)
Click(id) == Shown /\ open /\ id \in Range(optionIds) /\ choose(id)

Next ==
  \/ \E list \in Answers : QueuesRead(list)
  \/ \E v \in {0} \cup UNION {Ids(list) : list \in Answers} : ValueChanges(v)
  \/ Trigger \/ close \/ HomeOrEnd \/ Enter
  \/ \E n \in {1, Len(optionIds) - 1} : moveActive(n)
  \/ \E id \in Range(optionIds) : MouseEnter(id) \/ Click(id)

Spec == Init /\ page = "queue-picker" /\ [][Next]_vars

-----------------------------------------------------------------------------
(* Properties.                                                             *)

(* The arrow keys pass the queues in the order on show, every queue once,  *)
(* though one list is sorted and the other grouped, and League may answer  *)
(* an id twice.                                                            *)
ArrowsFollowTheMenu ==
  LET menu == groupedQueues(sortQueues(queues))
  IN  /\ <<0>> \o [i \in DOMAIN menu |-> menu[i].id] = optionIds
      /\ IsInjective(optionIds)

(* What Enter takes was an option since the list was opened: nothing is    *)
(* left active from the last time the list was open.                       *)
TakesWhatWasOffered == [][Enter => chosen' \in offered]_vars
=============================================================================
