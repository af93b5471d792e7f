------------------------------ MODULE SavedLogins ------------------------------
(***************************************************************************)
(* What internal/sessionvault promises of the encrypted saves, whatever    *)
(* runs beside it and wherever RiftOps stops: a save comes into being only *)
(* when the user asked for it, is replaced as one thing, by a login that   *)
(* can be used again, and a refresh neither creates, revives nor prolongs. *)
(***************************************************************************)
CONSTANT Profiles

NoSave == [ready |-> FALSE, expired |-> TRUE]
SaveStates == [ready : BOOLEAN, expired : BOOLEAN]

VARIABLES
  saves,  \* profile -> whether its save can sign in, and whether it expired
  stored, \* profiles that have a save
  asked   \* profiles whose login the user asked to save

vars == <<saves, stored, asked>>

Init ==
  /\ stored \in SUBSET Profiles /\ asked = {}
  /\ saves \in [Profiles -> SaveStates]
  /\ \A p \in Profiles \ stored : saves[p] = NoSave

Ask(p) ==
  /\ asked' = asked \cup {p}
  /\ UNCHANGED <<saves, stored>>

(* The capture failed, or RiftOps went away.                               *)
Withdraw(p) ==
  /\ p \in asked /\ asked' = asked \ {p}
  /\ UNCHANGED <<saves, stored>>

Save(p) ==
  /\ p \in asked /\ asked' = asked \ {p}
  /\ stored' = stored \cup {p}
  /\ saves' = [saves EXCEPT ![p] = [ready |-> TRUE, expired |-> FALSE]]

Refresh(p) ==
  /\ p \in stored
  /\ saves' = [saves EXCEPT ![p].ready = TRUE]
  /\ UNCHANGED <<stored, asked>>

Forget(p) ==
  /\ p \in stored
  /\ stored' = stored \ {p}
  /\ saves' = [saves EXCEPT ![p] = NoSave]
  /\ UNCHANGED asked

Expire(p) ==
  /\ p \in stored
  /\ saves' = [saves EXCEPT ![p].expired = TRUE]
  /\ UNCHANGED <<stored, asked>>

Next ==
  \E p \in Profiles :
    Ask(p) \/ Withdraw(p) \/ Save(p) \/ Refresh(p) \/ Forget(p) \/ Expire(p)

Spec == Init /\ [][Next]_vars
==============================================================================
