-------------------------- MODULE OperationLifecycle --------------------------
(***************************************************************************)
(* What a reviewed operation promises whoever previewed it, without its    *)
(* goroutine, its clock and its ledger: it starts at most once, it asks    *)
(* League to change each target at most once and only between its start    *)
(* and its end, it reports a success only for a change League made, and a  *)
(* complete one has reported on every target.                              *)
(*                                                                         *)
(* An operation in Together asks for all its targets in one request and    *)
(* promises less: one result under the name of one target, a success only  *)
(* of a request that was made, whichever of the targets League changed.    *)
(*                                                                         *)
(* ReviewedOperation implements this specification, and LootWorkshop, a    *)
(* page that runs operations over a network, relies on nothing else.       *)
(***************************************************************************)
CONSTANTS Operations, Targets, Together

VARIABLES
  status,    \* operation -> the state the status handler answers
  started,   \* operations that left the preview for good
  over,      \* operations that will do no more
  plan,      \* operation -> targets it is to treat
  touched,   \* operation -> targets League was asked to change
  applied,   \* operation -> targets League changed
  reported,  \* operation -> targets its results name
  succeeded  \* operation -> targets its results call succeeded

vars == <<status, started, over, plan, touched, applied, reported, succeeded>>
work == <<plan, touched, applied, reported, succeeded>>

Live(o) == o \in started /\ o \notin over

Init ==
  /\ status = [o \in Operations |-> "none"]
  /\ started = {} /\ over = {}
  /\ plan = [o \in Operations |-> {}]
  /\ touched = [o \in Operations |-> {}]
  /\ applied = [o \in Operations |-> {}]
  /\ reported = [o \in Operations |-> {}]
  /\ succeeded = [o \in Operations |-> {}]

Preview(o, targets) ==
  /\ status[o] = "none" /\ o \notin started
  /\ status' = [status EXCEPT ![o] = "preview"]
  /\ plan' = [plan EXCEPT ![o] = targets]
  /\ UNCHANGED <<started, over, touched, applied, reported, succeeded>>

Start(o) ==
  /\ status[o] = "preview" /\ o \notin started
  /\ status' = [status EXCEPT ![o] = "running"]
  /\ started' = started \cup {o}
  /\ UNCHANGED <<over, work>>

Cancel(o) ==
  /\ status[o] = "running"
  /\ status' = [status EXCEPT ![o] = "cancelling"]
  /\ UNCHANGED <<started, over, work>>

(* An execute request that comes too late says so whatever is going on.    *)
Expire(o) ==
  /\ status[o] # "none"
  /\ status' = [status EXCEPT ![o] = "expired"]
  /\ UNCHANGED <<started, over, work>>

(* League is asked to change a target, or all of them, and changes what it *)
(* likes of that.                                                          *)
Request(o, targets) ==
  IF o \in Together THEN targets = plan[o] ELSE \E t \in plan[o] : targets = {t}

Touch(o, targets) ==
  /\ Live(o) /\ Request(o, targets)
  /\ targets \cap (touched[o] \cup reported[o]) = {}
  /\ touched' = [touched EXCEPT ![o] = @ \cup targets]
  /\ \E done \in SUBSET targets : applied' = [applied EXCEPT ![o] = @ \cup done]
  /\ UNCHANGED <<status, started, over, plan, reported, succeeded>>

(* A result says what became of a target, or of the one request.           *)
Succeeds(o, t) == IF o \in Together THEN plan[o] \subseteq touched[o] ELSE t \in applied[o]

Report(o, t) ==
  /\ Live(o) /\ t \in plan[o] \ reported[o]
  /\ o \in Together => reported[o] = {}
  /\ reported' = [reported EXCEPT ![o] = @ \cup {t}]
  /\ \/ UNCHANGED succeeded
     \/ Succeeds(o, t) /\ succeeded' = [succeeded EXCEPT ![o] = @ \cup {t}]
  /\ UNCHANGED <<status, started, over, plan, touched, applied>>

Accounted(o) == IF o \in Together THEN reported[o] # {} ELSE reported[o] = plan[o]

Finish(o) ==
  /\ Live(o)
  /\ \E ending \in {"cancelled", "failed", "complete"} :
       /\ ending = "complete" => Accounted(o)
       /\ status' = [status EXCEPT ![o] = ending]
  /\ over' = over \cup {o}
  /\ UNCHANGED <<started, work>>

(* RiftOps restarts and knows no operation.                                *)
Forget ==
  /\ status' = [o \in Operations |-> "none"]
  /\ status' # status
  /\ started' = started \cup {o \in Operations : status[o] # "none"}
  /\ over' = over \cup {o \in Operations : status[o] # "none"}
  /\ UNCHANGED work

Next ==
  \/ \E o \in Operations :
       \/ \E targets \in SUBSET Targets : Preview(o, targets)
       \/ Start(o) \/ Cancel(o) \/ Expire(o) \/ Finish(o)
       \/ \E targets \in SUBSET Targets : Touch(o, targets)
       \/ \E t \in Targets : Report(o, t)
  \/ Forget

Fairness == \A o \in Operations : WF_vars(Finish(o))

Spec == Init /\ [][Next]_vars /\ Fairness

=============================================================================
