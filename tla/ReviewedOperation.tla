-------------------------- MODULE ReviewedOperation --------------------------
(***************************************************************************)
(* cmd/riftops-ui/operation_handlers.go: bulk League actions the user      *)
(* previews, confirms and may cancel.  Each operation has a goroutine of   *)
(* its own that revalidates a target, mutates League, records the answer   *)
(* and pauses, while handlers execute, cancel and read it, other           *)
(* operations run, and League changes under all of them.                   *)
(*                                                                         *)
(* A target stands for what the operation names: a friend, a request, a    *)
(* loot recipe with its inputs, a reward grant, a lobby.  A batch asks     *)
(* League for them one by one.  An expansion makes one request and records *)
(* one result, under the name of its first target: reward-select-bulk      *)
(* alone has several, the grants it asks for together.                     *)
(***************************************************************************)
EXTENDS Naturals, Sequences, FiniteSets

CONSTANTS
  Operations,  \* ids of the operations previewed while the model runs
  Targets,
  Plan,        \* operation -> TargetIDs, cleaned of repeats by the preview
  Expansions,  \* the operations that runExpansionOperation runs
  Bulk,        \* the expansions of kind reward-select-bulk
  MaxReceipts  \* receipts the ledger keeps (20 in the code)

ASSUME PlanAssumption ==
  /\ Plan \in [Operations -> Seq(Targets)]
  /\ \A o \in Operations :
       /\ Len(Plan[o]) > 0
       /\ \A i, j \in 1 .. Len(Plan[o]) : Plan[o][i] = Plan[o][j] => i = j
ASSUME KindAssumption ==
  /\ Expansions \subseteq Operations /\ Bulk \subseteq Expansions
  /\ \A o \in Expansions \ Bulk : Len(Plan[o]) = 1
ASSUME LedgerAssumption == MaxReceipts \in Nat \ {0}

(* "none": not previewed yet, or forgotten by a restart.                   *)
States == {"none", "preview", "running", "cancelling",
           "cancelled", "failed", "complete", "expired"}

(* Where an operation's goroutine is.                                      *)
Steps == {"idle", "connect", "check", "validate", "send", "answer", "pause",
          "finish", "receipt", "store", "done"}

Answers == {"none", "ok", "rejected", "unclear"}
Results == [target : Targets \cup {"none"},
            status : {"succeeded", "failed", "skipped", "stopped"}]

(* How the goroutine will call finishOperation.                            *)
Endings == {"none", "cancelled", "failed", "complete"}

Receipts == [id : Operations, cancelled : BOOLEAN, items : Seq(Results)]

VARIABLES
  state,      \* operation -> State
  age,        \* operation -> fresh, past ExpiresAt, or older than a week
  cancel,     \* operation -> its Cancel channel is closed
  results,    \* operation -> Results
  pc,         \* operation -> where its goroutine is; idle until Started
  index,      \* operation -> position in TargetIDs
  answer,     \* operation -> League's answer to its last mutation
  ending,     \* operation -> how it is to finish
  held,       \* operation -> the receipt computed and not stored yet
  ledger,     \* featureData's BatchReceipts, on disk
  present,    \* League: the targets it has
  sent,       \* history: operation -> target -> mutations sent
  applied,    \* history: operation -> targets League changed for it
  late        \* history: operation -> mutations sent after its cancel

opVars      == <<state, age, cancel>>
runVars     == <<results, pc, index, answer, ending, held>>
historyVars == <<sent, applied, late>>
vars == <<opVars, runVars, ledger, present, historyVars>>

EmptyReceipt(o) == [id |-> o, cancelled |-> FALSE, items |-> <<>>]

Init ==
  /\ state = [o \in Operations |-> "none"]
  /\ age = [o \in Operations |-> "fresh"]
  /\ cancel = [o \in Operations |-> FALSE]
  /\ results = [o \in Operations |-> <<>>]
  /\ pc = [o \in Operations |-> "idle"]
  /\ index = [o \in Operations |-> 1]
  /\ answer = [o \in Operations |-> "none"]
  /\ ending = [o \in Operations |-> "none"]
  /\ held = [o \in Operations |-> EmptyReceipt(o)]
  /\ ledger = <<>>
  /\ present \in SUBSET Targets
  /\ sent = [o \in Operations |-> [t \in Targets |-> 0]]
  /\ applied = [o \in Operations |-> {}]
  /\ late = [o \in Operations |-> 0]

Started(o) == pc[o] # "idle"

(* How many mutations the operation has to make: one per target, or one    *)
(* in all.                                                                 *)
Work(o) == IF o \in Expansions THEN 1 ELSE Len(Plan[o])

(* The target a result names, and those the request itself names.          *)
Target(o) == Plan[o][index[o]]
AllTargets(o) == {Plan[o][i] : i \in 1 .. Len(Plan[o])}
Asked(o) == IF o \in Bulk THEN AllTargets(o) ELSE {Target(o)}

-----------------------------------------------------------------------------
(* The handlers, each one critical section of the operation's mutex.       *)

(* Faulty Preview: the target loop is to start before the first target.    *)
PreviewIndexZero(o) ==
  /\ state[o] = "none" /\ ~Started(o)
  /\ state' = [state EXCEPT ![o] = "preview"]
  /\ index' = [index EXCEPT ![o] = 0]
  /\ UNCHANGED <<age, cancel, results, pc, answer, ending, held, ledger, present,
                 historyVars>>

Preview(o) ==
  /\ state[o] = "none" /\ ~Started(o)
  /\ state' = [state EXCEPT ![o] = "preview"]
  /\ UNCHANGED <<age, cancel, runVars, ledger, present, historyVars>>

(* Execute after ExpiresAt says expired, whatever the operation is doing.  *)
ExecuteExpired(o) ==
  /\ state[o] # "none" /\ age[o] # "fresh"
  /\ state' = [state EXCEPT ![o] = "expired"]
  /\ UNCHANGED <<age, cancel, runVars, ledger, present, historyVars>>

(* Faulty Execute: the second of two equal requests starts a run as well.  *)
ExecuteAgain(o) ==
  /\ state[o] \in {"preview", "complete"} /\ age[o] = "fresh"
  /\ state' = [state EXCEPT ![o] = "running"]
  /\ pc' = [pc EXCEPT ![o] = "connect"]
  /\ index' = [index EXCEPT ![o] = 1]
  /\ UNCHANGED <<age, cancel, results, answer, ending, held, ledger, present,
                 historyVars>>

(* Execute with the right confirmation; any other request is refused.      *)
Execute(o) ==
  /\ state[o] = "preview" /\ ~Started(o) /\ age[o] = "fresh"
  /\ state' = [state EXCEPT ![o] = "running"]
  /\ pc' = [pc EXCEPT ![o] = "connect"]
  /\ UNCHANGED <<age, cancel, results, index, answer, ending, held, ledger,
                 present, historyVars>>

Cancel(o) ==
  /\ state[o] = "running"
  /\ cancel' = [cancel EXCEPT ![o] = TRUE]
  /\ state' = [state EXCEPT ![o] = "cancelling"]
  /\ UNCHANGED <<age, runVars, ledger, present, historyVars>>

(* operationReceiptsClearHandler.                                          *)
ClearReceipts ==
  /\ ledger # <<>>
  /\ ledger' = <<>>
  /\ UNCHANGED <<opVars, runVars, present, historyVars>>

-----------------------------------------------------------------------------
(* The goroutine: runReviewedOperation and runExpansionOperation.          *)

runFrame == <<age, cancel, ledger>>

Goto(o, step) == pc' = [pc EXCEPT ![o] = step]

(* The goroutine is about to call finishOperation.                         *)
End(o, how) ==
  /\ Goto(o, "finish")
  /\ ending' = [ending EXCEPT ![o] = how]

Record(o, status) ==
  results' = [results EXCEPT ![o] = Append(@, [target |-> Target(o), status |-> status])]

(* No lockfile ends it before the first target.                            *)
Connect(o) ==
  /\ pc[o] = "connect"
  /\ \/ End(o, "failed")
     \/ Goto(o, "check") /\ UNCHANGED ending
  /\ UNCHANGED <<runFrame, state, results, index, answer, held, present, historyVars>>

(* Faulty CheckCancel: the cancel channel is read before the first target  *)
(* only.                                                                   *)
CheckCancelOnce(o) ==
  /\ pc[o] = "check"
  /\ \/ index[o] > Work(o) /\ End(o, "complete")
     \/ index[o] = 1 /\ cancel[o] /\ End(o, "cancelled")
     \/ /\ index[o] <= Work(o) /\ (index[o] = 1 => ~cancel[o])
        /\ Goto(o, "validate") /\ UNCHANGED ending
  /\ UNCHANGED <<runFrame, state, results, index, answer, held, present, historyVars>>

(* The head of the target loop: it is over, cancelled, or it goes on.      *)
CheckCancel(o) ==
  /\ pc[o] = "check"
  /\ \/ index[o] > Work(o) /\ End(o, "complete")
     \/ index[o] <= Work(o) /\ cancel[o] /\ End(o, "cancelled")
     \/ index[o] <= Work(o) /\ ~cancel[o] /\ Goto(o, "validate") /\ UNCHANGED ending
  /\ UNCHANGED <<runFrame, state, results, index, answer, held, present, historyVars>>

(* Faulty Validate: a target that is gone is waited for.                   *)
ValidateWaits(o) ==
  /\ pc[o] = "validate" /\ o \notin Expansions
  /\ Target(o) \in present
  /\ Goto(o, "send") /\ UNCHANGED <<results, ending>>
  /\ UNCHANGED <<runFrame, state, index, answer, held, present, historyVars>>

(* The target is looked up in League again; a batch skips one that is gone *)
(* and ends when the lookup fails.                                         *)
Validate(o) ==
  /\ pc[o] = "validate" /\ o \notin Expansions
  /\ \/ End(o, "failed") /\ UNCHANGED results
     \/ /\ Target(o) \in present
        /\ Goto(o, "send") /\ UNCHANGED <<results, ending>>
     \/ /\ Target(o) \notin present
        /\ Goto(o, "pause") /\ Record(o, "skipped") /\ UNCHANGED ending
  /\ UNCHANGED <<runFrame, state, index, answer, held, present, historyVars>>

(* An expansion's own errors ("changed", "no longer available") count as   *)
(* ambiguous and end it as failed; a clean 4xx answer to the lookup does   *)
(* not.  One grant that is gone ends a bulk selection.                     *)
ValidateExpansion(o) ==
  /\ pc[o] = "validate" /\ o \in Expansions
  /\ \/ /\ Asked(o) \subseteq present
        /\ Goto(o, "send") /\ UNCHANGED <<results, ending>>
     \/ Record(o, "failed") /\ \E how \in {"failed", "complete"} : End(o, how)
  /\ UNCHANGED <<runFrame, state, index, answer, held, present, historyVars>>

(* The mutation reaches League, which may have lost targets since they     *)
(* were looked up and takes those in done, and may or may not use them up. *)
(* It answers ok to one target when it took it, and to a bulk selection    *)
(* whichever grants it took: what its answer says of each is discarded.    *)
Send(o) ==
  /\ pc[o] = "send"
  /\ Goto(o, "answer")
  /\ sent' = [sent EXCEPT ![o] =
                [t \in Targets |-> IF t \in Asked(o) THEN @[t] + 1 ELSE @[t]]]
  /\ late' = [late EXCEPT ![o] = IF cancel[o] THEN @ + 1 ELSE @]
  /\ \E done \in SUBSET (Asked(o) \cap present), a \in Answers \ {"none"} :
       /\ o \notin Bulk /\ a = "ok" => done # {}
       /\ a = "rejected" => done = {}
       /\ answer' = [answer EXCEPT ![o] = a]
       /\ applied' = [applied EXCEPT ![o] = @ \cup done]
       /\ \E used \in SUBSET done : present' = present \ used
  /\ UNCHANGED <<runFrame, state, results, index, ending, held>>

(* Faulty Answer: a lost answer counts as one more target that failed.     *)
AnswerGoesOn(o) ==
  /\ pc[o] = "answer"
  /\ Record(o, IF answer[o] = "ok" THEN "succeeded" ELSE "failed")
  /\ Goto(o, "pause") /\ UNCHANGED ending
  /\ UNCHANGED <<runFrame, state, index, answer, held, present, historyVars>>

(* Faulty Answer: a lost answer is taken for a target that was skipped.    *)
AnswerUnclearSkipped(o) ==
  /\ pc[o] = "answer"
  /\ \/ answer[o] = "ok" /\ Record(o, "succeeded")
     \/ answer[o] = "unclear" /\ Record(o, "skipped")
     \/ answer[o] = "rejected" /\ Record(o, "failed")
  /\ IF answer[o] = "unclear" THEN End(o, "failed")
     ELSE Goto(o, "pause") /\ UNCHANGED ending
  /\ UNCHANGED <<runFrame, state, index, answer, held, present, historyVars>>

(* The answer is recorded.  mutationResultAmbiguous ends the operation.    *)
Answer(o) ==
  /\ pc[o] = "answer"
  /\ Record(o, IF answer[o] = "ok" THEN "succeeded" ELSE "failed")
  /\ \/ answer[o] = "unclear" /\ End(o, "failed")
     \/ answer[o] # "unclear" /\ o \in Expansions /\ End(o, "complete")
     \/ /\ answer[o] # "unclear" /\ o \notin Expansions
        /\ Goto(o, "pause") /\ UNCHANGED ending
  /\ UNCHANGED <<runFrame, state, index, answer, held, present, historyVars>>

(* Between two targets the 90 s budget may run out.                        *)
Pause(o) ==
  /\ pc[o] = "pause"
  /\ \/ End(o, "failed") /\ UNCHANGED index
     \/ /\ Goto(o, "check") /\ UNCHANGED ending
        /\ index' = [index EXCEPT ![o] = @ + 1]
  /\ UNCHANGED <<runFrame, state, results, answer, held, present, historyVars>>

(* finishOperation, first critical section.                                *)
Finish(o) ==
  /\ pc[o] = "finish"
  /\ Goto(o, "receipt")
  /\ state' = [state EXCEPT ![o] = ending[o]]
  /\ results' = IF ending[o] = "complete" THEN results
                ELSE [results EXCEPT ![o] =
                        Append(@, [target |-> "none", status |-> "stopped"])]
  /\ UNCHANGED <<runFrame, index, answer, ending, held, present, historyVars>>

(* finishOperation, second critical section.                               *)
Receipt(o) ==
  /\ pc[o] = "receipt"
  /\ Goto(o, "store")
  /\ held' = [held EXCEPT ![o] =
       [id |-> o, items |-> results[o],
        cancelled |-> ending[o] = "cancelled" \/ state[o] = "cancelled"]]
  /\ UNCHANGED <<runFrame, state, results, index, answer, ending, present, historyVars>>

(* Where the newest MaxReceipts receipts are that are not a week old.       *)
Kept(receipts) ==
  LET recent == {i \in DOMAIN receipts : age[receipts[i].id] # "old"}
  IN {i \in recent : Cardinality({j \in recent : j > i}) < MaxReceipts}

(* Those of the receipts, in the order they have.                          *)
InOrder(kept) ==
  {at \in [1 .. Cardinality(kept) -> kept] :
     \A i, j \in DOMAIN at : i < j => at[i] < at[j]}

(* featureData.Update, under the store's mutex.  Its error is ignored.     *)
Store(o) ==
  /\ pc[o] = "store"
  /\ Goto(o, "done")
  /\ \/ LET receipts == Append(ledger, held[o])
        IN \E at \in InOrder(Kept(receipts)) :
             ledger' = [k \in DOMAIN at |-> receipts[at[k]]]
     \/ UNCHANGED ledger
  /\ UNCHANGED <<opVars, results, index, answer, ending, held, present, historyVars>>

RunStep(o) ==
  \/ Connect(o) \/ CheckCancel(o) \/ Validate(o) \/ ValidateExpansion(o)
  \/ Send(o) \/ Answer(o) \/ Pause(o) \/ Finish(o) \/ Receipt(o) \/ Store(o)

-----------------------------------------------------------------------------
(* Time passes: two minutes to ExpiresAt, a week for the ledger.  A run is *)
(* over long before its receipt is a week old.                             *)
Ages(o) ==
  /\ state[o] # "none"
  /\ \/ age[o] = "fresh" /\ age' = [age EXCEPT ![o] = "expired"]
     \/ /\ age[o] = "expired" /\ pc[o] \in {"idle", "done"}
        /\ age' = [age EXCEPT ![o] = "old"]
  /\ UNCHANGED <<state, cancel, runVars, ledger, present, historyVars>>

(* League gains or loses a target by other hands.                          *)
LeagueChanges ==
  /\ \E t \in Targets : present' \in {present \cup {t}, present \ {t}}
  /\ present' # present
  /\ UNCHANGED <<opVars, runVars, ledger, historyVars>>

(* RiftOps restarts: operations lived in memory, the ledger is a file.     *)
Restart ==
  /\ state' = [o \in Operations |-> "none"]
  /\ pc' = [o \in Operations |-> IF state[o] = "none" THEN pc[o] ELSE "done"]
  /\ state' # state
  /\ UNCHANGED <<age, cancel, results, index, answer, ending, held, ledger,
                 present, historyVars>>

Next ==
  \/ \E o \in Operations :
       \/ Preview(o) \/ ExecuteExpired(o) \/ Execute(o) \/ Cancel(o)
       \/ RunStep(o) \/ Ages(o)
  \/ ClearReceipts \/ LeagueChanges \/ Restart

(* The scheduler runs the goroutine and the 90 s context bounds every      *)
(* request it waits for.                                                   *)
Fairness == \A o \in Operations : WF_vars(RunStep(o))

Spec == Init /\ [][Next]_vars /\ Fairness

-----------------------------------------------------------------------------
(* Properties.                                                             *)

(* The types of the operations, their goroutines and the ledger.           *)
TypeOK ==
  /\ state \in [Operations -> States]
  /\ age \in [Operations -> {"fresh", "expired", "old"}]
  /\ cancel \in [Operations -> BOOLEAN]
  /\ results \in [Operations -> Seq(Results)]
  /\ pc \in [Operations -> Steps]
  /\ index \in [Operations -> Nat \ {0}]
  /\ answer \in [Operations -> Answers]
  /\ ending \in [Operations -> Endings]
  /\ held \in [Operations -> Receipts]
  /\ ledger \in Seq(Receipts)
  /\ present \subseteq Targets
  /\ sent \in [Operations -> [Targets -> Nat]]
  /\ applied \in [Operations -> SUBSET Targets]
  /\ late \in [Operations -> Nat]

(* However execute requests, cancels and expiry interleave with the        *)
(* goroutine, an operation asks League to change a target at most once     *)
(* (Started, the target loop).                                             *)
OncePerTarget == \A o \in Operations, t \in Targets : sent[o][t] <= 1

(* After an ambiguous answer the operation sends nothing more: "processing *)
(* stopped and no retry was attempted" (mutationResultAmbiguous).          *)
StopsWhenUnclear ==
  [][\A o \in Operations : answer[o] = "unclear" => sent'[o] = sent[o]]_vars

(* A cancel lets at most one more mutation out: the one whose check of the *)
(* Cancel channel came before it.                                          *)
CancelStopsSoon == \A o \in Operations : late[o] <= 1

Named(items, statuses) == {items[i].target : i \in {j \in DOMAIN items : items[j].status \in statuses}}

(* Every receipt on the ledger is true of the run it is about, although a  *)
(* cancel, the last target, an expired execute, a clear and other          *)
(* operations may cross the three critical sections that make it:          *)
(* - what it calls succeeded League did apply, and whatever League applied *)
(*   is named there as succeeded or failed, never skipped or left out;     *)
(* - a bulk selection's names one grant for them all: a receipt that calls *)
(*   it succeeded is one of a request for every grant, and a request that  *)
(*   changed anything is never passed over, but which grants League took   *)
(*   it does not say;                                                      *)
(* - it says cancelled only when a mutation was left to make, and covers   *)
(*   all of them unless it says that the run stopped or was cancelled;     *)
(* - it is the only one of its operation.                                  *)
ReceiptOfBatch(r) ==
  /\ Named(r.items, {"succeeded"}) \subseteq applied[r.id]
  /\ applied[r.id] \subseteq Named(r.items, {"succeeded", "failed"})

ReceiptOfBulk(r) ==
  /\ Named(r.items, {"succeeded"}) # {} => \A t \in AllTargets(r.id) : sent[r.id][t] = 1
  /\ applied[r.id] # {} => Named(r.items, {"succeeded", "failed"}) # {}

ReceiptAccounts(r) == IF r.id \in Bulk THEN ReceiptOfBulk(r) ELSE ReceiptOfBatch(r)

ReceiptMatchesRun(r) ==
  LET treated == Cardinality({j \in DOMAIN r.items : r.items[j].status # "stopped"})
  IN /\ r.cancelled => treated < Work(r.id)
     /\ treated = Len(r.items) => treated = Work(r.id)

ReceiptsTrue ==
  \A i \in DOMAIN ledger :
    /\ ReceiptAccounts(ledger[i]) /\ ReceiptMatchesRun(ledger[i])
    /\ \A j \in DOMAIN ledger : ledger[i].id = ledger[j].id => i = j

(* What an operation shows the page that runs it, and what it does to      *)
(* League, is no more than OperationLifecycle promises.                    *)
promisedStarted == {o \in Operations : Started(o)}
promisedOver == {o \in Operations : pc[o] \in {"receipt", "store", "done"}}
promisedPlan ==
  [o \in Operations |-> IF state[o] = "none" /\ ~Started(o) THEN {}
                        ELSE AllTargets(o)]
promisedTouched == [o \in Operations |-> {t \in Targets : sent[o][t] > 0}]
promisedReported ==
  [o \in Operations |-> Named(results[o], {"succeeded", "failed", "skipped"})]
promisedSucceeded == [o \in Operations |-> Named(results[o], {"succeeded"})]

Promise == INSTANCE OperationLifecycle WITH
  Together <- Bulk, status <- state, started <- promisedStarted, over <- promisedOver,
  plan <- promisedPlan, touched <- promisedTouched, reported <- promisedReported,
  succeeded <- promisedSucceeded

(* The goroutine, its handlers and the clock implement the promise: one    *)
(* start, one request a target, nothing after the end, no success that     *)
(* League did not make (of a bulk selection, that was not asked for), a    *)
(* result for every target of a complete run (of a bulk selection, one for *)
(* them all), and an end however League answers.                           *)
KeepsPromise == Promise!Spec

(* An operation that was started ends, however League answers, and its     *)
(* receipt has been written or given up.                                   *)
RunsEnd == \A o \in Operations : pc[o] = "connect" ~> pc[o] = "done"

=============================================================================
