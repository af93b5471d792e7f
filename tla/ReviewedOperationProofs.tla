----------------------- MODULE ReviewedOperationProofs -----------------------
(***************************************************************************)
(* Proofs about ReviewedOperation, for any operations, plans and targets:  *)
(* what an operation sends, that it implements OperationLifecycle (each    *)
(* step of a handler, of a goroutine, of the clock or of League is a step  *)
(* of the promise, or none), and that its receipts are true.               *)
(***************************************************************************)
EXTENDS ReviewedOperation, FiniteSetTheorems, SequenceTheorems, TLAPS

-----------------------------------------------------------------------------
(* The inductive invariant.  The ledger is no part of it: nothing that     *)
(* limits what an operation sends depends on the receipts.                 *)

Typed ==
  /\ cancel \in [Operations -> BOOLEAN]
  /\ pc \in [Operations -> Steps]
  /\ index \in [Operations -> Nat \ {0}]
  /\ answer \in [Operations -> Answers]
  /\ sent \in [Operations -> [Targets -> Nat]]
  /\ late \in [Operations -> Nat]

(* In the target loop, before and after the mutation of a round.           *)
Ahead == {"idle", "connect", "check", "validate", "send"}
After == {"answer", "pause"}

(* What is still to come was not sent.  A bulk selection sends everything  *)
(* in its only round.                                                      *)
Untouched(o) ==
  /\ pc[o] \in Ahead =>
       \A i \in 1 .. Len(Plan[o]) : i >= index[o] => sent[o][Plan[o][i]] = 0
  /\ pc[o] \in After /\ o \notin Bulk =>
       \A i \in 1 .. Len(Plan[o]) : i > index[o] => sent[o][Plan[o][i]] = 0

OneRound(o) ==
  o \in Bulk =>
    /\ index[o] = 1 /\ pc[o] # "pause"
    /\ pc[o] = "answer" => \A t \in AllTargets(o) : sent[o][t] = 1

(* Inside a round there is a target.                                       *)
InPlan(o) == pc[o] \in {"validate", "send", "answer"} => index[o] <= Len(Plan[o])

(* An unclear answer is the last thing that happens in the loop.           *)
Unclear(o) == answer[o] = "unclear" => pc[o] \notin Ahead \cup {"pause"}

(* A mutation after the cancel is followed by the check of the channel.    *)
Cancelled(o) ==
  late[o] > 0 => cancel[o] /\ pc[o] \notin {"idle", "connect", "validate", "send"}

IndInv ==
  /\ Typed /\ OncePerTarget /\ CancelStopsSoon
  /\ \A o \in Operations : Untouched(o) /\ OneRound(o) /\ InPlan(o) /\ Unclear(o) /\ Cancelled(o)

(* The plan of an operation names targets, each once.                      *)
LEMMA PlanType ==
  ASSUME NEW o \in Operations
  PROVE  /\ Len(Plan[o]) \in Nat
         /\ \A i \in 1 .. Len(Plan[o]) : Plan[o][i] \in Targets
         /\ \A i, j \in 1 .. Len(Plan[o]) : Plan[o][i] = Plan[o][j] => i = j
         /\ Work(o) \in Nat /\ Work(o) <= Len(Plan[o])
         /\ AllTargets(o) \subseteq Targets /\ AllTargets(o) # {}
         /\ o \in Bulk => Work(o) = 1
         /\ o \notin Bulk => Work(o) = Len(Plan[o])
  <1>1. Plan[o] \in Seq(Targets) /\ Len(Plan[o]) > 0
    BY PlanAssumption
  <1>2. Len(Plan[o]) \in Nat /\ \A i \in 1 .. Len(Plan[o]) : Plan[o][i] \in Targets
    BY <1>1
  <1>3. AllTargets(o) \subseteq Targets /\ Plan[o][1] \in AllTargets(o)
    BY <1>1, <1>2 DEF AllTargets
  <1>4. Bulk \subseteq Expansions /\ (o \in Expansions \ Bulk => Len(Plan[o]) = 1)
    BY KindAssumption
  <1> QED BY <1>1, <1>2, <1>3, <1>4, PlanAssumption DEF Work

LEMMA InitIndInv == Init => IndInv
  <1> SUFFICES ASSUME Init PROVE IndInv OBVIOUS
  <1>1. Typed BY DEF Init, Typed, Steps, Answers
  <1>2. OncePerTarget /\ CancelStopsSoon BY DEF Init, OncePerTarget, CancelStopsSoon
  <1>3. ASSUME NEW o \in Operations
        PROVE  Untouched(o) /\ OneRound(o) /\ InPlan(o) /\ Unclear(o) /\ Cancelled(o)
    BY PlanType DEF Init, Untouched, OneRound, InPlan, Unclear, Cancelled, Ahead, After
  <1> QED BY <1>1, <1>2, <1>3 DEF IndInv

(* A step that sends nothing keeps the invariant if each operation's       *)
(* goroutine stays, leaves the loop, or goes on to the next place in it.   *)
Moves(o) ==
  \/ pc'[o] = pc[o] /\ index'[o] = index[o]
  \/ pc'[o] \in {"finish", "receipt", "store", "done"} /\ index'[o] = index[o]
  \/ pc'[o] \in {"connect", "check"} /\ pc[o] \in {"idle", "connect"} /\ index'[o] = index[o]
  \/ /\ pc[o] = "check" /\ pc'[o] = "validate" /\ index'[o] = index[o]
     /\ index[o] <= Work(o) /\ ~cancel[o]
  \/ pc[o] = "validate" /\ pc'[o] = "send" /\ index'[o] = index[o]
  \/ pc[o] = "validate" /\ pc'[o] = "pause" /\ index'[o] = index[o] /\ o \notin Bulk
  \/ /\ pc[o] = "answer" /\ pc'[o] = "pause" /\ index'[o] = index[o]
     /\ answer[o] # "unclear" /\ o \notin Bulk
  \/ pc[o] = "pause" /\ pc'[o] = "check" /\ index'[o] = index[o] + 1

LEMMA MovesInv ==
  ASSUME IndInv,
         cancel' \in [Operations -> BOOLEAN], pc' \in [Operations -> Steps],
         index' \in [Operations -> Nat \ {0}],
         UNCHANGED <<answer, sent, late>>,
         \A o \in Operations : cancel[o] => cancel'[o],
         \A o \in Operations : Moves(o)
  PROVE  IndInv'
  <1>1. Typed' BY DEF IndInv, Typed
  <1>2. OncePerTarget' /\ CancelStopsSoon'
    BY DEF IndInv, OncePerTarget, CancelStopsSoon
  <1>3. ASSUME NEW o \in Operations
        PROVE  Untouched(o)' /\ OneRound(o)' /\ InPlan(o)' /\ Unclear(o)' /\ Cancelled(o)'
    <2> USE DEF Ahead, After
    <2>0. /\ Moves(o) /\ Untouched(o) /\ OneRound(o) /\ InPlan(o) /\ Unclear(o) /\ Cancelled(o)
          /\ index[o] \in Nat /\ index'[o] \in Nat /\ pc[o] \in Steps /\ pc'[o] \in Steps
          /\ late[o] \in Nat
      BY <1>3 DEF IndInv, Typed
    <2>1. Untouched(o)' BY <2>0, PlanType DEF Untouched, OneRound, Moves, Steps
    <2>5. OneRound(o)'
      <3>1. sent' = sent BY <1>3
      <3>2. o \in Bulk => index'[o] = 1 /\ pc'[o] # "pause" /\ (pc'[o] = "answer" => pc[o] = "answer")
        BY <2>0 DEF OneRound, Moves, Steps
      <3>3. o \in Bulk /\ pc[o] = "answer" => \A t \in AllTargets(o) : sent'[o][t] = 1
        BY <2>0, <3>1 DEF OneRound
      <3> QED BY <3>2, <3>3 DEF OneRound, AllTargets
    <2>2. InPlan(o)' BY <2>0, PlanType DEF InPlan, Moves, Steps
    <2>3. Unclear(o)' BY <2>0 DEF Unclear, Moves, Steps
    <2>4. Cancelled(o)' BY <1>3, <2>0 DEF Cancelled, Moves, Steps
    <2> QED BY <2>1, <2>2, <2>3, <2>4, <2>5
  <1> QED BY <1>1, <1>2, <1>3 DEF IndInv

(* The handlers, time, League and a restart.                               *)
LEMMA OutsideInv ==
  ASSUME IndInv,
         \/ \E o \in Operations : \/ Preview(o) \/ ExecuteExpired(o) \/ Execute(o)
                                  \/ Cancel(o) \/ Ages(o)
         \/ ClearReceipts \/ LeagueChanges \/ Restart
  PROVE  IndInv'
  <1> USE DEF IndInv, Typed, opVars, runVars, historyVars
  <1>1. CASE \/ \E o \in Operations : Preview(o) \/ ExecuteExpired(o) \/ Ages(o)
             \/ ClearReceipts \/ LeagueChanges
    <2>1. UNCHANGED <<cancel, pc, index, answer, sent, late>>
      BY <1>1 DEF Preview, ExecuteExpired, Ages, ClearReceipts, LeagueChanges
    <2>2. \A o \in Operations : Moves(o) BY <2>1 DEF Moves
    <2> QED BY <2>1, <2>2, MovesInv
  <1>2. ASSUME NEW o \in Operations, Execute(o) PROVE IndInv'
    <2>1. /\ UNCHANGED <<cancel, index, answer, sent, late>>
          /\ pc' = [pc EXCEPT ![o] = "connect"] /\ pc[o] = "idle"
      BY <1>2 DEF Execute, Started
    <2>2. pc' \in [Operations -> Steps] BY <2>1 DEF Steps
    <2>3. \A p \in Operations : Moves(p) BY <2>1 DEF Moves
    <2> QED BY <2>1, <2>2, <2>3, MovesInv
  <1>3. ASSUME NEW o \in Operations, Cancel(o) PROVE IndInv'
    <2>1. UNCHANGED <<pc, index, answer, sent, late>> /\ cancel' = [cancel EXCEPT ![o] = TRUE]
      BY <1>3 DEF Cancel
    <2>2. cancel' \in [Operations -> BOOLEAN] BY <2>1
    <2>3. \A p \in Operations : cancel[p] => cancel'[p] BY <2>1
    <2>4. \A p \in Operations : Moves(p) BY <2>1 DEF Moves
    <2> QED BY <2>1, <2>2, <2>3, <2>4, MovesInv
  <1>4. CASE Restart
    <2>1. /\ UNCHANGED <<cancel, index, answer, sent, late>>
          /\ pc' = [o \in Operations |-> IF state[o] = "none" THEN pc[o] ELSE "done"]
      BY <1>4 DEF Restart
    <2>2. pc' \in [Operations -> Steps] BY <2>1 DEF Steps
    <2>3. \A p \in Operations : Moves(p) BY <2>1 DEF Moves
    <2> QED BY <2>1, <2>2, <2>3, MovesInv
  <1> QED BY <1>1, <1>2, <1>3, <1>4

(* A goroutine's steps other than the mutation.                            *)
LEMMA LoopInv ==
  ASSUME IndInv, NEW o \in Operations,
         \/ Connect(o) \/ CheckCancel(o) \/ Validate(o) \/ ValidateExpansion(o)
         \/ Answer(o) \/ Pause(o) \/ Finish(o) \/ Receipt(o) \/ Store(o)
  PROVE  IndInv'
  <1>1. UNCHANGED <<cancel, answer, sent, late>>
    BY DEF Connect, CheckCancel, Validate, ValidateExpansion, Answer, Pause, Finish,
           Receipt, Store, runFrame, opVars, historyVars
  <1>2. \E step \in Steps : pc' = [pc EXCEPT ![o] = step]
    BY DEF Connect, CheckCancel, Validate, ValidateExpansion, Answer, Pause, Finish,
           Receipt, Store, Goto, End, Steps
  <1>3. \/ UNCHANGED index
        \/ index' = [index EXCEPT ![o] = index[o] + 1] /\ pc[o] = "pause" /\ pc'[o] = "check"
    <2> pc \in [Operations -> Steps] BY DEF IndInv, Typed
    <2> QED BY DEF Connect, CheckCancel, Validate, ValidateExpansion, Answer, Pause, Finish,
                   Receipt, Store, Goto, End
  <1>4. pc \in [Operations -> Steps] /\ pc' \in [Operations -> Steps]
    BY <1>2 DEF IndInv, Typed
  <1>5. index \in [Operations -> Nat \ {0}] /\ index' \in [Operations -> Nat \ {0}]
    BY <1>3 DEF IndInv, Typed
  <1>6. Moves(o)
    BY <1>3, <1>4, <1>5, KindAssumption
       DEF Moves, Connect, CheckCancel, Validate, ValidateExpansion, Answer, Pause,
           Finish, Receipt, Store, Goto, End
  <1>7. ASSUME NEW p \in Operations, p # o PROVE Moves(p)
    BY <1>2, <1>3, <1>4, <1>5, <1>7 DEF Moves
  <1>8. \A p \in Operations : Moves(p) BY <1>6, <1>7
  <1>9. cancel' \in [Operations -> BOOLEAN] BY <1>1 DEF IndInv, Typed
  <1>10. \A p \in Operations : cancel[p] => cancel'[p] BY <1>1
  <1> QED BY <1>1, <1>4, <1>5, <1>8, <1>9, <1>10, MovesInv

(* The mutation.                                                           *)
LEMMA AskedType ==
  ASSUME IndInv, NEW o \in Operations, pc[o] = "send"
  PROVE  /\ index[o] \in 1 .. Len(Plan[o]) /\ Target(o) \in AllTargets(o)
         /\ Asked(o) \subseteq AllTargets(o)
         /\ \A t \in Asked(o) : t \in Targets /\ sent[o][t] = 0
         /\ o \notin Bulk => Asked(o) = {Target(o)}
         /\ o \in Bulk => Asked(o) = AllTargets(o) /\ index[o] = 1
  <1>1. /\ index[o] \in Nat \ {0} /\ Untouched(o) /\ OneRound(o) /\ InPlan(o)
    BY DEF IndInv, Typed
  <1>2. index[o] \in 1 .. Len(Plan[o]) BY <1>1, PlanType DEF InPlan
  <1>3. Target(o) \in AllTargets(o) BY <1>2 DEF Target, AllTargets
  <1>4. Asked(o) \subseteq AllTargets(o) BY <1>3 DEF Asked
  <1>5. \A i \in 1 .. Len(Plan[o]) : i >= index[o] => sent[o][Plan[o][i]] = 0
    BY <1>1 DEF Untouched, Ahead
  <1>6. sent[o][Target(o)] = 0 BY <1>2, <1>5 DEF Target
  <1>7. o \in Bulk => \A t \in AllTargets(o) : sent[o][t] = 0
    BY <1>1, <1>5 DEF OneRound, AllTargets
  <1> QED BY <1>1, <1>2, <1>3, <1>4, <1>6, <1>7, PlanType DEF Asked, OneRound

LEMMA SendInv ==
  ASSUME IndInv, NEW o \in Operations, Send(o)
  PROVE  IndInv'
  <1> DEFINE n == index[o]
             A == Asked(o)
  <1>1. /\ n \in 1 .. Len(Plan[o]) /\ A \subseteq Targets
        /\ \A t \in A : sent[o][t] = 0
        /\ pc[o] = "send" /\ late[o] = 0
    <2>1. pc[o] = "send" /\ late[o] \in Nat /\ Cancelled(o)
      BY DEF IndInv, Typed, Send
    <2>2. n \in 1 .. Len(Plan[o]) /\ \A t \in A : t \in Targets /\ sent[o][t] = 0
      BY <2>1, AskedType
    <2> QED BY <2>1, <2>2 DEF Cancelled
  <1>2. /\ pc' = [pc EXCEPT ![o] = "answer"]
        /\ sent' = [sent EXCEPT ![o] =
                      [t \in Targets |-> IF t \in A THEN sent[o][t] + 1 ELSE sent[o][t]]]
        /\ late' = [late EXCEPT ![o] = IF cancel[o] THEN late[o] + 1 ELSE late[o]]
        /\ UNCHANGED <<cancel, index>>
    BY DEF Send, Goto, runFrame
  <1>3. \E a \in Answers : answer' = [answer EXCEPT ![o] = a]
    BY DEF Send
  <1>10. A = Asked(o) OBVIOUS
  <1> HIDE DEF A
  <1>4. Typed'
    <2> USE DEF IndInv, Typed
    <2>1. pc' \in [Operations -> Steps] BY <1>2 DEF Steps
    <2>2. sent' \in [Operations -> [Targets -> Nat]]
      <3>1. [t \in Targets |-> IF t \in A THEN sent[o][t] + 1 ELSE sent[o][t]] \in [Targets -> Nat]
        OBVIOUS
      <3> QED BY <1>2, <3>1
    <2>3. late' \in [Operations -> Nat] BY <1>2
    <2>4. answer' \in [Operations -> Answers] BY <1>3
    <2>5. cancel' \in [Operations -> BOOLEAN] /\ index' \in [Operations -> Nat \ {0}]
      BY <1>2
    <2> QED BY <2>1, <2>2, <2>3, <2>4, <2>5
  <1>5. /\ \A p \in Operations, u \in Targets :
             (p # o \/ u \notin A) => sent'[p][u] = sent[p][u]
        /\ \A t \in A : sent'[o][t] = 1
    BY <1>1, <1>2 DEF IndInv, Typed
  <1>6. OncePerTarget' BY <1>5 DEF IndInv, OncePerTarget
  <1>7. CancelStopsSoon' BY <1>1, <1>2 DEF IndInv, Typed, CancelStopsSoon
  <1>8. Untouched(o)' /\ OneRound(o)' /\ InPlan(o)' /\ Unclear(o)' /\ Cancelled(o)'
    <2>1. pc'[o] = "answer" /\ index'[o] = n BY <1>2 DEF IndInv, Typed
    <2>2. o \notin Bulk => \A i \in 1 .. Len(Plan[o]) : i > n => sent'[o][Plan[o][i]] = 0
      <3> SUFFICES ASSUME o \notin Bulk, NEW i \in 1 .. Len(Plan[o]), i > n
                   PROVE  sent'[o][Plan[o][i]] = 0
        OBVIOUS
      <3>1. Plan[o][i] \in Targets /\ Plan[o][i] # Plan[o][n] BY <1>1, PlanType
      <3>2. sent[o][Plan[o][i]] = 0 BY <1>1 DEF IndInv, Untouched, Ahead
      <3>3. Plan[o][i] \notin A BY <1>10, <3>1 DEF Asked, Target
      <3> QED BY <3>1, <3>2, <3>3, <1>5
    <2>3. Cancelled(o)'
      <3>1. cancel[o] \in BOOLEAN /\ cancel'[o] = cancel[o] BY <1>2 DEF IndInv, Typed
      <3>2. late'[o] > 0 => cancel[o] BY <1>1, <1>2 DEF IndInv, Typed
      <3> QED BY <2>1, <3>1, <3>2 DEF Cancelled
    <2>4. OneRound(o)'
      <3>1. o \in Bulk => \A t \in AllTargets(o) : sent'[o][t] = 1
        BY <1>5, <1>10 DEF Asked
      <3> QED BY <2>1, <3>1 DEF IndInv, OneRound
    <2> QED BY <1>1, <2>1, <2>2, <2>3, <2>4 DEF Untouched, InPlan, Unclear, Ahead, After
  <1>9. ASSUME NEW p \in Operations, p # o
        PROVE  Untouched(p)' /\ OneRound(p)' /\ InPlan(p)' /\ Unclear(p)' /\ Cancelled(p)'
    <2>1. /\ pc'[p] = pc[p] /\ index'[p] = index[p] /\ late'[p] = late[p]
          /\ answer'[p] = answer[p] /\ cancel'[p] = cancel[p]
      BY <1>2, <1>3, <1>9 DEF IndInv, Typed
    <2>2. \A i \in 1 .. Len(Plan[p]) : sent'[p][Plan[p][i]] = sent[p][Plan[p][i]]
      BY <1>5, <1>9, PlanType
    <2>3. Untouched(p) /\ OneRound(p) /\ InPlan(p) /\ Unclear(p) /\ Cancelled(p) BY DEF IndInv
    <2>4. OneRound(p)'
      <3>1. \A t \in AllTargets(p) : sent'[p][t] = sent[p][t] BY <1>5, <1>9, PlanType
      <3> QED BY <2>1, <2>3, <3>1 DEF OneRound
    <2> QED BY <2>1, <2>2, <2>3, <2>4 DEF Untouched, InPlan, Unclear, Cancelled
  <1> QED BY <1>4, <1>6, <1>7, <1>8, <1>9 DEF IndInv

LEMMA NextIndInv == IndInv /\ [Next]_vars => IndInv'
  <1> SUFFICES ASSUME IndInv, [Next]_vars PROVE IndInv' OBVIOUS
  <1>1. CASE UNCHANGED vars
    <2>1. UNCHANGED <<cancel, pc, index, answer, sent, late>>
      BY <1>1 DEF vars, opVars, runVars, historyVars
    <2>2. \A o \in Operations : Moves(o) BY <2>1 DEF Moves
    <2> QED BY <2>1, <2>2, MovesInv DEF IndInv, Typed
  <1>2. CASE Next
    BY <1>2, OutsideInv, LoopInv, SendInv DEF Next, RunStep
  <1> QED BY <1>1, <1>2

-----------------------------------------------------------------------------
(* However execute requests, cancels, expiry and restarts interleave with  *)
(* the goroutine, an operation asks League to change a target at most once *)
(* (operationExecuteHandler's Started flag and the target loop).           *)
THEOREM MutatesOnce == Spec => []OncePerTarget
  <1>1. IndInv => OncePerTarget BY DEF IndInv
  <1> QED BY <1>1, InitIndInv, NextIndInv, PTL DEF Spec

(* After the user cancelled, at most one more mutation leaves              *)
(* (runReviewedOperation's check at the head of the loop).                 *)
THEOREM CancelTakesEffect == Spec => []CancelStopsSoon
  <1>1. IndInv => CancelStopsSoon BY DEF IndInv
  <1> QED BY <1>1, InitIndInv, NextIndInv, PTL DEF Spec

(* After an answer that leaves open what League did, the operation sends   *)
(* nothing more (mutationResultAmbiguous).                                 *)
THEOREM UnclearIsFinal == Spec => StopsWhenUnclear
  <1>1. IndInv /\ [Next]_vars
          => [\A o \in Operations : answer[o] = "unclear" => sent'[o] = sent[o]]_vars
    <2> SUFFICES ASSUME IndInv, Next, NEW o \in Operations, answer[o] = "unclear"
                 PROVE  sent'[o] = sent[o]
      OBVIOUS
    <2>1. pc[o] # "send" BY DEF IndInv, Unclear, Ahead
    <2>2. ASSUME NEW p \in Operations, Send(p) PROVE sent'[o] = sent[o]
      <3>1. p # o BY <2>1, <2>2 DEF Send
      <3>2. \E f : sent' = [sent EXCEPT ![p] = f] BY <2>2 DEF Send
      <3> QED BY <3>1, <3>2 DEF IndInv, Typed
    <2>3. CASE ~\E p \in Operations : Send(p)
      <3>1. UNCHANGED sent
        BY <2>3 DEF Next, RunStep, Preview, ExecuteExpired, Execute, Cancel, Ages,
             ClearReceipts, LeagueChanges, Restart, Connect, CheckCancel, Validate,
             ValidateExpansion, Answer, Pause, Finish, Receipt, Store, runFrame,
             opVars, runVars, historyVars
      <3> QED BY <3>1
    <2> QED BY <2>2, <2>3
  <1> QED BY <1>1, InitIndInv, NextIndInv, PTL DEF Spec, StopsWhenUnclear

-----------------------------------------------------------------------------
(* The invariant: where the goroutine is says what its results name.       *)

Told == {"succeeded", "failed", "skipped"}

(* The results name the first n targets of the plan.                       *)
Covers(o, items, n) == Named(items, Told) = {Plan[o][j] : j \in 1 .. n}

Endings3 == {"cancelled", "failed", "complete"}

(* Of an operation at step with index i, these results, this ending, this  *)
(* answer and these targets changed by League.                             *)
Round(o, step, i, items, how, a, done) ==
  /\ step \in {"idle", "connect"} => i = 1
  /\ step \in Ahead => i <= Work(o) + 1
  /\ step \in {"validate", "send", "answer", "pause"} => i <= Work(o)
  /\ step \in Ahead \cup {"answer"} => Covers(o, items, i - 1)
  /\ step = "pause" => Covers(o, items, i)
  /\ step = "finish" => how \in Endings3
  /\ step = "finish" /\ how = "complete" => Covers(o, items, Work(o))
  /\ step = "answer" /\ a = "ok" => o \in Bulk \/ Plan[o][i] \in done

RoundTyped ==
  /\ state \in [Operations -> States]
  /\ results \in [Operations -> Seq(Results)]
  /\ ending \in [Operations -> Endings]
  /\ applied \in [Operations -> SUBSET Targets]

Rounds ==
  \A o \in Operations :
    Round(o, pc[o], index[o], results[o], ending[o], answer[o], applied[o])

RoundInv == IndInv /\ RoundTyped /\ Rounds

-----------------------------------------------------------------------------
(* What is appended to results is named by them.                           *)
LEMMA NamedAppend ==
  ASSUME NEW items \in Seq(Results), NEW r \in Results, NEW S
  PROVE  Named(Append(items, r), S) =
           IF r.status \in S THEN Named(items, S) \cup {r.target} ELSE Named(items, S)
  <1> DEFINE more == Append(items, r)
             n == Len(items) + 1
  <1>1. /\ DOMAIN more = 1 .. n /\ DOMAIN items = 1 .. Len(items) /\ Len(items) \in Nat
        /\ \A i \in 1 .. Len(items) : more[i] = items[i]
        /\ more[n] = r
    OBVIOUS
  <1> HIDE DEF more
  <1>2. ASSUME NEW x
        PROVE  x \in Named(more, S) <=> x \in Named(items, S) \/ (r.status \in S /\ x = r.target)
    <2>1. x \in Named(more, S) <=> \E i \in 1 .. n : more[i].status \in S /\ x = more[i].target
      BY <1>1 DEF Named
    <2>2. x \in Named(items, S)
            <=> \E i \in 1 .. Len(items) : items[i].status \in S /\ x = items[i].target
      BY <1>1 DEF Named
    <2>3. ASSUME NEW i \in 1 .. n, more[i].status \in S, x = more[i].target
          PROVE  x \in Named(items, S) \/ (r.status \in S /\ x = r.target)
      <3>1. CASE i = n BY <1>1, <2>3, <3>1
      <3>2. CASE i # n
        <4>1. i \in 1 .. Len(items) BY <1>1, <3>2
        <4> QED BY <1>1, <2>2, <2>3, <4>1
      <3> QED BY <3>1, <3>2
    <2>4. ASSUME x \in Named(items, S) PROVE x \in Named(more, S)
      <3>1. PICK i \in 1 .. Len(items) : items[i].status \in S /\ x = items[i].target
        BY <2>2, <2>4
      <3>2. i \in 1 .. n /\ more[i] = items[i] BY <1>1
      <3> QED BY <2>1, <3>1, <3>2
    <2>5. ASSUME r.status \in S, x = r.target PROVE x \in Named(more, S)
      <3>1. n \in 1 .. n BY <1>1
      <3> QED BY <1>1, <2>1, <2>5, <3>1
    <2> QED BY <2>1, <2>3, <2>4, <2>5
  <1> QED BY <1>2 DEF more

(* One target more.                                                        *)
LEMMA CoversNext ==
  ASSUME NEW o \in Operations, NEW i \in Nat \ {0},
         NEW items \in Seq(Results), NEW r \in Results,
         Covers(o, items, i - 1), r.status \in Told, r.target = Plan[o][i]
  PROVE  Covers(o, Append(items, r), i)
  <1>1. Named(Append(items, r), Told) = Named(items, Told) \cup {Plan[o][i]}
    BY NamedAppend
  <1>2. {Plan[o][j] : j \in 1 .. i} = {Plan[o][j] : j \in 1 .. i - 1} \cup {Plan[o][i]}
    <2>1. 1 .. i = (1 .. i - 1) \cup {i} OBVIOUS
    <2> QED BY <2>1
  <1> QED BY <1>1, <1>2 DEF Covers

-----------------------------------------------------------------------------
(* The invariant is kept.                                                  *)

LEMMA InitRoundInv == Init => RoundInv
  <1> SUFFICES ASSUME Init PROVE RoundInv OBVIOUS
  <1>1. RoundTyped BY DEF Init, RoundTyped, States, Endings
  <1>2. ASSUME NEW o \in Operations
        PROVE  Round(o, pc[o], index[o], results[o], ending[o], answer[o], applied[o])
    <2>1. pc[o] = "idle" /\ index[o] = 1 /\ results[o] = <<>> BY DEF Init
    <2>2. Covers(o, <<>>, 0) BY DEF Covers, Named
    <2> QED BY <2>1, <2>2, PlanType DEF Round, Ahead
  <1> QED BY <1>1, <1>2, InitIndInv DEF RoundInv, Rounds

(* How a step may change an operation.                                     *)
Stays(o) ==
  /\ index'[o] = index[o] /\ results'[o] = results[o] /\ ending'[o] = ending[o]
  /\ answer'[o] = answer[o] /\ applied'[o] = applied[o]

Follows(o) ==
  \/ pc'[o] \in {"receipt", "store", "done"}
  \/ /\ pc'[o] = "finish" /\ ending'[o] \in Endings3
     /\ ending'[o] = "complete" => Covers(o, results'[o], Work(o))
  \/ Stays(o) /\ pc'[o] = pc[o]
  \/ Stays(o) /\ pc[o] = "idle" /\ pc'[o] = "connect"
  \/ Stays(o) /\ pc[o] = "connect" /\ pc'[o] = "check"
  \/ Stays(o) /\ pc[o] = "check" /\ pc'[o] = "validate" /\ index[o] <= Work(o)
  \/ Stays(o) /\ pc[o] = "validate" /\ pc'[o] = "send"
  \/ /\ pc[o] = "send" /\ pc'[o] = "answer"
     /\ index'[o] = index[o] /\ results'[o] = results[o]
     /\ answer'[o] = "ok" => o \in Bulk \/ Plan[o][index[o]] \in applied'[o]
  \/ /\ pc[o] \in {"validate", "answer"} /\ pc'[o] = "pause"
     /\ index'[o] = index[o] /\ Covers(o, results'[o], index[o])
  \/ /\ pc[o] = "pause" /\ pc'[o] = "check"
     /\ index'[o] = index[o] + 1 /\ results'[o] = results[o]

LEMMA FollowsRounds ==
  ASSUME RoundInv, \A o \in Operations : Follows(o)
  PROVE  Rounds'
  <1>1. ASSUME NEW o \in Operations
        PROVE  Round(o, pc'[o], index'[o], results'[o], ending'[o], answer'[o], applied'[o])
    <2>1. /\ Round(o, pc[o], index[o], results[o], ending[o], answer[o], applied[o])
          /\ Follows(o) /\ index[o] \in Nat \ {0} /\ pc[o] \in Steps
          /\ Work(o) \in Nat
      BY PlanType DEF RoundInv, Rounds, IndInv, Typed
    <2>2. CASE pc'[o] \in {"receipt", "store", "done", "finish"}
      <3>1. pc'[o] = "finish" => /\ ending'[o] \in Endings3
                                 /\ ending'[o] = "complete" => Covers(o, results'[o], Work(o))
        BY <2>1 DEF Follows, Round, Stays
      <3> QED BY <2>2, <3>1 DEF Round, Ahead
    <2>3. CASE /\ Stays(o)
               /\ \/ pc'[o] = pc[o]
                  \/ pc[o] = "idle" /\ pc'[o] = "connect"
                  \/ pc[o] = "connect" /\ pc'[o] = "check"
                  \/ pc[o] = "check" /\ pc'[o] = "validate" /\ index[o] <= Work(o)
                  \/ pc[o] = "validate" /\ pc'[o] = "send"
      <3>1. Round(o, pc'[o], index[o], results[o], ending[o], answer[o], applied[o])
        BY <2>1, <2>3 DEF Round, Ahead
      <3> QED BY <2>3, <3>1 DEF Stays
    <2>4. CASE /\ pc[o] = "send" /\ pc'[o] = "answer"
               /\ index'[o] = index[o] /\ results'[o] = results[o]
               /\ answer'[o] = "ok" => o \in Bulk \/ Plan[o][index[o]] \in applied'[o]
      BY <2>1, <2>4 DEF Round, Ahead
    <2>5. CASE /\ pc[o] \in {"validate", "answer"} /\ pc'[o] = "pause"
               /\ index'[o] = index[o] /\ Covers(o, results'[o], index[o])
      BY <2>1, <2>5 DEF Round, Ahead
    <2>6. CASE /\ pc[o] = "pause" /\ pc'[o] = "check"
               /\ index'[o] = index[o] + 1 /\ results'[o] = results[o]
      <3>1. index'[o] - 1 = index[o] BY <2>1, <2>6
      <3>2. Covers(o, results'[o], index'[o] - 1) BY <2>1, <2>6, <3>1 DEF Round
      <3>3. index'[o] <= Work(o) + 1 BY <2>1, <2>6 DEF Round
      <3> QED BY <2>6, <3>2, <3>3 DEF Round, Ahead
    <2> QED BY <2>1, <2>2, <2>3, <2>4, <2>5, <2>6 DEF Follows
  <1> QED BY <1>1 DEF Rounds, Round, Covers, Named

(* The handlers, time, League and a restart.                               *)
LEMMA OutsideRounds ==
  ASSUME RoundInv,
         \/ \E o \in Operations : \/ Preview(o) \/ ExecuteExpired(o) \/ Execute(o)
                                  \/ Cancel(o) \/ Ages(o)
         \/ ClearReceipts \/ LeagueChanges \/ Restart
  PROVE  RoundTyped' /\ Rounds'
  <1> USE DEF opVars, runVars, historyVars
  <1>1. UNCHANGED <<results, index, answer, ending, applied>>
    BY DEF Preview, ExecuteExpired, Execute, Cancel, Ages, ClearReceipts, LeagueChanges,
           Restart
  <1>2. RoundTyped'
    <2>1. state' \in [Operations -> States]
      BY DEF RoundInv, RoundTyped, States, Preview, ExecuteExpired, Execute, Cancel, Ages,
             ClearReceipts, LeagueChanges, Restart
    <2> QED BY <1>1, <2>1 DEF RoundInv, RoundTyped
  <1>3. \A p \in Operations :
          pc'[p] \in {pc[p], "done"} \/ (pc[p] = "idle" /\ pc'[p] = "connect")
    <2>1. pc \in [Operations -> Steps] BY DEF RoundInv, IndInv, Typed
    <2>2. CASE UNCHANGED pc BY <2>2
    <2>3. CASE \E o \in Operations : Execute(o) BY <2>1, <2>3 DEF Execute, Started
    <2>4. CASE Restart BY <2>1, <2>4 DEF Restart
    <2> QED BY <2>2, <2>3, <2>4
            DEF Preview, ExecuteExpired, Cancel, Ages, ClearReceipts, LeagueChanges
  <1>4. \A p \in Operations : Follows(p) BY <1>1, <1>3 DEF Follows, Stays
  <1> QED BY <1>2, <1>4, FollowsRounds

(* A goroutine changes its own operation only.                             *)
LEMMA OthersStay ==
  ASSUME RoundInv, NEW o \in Operations, RunStep(o), NEW p \in Operations, p # o
  PROVE  Stays(p) /\ pc'[p] = pc[p]
  <1> USE DEF runFrame, opVars, historyVars, Goto, End, Record
  <1>1. /\ pc \in [Operations -> Steps] /\ index \in [Operations -> Nat \ {0}]
        /\ answer \in [Operations -> Answers] /\ results \in [Operations -> Seq(Results)]
        /\ ending \in [Operations -> Endings] /\ applied \in [Operations -> SUBSET Targets]
    BY DEF RoundInv, IndInv, Typed, RoundTyped
  <1>2. CASE Connect(o) \/ CheckCancel(o) BY <1>1, <1>2 DEF Connect, CheckCancel, Stays
  <1>3. CASE Validate(o) \/ ValidateExpansion(o)
    BY <1>1, <1>3 DEF Validate, ValidateExpansion, Stays
  <1>4. CASE Send(o) BY <1>1, <1>4 DEF Send, Stays
  <1>5. CASE Answer(o) \/ Pause(o) BY <1>1, <1>5 DEF Answer, Pause, Stays
  <1>6. CASE Finish(o) \/ Receipt(o) \/ Store(o)
    BY <1>1, <1>6 DEF Finish, Receipt, Store, Stays
  <1> QED BY <1>2, <1>3, <1>4, <1>5, <1>6 DEF RunStep

LEMMA OthersSent ==
  ASSUME RoundInv, NEW o \in Operations, RunStep(o), NEW p \in Operations, p # o
  PROVE  sent'[p] = sent[p]
  <1>1. sent \in [Operations -> [Targets -> Nat]] BY DEF RoundInv, IndInv, Typed
  <1>2. sent' = sent \/ \E f : sent' = [sent EXCEPT ![o] = f]
    BY DEF RunStep, Connect, CheckCancel, Validate, ValidateExpansion, Send, Answer, Pause,
           Finish, Receipt, Store, historyVars
  <1> QED BY <1>1, <1>2

(* What is recorded of a target covers one more of the plan.               *)
LEMMA RecordCovers ==
  ASSUME RoundInv, NEW o \in Operations, NEW status \in Told, Record(o, status),
         pc[o] \in {"validate", "answer"}
  PROVE  /\ index[o] \in 1 .. Work(o) /\ Plan[o][index[o]] \in Targets
         /\ results' \in [Operations -> Seq(Results)]
         /\ results'[o] = Append(results[o], [target |-> Plan[o][index[o]], status |-> status])
         /\ Covers(o, results'[o], index[o])
  <1> DEFINE r == [target |-> Plan[o][index[o]], status |-> status]
  <1>1. /\ index[o] \in Nat \ {0} /\ results \in [Operations -> Seq(Results)]
        /\ Round(o, pc[o], index[o], results[o], ending[o], answer[o], applied[o])
        /\ Work(o) \in Nat /\ Work(o) <= Len(Plan[o]) /\ Len(Plan[o]) \in Nat
    BY PlanType DEF RoundInv, IndInv, Typed, RoundTyped, Rounds
  <1>2. index[o] \in 1 .. Work(o) /\ Covers(o, results[o], index[o] - 1)
    BY <1>1 DEF Round, Ahead
  <1>3. Plan[o][index[o]] \in Targets BY <1>1, <1>2, PlanType
  <1>4. r \in Results BY <1>3 DEF Results, Told
  <1>5. results' = [results EXCEPT ![o] = Append(results[o], r)] BY DEF Record, Target
  <1>6. results'[o] = Append(results[o], r) BY <1>1, <1>5
  <1>7. Append(results[o], r) \in Seq(Results) BY <1>1, <1>4
  <1>8. Covers(o, Append(results[o], r), index[o])
    BY <1>1, <1>2, <1>4, CoversNext
  <1> QED BY <1>1, <1>2, <1>3, <1>5, <1>6, <1>7, <1>8

LEMMA EndFollows ==
  ASSUME RoundInv, NEW o \in Operations, NEW how \in Endings3, End(o, how),
         how = "complete" => Covers(o, results'[o], Work(o))
  PROVE  Follows(o)
  <1>1. pc \in [Operations -> Steps] /\ ending \in [Operations -> Endings]
    BY DEF RoundInv, IndInv, Typed, RoundTyped
  <1>2. pc'[o] = "finish" /\ ending'[o] = how BY <1>1 DEF End, Goto
  <1> QED BY <1>2 DEF Follows

(* The steps of a goroutine.                                               *)
LEMMA LoopRounds ==
  ASSUME RoundInv, NEW o \in Operations, RunStep(o)
  PROVE  RoundTyped' /\ Follows(o)
  <1>1. /\ pc \in [Operations -> Steps] /\ index \in [Operations -> Nat \ {0}]
        /\ results \in [Operations -> Seq(Results)]
        /\ ending \in [Operations -> Endings] /\ applied \in [Operations -> SUBSET Targets]
        /\ answer \in [Operations -> Answers] /\ state \in [Operations -> States]
        /\ Round(o, pc[o], index[o], results[o], ending[o], answer[o], applied[o])
        /\ Work(o) \in Nat /\ index[o] \in Nat \ {0}
    BY PlanType DEF RoundInv, IndInv, Typed, RoundTyped, Rounds
  <1>2. CASE Connect(o)
    <2>1. UNCHANGED <<state, results, index, answer, applied>>
      BY <1>2 DEF Connect, historyVars, Goto, End
    <2>2. ending' \in [Operations -> Endings] BY <1>1, <1>2 DEF Connect, Endings, Goto, End
    <2>3. Follows(o) BY <1>1, <1>2, <2>1 DEF Connect, Follows, Stays, Endings3, Goto, End
    <2> QED BY <1>1, <2>1, <2>2, <2>3 DEF RoundTyped
  <1>3. CASE CheckCancel(o)
    <2>1. UNCHANGED <<state, results, index, answer, applied>>
      BY <1>3 DEF CheckCancel, historyVars, Goto, End
    <2>2. ending' \in [Operations -> Endings] BY <1>1, <1>3 DEF CheckCancel, Endings, Goto, End
    <2>3. ASSUME index[o] > Work(o), End(o, "complete") PROVE Follows(o)
      <3>1. index[o] - 1 = Work(o) /\ Covers(o, results[o], index[o] - 1)
        BY <1>1, <1>3, <2>3 DEF CheckCancel, Round, Ahead, Goto, End
      <3>2. Covers(o, results'[o], Work(o)) BY <2>1, <3>1
      <3> QED BY <2>3, <3>2, EndFollows DEF Endings3
    <2>4. ASSUME End(o, "cancelled") PROVE Follows(o) BY <2>4, EndFollows DEF Endings3
    <2>5. ASSUME index[o] <= Work(o), Goto(o, "validate"), UNCHANGED ending PROVE Follows(o)
      <3>1. pc[o] = "check" /\ pc'[o] = "validate" BY <1>1, <1>3, <2>5 DEF CheckCancel, Goto, End
      <3>2. Stays(o) BY <2>1, <2>5 DEF Stays
      <3> QED BY <2>5, <3>1, <3>2 DEF Follows, Goto, End
    <2>6. Follows(o) BY <1>3, <2>3, <2>4, <2>5 DEF CheckCancel, Goto, End
    <2> QED BY <1>1, <2>1, <2>2, <2>6 DEF RoundTyped
  <1>4. CASE Validate(o)
    <2>1. UNCHANGED <<state, index, answer, applied>> /\ pc[o] = "validate"
      BY <1>4 DEF Validate, historyVars, Goto, End
    <2>2. ending' \in [Operations -> Endings] BY <1>1, <1>4 DEF Validate, Endings, Goto, End
    <2>3. CASE End(o, "failed") /\ UNCHANGED results
      BY <1>1, <2>1, <2>2, <2>3 DEF Follows, Endings3, RoundTyped, Goto, End
    <2>4. CASE Goto(o, "send") /\ UNCHANGED <<results, ending>>
      BY <1>1, <2>1, <2>2, <2>4 DEF Follows, Stays, RoundTyped, Goto, End
    <2>5. CASE Goto(o, "pause") /\ Record(o, "skipped") /\ UNCHANGED ending
      <3>1. /\ results' \in [Operations -> Seq(Results)]
            /\ Covers(o, results'[o], index[o])
        BY <2>1, <2>5, RecordCovers DEF Told
      <3> QED BY <1>1, <2>1, <2>2, <2>5, <3>1 DEF Follows, RoundTyped, Goto, End
    <2> QED BY <1>4, <2>3, <2>4, <2>5 DEF Validate
  <1>5. CASE ValidateExpansion(o)
    <2>1. /\ UNCHANGED <<state, index, answer, applied>> /\ pc[o] = "validate"
          /\ o \in Expansions
      BY <1>5 DEF ValidateExpansion, historyVars, Goto, End
    <2>2. ending' \in [Operations -> Endings] BY <1>1, <1>5 DEF ValidateExpansion, Endings, Goto, End
    <2>3. CASE Goto(o, "send") /\ UNCHANGED <<results, ending>>
      BY <1>1, <2>1, <2>2, <2>3 DEF Follows, Stays, RoundTyped, Goto, End
    <2>4. CASE Record(o, "failed") /\ \E how \in {"failed", "complete"} : End(o, how)
      <3>1. /\ results' \in [Operations -> Seq(Results)]
            /\ Covers(o, results'[o], index[o]) /\ index[o] \in 1 .. Work(o)
        BY <2>1, <2>4, RecordCovers DEF Told
      <3>2. index[o] = Work(o) BY <1>1, <2>1, <3>1 DEF Work
      <3>3. Covers(o, results'[o], Work(o)) BY <3>1, <3>2
      <3>4. pc'[o] = "finish" /\ ending'[o] \in Endings3
        BY <1>1, <2>4 DEF Endings3, Goto, End
      <3> QED BY <1>1, <2>1, <2>2, <3>1, <3>3, <3>4 DEF Follows, RoundTyped, Goto, End
    <2> QED BY <1>5, <2>3, <2>4 DEF ValidateExpansion
  <1>6. CASE Send(o)
    <2>1. /\ UNCHANGED <<state, results, index, ending>> /\ pc[o] = "send"
          /\ pc' = [pc EXCEPT ![o] = "answer"]
      BY <1>6 DEF Send, Goto, End
    <2>3. /\ applied' \in [Operations -> SUBSET Targets]
          /\ answer'[o] = "ok" => o \in Bulk \/ Plan[o][index[o]] \in applied'[o]
      <3> DEFINE t == Plan[o][index[o]]
      <3>1. PICK done \in SUBSET (Asked(o) \cap present), a \in Answers \ {"none"} :
              /\ o \notin Bulk /\ a = "ok" => done # {}
              /\ answer' = [answer EXCEPT ![o] = a]
              /\ applied' = [applied EXCEPT ![o] = applied[o] \cup done]
        BY <1>6 DEF Send
      <3>2. Asked(o) \subseteq Targets /\ (o \notin Bulk => Asked(o) = {t})
        BY <2>1, AskedType DEF RoundInv, Target
      <3> HIDE DEF t
      <3>3. applied[o] \cup done \in SUBSET Targets BY <1>1, <3>1, <3>2
      <3>4. applied' \in [Operations -> SUBSET Targets] BY <1>1, <3>1, <3>3
      <3>5. answer'[o] = "ok" => o \in Bulk \/ t \in applied'[o] BY <1>1, <3>1, <3>2
      <3> QED BY <3>4, <3>5 DEF t
    <2>4. answer'[o] = "ok" => o \in Bulk \/ Plan[o][index[o]] \in applied'[o] BY <2>3
    <2>5. Follows(o) BY <1>1, <2>1, <2>4 DEF Follows, Goto, End
    <2> QED BY <1>1, <2>1, <2>3, <2>5 DEF RoundTyped
  <1>7. CASE Answer(o)
    <2>1. UNCHANGED <<state, index, answer, applied>> /\ pc[o] = "answer"
      BY <1>7 DEF Answer, historyVars, Goto, End
    <2>2. ending' \in [Operations -> Endings] BY <1>1, <1>7 DEF Answer, Endings, Goto, End
    <2>3. \E status \in Told : Record(o, status) BY <1>7 DEF Answer, Told, Goto, End
    <2>4. /\ results' \in [Operations -> Seq(Results)]
          /\ Covers(o, results'[o], index[o]) /\ index[o] \in 1 .. Work(o)
      BY <2>1, <2>3, RecordCovers
    <2>5. ASSUME End(o, "failed") PROVE Follows(o)
      BY <2>5, EndFollows DEF Endings3
    <2>6. ASSUME o \in Expansions, End(o, "complete") PROVE Follows(o)
      <3>1. index[o] = Work(o) BY <1>1, <2>4, <2>6 DEF Work
      <3>2. Covers(o, results'[o], Work(o)) BY <2>4, <3>1
      <3> QED BY <2>6, <3>2, EndFollows DEF Endings3
    <2>7. ASSUME Goto(o, "pause") PROVE Follows(o)
      <3>1. pc'[o] = "pause" /\ index'[o] = index[o] BY <1>1, <2>1, <2>7 DEF Goto
      <3> QED BY <2>1, <2>4, <3>1 DEF Follows, Goto, End
    <2>8. Follows(o) BY <1>7, <2>5, <2>6, <2>7 DEF Answer, Goto, End
    <2> QED BY <1>1, <2>1, <2>2, <2>4, <2>8 DEF RoundTyped
  <1>8. CASE Pause(o)
    <2>1. UNCHANGED <<state, results, answer, applied>> /\ pc[o] = "pause"
      BY <1>8 DEF Pause, historyVars, Goto, End
    <2>2. ending' \in [Operations -> Endings] BY <1>1, <1>8 DEF Pause, Endings, Goto, End
    <2>3. Follows(o) BY <1>1, <1>8, <2>1 DEF Pause, Follows, Endings3, Goto, End
    <2> QED BY <1>1, <2>1, <2>2, <2>3 DEF RoundTyped
  <1>9. CASE Finish(o)
    <2>1. /\ UNCHANGED <<index, answer, ending, applied>> /\ pc[o] = "finish"
          /\ pc' = [pc EXCEPT ![o] = "receipt"]
      BY <1>9 DEF Finish, historyVars, Goto, End
    <2>2. state' \in [Operations -> States]
      BY <1>1, <1>9 DEF Finish, Round, Endings3, States, Goto, End
    <2>3. [target |-> "none", status |-> "stopped"] \in Results BY DEF Results
    <2>4. results' \in [Operations -> Seq(Results)]
      <3>1. Append(results[o], [target |-> "none", status |-> "stopped"]) \in Seq(Results)
        BY <1>1, <2>3
      <3> QED BY <1>1, <1>9, <3>1 DEF Finish, Goto, End
    <2> QED BY <1>1, <2>1, <2>2, <2>4 DEF Follows, RoundTyped, Goto, End
  <1>10. CASE Receipt(o) \/ Store(o)
    <2>1. /\ UNCHANGED <<state, results, index, answer, ending, applied>>
          /\ pc'[o] \in {"store", "done"}
      BY <1>1, <1>10 DEF Receipt, Store, opVars, historyVars, Goto, End
    <2> QED BY <1>1, <2>1 DEF Follows, RoundTyped, Goto, End
  <1> QED BY <1>2, <1>3, <1>4, <1>5, <1>6, <1>7, <1>8, <1>9, <1>10 DEF RunStep

LEMMA NextRoundInv == RoundInv /\ [Next]_vars => RoundInv'
  <1> SUFFICES ASSUME RoundInv, [Next]_vars PROVE RoundInv' OBVIOUS
  <1>1. IndInv' BY NextIndInv DEF RoundInv
  <1>2. CASE UNCHANGED vars
    <2>1. UNCHANGED <<state, pc, index, results, ending, answer, applied>>
      BY <1>2 DEF vars, opVars, runVars, historyVars
    <2>2. \A o \in Operations : Follows(o) BY <2>1 DEF Follows, Stays
    <2> QED BY <1>1, <2>1, <2>2, FollowsRounds DEF RoundInv, RoundTyped
  <1>3. ASSUME NEW o \in Operations, RunStep(o) PROVE RoundInv'
    <2>1. RoundTyped' /\ Follows(o) BY <1>3, LoopRounds
    <2>2. \A p \in Operations : p # o => Follows(p) BY <1>3, OthersStay DEF Follows
    <2> QED BY <1>1, <2>1, <2>2, FollowsRounds DEF RoundInv
  <1>4. CASE ~\E o \in Operations : RunStep(o)
    <2>1. CASE Next BY <1>1, <1>4, <2>1, OutsideRounds DEF Next, RoundInv
    <2> QED BY <1>2, <2>1
  <1> QED BY <1>3, <1>4

-----------------------------------------------------------------------------
(* Steps of the promise.                                                   *)

promised == Promise!vars

LEMMA InitPromised == Init => Promise!Init
  <1> SUFFICES ASSUME Init PROVE Promise!Init OBVIOUS
  <1>1. promisedStarted = {} BY DEF Init, promisedStarted, Started
  <1>2. promisedOver = {} BY DEF Init, promisedOver
  <1>3. promisedPlan = [o \in Operations |-> {}]
    BY DEF Init, promisedPlan, Started
  <1>4. promisedTouched = [o \in Operations |-> {}] BY DEF Init, promisedTouched
  <1>5. /\ promisedReported = [o \in Operations |-> {}]
        /\ promisedSucceeded = [o \in Operations |-> {}]
    BY DEF Init, promisedReported, promisedSucceeded, Named
  <1> QED BY <1>1, <1>2, <1>3, <1>4, <1>5 DEF Init, Promise!Init

(* What the promise sees of an operation's place.                          *)
LEMMA SamePlace ==
  ASSUME \A o \in Operations : pc'[o] = "idle" <=> pc[o] = "idle"
  PROVE  UNCHANGED promisedStarted
  BY DEF promisedStarted, Started

LEMMA SameEnd ==
  ASSUME \A o \in Operations :
           pc'[o] \in {"receipt", "store", "done"} <=> pc[o] \in {"receipt", "store", "done"}
  PROVE  UNCHANGED promisedOver
  BY DEF promisedOver

LEMMA SamePlan ==
  ASSUME \A o \in Operations :
           (state'[o] = "none" /\ pc'[o] = "idle") <=> (state[o] = "none" /\ pc[o] = "idle")
  PROVE  UNCHANGED promisedPlan
  BY DEF promisedPlan, Started, AllTargets

LEMMA SameResults ==
  ASSUME UNCHANGED results PROVE UNCHANGED <<promisedReported, promisedSucceeded>>
  BY DEF promisedReported, promisedSucceeded, Named

LEMMA SameSent ==
  ASSUME UNCHANGED sent PROVE UNCHANGED promisedTouched
  BY DEF promisedTouched

(* A goroutine under way is live, and only Finish ends that.               *)
LEMMA RunLive ==
  ASSUME RoundInv, NEW o \in Operations, RunStep(o)
  PROVE  /\ UNCHANGED <<promisedStarted, promisedPlan>>
         /\ ~(Receipt(o) \/ Store(o)) => Promise!Live(o)
         /\ ~Finish(o) => UNCHANGED promisedOver /\ UNCHANGED state
  <1> USE DEF runFrame, opVars, historyVars, Goto, End
  <1>1. pc \in [Operations -> Steps] /\ state \in [Operations -> States]
    BY DEF RoundInv, IndInv, Typed, RoundTyped
  <1>2. pc[o] # "idle" /\ pc'[o] # "idle"
    BY <1>1 DEF RunStep, Connect, CheckCancel, Validate, ValidateExpansion, Send, Answer,
                Pause, Finish, Receipt, Store
  <1>3. \A p \in Operations : p # o => pc'[p] = pc[p]
    BY OthersStay
  <1>4. \A p \in Operations : p # o => state'[p] = state[p]
    BY <1>1 DEF RunStep, Connect, CheckCancel, Validate, ValidateExpansion, Send, Answer,
                Pause, Finish, Receipt, Store
  <1>5. UNCHANGED promisedStarted BY <1>2, <1>3, SamePlace
  <1>6. UNCHANGED promisedPlan
    <2>1. \A p \in Operations :
            (state'[p] = "none" /\ pc'[p] = "idle") <=> (state[p] = "none" /\ pc[p] = "idle")
      BY <1>2, <1>3, <1>4
    <2> QED BY <2>1, SamePlan
  <1>7. ASSUME ~(Receipt(o) \/ Store(o)) PROVE Promise!Live(o)
    <2>1. pc[o] \notin {"idle", "receipt", "store", "done"}
      BY <1>7 DEF RunStep, Connect, CheckCancel, Validate, ValidateExpansion, Send, Answer,
                  Pause, Finish
    <2> QED BY <2>1 DEF Promise!Live, promisedStarted, promisedOver, Started
  <1>8. ASSUME ~Finish(o) PROVE UNCHANGED promisedOver /\ UNCHANGED state
    <2>1. UNCHANGED state
      BY <1>8 DEF RunStep, Connect, CheckCancel, Validate, ValidateExpansion, Send, Answer,
                  Pause, Receipt, Store
    <2>2. pc'[o] \in {"receipt", "store", "done"} <=> pc[o] \in {"receipt", "store", "done"}
      BY <1>1, <1>8 DEF RunStep, Connect, CheckCancel, Validate, ValidateExpansion, Send,
                        Answer, Pause, Receipt, Store
    <2> QED BY <1>3, <2>1, <2>2, SameEnd
  <1> QED BY <1>5, <1>6, <1>7, <1>8

(* The plan of an operation that was started.                              *)
LEMMA PlanOfStarted ==
  ASSUME NEW o \in Operations, pc[o] # "idle"
  PROVE  promisedPlan[o] = AllTargets(o)
  BY DEF promisedPlan, Started

LEMMA RecordReports ==
  ASSUME RoundInv, NEW o \in Operations, RunStep(o), NEW status \in Told, Record(o, status),
         pc[o] \in {"validate", "answer"}, UNCHANGED <<sent, applied>>,
         status = "succeeded" => Promise!Succeeds(o, Plan[o][index[o]]),
         ~(Finish(o) \/ Receipt(o) \/ Store(o))
  PROVE  Promise!Report(o, Plan[o][index[o]]) /\ Plan[o][index[o]] \in Targets
  <1> DEFINE t == Plan[o][index[o]]
             r == [target |-> t, status |-> status]
  <1>1. /\ index[o] \in 1 .. Work(o) /\ t \in Targets
        /\ results' = [results EXCEPT ![o] = Append(results[o], r)]
        /\ r \in Results /\ results \in [Operations -> Seq(Results)]
    BY RecordCovers DEF Record, Target, Results, Told, RoundInv, RoundTyped
  <1>2. /\ Promise!Live(o)
        /\ UNCHANGED <<state, promisedStarted, promisedOver, promisedPlan>>
    BY RunLive
  <1>3. t \in promisedPlan[o] 
    <2>1. pc[o] # "idle" /\ index[o] \in 1 .. Len(Plan[o]) BY <1>1, PlanType
    <2> QED BY <2>1, PlanOfStarted DEF AllTargets
  <1>11. o \in Bulk => promisedReported[o] = {}
    <2>1. Covers(o, results[o], index[o] - 1)
      BY DEF RoundInv, Rounds, Round, Ahead
    <2>2. o \in Bulk => index[o] - 1 = 0 BY DEF RoundInv, IndInv, OneRound
    <2>3. o \in Bulk => Named(results[o], Told) = {} BY <2>1, <2>2 DEF Covers
    <2> QED BY <2>3 DEF promisedReported, Told
  <1>4. t \notin promisedReported[o]
    <2>1. Covers(o, results[o], index[o] - 1)
      BY DEF RoundInv, Rounds, Round, Ahead
    <2>2. promisedReported[o] = {Plan[o][j] : j \in 1 .. index[o] - 1}
      BY <2>1 DEF promisedReported, Covers, Told
    <2>3. ASSUME NEW j \in 1 .. index[o] - 1 PROVE Plan[o][j] # t
      <3>1. j \in 1 .. Len(Plan[o]) /\ index[o] \in 1 .. Len(Plan[o]) /\ j # index[o]
        BY <1>1, PlanType
      <3> QED BY <3>1, PlanType
    <2> QED BY <2>2, <2>3
  <1>5. /\ Named(Append(results[o], r), Told) = Named(results[o], Told) \cup {t}
        /\ Named(Append(results[o], r), {"succeeded"}) =
             IF status = "succeeded" THEN Named(results[o], {"succeeded"}) \cup {t}
             ELSE Named(results[o], {"succeeded"})
    <2> HIDE DEF t
    <2>1. r.target = t /\ r.status = status /\ results[o] \in Seq(Results) BY <1>1
    <2>2. Named(Append(results[o], r), Told) =
            IF r.status \in Told THEN Named(results[o], Told) \cup {r.target}
            ELSE Named(results[o], Told)
      BY <1>1, <2>1, NamedAppend
    <2>3. Named(Append(results[o], r), {"succeeded"}) =
            IF r.status \in {"succeeded"} THEN Named(results[o], {"succeeded"}) \cup {r.target}
            ELSE Named(results[o], {"succeeded"})
      <3> DEFINE S == {"succeeded"}
      <3>1. r \in Results BY <1>1
      <3> HIDE DEF r, S
      <3>2. Named(Append(results[o], r), S) =
              IF r.status \in S THEN Named(results[o], S) \cup {r.target}
              ELSE Named(results[o], S)
        BY <2>1, <3>1, NamedAppend
      <3> QED BY <3>2 DEF S
    <2>4. r.status \in Told /\ (r.status \in {"succeeded"} <=> status = "succeeded") BY <2>1
    <2> HIDE DEF r
    <2>5. Named(Append(results[o], r), Told) = Named(results[o], Told) \cup {t}
      BY <2>1, <2>2, <2>4
    <2>6. Named(Append(results[o], r), {"succeeded"}) =
            IF status = "succeeded" THEN Named(results[o], {"succeeded"}) \cup {t}
            ELSE Named(results[o], {"succeeded"})
      BY <2>1, <2>3, <2>4
    <2> QED BY <2>5, <2>6
  <1>6. /\ \A p \in Operations : p # o => results'[p] = results[p]
        /\ results'[o] = Append(results[o], r)
    BY <1>1
  <1>7. promisedReported' = [promisedReported EXCEPT ![o] = @ \cup {t}]
    <2>1. promisedReported' = [p \in Operations |-> Named(results'[p], Told)]
      BY DEF promisedReported, Named, Told
    <2>2. promisedReported = [p \in Operations |-> Named(results[p], Told)]
      BY DEF promisedReported, Told
    <2> QED BY <1>5, <1>6, <2>1, <2>2
  <1>8. \/ UNCHANGED promisedSucceeded
        \/ /\ Promise!Succeeds(o, t)
           /\ promisedSucceeded' = [promisedSucceeded EXCEPT ![o] = @ \cup {t}]
    <2>1. promisedSucceeded' = [p \in Operations |-> Named(results'[p], {"succeeded"})]
      BY DEF promisedSucceeded, Named
    <2>2. promisedSucceeded = [p \in Operations |-> Named(results[p], {"succeeded"})]
      BY DEF promisedSucceeded
    <2>3. CASE status = "succeeded"
      <3>1. Promise!Succeeds(o, t) BY <2>3
      <3>2. /\ Named(results'[o], {"succeeded"}) = Named(results[o], {"succeeded"}) \cup {t}
            /\ \A p \in Operations : p # o => results'[p] = results[p]
        BY <1>5, <1>6, <2>3
      <3> HIDE DEF t
      <3>3. promisedSucceeded' = [promisedSucceeded EXCEPT ![o] = @ \cup {t}]
        BY <2>1, <2>2, <3>2
      <3> QED BY <3>1, <3>3
    <2>4. CASE status # "succeeded" BY <1>5, <1>6, <2>1, <2>2, <2>4
    <2> QED BY <2>3, <2>4
  <1>9. UNCHANGED promisedTouched BY SameSent
  <1> HIDE DEF t
  <1>10. Promise!Report(o, t)
    BY <1>2, <1>3, <1>4, <1>7, <1>8, <1>9, <1>11 DEF Promise!Report
  <1> QED BY <1>1, <1>10 DEF t

LEMMA SendTouches ==
  ASSUME RoundInv, NEW o \in Operations, Send(o)
  PROVE  Promise!Touch(o, Asked(o)) /\ Asked(o) \in SUBSET Targets
  <1> DEFINE A == Asked(o)
  <1>1. RunStep(o) /\ pc[o] = "send" /\ ~(Finish(o) \/ Receipt(o) \/ Store(o))
    BY DEF RunStep, Send, Finish, Receipt, Store
  <1>2. /\ Promise!Live(o)
        /\ UNCHANGED <<state, promisedStarted, promisedOver, promisedPlan>>
    BY <1>1, RunLive
  <1>3. /\ index[o] \in 1 .. Work(o) /\ Covers(o, results[o], index[o] - 1)
    <2>1. Round(o, pc[o], index[o], results[o], ending[o], answer[o], applied[o])
      BY DEF RoundInv, Rounds
    <2>2. index[o] \in Nat \ {0} /\ Work(o) \in Nat BY PlanType DEF RoundInv, IndInv, Typed
    <2> QED BY <1>1, <2>1, <2>2 DEF Round, Ahead
  <1>4. /\ index[o] \in 1 .. Len(Plan[o]) /\ Target(o) \in AllTargets(o)
        /\ A \subseteq Targets /\ \A t \in A : sent[o][t] = 0
        /\ o \notin Bulk => A = {Target(o)}
        /\ o \in Bulk => A = AllTargets(o) /\ index[o] = 1
    BY <1>1, AskedType DEF RoundInv
  <1>5. promisedPlan[o] = AllTargets(o) BY <1>1, PlanOfStarted
  <1>6. Promise!Request(o, A) BY <1>4, <1>5 DEF Promise!Request
  <1>7. A \cap promisedTouched[o] = {} BY <1>4 DEF promisedTouched
  <1>8. A \cap promisedReported[o] = {}
    <2>1. promisedReported[o] = {Plan[o][j] : j \in 1 .. index[o] - 1}
      BY <1>3 DEF promisedReported, Covers, Told
    <2>2. CASE o \in Bulk
      <3>1. 1 .. index[o] - 1 = {} BY <1>4, <2>2
      <3> QED BY <2>1, <3>1
    <2>3. CASE o \notin Bulk
      <3>1. ASSUME NEW j \in 1 .. index[o] - 1 PROVE Plan[o][j] # Target(o)
        <4>1. j \in 1 .. Len(Plan[o]) /\ j # index[o] BY <1>4, PlanType
        <4> QED BY <1>4, <4>1, PlanType DEF Target
      <3> QED BY <1>4, <2>1, <2>3, <3>1
    <2> QED BY <2>2, <2>3
  <1>9. promisedTouched' = [promisedTouched EXCEPT ![o] = @ \cup A]
    <2>1. /\ sent \in [Operations -> [Targets -> Nat]]
          /\ sent' = [sent EXCEPT ![o] =
                        [t \in Targets |-> IF t \in A THEN sent[o][t] + 1 ELSE sent[o][t]]]
      BY DEF RoundInv, IndInv, Typed, Send
    <2> HIDE DEF A
    <2>2. \A p \in Operations, u \in Targets :
            sent'[p][u] > 0 <=> (sent[p][u] > 0 \/ (p = o /\ u \in A))
      BY <1>4, <2>1
    <2>3. \A p \in Operations :
            {u \in Targets : sent'[p][u] > 0}
              = {u \in Targets : sent[p][u] > 0} \cup (IF p = o THEN A ELSE {})
      BY <1>4, <2>2
    <2>4. promisedTouched' = [p \in Operations |-> {u \in Targets : sent'[p][u] > 0}]
      BY DEF promisedTouched
    <2> QED BY <2>3, <2>4 DEF promisedTouched
  <1>10. \E done \in SUBSET A : applied' = [applied EXCEPT ![o] = @ \cup done]
    BY DEF Send
  <1>11. UNCHANGED <<promisedReported, promisedSucceeded>>
    <2>1. UNCHANGED results BY DEF Send
    <2> QED BY <2>1, SameResults
  <1>13. A \cap (promisedTouched[o] \cup promisedReported[o]) = {} BY <1>7, <1>8
  <1> HIDE DEF A
  <1>12. Promise!Touch(o, A)
    BY <1>2, <1>6, <1>9, <1>10, <1>11, <1>13 DEF Promise!Touch
  <1> QED BY <1>4, <1>12 DEF A

(* The end of the run is the end of the promised operation.                *)
LEMMA FinishFinishes ==
  ASSUME RoundInv, NEW o \in Operations, Finish(o)
  PROVE  Promise!Finish(o)
  <1>1. /\ RunStep(o) /\ ~(Receipt(o) \/ Store(o)) /\ pc[o] = "finish"
        /\ pc' = [pc EXCEPT ![o] = "receipt"]
        /\ state' = [state EXCEPT ![o] = ending[o]]
        /\ UNCHANGED <<sent, applied>>
    BY DEF RunStep, Finish, Receipt, Store, Goto, historyVars
  <1>2. Promise!Live(o) /\ UNCHANGED <<promisedStarted, promisedPlan>>
    BY <1>1, RunLive
  <1>3. /\ ending[o] \in Endings3
        /\ ending[o] = "complete" => Covers(o, results[o], Work(o))
    BY <1>1 DEF RoundInv, Rounds, Round
  <1>4. ending[o] = "complete" => Promise!Accounted(o)
    <2> SUFFICES ASSUME ending[o] = "complete" PROVE Promise!Accounted(o)
      OBVIOUS
    <2>1. promisedReported[o] = {Plan[o][j] : j \in 1 .. Work(o)}
      BY <1>3 DEF promisedReported, Covers, Told
    <2>2. promisedPlan[o] = {Plan[o][j] : j \in 1 .. Len(Plan[o])}
      BY <1>1, PlanOfStarted DEF AllTargets
    <2>3. CASE o \in Bulk
      <3>1. Plan[o][1] \in promisedReported[o] BY <2>1, <2>3, PlanType
      <3> QED BY <2>3, <3>1 DEF Promise!Accounted
    <2>4. CASE o \notin Bulk
      BY <2>1, <2>2, <2>4, PlanType DEF Promise!Accounted
    <2> QED BY <2>3, <2>4
  <1>5. promisedOver' = promisedOver \cup {o}
    <2>1. pc \in [Operations -> Steps] BY DEF RoundInv, IndInv, Typed
    <2>2. \A p \in Operations :
            pc'[p] \in {"receipt", "store", "done"}
              <=> (pc[p] \in {"receipt", "store", "done"} \/ p = o)
      BY <1>1, <2>1
    <2> QED BY <2>2 DEF promisedOver
  <1>6. UNCHANGED <<promisedReported, promisedSucceeded>>
    <2> DEFINE r == [target |-> "none", status |-> "stopped"]
    <2>1. r \in Results /\ r.status \notin Told /\ r.status # "succeeded"
      BY DEF Results, Told
    <2>2. results \in [Operations -> Seq(Results)] BY DEF RoundInv, RoundTyped
    <2>3. results' = results \/ results' = [results EXCEPT ![o] = Append(results[o], r)]
      BY DEF Finish
    <2>4. CASE results' = results BY <2>4, SameResults
    <2>5. CASE results' = [results EXCEPT ![o] = Append(results[o], r)]
      <3>1. ASSUME NEW S, r.status \notin S, NEW p \in Operations
            PROVE  Named(results'[p], S) = Named(results[p], S)
        <4> HIDE DEF r
        <4>1. CASE p = o
          <5>1. results'[p] = Append(results[p], r) /\ results[p] \in Seq(Results)
            BY <2>2, <2>5, <4>1
          <5> QED BY <2>1, <3>1, <5>1, NamedAppend
        <4>2. CASE p # o
          <5>1. results'[p] = results[p] BY <2>2, <2>5, <4>2
          <5> QED BY <5>1
        <4> QED BY <4>1, <4>2
      <3>2. \A p \in Operations : Named(results'[p], Told) = Named(results[p], Told)
        BY <2>1, <3>1
      <3>3. \A p \in Operations :
              Named(results'[p], {"succeeded"}) = Named(results[p], {"succeeded"})
        <4> DEFINE S == {"succeeded"}
        <4>1. r.status \notin S BY <2>1
        <4> HIDE DEF S
        <4>2. \A p \in Operations : Named(results'[p], S) = Named(results[p], S)
          BY <3>1, <4>1
        <4> QED BY <4>2 DEF S
      <3>4. promisedReported' = [p \in Operations |-> Named(results'[p], Told)]
        BY DEF promisedReported, Named, Told
      <3>5. promisedSucceeded' = [p \in Operations |-> Named(results'[p], {"succeeded"})]
        BY DEF promisedSucceeded, Named
      <3>6. UNCHANGED promisedReported
        BY <3>2, <3>4 DEF promisedReported, Told
      <3>7. UNCHANGED promisedSucceeded
        BY <3>3, <3>5 DEF promisedSucceeded
      <3> QED BY <3>6, <3>7
    <2> QED BY <2>3, <2>4, <2>5
  <1>7. UNCHANGED promisedTouched BY <1>1, SameSent
  <1>8. \E how \in {"cancelled", "failed", "complete"} :
          /\ how = "complete" => Promise!Accounted(o)
          /\ state' = [state EXCEPT ![o] = how]
    BY <1>1, <1>3, <1>4 DEF Endings3
  <1> QED BY <1>1, <1>2, <1>5, <1>6, <1>7, <1>8 DEF Promise!Finish, Promise!work

(* The steps of a goroutine that the promise does not see.                 *)
LEMMA RunSilent ==
  ASSUME RoundInv, NEW o \in Operations, RunStep(o), ~Finish(o),
         UNCHANGED <<results, sent, applied>>
  PROVE  UNCHANGED promised
  <1>1. UNCHANGED <<state, promisedStarted, promisedOver, promisedPlan>> BY RunLive
  <1>2. UNCHANGED <<promisedReported, promisedSucceeded>> BY SameResults
  <1>3. UNCHANGED promisedTouched BY SameSent
  <1> QED BY <1>1, <1>2, <1>3 DEF promised, Promise!vars

LEMMA RunPromised ==
  ASSUME RoundInv, NEW o \in Operations, RunStep(o)
  PROVE  Promise!Next \/ UNCHANGED promised
  <1> USE DEF historyVars
  <1>1. CASE Connect(o) \/ CheckCancel(o) \/ Pause(o) \/ Receipt(o) \/ Store(o)
    <2>1. ~Finish(o) /\ UNCHANGED <<results, sent, applied>>
      BY <1>1 DEF Connect, CheckCancel, Pause, Receipt, Store, Finish
    <2> QED BY <2>1, RunSilent
  <1>2. CASE Finish(o)
    BY <1>2, FinishFinishes DEF Promise!Next
  <1>3. CASE Send(o)
    BY <1>3, SendTouches DEF Promise!Next
  <1>4. CASE Validate(o) \/ ValidateExpansion(o)
    <2>1. /\ pc[o] = "validate" /\ UNCHANGED <<sent, applied>>
          /\ ~(Finish(o) \/ Receipt(o) \/ Store(o))
      BY <1>4 DEF Validate, ValidateExpansion, Finish, Receipt, Store
    <2>2. CASE UNCHANGED results BY <2>1, <2>2, RunSilent
    <2>3. CASE \E status \in {"skipped", "failed"} : Record(o, status)
      <3>1. PICK status \in {"skipped", "failed"} : Record(o, status) BY <2>3
      <3>2. status \in Told /\ status # "succeeded" BY DEF Told
      <3>3. Promise!Report(o, Plan[o][index[o]]) /\ Plan[o][index[o]] \in Targets
        BY <2>1, <3>1, <3>2, RecordReports
      <3> QED BY <3>3 DEF Promise!Next
    <2> QED BY <1>4, <2>2, <2>3 DEF Validate, ValidateExpansion
  <1>5. CASE Answer(o)
    <2>1. /\ pc[o] = "answer" /\ UNCHANGED <<sent, applied>>
          /\ ~(Finish(o) \/ Receipt(o) \/ Store(o))
      BY <1>5 DEF Answer, Finish, Receipt, Store
    <2>2. PICK status \in {"succeeded", "failed"} :
            Record(o, status) /\ (status = "succeeded" => answer[o] = "ok")
      BY <1>5 DEF Answer
    <2>3. status = "succeeded" => Promise!Succeeds(o, Plan[o][index[o]])
      <3>1. CASE o \notin Bulk
        BY <2>1, <2>2, <3>1 DEF RoundInv, Rounds, Round, Promise!Succeeds
      <3>2. CASE o \in Bulk
        <4>1. /\ promisedPlan[o] = AllTargets(o) /\ AllTargets(o) \subseteq Targets
              /\ \A t \in AllTargets(o) : sent[o][t] = 1
          BY <2>1, <3>2, PlanOfStarted, PlanType DEF RoundInv, IndInv, OneRound
        <4> QED BY <3>2, <4>1 DEF Promise!Succeeds, promisedTouched
      <3> QED BY <3>1, <3>2
    <2>4. status \in Told BY DEF Told
    <2>5. Promise!Report(o, Plan[o][index[o]]) /\ Plan[o][index[o]] \in Targets
      BY <2>1, <2>2, <2>3, <2>4, RecordReports
    <2> QED BY <2>5 DEF Promise!Next
  <1> QED BY <1>1, <1>2, <1>3, <1>4, <1>5 DEF RunStep

-----------------------------------------------------------------------------
(* The handlers, the clock, League and a restart.                          *)

LEMMA OutsidePromised ==
  ASSUME RoundInv,
         \/ \E o \in Operations : \/ Preview(o) \/ ExecuteExpired(o) \/ Execute(o)
                                  \/ Cancel(o) \/ Ages(o)
         \/ ClearReceipts \/ LeagueChanges \/ Restart
  PROVE  Promise!Next \/ UNCHANGED promised
  <1> USE DEF opVars, runVars, historyVars
  <1>1. UNCHANGED <<results, sent, applied>>
    BY DEF Preview, ExecuteExpired, Execute, Cancel, Ages, ClearReceipts, LeagueChanges,
           Restart
  <1>2. UNCHANGED <<promisedReported, promisedSucceeded, promisedTouched>>
    BY <1>1, SameResults, SameSent
  <1>3. pc \in [Operations -> Steps] /\ state \in [Operations -> States]
    BY DEF RoundInv, IndInv, Typed, RoundTyped
  <1>4. CASE UNCHANGED <<state, pc>>
    <2>1. UNCHANGED <<promisedStarted, promisedOver, promisedPlan>>
      BY <1>4, SamePlace, SameEnd, SamePlan
    <2> QED BY <1>1, <1>2, <1>4, <2>1 DEF promised, Promise!vars
  <1>5. ASSUME NEW o \in Operations, Preview(o) PROVE Promise!Next
    <2> DEFINE whole == AllTargets(o)
    <2>1. /\ state[o] = "none" /\ pc[o] = "idle" /\ UNCHANGED pc
          /\ state' = [state EXCEPT ![o] = "preview"]
      BY <1>5 DEF Preview, Started
    <2>2. UNCHANGED <<promisedStarted, promisedOver>> BY <2>1, SamePlace, SameEnd
    <2>3. promisedPlan' = [promisedPlan EXCEPT ![o] = whole]
      <3>1. state'[o] # "none" /\ \A p \in Operations : p # o => state'[p] = state[p]
        BY <1>3, <2>1
      <3>2. promisedPlan'[o] = whole BY <3>1 DEF promisedPlan, AllTargets
      <3>3. ASSUME NEW p \in Operations, p # o PROVE promisedPlan'[p] = promisedPlan[p]
        BY <2>1, <3>1, <3>3 DEF promisedPlan, Started, AllTargets
      <3> HIDE DEF whole
      <3>4. promisedPlan = [p \in Operations |-> promisedPlan[p]] BY DEF promisedPlan
      <3>5. promisedPlan' = [p \in Operations |-> promisedPlan'[p]] BY DEF promisedPlan
      <3> QED BY <3>2, <3>3, <3>4, <3>5
    <2>4. whole \in SUBSET Targets BY PlanType
    <2>5. o \notin promisedStarted BY <2>1 DEF promisedStarted, Started
    <2> HIDE DEF whole
    <2>6. Promise!Preview(o, whole)
      BY <1>1, <1>2, <2>1, <2>2, <2>3, <2>5 DEF Promise!Preview
    <2> QED BY <2>4, <2>6 DEF Promise!Next
  <1>6. ASSUME NEW o \in Operations, Execute(o) PROVE Promise!Next
    <2>1. /\ state[o] = "preview" /\ pc[o] = "idle" /\ pc' = [pc EXCEPT ![o] = "connect"]
          /\ state' = [state EXCEPT ![o] = "running"]
      BY <1>6 DEF Execute, Started
    <2>2. /\ pc'[o] = "connect" /\ state'[o] = "running"
          /\ \A p \in Operations : p # o => pc'[p] = pc[p] /\ state'[p] = state[p]
      BY <1>3, <2>1
    <2>3. promisedStarted' = promisedStarted \cup {o} BY <2>2 DEF promisedStarted, Started
    <2>4. UNCHANGED <<promisedOver, promisedPlan>>
      BY <2>1, <2>2, SameEnd, SamePlan
    <2>5. o \notin promisedStarted BY <2>1 DEF promisedStarted, Started
    <2>6. Promise!Start(o)
      BY <1>1, <1>2, <2>1, <2>3, <2>4, <2>5 DEF Promise!Start, Promise!work
    <2> QED BY <2>6 DEF Promise!Next
  <1>7. ASSUME NEW o \in Operations, Cancel(o) \/ ExecuteExpired(o) PROVE Promise!Next
    <2>1. UNCHANGED pc BY <1>7 DEF Cancel, ExecuteExpired
    <2>2. UNCHANGED <<promisedStarted, promisedOver>> BY <2>1, SamePlace, SameEnd
    <2>3. UNCHANGED promisedPlan
      <3>1. \A p \in Operations : state'[p] = "none" <=> state[p] = "none"
        BY <1>3, <1>7 DEF Cancel, ExecuteExpired
      <3> QED BY <2>1, <3>1, SamePlan
    <2>4. Promise!Cancel(o) \/ Promise!Expire(o)
      BY <1>1, <1>2, <1>7, <2>2, <2>3
         DEF Cancel, ExecuteExpired, Promise!Cancel, Promise!Expire, Promise!work
    <2> QED BY <2>4 DEF Promise!Next
  <1>8. CASE Restart
    <2> DEFINE known == {o \in Operations : state[o] # "none"}
    <2>1. /\ state' = [o \in Operations |-> "none"] /\ state' # state
          /\ \A o \in Operations : pc'[o] = IF state[o] = "none" THEN pc[o] ELSE "done"
      BY <1>8 DEF Restart
    <2>2. promisedStarted' = promisedStarted \cup known
      BY <2>1 DEF promisedStarted, Started
    <2>3. promisedOver' = promisedOver \cup known BY <2>1 DEF promisedOver
    <2>4. UNCHANGED promisedPlan
      <3>1. \A o \in Operations :
              (state'[o] = "none" /\ pc'[o] = "idle") <=> (state[o] = "none" /\ pc[o] = "idle")
        BY <2>1
      <3> QED BY <3>1, SamePlan
    <2>5. Promise!Forget
      BY <1>1, <1>2, <2>1, <2>2, <2>3, <2>4 DEF Promise!Forget, Promise!work
    <2> QED BY <2>5 DEF Promise!Next
  <1> QED BY <1>4, <1>5, <1>6, <1>7, <1>8 DEF Ages, ClearReceipts, LeagueChanges

-----------------------------------------------------------------------------
(* Whatever League answers, and however the handlers, the clock and        *)
(* restarts interleave, operation_handlers.go does to League, and shows of *)
(* it, no more than OperationLifecycle promises: one start, one request a  *)
(* target, no success that League did not make, nothing after the end, and *)
(* no target left out of a complete operation.  Of a bulk selection it     *)
(* promises one result for all the grants, a success only when all were    *)
(* asked for.                                                              *)
THEOREM KeepsItsPromise == Spec => Promise!Init /\ [][Promise!Next]_(Promise!vars)
  <1>1. RoundInv /\ [Next]_vars => [Promise!Next]_promised
    <2> SUFFICES ASSUME RoundInv, [Next]_vars PROVE Promise!Next \/ UNCHANGED promised
      OBVIOUS
    <2>1. CASE UNCHANGED vars
      <3>1. UNCHANGED <<state, pc, results, sent, applied>>
        BY <2>1 DEF vars, opVars, runVars, historyVars
      <3>2. UNCHANGED <<promisedStarted, promisedOver, promisedPlan>>
        BY <3>1, SamePlace, SameEnd, SamePlan
      <3>3. UNCHANGED <<promisedReported, promisedSucceeded, promisedTouched>>
        BY <3>1, SameResults, SameSent
      <3> QED BY <3>1, <3>2, <3>3 DEF promised, Promise!vars
    <2>2. CASE \E o \in Operations : RunStep(o) BY <2>2, RunPromised
    <2>3. CASE Next /\ ~\E o \in Operations : RunStep(o)
      BY <2>3, OutsidePromised DEF Next
    <2> QED BY <2>1, <2>2, <2>3
  <1> QED BY <1>1, InitPromised, InitRoundInv, NextRoundInv, PTL DEF Spec, promised

-----------------------------------------------------------------------------
(* Receipts.  The invariant says for each place of the goroutine how many  *)
(* results there are and what they tell of the targets League changed, so  *)
(* that the receipt made of them is true; nothing it speaks of changes     *)
(* once it is made.                                                        *)

Running == {"idle", "connect", "check", "validate", "send", "answer", "pause", "finish"}
Ended   == {"receipt", "store", "done"}

NoStop(items, n) == \A j \in 1 .. n : items[j].status # "stopped"

(* How many results there are.                                             *)
Counted(o, step, i, items, how) ==
  /\ step \in Ahead \cup {"answer"} => Len(items) = i - 1
  /\ step = "pause" => Len(items) = i
  /\ step \in Running => NoStop(items, Len(items))
  /\ step = "finish" /\ how = "complete" => Len(items) = Work(o)
  /\ step = "finish" /\ how = "cancelled" => Len(items) < Work(o)
  /\ step = "receipt" /\ how = "complete" =>
       Len(items) = Work(o) /\ NoStop(items, Len(items))
  /\ step = "receipt" /\ how # "complete" =>
       /\ Len(items) > 0 /\ items[Len(items)].status = "stopped"
       /\ NoStop(items, Len(items) - 1)
       /\ how = "cancelled" => Len(items) - 1 < Work(o)

(* What they tell of the targets League changed.                           *)
Accounted(o, step, i, items, done) ==
  o \notin Bulk =>
    /\ step # "done" => Named(items, {"succeeded"}) \subseteq done
    /\ step \notin {"answer", "done"} => done \subseteq Named(items, {"succeeded", "failed"})
    /\ step = "answer" =>
         done \subseteq Named(items, {"succeeded", "failed"}) \cup {Plan[o][i]}

(* What those of a bulk selection tell: its one result is there when       *)
(* League changed anything, and calls it a success only when all was sent. *)
AllSent(o, asked) == \A t \in AllTargets(o) : asked[t] = 1

BulkAccounted(o, step, items, done, asked) ==
  o \in Bulk =>
    /\ step # "done" /\ Named(items, {"succeeded"}) # {} => AllSent(o, asked)
    /\ step \notin {"answer", "done"} /\ done # {} => Named(items, {"succeeded", "failed"}) # {}

BulkTold(o) == BulkAccounted(o, pc[o], results[o], applied[o], sent[o])

Recorded(o) ==
  /\ Counted(o, pc[o], index[o], results[o], ending[o])
  /\ Accounted(o, pc[o], index[o], results[o], applied[o])
  /\ state[o] = "cancelled" => pc[o] \in Ended /\ ending[o] = "cancelled"

(* A receipt is true when League changed the targets done and was asked    *)
(* for those asked.                                                        *)
TrueOf(r, done, asked) ==
  /\ r.id \notin Bulk =>
       /\ Named(r.items, {"succeeded"}) \subseteq done[r.id]
       /\ done[r.id] \subseteq Named(r.items, {"succeeded", "failed"})
  /\ r.id \in Bulk =>
       /\ Named(r.items, {"succeeded"}) # {} => AllSent(r.id, asked[r.id])
       /\ done[r.id] # {} => Named(r.items, {"succeeded", "failed"}) # {}
  /\ ReceiptMatchesRun(r)

HeldTrue ==
  \A o \in Operations : pc[o] = "store" => held[o].id = o /\ TrueOf(held[o], applied, sent)

LedgerTrue ==
  \A i \in DOMAIN ledger :
    /\ pc[ledger[i].id] = "done" /\ TrueOf(ledger[i], applied, sent)
    /\ \A j \in DOMAIN ledger : ledger[i].id = ledger[j].id => i = j

ReceiptInv ==
  /\ RoundInv /\ TypeOK
  /\ \A o \in Operations : Recorded(o) /\ BulkTold(o)
  /\ HeldTrue /\ LedgerTrue

-----------------------------------------------------------------------------
(* The ledger.                                                             *)

(* What is kept of receipts are some of them, each once.                   *)
LEMMA KeptInOrder ==
  ASSUME NEW receipts \in Seq(Receipts), NEW at \in InOrder(Kept(receipts))
  PROVE  LET some == [k \in DOMAIN at |-> receipts[at[k]]]
         IN /\ some \in Seq(Receipts)
            /\ \A k \in DOMAIN some : at[k] \in DOMAIN receipts /\ some[k] = receipts[at[k]]
            /\ \A k, l \in DOMAIN some : at[k] = at[l] => k = l
  <1> DEFINE kept == Kept(receipts)
             n == Cardinality(kept)
             some == [k \in DOMAIN at |-> receipts[at[k]]]
  <1>1. kept \subseteq 1 .. Len(receipts) /\ Len(receipts) \in Nat BY DEF Kept
  <1>2. IsFiniteSet(1 .. Len(receipts)) BY <1>1, FS_Interval
  <1>3. n \in Nat BY <1>1, <1>2, FS_Subset, FS_CardinalityType
  <1> HIDE DEF kept, n
  <1>4. /\ at \in [1 .. n -> kept]
        /\ \A i, j \in 1 .. n : i < j => at[i] < at[j]
    BY DEF InOrder, kept, n
  <1>5. \A k \in 1 .. n : at[k] \in 1 .. Len(receipts) BY <1>1, <1>4
  <1>6. \A k, l \in 1 .. n : at[k] = at[l] => k = l
    <2> SUFFICES ASSUME NEW k \in 1 .. n, NEW l \in 1 .. n, at[k] = at[l] PROVE k = l
      OBVIOUS
    <2>1. ~(k < l) /\ ~(l < k) BY <1>1, <1>4, <1>5
    <2> QED BY <1>3, <2>1
  <1>7. some \in [1 .. n -> Receipts]
    BY <1>4, <1>5
  <1>8. some \in Seq(Receipts) BY <1>3, <1>7, SeqDef
  <1>9. DOMAIN at = 1 .. n /\ DOMAIN some = 1 .. n BY <1>4
  <1>10. \A k \in 1 .. n : some[k] = receipts[at[k]] BY <1>9
  <1> HIDE DEF some
  <1>11. DOMAIN receipts = 1 .. Len(receipts) OBVIOUS
  <1> QED BY <1>5, <1>6, <1>8, <1>9, <1>10, <1>11 DEF some

(* A step that makes and stores none keeps them true.                      *)
LEMMA KeepsReceipts ==
  ASSUME ReceiptInv, UNCHANGED held, ledger' \in {ledger, <<>>},
         \A o \in Operations :
           /\ pc[o] \in {"store", "done"} => applied'[o] = applied[o] /\ sent'[o] = sent[o]
           /\ pc[o] = "done" => pc'[o] = "done"
           /\ pc'[o] = "store" => pc[o] = "store"
  PROVE  HeldTrue' /\ LedgerTrue'
  <1>1. \A r \in Receipts :
          pc[r.id] \in {"store", "done"} => (TrueOf(r, applied, sent) <=> TrueOf(r, applied', sent'))
    BY DEF TrueOf, Receipts
  <1>2. held \in [Operations -> Receipts] /\ ledger \in Seq(Receipts)
    BY DEF ReceiptInv, TypeOK
  <1>3. HeldTrue' BY <1>1, <1>2 DEF ReceiptInv, HeldTrue
  <1>4. CASE ledger' = <<>> BY <1>3, <1>4 DEF LedgerTrue
  <1>5. CASE ledger' = ledger
    <2>1. \A i \in DOMAIN ledger : ledger[i] \in Receipts BY <1>2
    <2>2. \A i \in DOMAIN ledger : ledger[i].id \in Operations BY <2>1 DEF Receipts
    <2> QED BY <1>1, <1>3, <1>5, <2>1, <2>2 DEF ReceiptInv, LedgerTrue
  <1> QED BY <1>4, <1>5

-----------------------------------------------------------------------------
(* Results.                                                                *)

LEMMA AppendResult ==
  ASSUME NEW items \in Seq(Results), NEW r \in Results
  PROVE  LET more == Append(items, r)
         IN /\ more \in Seq(Results) /\ Len(items) \in Nat /\ Len(more) = Len(items) + 1
            /\ more[Len(more)] = r
            /\ NoStop(items, Len(items)) => NoStop(more, Len(items))
            /\ NoStop(items, Len(items)) /\ r.status # "stopped" => NoStop(more, Len(more))
  <1>1. Append(items, r) \in Seq(Results) BY AppendProperties
  <1>2. /\ Len(items) \in Nat /\ Len(Append(items, r)) = Len(items) + 1
        /\ \A j \in 1 .. Len(items) : Append(items, r)[j] = items[j]
        /\ Append(items, r)[Len(items) + 1] = r
    OBVIOUS
  <1> QED BY <1>1, <1>2 DEF NoStop

(* How many targets results are about.                                     *)
LEMMA CountTreated ==
  ASSUME NEW items \in Seq(Results), NEW n \in Nat,
         n = Len(items) \/ n = Len(items) - 1,
         NoStop(items, n), n < Len(items) => items[Len(items)].status = "stopped"
  PROVE  Cardinality({j \in DOMAIN items : items[j].status # "stopped"}) = n
  <1> DEFINE m == Len(items)
  <1>1. DOMAIN items = 1 .. m /\ m \in Nat /\ (n = m \/ n = m - 1) OBVIOUS
  <1>2. NoStop(items, n) /\ (n < m => items[m].status = "stopped") OBVIOUS
  <1> HIDE DEF m
  <1>3. /\ \A j \in 1 .. m : j \in 1 .. n \/ (j = m /\ n < m)
        /\ \A j \in 1 .. n : j \in 1 .. m
    BY <1>1
  <1>4. \A j \in 1 .. m : items[j].status # "stopped" <=> j \in 1 .. n
    <2> SUFFICES ASSUME NEW j \in 1 .. m PROVE items[j].status # "stopped" <=> j \in 1 .. n
      OBVIOUS
    <2>1. CASE j \in 1 .. n BY <1>2, <2>1 DEF NoStop
    <2>2. CASE j \notin 1 .. n BY <1>2, <1>3, <2>2
    <2> QED BY <2>1, <2>2
  <1>5. {j \in DOMAIN items : items[j].status # "stopped"} = 1 .. n
    BY <1>1, <1>3, <1>4
  <1>6. Cardinality(1 .. n) = n
    <2>1. 1 \in Int /\ n \in Int /\ (1 > n => n = 0) OBVIOUS
    <2>2. Cardinality(1 .. n) = IF 1 > n THEN 0 ELSE n - 1 + 1 BY <2>1, FS_Interval
    <2> QED BY <2>1, <2>2
  <1> QED BY <1>5, <1>6

(* The receipt of recorded results is true.                                *)
LEMMA ReceiptTrue ==
  ASSUME ReceiptInv, NEW o \in Operations, Receipt(o)
  PROVE  /\ held' \in [Operations -> Receipts]
         /\ held'[o].id = o /\ TrueOf(held'[o], applied', sent')
  <1> DEFINE r == [id |-> o, items |-> results[o],
                   cancelled |-> ending[o] = "cancelled" \/ state[o] = "cancelled"]
             n == IF ending[o] = "complete" THEN Len(results[o]) ELSE Len(results[o]) - 1
  <1>1. /\ results[o] \in Seq(Results) /\ held \in [Operations -> Receipts]
        /\ Recorded(o) /\ BulkTold(o) /\ pc[o] = "receipt" /\ UNCHANGED <<applied, sent>>
        /\ held' = [held EXCEPT ![o] = r] /\ Work(o) \in Nat
    BY PlanType DEF ReceiptInv, TypeOK, Receipt, historyVars
  <1>2. r \in Receipts BY <1>1 DEF Receipts
  <1>3. held' \in [Operations -> Receipts] /\ held'[o] = r BY <1>1, <1>2
  <1>4. /\ o \notin Bulk =>
             /\ Named(r.items, {"succeeded"}) \subseteq applied[o]
             /\ applied[o] \subseteq Named(r.items, {"succeeded", "failed"})
        /\ o \in Bulk =>
             /\ Named(r.items, {"succeeded"}) # {} => AllSent(o, sent[o])
             /\ applied[o] # {} => Named(r.items, {"succeeded", "failed"}) # {}
    BY <1>1 DEF Recorded, Accounted, BulkTold, BulkAccounted
  <1>5. Cardinality({j \in DOMAIN results[o] : results[o][j].status # "stopped"}) = n
    <2>1. Len(results[o]) \in Nat BY <1>1
    <2>2. /\ n \in Nat /\ (n = Len(results[o]) \/ n = Len(results[o]) - 1)
          /\ NoStop(results[o], n)
          /\ n < Len(results[o]) => results[o][Len(results[o])].status = "stopped"
      BY <1>1, <2>1 DEF Recorded, Counted
    <2> HIDE DEF n
    <2> QED BY <1>1, <2>2, CountTreated
  <1>6. ReceiptMatchesRun(r)
    <2>1. Len(results[o]) \in Nat BY <1>1
    <2>2. r.cancelled => n < Work(o) BY <1>1, <2>1 DEF Recorded, Counted
    <2>3. n = Len(results[o]) => n = Work(o) BY <1>1, <2>1 DEF Recorded, Counted
    <2> QED BY <1>5, <2>2, <2>3 DEF ReceiptMatchesRun
  <1>7. TrueOf(r, applied', sent')
    <2>1. r.id = o /\ applied' = applied /\ sent' = sent BY <1>1
    <2> HIDE DEF r
    <2> QED BY <1>4, <1>6, <2>1 DEF TrueOf
  <1> QED BY <1>3, <1>7

(* Storing it keeps the ledger true.                                       *)
LEMMA StoreTrue ==
  ASSUME ReceiptInv, NEW o \in Operations, Store(o)
  PROVE  ledger' \in Seq(Receipts) /\ HeldTrue' /\ LedgerTrue'
  <1> DEFINE receipts == Append(ledger, held[o])
  <1>1. /\ held \in [Operations -> Receipts] /\ ledger \in Seq(Receipts)
        /\ pc \in [Operations -> Steps] /\ pc[o] = "store" /\ pc' = [pc EXCEPT ![o] = "done"]
        /\ UNCHANGED <<held, applied, sent>>
    BY DEF ReceiptInv, TypeOK, Store, historyVars, Goto
  <1>2. CASE UNCHANGED ledger BY <1>1, <1>2, KeepsReceipts
  <1>3. ASSUME NEW at \in InOrder(Kept(receipts)),
               ledger' = [k \in DOMAIN at |-> receipts[at[k]]]
        PROVE  ledger' \in Seq(Receipts) /\ LedgerTrue'
    <2>1. receipts \in Seq(Receipts) BY <1>1, AppendProperties
    <2>2. /\ ledger' \in Seq(Receipts)
          /\ \A k \in DOMAIN ledger' :
               at[k] \in DOMAIN receipts /\ ledger'[k] = receipts[at[k]]
          /\ \A k, l \in DOMAIN ledger' : at[k] = at[l] => k = l
      <3> HIDE DEF receipts
      <3>1. at \in InOrder(Kept(receipts)) BY <1>3
      <3> DEFINE some == [k \in DOMAIN at |-> receipts[at[k]]]
      <3>2. /\ some \in Seq(Receipts)
            /\ \A k \in DOMAIN some : at[k] \in DOMAIN receipts /\ some[k] = receipts[at[k]]
            /\ \A k, l \in DOMAIN some : at[k] = at[l] => k = l
        BY <2>1, <3>1, KeptInOrder
      <3>3. ledger' = some BY <1>3
      <3> HIDE DEF some
      <3> QED BY <3>2, <3>3
    <2>3. /\ DOMAIN receipts = 1 .. Len(ledger) + 1 /\ Len(ledger) \in Nat
          /\ \A i \in 1 .. Len(ledger) : receipts[i] = ledger[i]
          /\ receipts[Len(ledger) + 1] = held[o] /\ DOMAIN ledger = 1 .. Len(ledger)
      BY <1>1
    <2> HIDE DEF receipts
    <2>4. \A i \in DOMAIN receipts : receipts[i] \in Receipts BY <2>1, ElementOfSeq, <2>3
    <2>5. \A i \in DOMAIN ledger : pc[ledger[i].id] = "done" BY DEF ReceiptInv, LedgerTrue
    <2>6. held[o].id = o BY <1>1 DEF ReceiptInv, HeldTrue
    <2>7. ASSUME NEW i \in DOMAIN receipts
          PROVE  /\ pc'[receipts[i].id] = "done" /\ TrueOf(receipts[i], applied', sent')
                 /\ \A j \in DOMAIN receipts : receipts[i].id = receipts[j].id => i = j
      <3>1. TrueOf(receipts[i], applied, sent)
        BY <1>1, <2>3 DEF ReceiptInv, HeldTrue, LedgerTrue
      <3>2. TrueOf(receipts[i], applied', sent')
        BY <1>1, <2>4, <3>1 DEF TrueOf
      <3>3. pc'[receipts[i].id] = "done" BY <1>1, <2>3, <2>4, <2>5, <2>6
      <3>4. ASSUME NEW j \in DOMAIN receipts, receipts[i].id = receipts[j].id PROVE i = j
        <4>1. CASE i \in DOMAIN ledger /\ j \in DOMAIN ledger
          BY <2>3, <3>4, <4>1 DEF ReceiptInv, LedgerTrue
        <4>2. CASE i = Len(ledger) + 1 /\ j \in DOMAIN ledger
          BY <1>1, <2>3, <2>5, <2>6, <3>4, <4>2
        <4>3. CASE j = Len(ledger) + 1 /\ i \in DOMAIN ledger
          BY <1>1, <2>3, <2>5, <2>6, <3>4, <4>3
        <4> QED BY <2>3, <4>1, <4>2, <4>3
      <3> QED BY <3>2, <3>3, <3>4
    <2>8. \A k \in DOMAIN ledger' :
            /\ pc'[ledger'[k].id] = "done" /\ TrueOf(ledger'[k], applied', sent')
            /\ \A l \in DOMAIN ledger' : ledger'[k].id = ledger'[l].id => k = l
      BY <2>2, <2>7
    <2> QED BY <2>2, <2>8 DEF LedgerTrue
  <1>4. HeldTrue'
    <2>1. ASSUME NEW p \in Operations, pc'[p] = "store"
          PROVE  held'[p].id = p /\ TrueOf(held'[p], applied', sent')
      <3>1. pc[p] = "store" BY <1>1, <2>1
      <3>2. held[p].id = p /\ TrueOf(held[p], applied, sent) BY <3>1 DEF ReceiptInv, HeldTrue
      <3> QED BY <1>1, <3>2 DEF TrueOf
    <2> QED BY <2>1 DEF HeldTrue
  <1> QED BY <1>1, <1>2, <1>3, <1>4 DEF Store

-----------------------------------------------------------------------------
(* The invariant is kept.                                                  *)

LEMMA InitReceiptInv == Init => ReceiptInv
  <1> SUFFICES ASSUME Init PROVE ReceiptInv OBVIOUS
  <1>1. RoundInv BY InitRoundInv
  <1>2. TypeOK
    <2>1. held \in [Operations -> Receipts]
      <3>1. \A o \in Operations : EmptyReceipt(o) \in Receipts BY DEF EmptyReceipt, Receipts
      <3> QED BY <3>1 DEF Init
    <2> QED BY <1>1, <2>1 DEF Init, TypeOK, RoundInv, RoundTyped, IndInv, Typed
  <1>3. ASSUME NEW o \in Operations PROVE Recorded(o) /\ BulkTold(o)
    <2>1. pc[o] = "idle" /\ index[o] = 1 /\ results[o] = <<>> /\ applied[o] = {}
          /\ state[o] = "none"
      BY DEF Init
    <2>2. NoStop(<<>>, 0) /\ Named(<<>>, {"succeeded"}) = {} BY DEF NoStop, Named
    <2>3. Recorded(o) BY <2>1, <2>2 DEF Recorded, Counted, Accounted, Ahead
    <2>4. BulkTold(o) BY <2>1, <2>2 DEF BulkTold, BulkAccounted
    <2> QED BY <2>3, <2>4
  <1>4. HeldTrue /\ LedgerTrue BY DEF Init, HeldTrue, LedgerTrue
  <1> QED BY <1>1, <1>2, <1>3, <1>4 DEF ReceiptInv

(* A goroutine's next record.                                              *)
LEMMA RecordAppends ==
  ASSUME ReceiptInv, NEW o \in Operations, NEW status \in Told, Record(o, status),
         pc[o] \in {"validate", "answer"}
  PROVE  /\ Len(results'[o]) = index[o] /\ NoStop(results'[o], Len(results'[o]))
         /\ index[o] \in 1 .. Work(o)
         /\ \A S : Named(results'[o], S) = IF status \in S
                                           THEN Named(results[o], S) \cup {Plan[o][index[o]]}
                                           ELSE Named(results[o], S)
  <1> DEFINE r == [target |-> Plan[o][index[o]], status |-> status]
  <1>1. /\ RoundInv /\ results[o] \in Seq(Results) /\ Recorded(o)
        /\ index[o] \in Nat
    BY DEF ReceiptInv, TypeOK
  <1>2. /\ index[o] \in 1 .. Work(o) /\ Plan[o][index[o]] \in Targets
        /\ results'[o] = Append(results[o], r)
    BY <1>1, RecordCovers
  <1>3. r \in Results /\ r.status = status /\ r.target = Plan[o][index[o]]
        /\ r.status # "stopped"
    BY <1>2 DEF Results, Told
  <1> HIDE DEF r
  <1>4. Len(results[o]) = index[o] - 1 /\ NoStop(results[o], Len(results[o]))
    BY <1>1 DEF Recorded, Counted, Ahead, Running
  <1>5. /\ Len(results'[o]) = index[o] /\ NoStop(results'[o], Len(results'[o]))
    BY <1>1, <1>2, <1>3, <1>4, AppendResult
  <1>6. \A S : Named(results'[o], S) = IF status \in S
                                      THEN Named(results[o], S) \cup {Plan[o][index[o]]}
                                      ELSE Named(results[o], S)
    <2> SUFFICES ASSUME NEW S
                 PROVE  Named(results'[o], S) = IF status \in S
                                                THEN Named(results[o], S) \cup {Plan[o][index[o]]}
                                                ELSE Named(results[o], S)
      OBVIOUS
    <2>1. Named(Append(results[o], r), S) =
            IF r.status \in S THEN Named(results[o], S) \cup {r.target} ELSE Named(results[o], S)
      BY <1>1, <1>3, NamedAppend
    <2> QED BY <1>2, <1>3, <2>1
  <1> QED BY <1>2, <1>5, <1>6

LEMMA RunRecorded ==
  ASSUME ReceiptInv, NEW o \in Operations, RunStep(o)
  PROVE  Recorded(o)'
  <1> USE DEF runFrame, opVars, historyVars, Goto, End, Ahead, Running, Ended
  <1>1. /\ pc \in [Operations -> Steps] /\ index \in [Operations -> Nat \ {0}]
        /\ results \in [Operations -> Seq(Results)] /\ state \in [Operations -> States]
        /\ ending \in [Operations -> Endings] /\ applied \in [Operations -> SUBSET Targets]
        /\ Round(o, pc[o], index[o], results[o], ending[o], answer[o], applied[o])
        /\ Recorded(o) /\ Work(o) \in Nat /\ index[o] \in Nat \ {0}
    BY PlanType DEF ReceiptInv, TypeOK, RoundInv, Rounds
  <1>2. /\ Counted(o, pc[o], index[o], results[o], ending[o])
        /\ Accounted(o, pc[o], index[o], results[o], applied[o])
        /\ pc[o] \notin Ended => state[o] # "cancelled"
        /\ Len(results[o]) \in Nat
    BY <1>1 DEF Recorded
  <1> SUFFICES /\ Counted(o, pc'[o], index'[o], results'[o], ending'[o])
               /\ Accounted(o, pc'[o], index'[o], results'[o], applied'[o])
               /\ state'[o] = "cancelled" => pc'[o] \in Ended /\ ending'[o] = "cancelled"
    BY DEF Recorded, Counted, Accounted, NoStop, Named
  <1>3. CASE Connect(o)
    <2>1. UNCHANGED <<results, index, applied, state>> /\ pc[o] = "connect"
      BY <1>3 DEF Connect
    <2>2. pc'[o] = "check" \/ (pc'[o] = "finish" /\ ending'[o] = "failed")
      BY <1>1, <1>3 DEF Connect
    <2> QED BY <1>2, <2>1, <2>2 DEF Counted, Accounted
  <1>4. CASE CheckCancel(o)
    <2>1. UNCHANGED <<results, index, applied, state>> /\ pc[o] = "check"
      BY <1>4 DEF CheckCancel
    <2>2. Len(results[o]) = index[o] - 1 /\ index[o] <= Work(o) + 1
      BY <1>1, <1>2, <2>1 DEF Counted, Round
    <2>3. CASE index[o] > Work(o) /\ End(o, "complete")
      BY <1>1, <1>2, <2>1, <2>2, <2>3 DEF Counted, Accounted
    <2>4. CASE index[o] <= Work(o) /\ End(o, "cancelled")
      BY <1>1, <1>2, <2>1, <2>2, <2>4 DEF Counted, Accounted
    <2>5. CASE Goto(o, "validate")
      BY <1>1, <1>2, <2>1, <2>2, <2>5 DEF Counted, Accounted
    <2> QED BY <1>4, <2>3, <2>4, <2>5 DEF CheckCancel
  <1>5. CASE Validate(o)
    <2>1. UNCHANGED <<index, applied, state>> /\ pc[o] = "validate"
      BY <1>5 DEF Validate
    <2>2. CASE UNCHANGED results /\ (End(o, "failed") \/ Goto(o, "send"))
      BY <1>1, <1>2, <2>1, <2>2 DEF Counted, Accounted
    <2>3. CASE Goto(o, "pause") /\ Record(o, "skipped")
      <3>1. "skipped" \in Told BY DEF Told
      <3>2. /\ Len(results'[o]) = index[o] /\ NoStop(results'[o], Len(results'[o]))
            /\ \A S : Named(results'[o], S) = IF "skipped" \in S
                              THEN Named(results[o], S) \cup {Plan[o][index[o]]}
                              ELSE Named(results[o], S)
        BY <2>1, <2>3, <3>1, RecordAppends
      <3>3. /\ Named(results'[o], {"succeeded"}) = Named(results[o], {"succeeded"})
            /\ Named(results'[o], {"succeeded", "failed"})
                 = Named(results[o], {"succeeded", "failed"})
        BY <3>2
      <3>4. pc'[o] = "pause" BY <1>1, <2>3
      <3> QED BY <1>2, <2>1, <3>2, <3>3, <3>4 DEF Counted, Accounted
    <2> QED BY <1>5, <2>2, <2>3 DEF Validate
  <1>6. CASE ValidateExpansion(o)
    <2>1. UNCHANGED <<index, applied, state>> /\ pc[o] = "validate" /\ o \in Expansions
      BY <1>6 DEF ValidateExpansion
    <2>2. CASE UNCHANGED results /\ Goto(o, "send")
      BY <1>1, <1>2, <2>1, <2>2 DEF Counted, Accounted
    <2>3. ASSUME NEW how \in {"failed", "complete"}, End(o, how), Record(o, "failed")
          PROVE  /\ Counted(o, pc'[o], index'[o], results'[o], ending'[o])
                 /\ Accounted(o, pc'[o], index'[o], results'[o], applied'[o])
                 /\ state'[o] # "cancelled"
      <3>1. "failed" \in Told BY DEF Told
      <3>2. /\ Len(results'[o]) = index[o] /\ NoStop(results'[o], Len(results'[o]))
            /\ index[o] \in 1 .. Work(o)
            /\ \A S : Named(results'[o], S) = IF "failed" \in S
                              THEN Named(results[o], S) \cup {Plan[o][index[o]]}
                              ELSE Named(results[o], S)
        BY <2>1, <2>3, <3>1, RecordAppends
      <3>3. /\ Named(results'[o], {"succeeded"}) = Named(results[o], {"succeeded"})
            /\ Named(results[o], {"succeeded", "failed"})
                 \subseteq Named(results'[o], {"succeeded", "failed"})
        BY <3>2
      <3>4. pc'[o] = "finish" /\ ending'[o] = how BY <1>1, <2>3
      <3>5. Len(results'[o]) = Work(o) BY <2>1, <3>2 DEF Work
      <3>6. Accounted(o, pc'[o], index'[o], results'[o], applied'[o])
        BY <1>2, <2>1, <3>3, <3>4 DEF Accounted
      <3>7. Counted(o, pc'[o], index'[o], results'[o], ending'[o])
        BY <3>2, <3>4, <3>5 DEF Counted
      <3> QED BY <1>2, <2>1, <3>6, <3>7
    <2> QED BY <1>6, <2>2, <2>3 DEF ValidateExpansion
  <1>7. CASE Send(o)
    <2>1. /\ UNCHANGED <<results, index, ending, state>> /\ pc[o] = "send"
          /\ pc'[o] = "answer"
      BY <1>1, <1>7 DEF Send
    <2>2. o \notin Bulk => /\ applied'[o] \subseteq applied[o] \cup {Plan[o][index[o]]}
                          /\ applied[o] \subseteq applied'[o]
      BY <1>1, <1>7 DEF Send, Asked, Target
    <2> QED BY <1>2, <2>1, <2>2 DEF Counted, Accounted
  <1>8. CASE Answer(o)
    <2>1. UNCHANGED <<index, applied, state>> /\ pc[o] = "answer"
      BY <1>8 DEF Answer
    <2> DEFINE status == IF answer[o] = "ok" THEN "succeeded" ELSE "failed"
    <2>2. status \in {"succeeded", "failed"} /\ status \in Told /\ Record(o, status)
      BY <1>8 DEF Answer, Told
    <2>3. o \notin Bulk /\ status = "succeeded" => Plan[o][index[o]] \in applied[o]
      BY <1>1, <2>1 DEF Round
    <2> HIDE DEF status
    <2>4. /\ Len(results'[o]) = index[o] /\ NoStop(results'[o], Len(results'[o]))
          /\ index[o] \in 1 .. Work(o)
          /\ \A S : Named(results'[o], S) = IF status \in S
                            THEN Named(results[o], S) \cup {Plan[o][index[o]]}
                            ELSE Named(results[o], S)
      BY <2>1, <2>2, RecordAppends
    <2>5. ASSUME o \notin Bulk PROVE Named(results'[o], {"succeeded"}) \subseteq applied'[o]
      <3>1. Named(results[o], {"succeeded"}) \subseteq applied[o]
        BY <1>2, <2>1, <2>5 DEF Accounted
      <3>2. Named(results'[o], {"succeeded"})
              = IF status = "succeeded" THEN Named(results[o], {"succeeded"}) \cup {Plan[o][index[o]]}
                ELSE Named(results[o], {"succeeded"})
        BY <2>4
      <3> QED BY <2>1, <2>3, <2>5, <3>1, <3>2
    <2>6. ASSUME o \notin Bulk
          PROVE  applied'[o] \subseteq Named(results'[o], {"succeeded", "failed"})
      <3>1. applied[o] \subseteq Named(results[o], {"succeeded", "failed"}) \cup {Plan[o][index[o]]}
        BY <1>2, <2>1, <2>6 DEF Accounted
      <3>2. Named(results'[o], {"succeeded", "failed"})
              = Named(results[o], {"succeeded", "failed"}) \cup {Plan[o][index[o]]}
        BY <2>2, <2>4
      <3> QED BY <2>1, <3>1, <3>2
    <2>7. \/ pc'[o] = "pause"
          \/ pc'[o] = "finish" /\ ending'[o] = "failed"
          \/ pc'[o] = "finish" /\ ending'[o] = "complete" /\ Work(o) = 1
      BY <1>1, <1>8 DEF Answer, Work
    <2>8. Counted(o, pc'[o], index'[o], results'[o], ending'[o])
      BY <2>1, <2>4, <2>7 DEF Counted
    <2>9. Accounted(o, pc'[o], index'[o], results'[o], applied'[o])
      BY <2>5, <2>6, <2>7 DEF Accounted
    <2> QED BY <1>2, <2>1, <2>8, <2>9
  <1>9. CASE Pause(o)
    <2>1. UNCHANGED <<results, applied, state>> /\ pc[o] = "pause"
      BY <1>9 DEF Pause
    <2>2. \/ pc'[o] = "finish" /\ ending'[o] = "failed"
          \/ pc'[o] = "check" /\ index'[o] = index[o] + 1
      BY <1>1, <1>9 DEF Pause
    <2>3. Len(results[o]) = index[o] /\ NoStop(results[o], Len(results[o]))
      BY <1>2, <2>1 DEF Counted
    <2> QED BY <1>1, <1>2, <2>1, <2>2, <2>3 DEF Counted, Accounted
  <1>10. CASE Finish(o)
    <2>1. /\ UNCHANGED <<index, applied, ending>> /\ pc[o] = "finish" /\ pc'[o] = "receipt"
          /\ state'[o] = ending[o]
      BY <1>1, <1>10 DEF Finish
    <2>2. CASE ending[o] = "complete"
      <3>1. results' = results BY <1>10, <2>2 DEF Finish
      <3> QED BY <1>2, <2>1, <2>2, <3>1 DEF Counted, Accounted
    <2>3. CASE ending[o] # "complete"
      <3> DEFINE r == [target |-> "none", status |-> "stopped"]
      <3>1. r \in Results /\ r.status = "stopped" BY DEF Results
      <3>2. results'[o] = Append(results[o], r) /\ results[o] \in Seq(Results)
        BY <1>1, <1>10, <2>3 DEF Finish
      <3> HIDE DEF r
      <3>3. /\ Len(results'[o]) = Len(results[o]) + 1 /\ results'[o][Len(results'[o])] = r
            /\ NoStop(results[o], Len(results[o])) => NoStop(results'[o], Len(results[o]))
        BY <3>1, <3>2, AppendResult
      <3>4. \A S : "stopped" \notin S => Named(results'[o], S) = Named(results[o], S)
        BY <3>1, <3>2, NamedAppend
      <3>5. /\ Named(results'[o], {"succeeded"}) = Named(results[o], {"succeeded"})
            /\ Named(results'[o], {"succeeded", "failed"})
                 = Named(results[o], {"succeeded", "failed"})
        BY <3>4
      <3>6. NoStop(results[o], Len(results[o]))
            /\ (ending[o] = "cancelled" => Len(results[o]) < Work(o))
        BY <1>2, <2>1 DEF Counted
      <3>7. Len(results'[o]) - 1 = Len(results[o]) BY <1>2, <3>3
      <3>8. Counted(o, pc'[o], index'[o], results'[o], ending'[o])
        BY <1>2, <2>1, <2>3, <3>1, <3>3, <3>6, <3>7 DEF Counted
      <3>9. Accounted(o, pc'[o], index'[o], results'[o], applied'[o])
        BY <1>2, <2>1, <3>5 DEF Accounted
      <3> QED BY <2>1, <3>8, <3>9
    <2> QED BY <2>2, <2>3
  <1>11. CASE Receipt(o)
    BY <1>1, <1>2, <1>11 DEF Receipt, Counted, Accounted, Recorded
  <1>12. CASE Store(o)
    BY <1>1, <1>2, <1>12 DEF Store, Counted, Accounted, Recorded
  <1> QED
    BY <1>3, <1>4, <1>5, <1>6, <1>7, <1>8, <1>9, <1>10, <1>11, <1>12 DEF RunStep

(* The one result of a bulk selection.                                     *)
LEMMA RunBulkTold ==
  ASSUME ReceiptInv, NEW o \in Operations, RunStep(o)
  PROVE  BulkTold(o)'
  <1> USE DEF runFrame, opVars, historyVars, Goto, End
  <1> SUFFICES ASSUME o \in Bulk
               PROVE  BulkAccounted(o, pc'[o], results'[o], applied'[o], sent'[o])
    BY DEF BulkTold, BulkAccounted, AllSent, AllTargets, Named
  <1>1. /\ pc \in [Operations -> Steps] /\ results \in [Operations -> Seq(Results)]
        /\ BulkAccounted(o, pc[o], results[o], applied[o], sent[o]) /\ OneRound(o)
    BY DEF ReceiptInv, TypeOK, RoundInv, IndInv, BulkTold
  <1>2. CASE UNCHANGED <<results, applied, sent>> /\ pc[o] \notin {"answer", "done"}
    BY <1>1, <1>2 DEF BulkAccounted
  <1>3. CASE Send(o)
    <2>1. IndInv'
      BY <1>3, NextIndInv DEF ReceiptInv, RoundInv, Next, RunStep
    <2>2. pc'[o] = "answer" BY <1>1, <1>3 DEF Send
    <2>3. AllSent(o, sent'[o]) BY <2>1, <2>2 DEF IndInv, OneRound, AllSent, AllTargets
    <2> QED BY <2>2, <2>3 DEF BulkAccounted
  <1>4. ASSUME NEW status \in {"succeeded", "failed"}, Record(o, status),
               pc[o] \in {"validate", "answer"}, UNCHANGED <<applied, sent>>,
               status = "succeeded" => pc[o] = "answer"
        PROVE  BulkAccounted(o, pc'[o], results'[o], applied'[o], sent'[o])
    <2>1. status \in Told BY DEF Told
    <2>2. \A S : Named(results'[o], S) = IF status \in S
                                        THEN Named(results[o], S) \cup {Plan[o][index[o]]}
                                        ELSE Named(results[o], S)
      BY <1>4, <2>1, RecordAppends
    <2>3. Named(results'[o], {"succeeded", "failed"}) # {} BY <2>2
    <2>4. pc[o] = "answer" => AllSent(o, sent'[o]) BY <1>1, <1>4 DEF OneRound, AllSent
    <2>5. status # "succeeded" => Named(results'[o], {"succeeded"}) = Named(results[o], {"succeeded"})
      BY <2>2
    <2>6. pc[o] # "done" /\ sent'[o] = sent[o] BY <1>4
    <2> QED BY <1>1, <1>4, <2>3, <2>4, <2>5, <2>6 DEF BulkAccounted
  <1>5. CASE Finish(o)
    <2> DEFINE stop == [target |-> "none", status |-> "stopped"]
    <2>1. stop \in Results /\ stop.status = "stopped" BY DEF Results
    <2>2. /\ UNCHANGED <<applied, sent>> /\ pc[o] = "finish" /\ results[o] \in Seq(Results)
          /\ results'[o] = results[o] \/ results'[o] = Append(results[o], stop)
      BY <1>1, <1>5 DEF Finish
    <2> HIDE DEF stop
    <2>5. \A S : "stopped" \notin S => Named(Append(results[o], stop), S) = Named(results[o], S)
      BY <2>1, <2>2, NamedAppend
    <2>3. \A S : "stopped" \notin S => Named(results'[o], S) = Named(results[o], S)
      BY <2>2, <2>5
    <2>4. /\ Named(results'[o], {"succeeded"}) = Named(results[o], {"succeeded"})
          /\ Named(results'[o], {"succeeded", "failed"})
               = Named(results[o], {"succeeded", "failed"})
      BY <2>3
    <2> QED BY <1>1, <2>2, <2>4 DEF BulkAccounted
  <1>6. CASE Connect(o) \/ CheckCancel(o) \/ Pause(o) \/ Receipt(o) \/ Store(o)
    BY <1>2, <1>6 DEF Connect, CheckCancel, Pause, Receipt, Store
  <1>7. CASE ValidateExpansion(o)
    <2>1. UNCHANGED <<applied, sent>> /\ pc[o] = "validate" /\ (UNCHANGED results \/ Record(o, "failed"))
      BY <1>7 DEF ValidateExpansion
    <2> QED BY <1>2, <1>4, <2>1
  <1>8. CASE Answer(o)
    <2>1. /\ UNCHANGED <<applied, sent>> /\ pc[o] = "answer"
          /\ \E status \in {"succeeded", "failed"} : Record(o, status)
      BY <1>8 DEF Answer
    <2> QED BY <1>4, <2>1
  <1>9. ~Validate(o) BY KindAssumption DEF Validate
  <1> QED BY <1>3, <1>5, <1>6, <1>7, <1>8, <1>9 DEF RunStep

(* The handlers, time, League and a restart.                               *)
LEMMA OutsideReceipts ==
  ASSUME ReceiptInv,
         \/ \E o \in Operations : \/ Preview(o) \/ ExecuteExpired(o) \/ Execute(o)
                                  \/ Cancel(o) \/ Ages(o)
         \/ ClearReceipts \/ LeagueChanges \/ Restart
  PROVE  (\A o \in Operations : Recorded(o)' /\ BulkTold(o)') /\ HeldTrue' /\ LedgerTrue'
  <1> USE DEF opVars, runVars, historyVars
  <1>1. /\ UNCHANGED <<results, index, answer, ending, applied, sent, held>>
        /\ ledger' \in {ledger, <<>>}
    BY DEF Preview, ExecuteExpired, Execute, Cancel, Ages, ClearReceipts, LeagueChanges,
           Restart
  <1>2. state \in [Operations -> States] /\ pc \in [Operations -> Steps]
    BY DEF ReceiptInv, TypeOK
  <1>3. \A p \in Operations :
          /\ pc'[p] \in {pc[p], "done"} \/ (pc[p] = "idle" /\ pc'[p] = "connect")
          /\ state'[p] = "cancelled" => state[p] = "cancelled"
    <2>1. CASE \E o \in Operations : Execute(o) BY <1>2, <2>1 DEF Execute, Started
    <2>2. CASE Restart BY <1>2, <2>2 DEF Restart
    <2>3. CASE \E o \in Operations : Preview(o) \/ ExecuteExpired(o) \/ Cancel(o) \/ Ages(o)
      BY <1>2, <2>3 DEF Preview, ExecuteExpired, Cancel, Ages
    <2>4. CASE ClearReceipts \/ LeagueChanges BY <2>4 DEF ClearReceipts, LeagueChanges
    <2> QED BY <2>1, <2>2, <2>3, <2>4
  <1>4. ASSUME NEW p \in Operations PROVE Recorded(p)' /\ BulkTold(p)'
    <2>1. /\ Recorded(p) /\ BulkTold(p)
          /\ pc'[p] \in {pc[p], "done"} \/ (pc[p] = "idle" /\ pc'[p] = "connect")
          /\ state'[p] = "cancelled" => state[p] = "cancelled"
      BY <1>3 DEF ReceiptInv
    <2>2. Counted(p, pc'[p], index[p], results[p], ending[p])
      BY <2>1 DEF Recorded, Counted, Ahead, Running
    <2>3. Accounted(p, pc'[p], index[p], results[p], applied[p])
      BY <2>1 DEF Recorded, Accounted
    <2>4. state'[p] = "cancelled" => pc'[p] \in Ended /\ ending[p] = "cancelled"
      BY <2>1 DEF Recorded, Ended
    <2>5. Recorded(p)'
      BY <1>1, <2>2, <2>3, <2>4 DEF Recorded, Counted, Accounted, NoStop, Named
    <2>6. BulkAccounted(p, pc'[p], results[p], applied[p], sent[p])
      BY <2>1 DEF BulkTold, BulkAccounted
    <2>7. BulkTold(p)'
      BY <1>1, <2>6 DEF BulkTold, BulkAccounted, AllSent, AllTargets, Named
    <2> QED BY <2>5, <2>7
  <1>5. HeldTrue' /\ LedgerTrue' BY <1>1, <1>3, KeepsReceipts
  <1> QED BY <1>4, <1>5

LEMMA NextReceiptInv == ReceiptInv /\ [Next]_vars => ReceiptInv'
  <1> SUFFICES ASSUME ReceiptInv, [Next]_vars PROVE ReceiptInv' OBVIOUS
  <1>1. RoundInv' BY NextRoundInv DEF ReceiptInv
  <1>2. CASE UNCHANGED vars
    <2>1. /\ UNCHANGED <<opVars, runVars, ledger, present, historyVars>> BY <1>2 DEF vars
    <2>2. TypeOK'
      BY <2>1 DEF ReceiptInv, TypeOK, opVars, runVars, historyVars
    <2>3. ASSUME NEW o \in Operations PROVE Recorded(o)' /\ BulkTold(o)'
      <3>1. UNCHANGED <<state, pc, index, results, ending, applied, sent>>
        BY <2>1 DEF opVars, runVars, historyVars
      <3>2. Recorded(o) /\ BulkTold(o) BY DEF ReceiptInv
      <3>3. Recorded(o)' BY <3>1, <3>2 DEF Recorded, Counted, Accounted, NoStop, Named
      <3>4. BulkTold(o)'
        BY <3>1, <3>2 DEF BulkTold, BulkAccounted, AllSent, AllTargets, Named
      <3> QED BY <3>3, <3>4
    <2>4. HeldTrue' /\ LedgerTrue'
      BY <2>1, KeepsReceipts DEF runVars, historyVars
    <2> QED BY <1>1, <2>2, <2>3, <2>4 DEF ReceiptInv
  <1>3. ASSUME age' \in [Operations -> {"fresh", "expired", "old"}], present' \subseteq Targets,
               held' \in [Operations -> Receipts], ledger' \in Seq(Receipts)
        PROVE  TypeOK'
    BY <1>1, <1>3 DEF RoundInv, RoundTyped, IndInv, Typed, TypeOK
  <1>4. /\ age \in [Operations -> {"fresh", "expired", "old"}] /\ present \subseteq Targets
        /\ held \in [Operations -> Receipts] /\ ledger \in Seq(Receipts)
    BY DEF ReceiptInv, TypeOK
  <1>5. CASE Next /\ ~\E o \in Operations : RunStep(o)
    <2> USE DEF opVars, runVars, historyVars
    <2>1. /\ UNCHANGED held /\ ledger' \in {ledger, <<>>}
          /\ age' \in [Operations -> {"fresh", "expired", "old"}] /\ present' \subseteq Targets
      <3>1. CASE \E o \in Operations : Ages(o) BY <1>4, <3>1 DEF Ages
      <3>2. CASE ClearReceipts BY <1>4, <3>2 DEF ClearReceipts
      <3>3. CASE LeagueChanges BY <1>4, <3>3 DEF LeagueChanges
      <3>4. CASE \E o \in Operations : Preview(o) \/ ExecuteExpired(o) \/ Execute(o) \/ Cancel(o)
        BY <1>4, <3>4 DEF Preview, ExecuteExpired, Execute, Cancel
      <3>5. CASE Restart BY <1>4, <3>5 DEF Restart
      <3> QED BY <1>5, <3>1, <3>2, <3>3, <3>4, <3>5 DEF Next
    <2>2. ledger' \in Seq(Receipts) BY <1>4, <2>1, EmptySeq
    <2>3. TypeOK' BY <1>3, <1>4, <2>1, <2>2
    <2> QED BY <1>1, <1>5, <2>3, OutsideReceipts DEF ReceiptInv, Next
  <1>6. ASSUME NEW o \in Operations, RunStep(o) PROVE ReceiptInv'
    <2> USE DEF runFrame, opVars, historyVars
    <2>1. UNCHANGED age /\ present' \subseteq Targets
      BY <1>4, <1>6 DEF RunStep, Connect, CheckCancel, Validate, ValidateExpansion, Send,
                        Answer, Pause, Finish, Receipt, Store
    <2>2. ASSUME NEW p \in Operations PROVE Recorded(p)' /\ BulkTold(p)'
      <3>1. CASE p = o BY <1>6, <3>1, RunRecorded, RunBulkTold
      <3>2. CASE p # o
        <4>1. Stays(p) /\ pc'[p] = pc[p] BY <1>6, <3>2, OthersStay DEF ReceiptInv
        <4>2. state'[p] = state[p]
          <5>1. state \in [Operations -> States] BY DEF ReceiptInv, TypeOK
          <5> QED BY <1>6, <3>2, <5>1
                  DEF RunStep, Connect, CheckCancel, Validate, ValidateExpansion, Send,
                      Answer, Pause, Finish, Receipt, Store
        <4>3. Recorded(p) /\ BulkTold(p) BY DEF ReceiptInv
        <4>4. sent'[p] = sent[p] BY <1>6, <3>2, OthersSent DEF ReceiptInv
        <4>5. Recorded(p)'
          BY <4>1, <4>2, <4>3 DEF Stays, Recorded, Counted, Accounted, NoStop, Named
        <4>6. BulkTold(p)'
          BY <4>1, <4>3, <4>4 DEF Stays, BulkTold, BulkAccounted, AllSent, AllTargets, Named
        <4> QED BY <4>5, <4>6
      <3> QED BY <3>1, <3>2
    <2>3. CASE Receipt(o)
      <3>1. /\ held' \in [Operations -> Receipts]
            /\ held'[o].id = o /\ TrueOf(held'[o], applied', sent')
        BY <2>3, ReceiptTrue
      <3>2. UNCHANGED <<ledger, applied, sent>> /\ pc[o] = "receipt" /\ pc' = [pc EXCEPT ![o] = "store"]
        BY <2>3 DEF Receipt, Goto
      <3>3. pc \in [Operations -> Steps] BY DEF ReceiptInv, TypeOK
      <3>4. \A p \in Operations : p # o => held'[p] = held[p]
        BY <1>4, <2>3 DEF Receipt
      <3>5. HeldTrue'
        <4>1. ASSUME NEW p \in Operations, pc'[p] = "store"
              PROVE  held'[p].id = p /\ TrueOf(held'[p], applied', sent')
          <5>1. CASE p = o BY <3>1, <5>1
          <5>2. CASE p # o
            <6>1. pc[p] = "store" BY <3>2, <3>3, <4>1, <5>2
            <6>2. held[p].id = p /\ TrueOf(held[p], applied, sent)
              BY <6>1 DEF ReceiptInv, HeldTrue
            <6> QED BY <3>2, <3>4, <5>2, <6>2 DEF TrueOf
          <5> QED BY <5>1, <5>2
        <4> QED BY <4>1 DEF HeldTrue
      <3>6. LedgerTrue'
        <4>1. \A i \in DOMAIN ledger : pc[ledger[i].id] = "done" /\ ledger[i].id \in Operations
          <5>1. \A i \in DOMAIN ledger : ledger[i] \in Receipts BY <1>4
          <5> QED BY <5>1 DEF ReceiptInv, LedgerTrue, Receipts
        <4>2. \A i \in DOMAIN ledger : pc'[ledger[i].id] = "done"
          BY <3>2, <3>3, <4>1
        <4>3. \A i \in DOMAIN ledger : TrueOf(ledger[i], applied, sent)
          BY DEF ReceiptInv, LedgerTrue
        <4>4. \A i \in DOMAIN ledger : TrueOf(ledger[i], applied', sent') BY <3>2, <4>3 DEF TrueOf
        <4> QED BY <3>2, <4>2, <4>4 DEF ReceiptInv, LedgerTrue
      <3> QED BY <1>1, <1>3, <1>4, <2>1, <2>2, <3>1, <3>2, <3>5, <3>6 DEF ReceiptInv
    <2>4. CASE Store(o)
      <3>1. UNCHANGED held BY <2>4 DEF Store
      <3> QED BY <1>1, <1>3, <1>4, <2>1, <2>2, <2>4, <3>1, StoreTrue DEF ReceiptInv
    <2>5. CASE ~(Receipt(o) \/ Store(o))
      <3>1. UNCHANGED <<held, ledger>>
        BY <1>6, <2>5 DEF RunStep, Connect, CheckCancel, Validate, ValidateExpansion, Send,
                          Answer, Pause, Finish
      <3>2. /\ pc \in [Operations -> Steps] /\ applied \in [Operations -> SUBSET Targets]
        BY DEF ReceiptInv, TypeOK
      <3>3. pc[o] \notin {"store", "done"} /\ pc'[o] # "store"
        BY <1>6, <2>5, <3>2 DEF RunStep, Connect, CheckCancel, Validate, ValidateExpansion,
                                Send, Answer, Pause, Finish, Goto, End
      <3>4. \A p \in Operations : p # o => /\ applied'[p] = applied[p] /\ pc'[p] = pc[p]
                                          /\ sent'[p] = sent[p]
        BY <1>6, OthersStay, OthersSent DEF ReceiptInv, Stays
      <3>5. HeldTrue' /\ LedgerTrue' BY <3>1, <3>3, <3>4, KeepsReceipts
      <3> QED BY <1>1, <1>3, <1>4, <2>1, <2>2, <3>1, <3>5 DEF ReceiptInv
    <2> QED BY <2>3, <2>4, <2>5
  <1> QED BY <1>2, <1>5, <1>6

-----------------------------------------------------------------------------
(* The types of the operations, their goroutines and the ledger.           *)
THEOREM TypeCorrect == Spec => []TypeOK
  <1>1. ReceiptInv => TypeOK BY DEF ReceiptInv
  <1> QED BY <1>1, InitReceiptInv, NextReceiptInv, PTL DEF Spec

(* Every receipt on the ledger is true of the run it is about, whatever    *)
(* crosses the three critical sections that make and store it              *)
(* (finishOperation): League applied what it calls succeeded and nothing   *)
(* it leaves out (of a bulk selection only: it calls it succeeded when     *)
(* every grant was asked for, and is not silent when League took any), it  *)
(* says cancelled only when work was left, and it is the only one of its   *)
(* operation.                                                              *)
THEOREM ReceiptsAreTrue == Spec => []ReceiptsTrue
  <1>1. ASSUME ReceiptInv PROVE ReceiptsTrue
    <2>1. ASSUME NEW i \in DOMAIN ledger
          PROVE  ReceiptAccounts(ledger[i]) /\ ReceiptMatchesRun(ledger[i])
      <3>1. TrueOf(ledger[i], applied, sent) BY <1>1 DEF ReceiptInv, LedgerTrue
      <3> QED BY <3>1 DEF TrueOf, AllSent, ReceiptAccounts, ReceiptOfBatch, ReceiptOfBulk
    <2> QED BY <1>1, <2>1 DEF ReceiptInv, LedgerTrue, ReceiptsTrue
  <1> QED BY <1>1, InitReceiptInv, NextReceiptInv, PTL DEF Spec

=============================================================================
