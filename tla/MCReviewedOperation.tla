------------------------- MODULE MCReviewedOperation -------------------------
(* An instance of ReviewedOperation for TLC: a batch of two targets, a     *)
(* bulk selection of the same two, and an expansion over the first of      *)
(* them.                                                                   *)
EXTENDS ReviewedOperation, TLC

CONSTANTS o1, o2, o3, t1, t2

SharedPlan == (o1 :> <<t1, t2>>) @@ (o2 :> <<t1, t2>>) @@ (o3 :> <<t1>>)

OutOfPlay(o) == state[o] = "none" /\ pc[o] = "idle"

(* One of the first two operations runs alone, or both run as far as the   *)
(* batch's first target and before either expires, and only the bulk       *)
(* selection may use up the other target.  The third comes when both have  *)
(* ended in unclear answers and stored a receipt, so that its own is one   *)
(* too many.                                                               *)
SharedTarget ==
  /\ \/ OutOfPlay(o1) \/ OutOfPlay(o2)
     \/ /\ index[o1] = 1 /\ \A o \in Operations : age[o] = "fresh"
        /\ t2 \in present \cup applied[o2]
  /\ \/ OutOfPlay(o3)
     \/ Len(ledger) = MaxReceipts /\ \A o \in {o1, o2} : state[o] = "failed" /\ answer[o] = "unclear"

=============================================================================
