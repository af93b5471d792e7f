---------------------------- MODULE LatestRequest ----------------------------
(***************************************************************************)
(* What a panel of the web interface promises that loads the details of    *)
(* whatever is selected: it shows nothing, or the details of the present   *)
(* selection, however late the answers to earlier selections come.         *)
(***************************************************************************)
CONSTANTS Keys, NoKey

VARIABLES wanted, shown

vars == <<wanted, shown>>

Init == wanted = NoKey /\ shown = NoKey

Want(k) == wanted' = k /\ shown' = NoKey

Show == shown' \in {NoKey, wanted} /\ UNCHANGED wanted

Next == Show \/ \E k \in Keys \cup {NoKey} : Want(k)

Spec == Init /\ [][Next]_vars

=============================================================================
