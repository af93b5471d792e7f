--------------------------- MODULE MCDraftRuntime ---------------------------
(* An instance of DraftRuntime for TLC: two lanes that prefer different     *)
(* champions, and an Arena list that goes on after Bravery.                *)
EXTENDS DraftRuntime, TLC

CONSTANTS c1, c2, top, mid

Ban   == <<c1, c2>>
Pick  == (top :> <<c1, c2>>) @@ (mid :> <<c2>>)
Arena == <<Bravery, c1, FirstAvailable>>
Aram  == <<c1>>
=============================================================================
