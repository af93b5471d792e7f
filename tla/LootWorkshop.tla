----------------------------- MODULE LootWorkshop -----------------------------
(***************************************************************************)
(* The Loot page: frontend/src/components/LootDashboard.tsx with the       *)
(* dialog ReviewOperationModal.tsx and the watcher reviewedOperation.ts.   *)
(* A queue of recipes is previewed, confirmed and watched over HTTP while  *)
(* the operation runs in RiftOps (OperationLifecycle); a request or its    *)
(* answer may be lost, and a request may arrive after the page gave it up. *)
(* An item stands for a material and the one recipe the page offers for it.*)
(***************************************************************************)
EXTENDS Naturals, FiniteSets

CONSTANTS Operations, Items

VARIABLES
  page,                          \* the tab App.tsx renders
  status, started, over, plan, touched, applied, reported, succeeded,  \* RiftOps
  batch,      \* batchItems: the recipes queued
  crafting,   \* "", "batch", or the item whose recipe is being crafted
  previewing, \* the operation whose preview has not been answered yet
  review,     \* pendingReview: the operation the dialog shows
  executing,  \* the dialog waits
  reloading,  \* confirmBatch waits for the inventory, the dialog for it
  call,       \* where runReviewedOperation is, and for which operation
  wire,       \* execute requests the page gave up and RiftOps has not seen
  lost,       \* history: operations the page stopped watching before their end
  selected,   \* selectedLootId
  recipes,    \* the material whose recipes are shown
  asked       \* recipe requests in flight: [item, active]

None == "none"

opVars     == <<status, started, over, plan, touched, applied, reported, succeeded>>
reviewVars == <<previewing, review, executing, reloading, call, wire, lost>>
watchFrame == <<previewing, reloading, wire>>
recipeVars == <<selected, recipes, asked>>
vars == <<page, opVars, batch, crafting, reviewVars, recipeVars>>

(* What is on the way is a batch of materials, one request for each.       *)
Server == INSTANCE OperationLifecycle WITH Targets <- Items, Together <- {}

NoCall == [at |-> "idle", op |-> None, seen |-> None]
Going == {"preview", "running", "cancelling"}

Init ==
  /\ Server!Init
  /\ batch = {} /\ crafting = ""
  /\ previewing = None /\ review = None
  /\ executing = FALSE /\ reloading = FALSE /\ call = NoCall
  /\ wire = {} /\ lost = {}
  /\ selected = None /\ recipes = None /\ asked = {}

Shown == page = "loot"

(* The dialog covers the page, and traps the focus, while it is open.      *)
Reachable == Shown /\ review = None

-----------------------------------------------------------------------------
(* Choosing a material, and its recipes.                                   *)

(* Faulty SelectMaterial: the list stays enabled during a craft.           *)
SelectWhileCrafting(i) ==
  /\ Reachable /\ i # selected
  /\ selected' = i /\ recipes' = None
  /\ asked' = {[r EXCEPT !.active = FALSE] : r \in asked} \cup {[item |-> i, active |-> TRUE]}
  /\ UNCHANGED <<page, opVars, batch, crafting, reviewVars>>

(* The effect of the last selection is cleaned up: its request is no       *)
(* longer active.                                                          *)
SelectMaterial(i) ==
  /\ Reachable /\ crafting = "" /\ i # selected
  /\ selected' = i /\ recipes' = None
  /\ asked' = {[r EXCEPT !.active = FALSE] : r \in asked} \cup {[item |-> i, active |-> TRUE]}
  /\ UNCHANGED <<page, opVars, batch, crafting, reviewVars>>

RecipesAnswer(r) ==
  /\ Shown
  /\ asked' = asked \ {r}
  /\ recipes' \in IF r.active THEN {r.item, None} ELSE {recipes}
  /\ UNCHANGED <<page, opVars, batch, crafting, reviewVars, selected>>

(* One recipe is confirmed; its own dialog closes as the craft is sent.    *)
RunCraft ==
  /\ Reachable /\ crafting = "" /\ recipes # None
  /\ crafting' = selected
  /\ UNCHANGED <<page, opVars, batch, reviewVars, recipeVars>>

(* It ends in an error, or the inventory and then the recipes of the       *)
(* material that was selected when it was sent are read again.             *)
CraftEnds ==
  /\ Shown /\ crafting \in Items
  /\ crafting' = ""
  /\ recipes' \in {recipes, crafting}
  /\ UNCHANGED <<page, opVars, batch, reviewVars, selected, asked>>

AddToBatch ==
  /\ Reachable /\ crafting = "" /\ recipes # None /\ selected \notin batch
  /\ batch' = batch \cup {selected}
  /\ UNCHANGED <<page, opVars, crafting, reviewVars, recipeVars>>

RemoveFromBatch(i) ==
  /\ Reachable /\ crafting = "" /\ i \in batch
  /\ batch' = batch \ {i}
  /\ UNCHANGED <<page, opVars, crafting, reviewVars, recipeVars>>

-----------------------------------------------------------------------------
(* Preview, and the dialog.                                                *)

pageFrame == <<page, batch, recipeVars>>

(* executeBatch: RiftOps previews the queue under a new id.                *)
ExecuteBatch(o) ==
  /\ Reachable /\ crafting = "" /\ batch # {}
  /\ Server!Preview(o, batch)
  /\ crafting' = "batch" /\ previewing' = o
  /\ UNCHANGED <<pageFrame, review, executing, reloading, call, wire, lost>>

(* The answer opens the dialog, afresh; an error lets the queue go.        *)
PreviewAnswer ==
  /\ Shown /\ previewing # None
  /\ previewing' = None
  /\ \/ review' = previewing /\ executing' = FALSE /\ UNCHANGED crafting
     \/ crafting' = "" /\ UNCHANGED <<review, executing>>
  /\ UNCHANGED <<pageFrame, opVars, reloading, call, wire, lost>>

CloseReview ==
  /\ Shown /\ review # None /\ ~executing
  /\ review' = None /\ crafting' = ""
  /\ UNCHANGED <<pageFrame, watchFrame, opVars, executing, call, lost>>

(* handleExecute, with the confirmation typed: "Confirm operation" the     *)
(* first time, "Check status" after an error.                              *)
HandleExecute ==
  /\ Shown /\ review # None /\ ~executing
  /\ executing' = TRUE
  /\ call' = [at |-> "look", op |-> review, seen |-> None]
  /\ UNCHANGED <<pageFrame, watchFrame, opVars, crafting, review, lost>>

-----------------------------------------------------------------------------
(* runReviewedOperation.  "look" and "watch" wait for a status, "submit"   *)
(* for the answer to the execute request, "pause" is the 450 ms.           *)

At(steps) == Shown /\ call.at \in steps
Goto(step) == call' = [call EXCEPT !.at = step, !.seen = None]

callFrame == <<pageFrame, crafting, previewing, review, executing, reloading, lost>>

(* An error leaves the dialog open for another try, the queue as it is.    *)
Throw ==
  /\ executing' = FALSE /\ crafting' = "" /\ call' = NoCall
  /\ lost' = lost \cup {call.op}
  /\ UNCHANGED <<pageFrame, watchFrame, review>>

(* RiftOps answers a status request; it may have forgotten the operation.  *)
StatusRead ==
  /\ At({"look", "watch"}) /\ call.seen = None /\ status[call.op] # "none"
  /\ call' = [call EXCEPT !.seen = status[call.op]]
  /\ UNCHANGED <<callFrame, opVars, wire>>

StatusFails == At({"look", "watch"}) /\ Throw /\ UNCHANGED opVars

(* Only an operation seen as a preview is submitted.                       *)
Looked ==
  /\ At({"look"}) /\ call.seen \in Going
  /\ IF call.seen = "preview" THEN Goto("submit") /\ wire' = wire \cup {call.op}
     ELSE Goto("pause") /\ UNCHANGED wire
  /\ UNCHANGED <<callFrame, opVars>>

(* The execute handler gets the request, perhaps long after the page gave  *)
(* it up: it starts a preview, and refuses anything else.                  *)
ExecuteArrives(o) ==
  /\ Shown /\ o \in wire
  /\ wire' = wire \ {o}
  /\ \/ /\ Server!Start(o)
        /\ call' = IF call.at = "submit" /\ call.op = o
                   THEN [call EXCEPT !.seen = "accepted"] ELSE call
     \/ Server!Expire(o) /\ UNCHANGED call
     \/ status[o] # "preview" /\ UNCHANGED <<opVars, call>>
  /\ UNCHANGED callFrame

(* A request RiftOps never gets.                                           *)
ExecuteLost(o) ==
  /\ Shown /\ o \in wire
  /\ wire' = wire \ {o}
  /\ UNCHANGED <<callFrame, opVars, call>>

Submitted ==
  /\ At({"submit"}) /\ call.seen = "accepted"
  /\ Goto("watch")
  /\ UNCHANGED <<callFrame, opVars, wire>>

(* RiftOps refused, or no answer came; the request may still arrive.       *)
SubmitFails == At({"submit"}) /\ Throw /\ UNCHANGED opVars

(* The loop goes on until the 30 s are over.                               *)
Watched ==
  /\ At({"watch"}) /\ call.seen \in Going
  /\ \/ Goto("pause") /\ UNCHANGED <<callFrame, wire>>
     \/ Throw
  /\ UNCHANGED opVars

PauseEnds ==
  /\ At({"pause"})
  /\ Goto("watch")
  /\ UNCHANGED <<callFrame, opVars, wire>>

Concluded == At({"look", "watch"}) /\ call.seen \notin Going \cup {None}

(* confirmBatch: only a complete operation is a success, and only one      *)
(* without failures empties the queue.  The dialog is gone while the       *)
(* inventory is read again.                                                *)
Concludes ==
  /\ Concluded
  /\ IF call.seen # "complete" THEN Throw
     ELSE /\ call' = NoCall /\ review' = None /\ reloading' = TRUE
          /\ batch' = IF succeeded[call.op] = plan[call.op] THEN {} ELSE batch
          /\ UNCHANGED <<page, recipeVars, wire, lost, executing, crafting, previewing>>
  /\ UNCHANGED opVars

(* The end of that wait enables the buttons and closes the dialog, be it   *)
(* another by now: after an error the buttons were enabled already.        *)
Reloaded ==
  /\ Shown /\ reloading
  /\ reloading' = FALSE /\ crafting' = "" /\ review' = None
  /\ lost' = IF review # None /\ executing THEN lost \cup {review} ELSE lost
  /\ UNCHANGED <<pageFrame, opVars, previewing, executing, call, wire>>

-----------------------------------------------------------------------------
OperationMoves ==
  /\ Shown
  /\ \/ \E o \in Operations :
          Server!Finish(o) \/ \E i \in Items : Server!Touch(o, {i}) \/ Server!Report(o, i)
     \/ Server!Forget
  /\ UNCHANGED <<pageFrame, crafting, reviewVars>>

CallStep ==
  \/ StatusRead \/ StatusFails \/ Looked \/ Submitted \/ SubmitFails
  \/ Watched \/ PauseEnds \/ Concludes \/ Reloaded

Next ==
  \/ \E i \in Items : SelectMaterial(i) \/ RemoveFromBatch(i)
  \/ \E r \in asked : RecipesAnswer(r)
  \/ RunCraft \/ CraftEnds \/ AddToBatch
  \/ \E o \in Operations : ExecuteBatch(o) \/ ExecuteArrives(o) \/ ExecuteLost(o)
  \/ PreviewAnswer \/ CloseReview \/ HandleExecute \/ CallStep
  \/ OperationMoves

(* Every request is answered or fails, timers fire, and the operation      *)
(* behind them ends (OperationLifecycle).                                  *)
Fairness ==
  /\ WF_vars(CallStep)
  /\ \A o \in Operations : WF_vars(OperationMoves /\ Server!Finish(o))

Spec == Init /\ page = "loot" /\ [][Next]_vars /\ Fairness

-----------------------------------------------------------------------------
(* Properties.                                                             *)

(* The page empties its queue only when League made every change of the    *)
(* operation the user confirmed, whatever became of the requests between   *)
(* the page and RiftOps (confirmBatch).                                    *)
EmptiedWhenCrafted ==
  [][\A o \in Operations :
       call.op = o /\ batch # {} /\ batch' = {} /\ call' = NoCall
         => plan[o] \subseteq applied[o]]_vars

(* Two of the page's operations craft at the same time only when the page  *)
(* told the user that it lost sight of one, or closed its dialog.          *)
OneInSight ==
  \A o, p \in Operations \ lost : Server!Live(o) /\ Server!Live(p) => o = p

(* The recipes on show are those of the selected material, although the    *)
(* answers come in any order and a finished craft reads them once more     *)
(* without asking whether they are still wanted (runCraft).                *)
Recipes == INSTANCE LatestRequest WITH
  Keys <- Items, NoKey <- None, wanted <- selected, shown <- recipes
RecipesOfSelection == Recipes!Spec

(* The dialog never watches for ever, whatever the network loses.          *)
WatchEnds == []<>(call = NoCall)

=============================================================================
