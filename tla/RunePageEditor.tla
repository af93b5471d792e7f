---------------------------- MODULE RunePageEditor ----------------------------
(***************************************************************************)
(* frontend/src/components/RunePageEditor.tsx: the dialog in which a rune  *)
(* page is put together, on the pages of the draft and of Full Auto.  The  *)
(* editor works on a copy, which the page under it replaces whenever it    *)
(* reads the rune pages again.  A perk is <<style, row, number>>; row 0 is *)
(* the keystone, and the rows of the shards, which belong to the primary   *)
(* style, are like its other rows.                                         *)
(***************************************************************************)
EXTENDS Naturals, FiniteSets

CONSTANTS
  Styles, Allowed,   \* the styles, and those that each allows beside it
  Rows,              \* rows of a secondary style; a primary one has row 0, too
  PerksOf,           \* how many perks a row offers
  MaxReads

VARIABLES
  page,        \* the tab App.tsx renders
  runes,       \* League: the rune page, [primary, sub, perks]
  current,     \* currentRune of the page below
  open, catalogue,      \* the catalogue's request: No, or [at, of]
  editor,      \* [at, primary, sub, chosen, second], No before the catalogue is there
  saving,      \* the request: No or [at, of]
  reads,       \* how often the pages were read
  replaced     \* history: the copy was replaced while it was on show

vars == <<page, runes, current, open, catalogue, editor, saving, reads, replaced>>
below == <<runes, current, reads>>

No == [at |-> "no"]
Shown == page = "runes"
Primary == {0} \cup Rows
Perk(style, row, n) == <<style, row, n>>
None == <<>>
Perks(style, row) == {Perk(style, row, n) : n \in 1 .. PerksOf[row]}

(* choicesForSlots: what is selected in a row, or its first perk.          *)
choicesForSlots(style, selected) ==
  [row \in Primary |-> IF Perks(style, row) \cap selected # {}
                       THEN CHOOSE p \in Perks(style, row) : p \in selected
                       ELSE Perk(style, row, 1)]

(* initialSecondaryChoices: what is selected, made up to two from the top. *)
initialSecondaryChoices(style, selected) ==
  LET Chosen(row) == Perks(style, row) \cap selected # {}
      Missing(row) == Cardinality({r \in Rows : Chosen(r)}) + Cardinality({r \in Rows : r < row /\ ~Chosen(r)}) < 2
  IN  [row \in Rows |-> IF Chosen(row) THEN CHOOSE p \in Perks(style, row) : p \in selected
                        ELSE IF Missing(row) THEN Perk(style, row, 1) ELSE None]

(* The style itself, or the first that is allowed.                         *)
SecondaryFor(primary, sub) ==
  IF sub \in Allowed[primary] THEN sub
  ELSE CHOOSE s \in Allowed[primary] : \A t \in Allowed[primary] : s <= t

(* The copy of a page, as far as the catalogue allows it.                  *)
Copy(r) ==
  LET sub == SecondaryFor(r.primary, r.sub) IN
  [at |-> "editing", primary |-> r.primary, sub |-> sub,
   chosen |-> choicesForSlots(r.primary, r.perks), second |-> initialSecondaryChoices(sub, r.perks)]

(* A page that League may hold: one of its own, or an old one whose        *)
(* secondary style is no longer allowed.                                   *)
AnyPage ==
  {[primary |-> ps[1], sub |-> ps[2],
    perks |-> {Perk(ps[1], row, 1) : row \in Primary} \cup {Perk(ps[2], 1, 1), Perk(ps[2], 2, 1)}] :
     ps \in {qs \in Styles \X Styles : qs[1] # qs[2]}}

Init ==
  /\ runes \in AnyPage /\ current = runes
  /\ open = FALSE /\ catalogue = No /\ editor = No /\ saving = No /\ reads = 1 /\ replaced = FALSE

-----------------------------------------------------------------------------
(* The page below.                                                         *)

(* The effect of open and page: a request for the catalogue, in place of   *)
(* any other.                                                              *)
CatalogueEffect(isOpen, r) == catalogue' = IF isOpen THEN [at |-> "asked", of |-> r] ELSE No

(* The editor's last copy stays, hidden, until the catalogue is there.     *)
OpenEditor ==
  /\ Shown /\ ~open /\ open' = TRUE /\ CatalogueEffect(TRUE, current)
  /\ UNCHANGED <<page, below, editor, saving, replaced>>

Close ==
  /\ Shown /\ open /\ saving = No /\ open' = FALSE /\ CatalogueEffect(FALSE, current)
  /\ UNCHANGED <<page, below, editor, saving, replaced>>

(* The rune pages are read again: what comes is a new object, changed or   *)
(* not, and the effect takes it for another page.                          *)
PagesRead ==
  /\ Shown /\ reads < MaxReads /\ reads' = reads + 1   \* bound
  /\ current' = runes /\ CatalogueEffect(open, runes)
  /\ replaced' = (replaced \/ open)
  /\ UNCHANGED <<page, runes, open, editor, saving>>

(* The player edits the page in the client.                                *)
LeagueChanges(r) ==
  /\ Shown /\ r # runes /\ reads < MaxReads /\ runes' = r
  /\ UNCHANGED <<page, current, open, catalogue, editor, saving, reads, replaced>>

CatalogueRead ==
  /\ Shown /\ catalogue # No /\ editor' = Copy(catalogue.of) /\ catalogue' = No
  /\ UNCHANGED <<page, below, open, saving, replaced>>

(* The error is shown beside the last copy there was.                      *)
CatalogueFails ==
  /\ Shown /\ catalogue # No /\ catalogue' = No
  /\ UNCHANGED <<page, below, open, editor, saving, replaced>>

-----------------------------------------------------------------------------
(* The editor.  While the catalogue is loaded it shows nothing to choose.  *)

RuneChoice == Shown /\ open /\ catalogue = No /\ editor # No /\ saving = No
Becomes(copy) == editor' = copy /\ UNCHANGED <<page, below, open, catalogue, saving, replaced>>

choosePrimaryStyle(style) ==
  LET sub == SecondaryFor(style, editor.sub) IN
  /\ RuneChoice
  /\ Becomes([editor EXCEPT !.primary = style, !.chosen = choicesForSlots(style, {}), !.sub = sub,
                            !.second = IF sub = editor.sub THEN @ ELSE initialSecondaryChoices(sub, {})])

PrimaryRow(row, p) == RuneChoice /\ p \in Perks(editor.primary, row) /\ Becomes([editor EXCEPT !.chosen[row] = p])

chooseSecondaryStyle(style) ==
  /\ RuneChoice /\ style \in Allowed[editor.primary]
  /\ Becomes([editor EXCEPT !.sub = style, !.second = initialSecondaryChoices(style, {})])

Chosen(second) == {row \in Rows : second[row] # None}

(* A perk is let go of, or chosen; the third row takes the place of the    *)
(* first of the other two.                                                 *)
chooseSecondaryPerk(row, p) ==
  LET others == Chosen(editor.second)
      gone == IF row \notin others /\ Cardinality(others) >= 2
              THEN {CHOOSE r \in others : \A q \in others : r <= q} ELSE {}
  IN  /\ RuneChoice /\ p \in Perks(editor.sub, row)
      /\ Becomes([editor EXCEPT !.second =
           [r \in Rows |-> IF r = row THEN (IF @[r] = p THEN None ELSE p)
                           ELSE IF r \in gone THEN None ELSE @[r]]])

Page(copy) ==
  [primary |-> copy.primary, sub |-> copy.sub,
   perks |-> {copy.chosen[row] : row \in Primary} \cup {copy.second[row] : row \in Chosen(copy.second)}]

Complete(copy) == Cardinality(Chosen(copy.second)) = 2

save ==
  /\ RuneChoice /\ Complete(editor) /\ saving' = [at |-> "sent", of |-> Page(editor)]
  /\ UNCHANGED <<page, below, open, catalogue, editor, replaced>>

(* RiftOps' own check of a page, then League's.                            *)
validatedRunePagePayload(r) == r.primary # r.sub /\ Cardinality(r.perks) = Cardinality(Primary) + 2
SaveArrives ==
  /\ Shown /\ saving.at = "sent" /\ validatedRunePagePayload(saving.of)
  /\ runes' = saving.of /\ saving' = [saving EXCEPT !.at = "stored"]
  /\ UNCHANGED <<page, current, open, catalogue, editor, reads, replaced>>

(* The page below takes the saved page over, and the dialog closes.        *)
Saved ==
  /\ Shown /\ saving.at = "stored" /\ saving' = No /\ open' = FALSE /\ CatalogueEffect(FALSE, current)
  /\ current' = saving.of
  /\ UNCHANGED <<page, runes, editor, reads, replaced>>

SaveFails ==
  /\ Shown /\ saving # No /\ saving' = No
  /\ UNCHANGED <<page, below, open, catalogue, editor, replaced>>

Next ==
  \/ OpenEditor \/ Close \/ PagesRead \/ CatalogueRead \/ CatalogueFails
  \/ \E r \in AnyPage : LeagueChanges(r)
  \/ \E style \in Styles : choosePrimaryStyle(style) \/ chooseSecondaryStyle(style)
  \/ \E row \in Primary, n \in 1 .. 2 : PrimaryRow(row, Perk(editor.primary, row, n))
  \/ \E row \in Rows, n \in 1 .. 2 : chooseSecondaryPerk(row, Perk(editor.sub, row, n))
  \/ save \/ SaveArrives \/ Saved \/ SaveFails

Spec == Init /\ page = "runes" /\ [][Next]_vars

-----------------------------------------------------------------------------
(* Properties.                                                             *)

(* Whatever styles and perks were chosen one after another, what is sent   *)
(* is a page that League can hold: a secondary style that the primary one  *)
(* allows, one perk of every primary row and two of different rows of the  *)
(* secondary style.                                                        *)
PageIsLegal ==
  saving # No =>
    LET r == saving.of IN
    /\ r.sub \in Allowed[r.primary]
    /\ \A row \in Primary : Cardinality(r.perks \cap Perks(r.primary, row)) = 1
    /\ Cardinality({row \in Rows : r.perks \cap Perks(r.sub, row) # {}}) = 2
    /\ Cardinality(r.perks) = Cardinality(Primary) + 2

(* While a page is saved, the editor shows what is saved: nothing can be   *)
(* chosen, and the dialog not be left for another copy; unless the page    *)
(* below read its rune pages meanwhile.                                    *)
SavedAsShown == saving # No /\ ~replaced => saving.of = Page(editor)
=============================================================================
