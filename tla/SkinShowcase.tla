----------------------------- MODULE SkinShowcase -----------------------------
(***************************************************************************)
(* frontend/src/components/SkinShowcase.tsx with collectionProgress.ts: the*)
(* skins of the account that is signed in, read from League and kept in the*)
(* browser for the account's next visit.  Accounts change, the page is left*)
(* and opened again, and reads fail or end after that.                     *)
(***************************************************************************)
EXTENDS Naturals, Sequences, FiniteSets

CONSTANTS
  SkinAccounts, Skins,  \* Skins is the public catalogue
  MaxChanges         \* bound: sign-ins, sign-outs and purchases

VARIABLES
  page,        \* the tab App.tsx renders
  account,     \* who is signed in, or NoOne
  owns,        \* what each account has of each skin
  changes,
  cache,       \* localStorage, for each account
  loads,       \* calls of loadData; `mine` are those of the page on show
  allSkins,    \* [of, skins]: the collection of which account
  error,
  warmed,      \* warmedFromCacheRef
  favs,        \* favourites: skins, and the old keys of skins
  switched     \* history: the account changed between the two reads of a load

vars == <<page, account, owns, changes, cache, loads, allSkins, error, warmed, favs, switched>>
league == <<account, owns, changes>>
store == <<cache, favs>>

NoOne == "none"
NoSkins == [of |-> NoOne, skins |-> {}, has |-> {}]
Shown == page = "skins"
loading == \E l \in loads : l.mine

(* skinOwnership of a record: a rental is not owned, whatever else it says.*)
Record(s, kind) == [id |-> s, owned |-> kind = "owned", rental |-> kind = "rental", shard |-> FALSE]

(* League lists a skin in one record or, nested and flat, in two; one that *)
(* is not owned it may leave out.                                          *)
Listed(s, kind) ==
  {<<Record(s, kind)>>, <<Record(s, "no"), Record(s, kind)>>, <<Record(s, kind), Record(s, "no")>>}
    \cup (IF kind = "no" THEN {<<>>} ELSE {})

(* What League lists: the records of each skin, in their order.            *)
Inventory(has) ==
  {rows \in [Skins -> UNION {Listed(s, has[s]) : s \in Skins}] :
     \A s \in Skins : rows[s] \in Listed(s, has[s])}
NoRows == [s \in Skins |-> <<>>]

completeSkinInventory(rows) ==
  [s \in Skins |-> IF rows[s] = <<>> THEN <<Record(s, "no")>> ELSE rows[s]]

WithShards(rows, shardIDs) ==
  [s \in Skins |-> [k \in DOMAIN rows[s] |->
     [rows[s][k] EXCEPT !.shard = ~rows[s][k].owned /\ s \in shardIDs]]]

Merged(prev, r) ==
  LET owned == r.owned \/ prev.owned
  IN [id |-> r.id, owned |-> owned, rental |-> ~owned /\ (r.rental \/ prev.rental),
      shard |-> ~owned /\ (r.shard \/ prev.shard)]

uniqueCollectionSkins(rows) ==
  {IF Len(rows[s]) = 1 THEN rows[s][1] ELSE Merged(rows[s][1], rows[s][2]) : s \in Skins}

(* The numbers of a champion, the skins a filter leaves, a card's label.   *)
buildChampionTotals(skins) ==
  [total  |-> Cardinality(skins),
   owned  |-> Cardinality({r \in skins : r.owned}),
   shards |-> Cardinality({r \in skins : ~r.owned /\ r.shard})]

visibleSkins(skins, statusFilter) ==
  {r \in skins :
     CASE statusFilter = "all"     -> TRUE
       [] statusFilter = "owned"   -> r.owned
       [] statusFilter = "rental"  -> r.rental
       [] statusFilter = "shard"   -> r.shard
       [] statusFilter = "missing" -> ~(r.owned \/ r.rental \/ r.shard)}

cardStatus(r) ==
  IF r.owned THEN "owned" ELSE IF r.rental THEN "rental" ELSE IF r.shard THEN "shard" ELSE "missing"

Init ==
  /\ account \in SkinAccounts /\ changes = 0
  /\ owns \in [SkinAccounts -> {[s \in Skins |-> "no"], [s \in Skins |-> "rental"]}]
  /\ cache = [a \in SkinAccounts |-> NoSkins]
  /\ loads = {[mine |-> TRUE, at |-> "profile"]}
  /\ allSkins = NoSkins /\ error = FALSE /\ warmed = FALSE
  /\ favs = {"old"} /\ switched = FALSE

(* Sign-ins, sign-outs and purchases in League.                            *)
LeagueChanges ==
  /\ Shown /\ changes < MaxChanges /\ changes' = changes + 1
  /\ \/ /\ account' \in (SkinAccounts \cup {NoOne}) \ {account}
        /\ switched' = (switched \/ \E l \in loads : l.at = "skins")
        /\ UNCHANGED owns
     \/ /\ account # NoOne
        /\ \E s \in Skins : owns' = [owns EXCEPT ![account][s] = "owned"]
        /\ UNCHANGED <<account, switched>>
  /\ UNCHANGED <<page, store, loads, allSkins, error, warmed>>

-----------------------------------------------------------------------------
(* loadData.                                                               *)

(* Refresh is disabled while the page loads.                               *)
LoadData ==
  /\ Shown /\ ~loading
  /\ loads' = loads \cup {[mine |-> TRUE, at |-> "profile"]}
  /\ error' = FALSE
  /\ UNCHANGED <<page, league, store, allSkins, warmed, switched>>

(* The profile names the account, or is not read.  The first time on a page*)
(* what was kept of the account is taken over.                             *)
ProfileRead(l) ==
  /\ Shown /\ l.at = "profile"
  /\ \E puuid \in {account, NoOne} :
       LET cached == IF puuid = NoOne THEN NoSkins ELSE cache[puuid]
           warm == l.mine /\ ~warmed /\ cached # NoSkins
       IN /\ loads' = (loads \ {l}) \cup {[mine |-> l.mine, at |-> "skins", puuid |-> puuid, cached |-> cached]}
          /\ allSkins' = IF warm THEN cached ELSE allSkins
          /\ warmed' = (warmed \/ warm)
  /\ UNCHANGED <<page, league, store, error, switched>>

Keep(puuid, parsed) == cache' = IF puuid = NoOne THEN cache ELSE [cache EXCEPT ![puuid] = parsed]

(* The inventory, and shards of every skin.  Nothing listed is taken       *)
(* for an empty collection only when the account is known.                 *)
SkinsRead(l) ==
  /\ Shown /\ l.at = "skins" /\ account # NoOne
  /\ \E rows \in Inventory(owns[account]) :
       LET parsed ==
             [of |-> account,
              skins |-> uniqueCollectionSkins(WithShards(completeSkinInventory(rows), Skins)),
              has |-> {s \in Skins : owns[account][s] = "owned"}]
       IN /\ rows = NoRows => l.puuid # NoOne
          /\ allSkins' = IF l.mine THEN parsed ELSE allSkins
          /\ Keep(l.puuid, parsed)
  /\ loads' = loads \ {l}
  /\ UNCHANGED <<page, league, favs, error, warmed, switched>>

(* League or the catalogue does not answer: the account's last collection, *)
(* or the error instead of any.                                            *)
LoadFails(l) ==
  /\ Shown /\ l.at = "skins" /\ loads' = loads \ {l}
  /\ IF ~l.mine THEN UNCHANGED <<allSkins, error>>
     ELSE IF l.cached # NoSkins THEN allSkins' = l.cached /\ error' = FALSE
     ELSE error' = TRUE /\ UNCHANGED allSkins
  /\ UNCHANGED <<page, league, store, warmed, switched>>

(* Another tab and back: the page begins anew, its loads go on.            *)
Reopen ==
  /\ Shown /\ Cardinality(loads) < 2   \* bound
  /\ loads' = {[l EXCEPT !.mine = FALSE] : l \in loads} \cup {[mine |-> TRUE, at |-> "profile"]}
  /\ allSkins' = NoSkins /\ error' = FALSE /\ warmed' = FALSE
  /\ UNCHANGED <<page, league, store, switched>>

-----------------------------------------------------------------------------
(* Favourites.  Earlier versions kept a skin under its champion and number,*)
(* which a skin and its classic twin share.                                *)

Aliases(s) == {s, "old"}
isSkinFavorite(s) == favs \cap Aliases(s) # {}

toggleFav(s) ==
  /\ Shown /\ ~loading /\ ~error
  /\ favs' = IF isSkinFavorite(s) THEN favs \ Aliases(s) ELSE favs \cup {s}
  /\ UNCHANGED <<page, league, cache, loads, allSkins, error, warmed, switched>>

Next ==
  \/ LeagueChanges \/ LoadData \/ Reopen
  \/ \E l \in loads : ProfileRead(l) \/ SkinsRead(l) \/ LoadFails(l)
  \/ \E s \in Skins : toggleFav(s)

Spec == Init /\ page = "skins" /\ [][Next]_vars

-----------------------------------------------------------------------------
(* Properties.                                                             *)

(* However the account changed before, while and after the page was open,  *)
(* an account's place in the browser holds its own collection, if the      *)
(* account was not changed between the profile and the skins of one load.  *)
CacheOfItsAccount ==
  switched \/ \A a \in SkinAccounts : cache[a] = NoSkins \/ cache[a].of = a

(* However League lists a skin, it is on show once, and as owned exactly   *)
(* when the account owned it as the collection was read.                   *)
OwnedAsRead ==
  /\ allSkins.has = {r.id : r \in {s \in allSkins.skins : s.owned}}
  /\ \A r, s \in allSkins.skins : r.id = s.id => r = s

(* A skin is found under the filter its card names; owned skins are found  *)
(* under no other, and with the shards and the missing ones they make up   *)
(* the champion's total.                                                   *)
FiltersAgree ==
  LET skins == allSkins.skins
      found(f) == visibleSkins(skins, f)
      totals == buildChampionTotals(skins)
  IN /\ \A r \in skins : r \in found(cardStatus(r))
     /\ found("owned") \cap (found("rental") \cup found("shard") \cup found("missing")) = {}
     /\ totals.owned + totals.shards + Cardinality(found("missing"))
          + Cardinality(found("rental") \ found("shard")) = totals.total

(* One use of the heart makes a favourite of a skin that was none, or none *)
(* of a favourite, however it was kept.                                    *)
HeartFlips ==
  [][favs' # favs => \E s \in Skins : (favs' \cap Aliases(s) # {}) = ~isSkinFavorite(s)]_vars
=============================================================================
