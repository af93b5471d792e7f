----------------------------- MODULE MetadataCache -----------------------------
(***************************************************************************)
(* fetchCachedJSON of frontend/src/api.ts, through which the pages read    *)
(* League's catalogues: an answer is kept in memory and in the browser's   *)
(* storage until it expires, and callers of one path share a request.      *)
(* Settings can clear the cache.  Sizes are counted in entries.            *)
(***************************************************************************)
EXTENDS Naturals, FiniteSets

CONSTANTS
  Paths, TTL,
  JSON_CACHE_MAX,   \* entries that the storage may hold
  MaxTime, MaxClears

VARIABLES
  page,        \* the tab App.tsx renders
  now, clears, \* how often the cache was cleared
  jsonCache, persisted,   \* sets of entries: [path, answered, expiresAt, after],
               \* after being the number of clears when RiftOps read the value
  jsonInflight,\* the requests: [path, at, after]
  returned,    \* the entry a caller got last, and when
  crossedClear \* history: the cache was cleared while a request was under way

kept == <<jsonCache, persisted>>
vars == <<page, now, clears, kept, jsonInflight, returned, crossedClear>>

No == [at |-> "no"]
Shown == page = "cache"
Of(entries, path) == {e \in entries : e.path = path}
Fresh(entries, path) == {e \in Of(entries, path) : e.expiresAt > now}

Init ==
  /\ now = 0 /\ clears = 0 /\ jsonCache = {} /\ persisted = {} /\ jsonInflight = {}
  /\ returned = No /\ crossedClear = FALSE

Returns(e) == returned' = [at |-> now, answered |-> e.answered, after |-> e.after]

(* From memory, or from the storage if its entry has not expired.          *)
FetchCached(path) ==
  /\ Shown
  /\ \/ \E e \in Fresh(jsonCache, path) : Returns(e) /\ UNCHANGED kept
     \/ /\ Fresh(jsonCache, path) = {}
        /\ \E e \in Fresh(persisted, path) :
             Returns(e) /\ jsonCache' = (jsonCache \ Of(jsonCache, path)) \cup {e} /\ UNCHANGED persisted
  /\ UNCHANGED <<page, now, clears, jsonInflight, crossedClear>>

(* Neither has it: a request, unless one is under way.                     *)
FetchAnew(path) ==
  /\ Shown /\ Fresh(jsonCache \cup persisted, path) = {} /\ \A r \in jsonInflight : r.path # path
  /\ jsonInflight' = jsonInflight \cup {[path |-> path, at |-> "sent", after |-> clears]}
  /\ persisted' = persisted \ Of(persisted, path)
  /\ UNCHANGED <<page, now, clears, jsonCache, returned, crossedClear>>

FetchRead(r) ==
  /\ Shown /\ r.at = "sent" /\ jsonInflight' = (jsonInflight \ {r}) \cup {[r EXCEPT !.at = "read", !.after = clears]}
  /\ UNCHANGED <<page, now, clears, kept, returned, crossedClear>>

(* persistJSONCache: over the limit the entries that expire first go.      *)
Bounded(entries) ==
  {some \in SUBSET entries :
     /\ Cardinality(some) = IF Cardinality(entries) < JSON_CACHE_MAX THEN Cardinality(entries) ELSE JSON_CACHE_MAX
     /\ \A e \in some, f \in entries \ some : f.expiresAt <= e.expiresAt}

FetchEnds(r) ==
  LET e == [path |-> r.path, answered |-> now, expiresAt |-> now + TTL, after |-> r.after] IN
  /\ Shown /\ r.at = "read" /\ jsonInflight' = jsonInflight \ {r} /\ Returns(e)
  /\ jsonCache' = (jsonCache \ Of(jsonCache, r.path)) \cup {e}
  /\ persisted' \in Bounded((persisted \ Of(persisted, r.path)) \cup {e})
  /\ UNCHANGED <<page, now, clears, crossedClear>>

FetchFails(r) ==
  /\ Shown /\ jsonInflight' = jsonInflight \ {r}
  /\ UNCHANGED <<page, now, clears, kept, returned, crossedClear>>

clearCachedJSON ==
  /\ Shown /\ clears < MaxClears /\ clears' = clears + 1   \* bound
  /\ jsonCache' = {} /\ persisted' = {} /\ crossedClear' = (crossedClear \/ jsonInflight # {})
  /\ returned' = No
  /\ UNCHANGED <<page, now, jsonInflight>>

(* The window is loaded again: only the storage stays.                     *)
WindowReloads ==
  /\ Shown /\ jsonCache' = {} /\ jsonInflight' = {} /\ returned' = No
  /\ UNCHANGED <<page, now, clears, persisted, crossedClear>>

Tick == Shown /\ now < MaxTime /\ now' = now + 1 /\ returned' = No
        /\ UNCHANGED <<page, clears, kept, jsonInflight, crossedClear>>

Next ==
  \/ \E path \in Paths : FetchCached(path) \/ FetchAnew(path)
  \/ \E r \in jsonInflight : FetchRead(r) \/ FetchEnds(r) \/ FetchFails(r)
  \/ clearCachedJSON \/ WindowReloads \/ Tick

Spec == Init /\ page = "cache" /\ [][Next]_vars

-----------------------------------------------------------------------------
(* Properties.                                                             *)

(* Whatever went through memory, storage and a reload, a caller never gets *)
(* what RiftOps answered a TTL ago or earlier, and with nothing under way  *)
(* when the cache was cleared, never what was read before that.            *)
ReturnsFresh ==
  returned # No => returned.at - returned.answered < TTL /\ (returned.after = clears \/ crossedClear)
=============================================================================
