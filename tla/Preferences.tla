------------------------------ MODULE Preferences ------------------------------
(***************************************************************************)
(* frontend/src/App.tsx, SettingsPage.tsx and FirstRunSetup.tsx: the       *)
(* preferences on show beside those that the backend stores.  A save sends *)
(* the whole record from what was on show when the control was used, and   *)
(* its answer puts the whole record on show again; the location of the Riot*)
(* Client is in the record on show but is stored by requests of its own.   *)
(***************************************************************************)
EXTENDS Naturals, FiniteSets

CONSTANTS Names,     \* the preferences: game, startupStatus, connectToMUC, checkUpdates
          Settings   \* their values

VARIABLES
  page,        \* the tab App.tsx renders
  setup,       \* showFirstRun
  stored, storedPath,   \* the backend's
  shown, riotClientPath,   \* the state of App.tsx
  prefsAt,     \* "asked", "read" (its answer on its way), "ready", "unavailable"
  readPrefs,   \* that answer
  saves,       \* requests: [at, of, whole, path, alone]
  choices,     \* FirstRunSetup's
  location,    \* updateRiotLocation: [at, path, alone]; riotLocationBusy unless at = "no"
  typed,       \* the path on show is being edited
  crossed,     \* history: a save was made beside another or before the first
               \* read, or one of the two failed, and none since was alone
  pathCrossed  \* history: so for the path, by a request for the location and a
               \* save beside each other

vars == <<page, setup, stored, storedPath, shown, riotClientPath, prefsAt, readPrefs, saves,
          choices, location, typed, crossed, pathCrossed>>
pathVars == <<storedPath, location, typed, pathCrossed>>

Shown == page = "settings"
Values == [Names -> Settings]
Defaults == [n \in Names |-> CHOOSE v \in Settings : TRUE]
NoLocation == [at |-> "no", path |-> "", alone |-> FALSE]

(* loadPreferences is over: what it read is on show, or nothing was.       *)
Settled == prefsAt \in {"ready", "unavailable"}

(* The location that the backend reports: the saved one or the detected.   *)
Located(path) == IF path = "" THEN "detected" ELSE path

Init ==
  /\ setup \in BOOLEAN /\ stored \in Values /\ storedPath \in {"", "own"}
  /\ shown = Defaults /\ riotClientPath = "" /\ prefsAt = "asked" /\ readPrefs = Defaults
  /\ saves = {} /\ choices = Defaults /\ location = NoLocation /\ typed = FALSE
  /\ crossed = FALSE /\ pathCrossed = FALSE

-----------------------------------------------------------------------------
(* loadPreferences: three reads together; any failing leaves the defaults. *)

PreferencesRead ==
  /\ Shown /\ prefsAt = "asked"
  /\ \/ prefsAt' = "read" /\ readPrefs' = stored /\ UNCHANGED <<crossed, pathCrossed>>
     \/ prefsAt' = "unavailable" /\ crossed' = TRUE /\ pathCrossed' = TRUE /\ UNCHANGED readPrefs
  /\ UNCHANGED <<page, setup, stored, storedPath, shown, riotClientPath, saves, choices, location,
                 typed>>

(* FirstRunSetup is remounted with the preferences that were read.         *)
PreferencesLoaded ==
  /\ Shown /\ prefsAt = "read" /\ prefsAt' = "ready"
  /\ shown' = readPrefs /\ choices' = (IF setup THEN readPrefs ELSE choices)
  /\ readPrefs' = Defaults /\ riotClientPath' = Located(storedPath)
  /\ UNCHANGED <<page, setup, stored, saves, pathVars, crossed>>

(* persistPreferences(next) while `visible` is on show.                    *)
Whole(next, visible) ==
  [n \in Names |-> IF n \in DOMAIN next THEN next[n] ELSE visible[n]]

Persist(next) ==
  LET alone == Settled /\ saves = {} IN
  /\ saves' = {[s EXCEPT !.alone = FALSE] : s \in saves} \cup
       {[at |-> "sent", of |-> DOMAIN next, whole |-> Whole(next, shown), path |-> riotClientPath,
         alone |-> alone]}
  /\ location' = [location EXCEPT !.alone = FALSE]
  /\ crossed' = (crossed \/ ~alone)
  /\ pathCrossed' = (pathCrossed \/ ~Settled \/ location # NoLocation)

(* A control of the settings shows its value at once.                      *)
Choose(n, v) ==
  /\ Shown /\ ~setup /\ Cardinality(saves) < 2   \* bound
  /\ Persist([m \in {n} |-> v]) /\ shown' = [shown EXCEPT ![n] = v]
  /\ UNCHANGED <<page, setup, stored, storedPath, riotClientPath, prefsAt, readPrefs, choices, typed>>

(* The game selector of Home shows selectedGame, not the preference.       *)
SetGame(v) ==
  /\ Shown /\ ~setup /\ Cardinality(saves) < 2 /\ "game" \in Names   \* bound
  /\ Persist([m \in {"game"} |-> v])
  /\ UNCHANGED <<page, setup, stored, storedPath, shown, riotClientPath, prefsAt, readPrefs, choices,
                 typed>>

Customize(n, v) ==
  /\ Shown /\ setup /\ prefsAt = "ready" /\ saves = {} /\ choices' = [choices EXCEPT ![n] = v]
  /\ UNCHANGED <<page, setup, stored, shown, riotClientPath, prefsAt, readPrefs, saves, pathVars,
                 crossed>>

Apply ==
  /\ Shown /\ setup /\ prefsAt = "ready" /\ saves = {}
  /\ Persist([n \in Names \cap {"game", "startupStatus"} |-> choices[n]])
  /\ UNCHANGED <<page, setup, stored, storedPath, shown, riotClientPath, prefsAt, readPrefs, choices,
                 typed>>

Skip ==
  /\ Shown /\ setup /\ saves = {} /\ setup' = FALSE /\ choices' = Defaults
  /\ UNCHANGED <<page, stored, shown, riotClientPath, prefsAt, readPrefs, saves, pathVars, crossed>>

(* The backend stores the four preferences and ignores the path.           *)
SaveArrives(s) ==
  /\ Shown /\ s.at = "sent" /\ stored' = s.whole
  /\ saves' = (saves \ {s}) \cup {[s EXCEPT !.at = "stored"]}
  /\ UNCHANGED <<page, setup, shown, riotClientPath, prefsAt, readPrefs, choices, pathVars, crossed>>

SaveAnswered(s) ==
  /\ Shown /\ s.at = "stored" /\ saves' = saves \ {s}
  /\ shown' = s.whole /\ riotClientPath' = s.path
  /\ setup' = FALSE /\ choices' = Defaults   \* finishSetup
  /\ crossed' = (crossed /\ ~s.alone)
  /\ UNCHANGED <<page, stored, prefsAt, readPrefs, pathVars>>

(* A failed save leaves what was chosen on show.                           *)
SaveFails(s) ==
  /\ Shown /\ saves' = saves \ {s} /\ crossed' = TRUE
  /\ UNCHANGED <<page, setup, stored, shown, riotClientPath, prefsAt, readPrefs, choices, pathVars>>

-----------------------------------------------------------------------------
(* The location of the Riot Client: typed, saved, detected, cleared.       *)

TypePath(p) ==
  /\ Shown /\ ~setup /\ location = NoLocation /\ p # riotClientPath
  /\ riotClientPath' = p /\ typed' = TRUE
  /\ UNCHANGED <<page, setup, stored, storedPath, shown, prefsAt, readPrefs, saves, choices,
                 location, crossed, pathCrossed>>

(* detect and browse store what they find; clear stores nothing.           *)
AskLocation(p) ==
  /\ Shown /\ ~setup /\ location = NoLocation
  /\ p = "" => riotClientPath # ""
  /\ p \in {riotClientPath, "found", ""}
  /\ LET alone == Settled /\ saves = {} IN
       /\ location' = [at |-> "sent", path |-> p, alone |-> alone]
       /\ pathCrossed' = (pathCrossed \/ ~alone)
  /\ UNCHANGED <<page, setup, stored, storedPath, shown, riotClientPath, prefsAt, readPrefs, saves,
                 choices, typed, crossed>>

LocationArrives ==
  /\ Shown /\ location.at = "sent"
  /\ storedPath' = location.path /\ location' = [location EXCEPT !.at = "stored"]
  /\ UNCHANGED <<page, setup, stored, shown, riotClientPath, prefsAt, readPrefs, saves, choices,
                 typed, crossed, pathCrossed>>

LocationAnswered ==
  /\ Shown /\ location.at = "stored" /\ location' = NoLocation
  /\ riotClientPath' = Located(location.path) /\ typed' = FALSE
  /\ pathCrossed' = (pathCrossed /\ ~location.alone)
  /\ UNCHANGED <<page, setup, stored, storedPath, shown, prefsAt, readPrefs, saves, choices,
                 crossed>>

(* Refused before anything is stored, or the answer is lost.               *)
LocationFails ==
  /\ Shown /\ location # NoLocation /\ location' = NoLocation
  /\ pathCrossed' = (pathCrossed \/ location.at = "stored")
  /\ UNCHANGED <<page, setup, stored, storedPath, shown, riotClientPath, prefsAt, readPrefs, saves,
                 choices, typed, crossed>>

Next ==
  \/ PreferencesRead \/ PreferencesLoaded
  \/ \E n \in Names, v \in Settings : Choose(n, v) \/ Customize(n, v)
  \/ \E v \in Settings : SetGame(v)
  \/ Apply \/ Skip
  \/ \E s \in saves : SaveArrives(s) \/ SaveAnswered(s) \/ SaveFails(s)
  \/ \E p \in {"own", "found", ""} : TypePath(p) \/ AskLocation(p)
  \/ LocationArrives \/ LocationAnswered \/ LocationFails

Spec == Init /\ page = "settings" /\ [][Next]_vars

-----------------------------------------------------------------------------
(* Properties.                                                             *)

(* With no save on the way every control shows what the backend has, also  *)
(* beside a request for the location; and the path on show is the stored   *)
(* one or the one detected, however many saves put theirs back.  What      *)
(* crossed or was lost is made good by the next request of its kind that   *)
(* is answered alone, also when nothing could be read.                     *)
ShownIsStored ==
  /\ Settled /\ saves = {} /\ ~crossed => shown = stored
  /\ Settled /\ location = NoLocation /\ ~pathCrossed =>
       typed \/ riotClientPath = Located(storedPath)

(* Although every save sends the whole record, one changes only the        *)
(* preferences that it is about: except where saves cross or have failed,  *)
(* or nothing was read, until one alone has been answered.                 *)
KeepsOthers ==
  [][\A s \in saves :
       ~crossed /\ SaveArrives(s) => \A n \in Names \ s.of : stored'[n] = stored[n]]_vars

=============================================================================
