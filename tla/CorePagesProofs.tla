--------------------------- MODULE CorePagesProofs ----------------------------
(***************************************************************************)
(* For each page of CorePages the state its requests leave it in, as an    *)
(* inductive invariant, and the properties WebApp states of the page that  *)
(* follow from it.  WebAppProofs puts the pages together.                  *)
(***************************************************************************)
EXTENDS CorePages, WellFoundedInduction, FiniteSetTheorems, TLAPS

(* A set of natural numbers has a least element.                           *)
LEMMA Least ==
  ASSUME NEW S, S \subseteq Nat, S # {}
  PROVE  \E x \in S : \A y \in S : x <= y
<1>1. PICK x \in S : \A y \in S : ~(<<y, x>> \in OpToRel(<, Nat))
  BY NatLessThanWellFounded, WFMin
<1>2. \A y \in S : ~(y < x)
  BY <1>1 DEF OpToRel
<1> QED BY <1>2

(* What differs for different elements gives a set of the same size.       *)
LEMMA SameSize ==
  ASSUME NEW S, IsFiniteSet(S), NEW f, DOMAIN f = S, f = [x \in S |-> f[x]],
         \A x, y \in S : f[x] = f[y] => x = y
  PROVE  LET T == {f[x] : x \in S} IN IsFiniteSet(T) /\ Cardinality(T) = Cardinality(S)
<1> DEFINE T == {f[x] : x \in S}
<1>1. f \in [S -> T]
  OBVIOUS
<1>2. \A t \in T : \E x \in S : f[x] = t
  OBVIOUS
<1> HIDE DEF T
<1>3. f \in Injection(S, T)
  BY <1>1 DEF Injection, IsInjective
<1>4. f \in Surjection(S, T)
  BY <1>1, <1>2 DEF Surjection
<1>5. ExistsBijection(S, T)
  BY <1>3, <1>4 DEF ExistsBijection, Bijection
<1>6. IsFiniteSet(T) /\ Cardinality(T) = Cardinality(S)
  BY <1>5, FS_Bijection
<1> QED BY <1>6 DEF T

-----------------------------------------------------------------------------
(* The page that plays: PlayFlowPage.                                      *)

(* While a start handler runs, and no handler that ignores acting has      *)
(* ended beside it, the button is disabled.                                *)
PlayStarts ==
  /\ starts \in [Handlers -> [at : {"idle", "flush", "lobby", "wait", "start"},
                              auto : BOOLEAN, clean : BOOLEAN]]
  /\ playActing \in {"", "primary-start", "runtime-stop", "stop", "accept", "lobby", "role-quest"}
  /\ ~playCrossed =>
       /\ Play!OneStart
       /\ \A i \in Handlers : Play!Busy(i) => playActing # ""

LEMMA PlayStartsInit == Play!Init => PlayStarts
<1> SUFFICES ASSUME Play!Init PROVE PlayStarts
  OBVIOUS
<1>1. starts = [i \in Handlers |-> Play!Idle] /\ playActing = "" /\ other = ""
  BY DEF Play!Init
<1> QED BY <1>1 DEF PlayStarts, Play!OneStart, Play!Busy, Play!Idle

LEMMA PlayStartsNext == PlayStarts /\ [Play!Next]_(Play!vars) => PlayStarts'
<1> SUFFICES ASSUME PlayStarts, [Play!Next]_(Play!vars) PROVE PlayStarts'
  OBVIOUS
<1> USE DEF PlayStarts, Play!OneStart, Play!Busy, Play!Idle, Play!startVars, Play!choiceFrame
<1>1. CASE UNCHANGED Play!startVars
  BY <1>1
<1>2. ASSUME NEW k \in Play!Keys, Play!update(k) PROVE PlayStarts'
  <2>1. starts' = [i \in Handlers |-> [starts[i] EXCEPT !.clean = FALSE]]
        /\ UNCHANGED <<playActing, playCrossed>>
    BY <1>2 DEF Play!update
  <2>2. \A i \in Handlers : starts'[i].at = starts[i].at
    BY <2>1
  <2>3. starts' \in [Handlers -> [at : {"idle", "flush", "lobby", "wait", "start"},
                                  auto : BOOLEAN, clean : BOOLEAN]]
    BY <2>1
  <2> QED BY <2>1, <2>2, <2>3
<1>3. ASSUME NEW m, Play!ChooseFlowMode(m) PROVE PlayStarts'
  BY <1>3 DEF Play!ChooseFlowMode
<1>4. CASE Play!PrimaryOther
  <2>1. playActing = "" /\ playActing' \in {"runtime-stop", "stop", "accept"} /\ other' = playActing'
    BY <1>4 DEF Play!PrimaryOther, Play!primaryActionDisabled
  <2> QED BY <1>4, <2>1 DEF Play!PrimaryOther
<1>5. CASE Play!BesideAStart
  BY <1>5 DEF Play!BesideAStart
<1>6. CASE Play!OtherOver
  BY <1>6 DEF Play!OtherOver
<1>7. ASSUME NEW i \in Handlers, Play!PrimaryStart(i) PROVE PlayStarts'
  <2>1. playActing = ""
    BY <1>7 DEF Play!PrimaryStart, Play!primaryActionDisabled
  <2>2. starts' = [starts EXCEPT ![i] = starts'[i]]
        /\ starts'[i] \in [at : {"flush"}, auto : BOOLEAN, clean : BOOLEAN]
    BY <1>7 DEF Play!PrimaryStart
  <2> QED BY <1>7, <2>1, <2>2 DEF Play!PrimaryStart
<1>8. ASSUME NEW i \in Handlers, Play!StartStep(i) PROVE PlayStarts'
  <2>1. /\ Play!Busy(i) /\ UNCHANGED other
        /\ \/ Play!StartOver(i)
           \/ /\ UNCHANGED <<playActing, playCrossed>>
              /\ \E at \in {"lobby", "wait", "start"} : starts' = [starts EXCEPT ![i].at = at]
    BY <1>8 DEF Play!StartStep, Play!Flushed, Play!ManualLobby, Play!waitForSelectedLobby,
                Play!StartSent, Play!StartAt
  <2>2. CASE Play!StartOver(i)
    BY <2>1, <2>2 DEF Play!StartOver
  <2>3. ASSUME NEW at \in {"lobby", "wait", "start"}, starts' = [starts EXCEPT ![i].at = at],
               UNCHANGED <<playActing, playCrossed>>
        PROVE  PlayStarts'
    <3>1. \A j \in Handlers : Play!Busy(j)' <=> Play!Busy(j)
      BY <2>1, <2>3
    <3> QED BY <2>1, <2>3, <3>1
  <2> QED BY <2>1, <2>2, <2>3
<1> QED
  BY <1>1, <1>2, <1>3, <1>4, <1>5, <1>6, <1>7, <1>8
     DEF Play!Next, Play!vars, Play!HydrateRead, Play!Hydrate, Play!SaveArrives, Play!SaveAnswered,
         Play!SaveFails

(* What the choices, the saves and the first read hold.                    *)
PlayChoices == [Play!Keys -> Nat]
PlayChanges == UNION {[D -> Nat] : D \in SUBSET Play!Keys}
PlaySave == [change : PlayChanges, by : Handlers \cup {"page"}, at : {"sent", "answered"},
             answer : PlayChoices, alone : BOOLEAN]

PlayTypes ==
  /\ prefs \in PlayChoices /\ playStored \in PlayChoices /\ edits \in Nat
  /\ hydrate \in [at : {"asked", "answered", "legacy", "failed", "done"}, answer : PlayChoices]
  /\ playSaves \subseteq PlaySave

(* A start that is still clean shows what its save says, and RiftOps has   *)
(* it once the save is answered.                                           *)
PlayStillClean(i) ==
  Play!Busy(i) /\ starts[i].clean =>
    /\ hydrate.at = "done"
    /\ \A s \in playSaves :
         s.change = prefs /\ (s.at = "answered" => s.answer = prefs /\ playStored = prefs)
    /\ starts[i].at # "flush" => playStored = prefs

PlayClean == \A i \in Handlers : PlayStillClean(i)

(* A save that is alone on the way: its answer is what RiftOps has.        *)
PlayLone ==
  \A s \in playSaves : s.alone =>
    /\ \A t \in playSaves : t = s
    /\ s.at = "answered" => s.answer = playStored
    /\ hydrate.at = "done" \/ (s.by = "page" /\ prefsTouched)

(* Unless two were on the way together and none alone was answered since:  *)
(* the one save that is, and what the page shows beside it.                *)
PlayInStep ==
  ~overlapped =>
    /\ \A s \in playSaves :
         /\ s.alone
         /\ s.by = "page" => saveState = "saving"
         /\ s.by # "page" => s.change = prefs
    /\ saveState = "saved" /\ merged => prefs = playStored
    /\ hydrate.at # "done" /\ ~prefsTouched =>
         playSaves = {} /\ ~merged /\ (hydrate.at = "answered" => hydrate.answer = playStored)

PlayInv == PlayStarts /\ PlayTypes /\ PlayClean /\ PlayLone /\ PlayInStep

LEMMA PlayOverride ==
  /\ \A c, d \in PlayChoices : Play!Override(c, d) = d
  /\ \A c \in PlayChoices, d \in PlayChanges : Play!Override(c, d) \in PlayChoices
  /\ PlayChoices \subseteq PlayChanges
  BY DEF PlayChoices, PlayChanges, Play!Override, Play!Keys

(* What is on the way after a save is sent.                                *)
PlaySent(change, by, alone) ==
  [change |-> change, by |-> by, at |-> "sent", answer |-> playStored, alone |-> alone]
PlayBeside == {[s EXCEPT !.alone = FALSE] : s \in playSaves}

LEMMA PlaySend ==
  ASSUME PlayTypes, NEW change \in PlayChanges, NEW by \in Handlers \cup {"page"}, Play!Send(change, by)
  PROVE  \E alone \in BOOLEAN :
           /\ alone <=> (playSaves = {} /\ (by \in Handlers => hydrate.at = "done"))
           /\ overlapped' = (overlapped \/ ~alone)
           /\ playSaves' = PlayBeside \cup {PlaySent(change, by, alone)}
           /\ playSaves' \subseteq PlaySave
           /\ \A r \in PlayBeside : ~r.alone
           /\ \A r \in PlayBeside : \E s \in playSaves :
                r.change = s.change /\ r.by = s.by /\ r.at = s.at /\ r.answer = s.answer
<1> DEFINE alone == playSaves = {} /\ (by \in Handlers => hydrate.at = "done")
<1>1. /\ overlapped' = (overlapped \/ ~alone)
      /\ playSaves' = PlayBeside \cup {PlaySent(change, by, alone)}
  BY DEF Play!Send, PlayBeside, PlaySent
<1>2. alone \in BOOLEAN
  OBVIOUS
<1>3. PlayBeside \subseteq PlaySave
  BY DEF PlayBeside, PlaySave, PlayTypes
<1>4. PlaySent(change, by, alone) \in PlaySave
  BY <1>2 DEF PlaySent, PlaySave, PlayTypes
<1>5. \A r \in PlayBeside : \E s \in playSaves :
        ~r.alone /\ r.change = s.change /\ r.by = s.by /\ r.at = s.at /\ r.answer = s.answer
  <2> SUFFICES ASSUME NEW r \in PlayBeside
               PROVE  \E s \in playSaves : ~r.alone /\ r.change = s.change /\ r.by = s.by
                                            /\ r.at = s.at /\ r.answer = s.answer
    OBVIOUS
  <2>1. PICK s \in playSaves : r = [s EXCEPT !.alone = FALSE]
    BY DEF PlayBeside
  <2>2. s \in PlaySave
    BY DEF PlayTypes
  <2> QED BY <2>1, <2>2 DEF PlaySave
<1>6. playSaves' \subseteq PlaySave
  BY <1>1, <1>3, <1>4
<1>7. alone <=> (playSaves = {} /\ (by \in Handlers => hydrate.at = "done"))
  OBVIOUS
<1> HIDE DEF alone
<1> QED BY <1>1, <1>2, <1>5, <1>6, <1>7

LEMMA PlayLoadPrefs == Play!loadPrefs \in PlayChoices
  BY DEF PlayChoices, Play!loadPrefs

LEMMA PlayInvInit == Play!Init => PlayInv
<1> SUFFICES ASSUME Play!Init PROVE PlayInv
  OBVIOUS
<1>1. PlayTypes
  <2>1. Play!loadPrefs \in PlayChoices /\ playStored \in PlayChoices
    <3>2. playStored \in {Play!loadPrefs, [k \in Play!Keys |-> IF k = "picks" THEN 1 ELSE 0]}
      BY DEF Play!Init, Play!loadPrefs
    <3>3. [k \in Play!Keys |-> IF k = "picks" THEN 1 ELSE 0] \in PlayChoices
      BY DEF PlayChoices
    <3> QED BY PlayLoadPrefs, <3>2, <3>3
  <2>2. prefs = Play!loadPrefs /\ hydrate = [at |-> "asked", answer |-> Play!loadPrefs]
        /\ playSaves = {} /\ edits = 0
    BY DEF Play!Init
  <2> QED BY <2>1, <2>2 DEF PlayTypes
<1>2. playSaves = {} /\ merged = FALSE /\ hydrate.at = "asked"
      /\ starts = [i \in Handlers |-> Play!Idle]
  BY DEF Play!Init
<1> QED BY <1>1, <1>2, PlayStartsInit DEF PlayInv, PlayClean, PlayStillClean, PlayLone, PlayInStep, Play!Busy, Play!Idle

LEMMA PlayTypesNext == PlayTypes /\ PlayStarts /\ Play!Next => PlayTypes'
<1> SUFFICES ASSUME PlayTypes, PlayStarts, Play!Next PROVE PlayTypes'
  OBVIOUS
<1> USE PlayOverride DEF PlayTypes
<1>1. CASE Play!HydrateRead
  BY <1>1 DEF Play!HydrateRead
<1>2. CASE Play!Hydrate
  <2>1. hydrate' \in [at : {"asked", "answered", "legacy", "failed", "done"}, answer : PlayChoices]
    BY <1>2, PlayLoadPrefs DEF Play!Hydrate
  <2>2. UNCHANGED <<playStored, edits>> /\ prefs' \in PlayChoices
    BY <1>2 DEF Play!Hydrate
  <2>3. UNCHANGED playSaves \/ Play!Send(prefs, "page")
    BY <1>2 DEF Play!Hydrate
  <2>4. playSaves' \subseteq PlaySave
    BY <2>3, PlaySend
  <2> QED BY <2>1, <2>2, <2>4
<1>3. ASSUME NEW k \in Play!Keys, Play!update(k) PROVE PlayTypes'
  <2>1. prefs' \in PlayChoices /\ edits' \in Nat
    BY <1>3 DEF Play!update, PlayChoices
  <2>2. [x \in {k} |-> edits'] \in PlayChanges
    <3>1. [x \in {k} |-> edits'] \in [{k} -> Nat] /\ {k} \in SUBSET Play!Keys
      BY <2>1
    <3> QED BY <3>1 DEF PlayChanges
  <2>3. playSaves' \subseteq PlaySave
    BY <1>3, <2>2, PlaySend DEF Play!update
  <2> QED BY <1>3, <2>1, <2>3 DEF Play!update
<1>4. ASSUME NEW s \in playSaves, Play!SaveArrives(s) PROVE PlayTypes'
  <2>1. playStored' \in PlayChoices
    BY <1>4 DEF Play!SaveArrives, PlaySave
  <2> QED BY <1>4, <2>1 DEF Play!SaveArrives, PlaySave
<1>5. ASSUME NEW s \in playSaves, Play!SaveAnswered(s) \/ Play!SaveFails(s) PROVE PlayTypes'
  BY <1>5 DEF Play!SaveAnswered, Play!SaveFails, Play!TakeOver, PlaySave
<1>6. ASSUME NEW i \in Handlers, Play!PrimaryStart(i) PROVE PlayTypes'
  <2>1. playSaves' \subseteq PlaySave
    BY <1>6, PlaySend DEF Play!PrimaryStart
  <2> QED BY <1>6, <2>1 DEF Play!PrimaryStart
<1>7. ASSUME NEW i \in Handlers, Play!Flushed(i) PROVE PlayTypes'
  BY <1>7 DEF Play!Flushed, Play!TakeOver, PlaySave
<1> QED
  BY <1>1, <1>2, <1>3, <1>4, <1>5, <1>6, <1>7
     DEF Play!Next, Play!StartStep, Play!ManualLobby, Play!waitForSelectedLobby, Play!StartSent,
         Play!ChooseFlowMode, Play!PrimaryOther, Play!BesideAStart, Play!OtherOver,
         Play!choiceFrame, Play!choiceVars

LEMMA PlayCleanNext == PlayInv /\ Play!Next => PlayClean'
<1> SUFFICES ASSUME PlayInv, Play!Next, NEW j \in Handlers PROVE PlayStillClean(j)'
  BY DEF PlayClean
<1> USE DEF PlayInv, PlayStillClean, Play!Busy, Play!choiceFrame, Play!choiceVars,
                         Play!startVars
<1>0. PlayStillClean(j)
  BY DEF PlayClean
<1>1. CASE Play!HydrateRead
  BY <1>0, <1>1 DEF Play!HydrateRead
<1>2. CASE Play!Hydrate
  BY <1>0, <1>2 DEF Play!Hydrate
<1>3. ASSUME NEW k \in Play!Keys, Play!update(k) PROVE PlayStillClean(j)'
  <2>1. ~starts'[j].clean
    BY <1>3 DEF Play!update, PlayStarts
  <2> QED BY <2>1
<1>4. ASSUME NEW s \in playSaves, Play!SaveArrives(s) PROVE PlayStillClean(j)'
  <2> SUFFICES ASSUME Play!Busy(j), starts[j].clean PROVE PlayStillClean(j)'
    BY <1>4 DEF Play!SaveArrives
  <2>1. s.change = prefs /\ s \in PlaySave /\ prefs \in PlayChoices /\ playStored \in PlayChoices
    BY <1>0 DEF PlayTypes
  <2>2. playStored' = prefs
    BY <1>4, <2>1, PlayOverride DEF Play!SaveArrives
  <2>3. \A r \in playSaves' : r.change = prefs /\ (r.at = "answered" => r.answer = prefs)
    BY <1>0, <1>4, <2>1, <2>2 DEF Play!SaveArrives, PlaySave
  <2> QED BY <1>0, <1>4, <2>2, <2>3 DEF Play!SaveArrives
<1>5. ASSUME NEW s \in playSaves, Play!SaveAnswered(s) \/ Play!SaveFails(s) PROVE PlayStillClean(j)'
  BY <1>0, <1>5 DEF Play!SaveAnswered, Play!SaveFails, Play!TakeOver
<1>6. ASSUME NEW i \in Handlers, Play!PrimaryStart(i) PROVE PlayStillClean(j)'
  <2>0. PICK alone \in BOOLEAN :
          /\ playSaves' = PlayBeside \cup {PlaySent(prefs, i, alone)}
          /\ \A r \in PlayBeside : \E s \in playSaves :
               r.change = s.change /\ r.by = s.by /\ r.at = s.at /\ r.answer = s.answer
    <3>1. Play!Send(prefs, i) /\ prefs \in PlayChanges
      BY <1>6, PlayOverride DEF Play!PrimaryStart, PlayTypes
    <3> QED BY <3>1, PlaySend
  <2>1. UNCHANGED <<prefs, hydrate, playStored>>
        /\ \A r \in playSaves' :
             \/ \E s \in playSaves : r.change = s.change /\ r.at = s.at /\ r.answer = s.answer
             \/ r.change = prefs /\ r.at = "sent"
    <3>1. PlaySent(prefs, i, alone).change = prefs /\ PlaySent(prefs, i, alone).at = "sent"
      BY DEF PlaySent
    <3>2. UNCHANGED <<prefs, hydrate, playStored>>
      BY <1>6 DEF Play!PrimaryStart
    <3> QED BY <2>0, <3>1, <3>2
  <2>2. CASE i = j
    <3>1. starts'[j].at = "flush" /\ (starts'[j].clean => playSaves = {} /\ hydrate.at = "done")
      BY <1>6, <2>2 DEF Play!PrimaryStart, PlayStarts
    <3> QED BY <2>1, <3>1
  <2>3. CASE i # j
    <3>1. starts'[j] = starts[j]
      BY <1>6, <2>3 DEF Play!PrimaryStart, PlayStarts
    <3> QED BY <1>0, <2>1, <3>1
  <2> QED BY <2>2, <2>3
<1>7. ASSUME NEW i \in Handlers, Play!StartStep(i) PROVE PlayStillClean(j)'
  <2>1. \/ starts' = [starts EXCEPT ![i] = Play!Idle]
        \/ \E at \in {"lobby", "wait", "start"} : starts' = [starts EXCEPT ![i].at = at]
    BY <1>7 DEF Play!StartStep, Play!Flushed, Play!ManualLobby, Play!waitForSelectedLobby,
                Play!StartSent, Play!StartOver, Play!StartAt
  <2>2. CASE ~(Play!Busy(j)' /\ starts'[j].clean)
    BY <2>2
  <2>3. CASE Play!Busy(j)' /\ starts'[j].clean
    <3>1. /\ starts[j].at # "idle" /\ starts[j].clean
          /\ starts'[j].at = starts[j].at \/ (i = j /\ starts'[j].at # "flush")
      <4>1. CASE starts' = [starts EXCEPT ![i] = Play!Idle]
        BY <2>3, <4>1 DEF PlayStarts, Play!Idle
      <4>2. ASSUME NEW at \in {"lobby", "wait", "start"}, starts' = [starts EXCEPT ![i].at = at]
            PROVE  <3>1!:
        BY <1>7, <2>3, <4>2 DEF PlayStarts, Play!StartStep, Play!Flushed, Play!ManualLobby,
                                Play!waitForSelectedLobby, Play!StartSent
      <4> QED BY <2>1, <4>1, <4>2
    <3>2. CASE Play!Flushed(i)
      <4>1. PICK s \in playSaves :
              /\ s.by = i /\ playSaves' = playSaves \ {s} /\ UNCHANGED <<playStored, hydrate>>
              /\ \/ s.at = "answered" /\ prefs' = s.answer
                 \/ Play!StartOver(i) /\ UNCHANGED prefs
        BY <3>2 DEF Play!Flushed, Play!TakeOver
      <4>2. CASE s.at = "answered" /\ prefs' = s.answer
        BY <1>0, <3>1, <4>1, <4>2
      <4>3. CASE Play!StartOver(i) /\ UNCHANGED prefs
        <5>1. i # j
          BY <2>3, <4>3 DEF Play!StartOver, Play!Idle, PlayStarts
        <5> QED BY <1>0, <3>1, <4>1, <4>3, <5>1
      <4> QED BY <4>1, <4>2, <4>3
    <3>3. CASE ~Play!Flushed(i)
      <4>1. starts[i].at # "flush" /\ UNCHANGED <<prefs, playStored, playSaves, hydrate>>
        BY <1>7, <3>3 DEF Play!StartStep, Play!ManualLobby, Play!waitForSelectedLobby, Play!StartSent
      <4> QED BY <1>0, <3>1, <4>1
    <3> QED BY <3>2, <3>3
  <2> QED BY <2>2, <2>3
<1>8. CASE Play!PrimaryOther \/ Play!BesideAStart \/ Play!OtherOver
           \/ \E m \in {"manual", "full-auto"} : Play!ChooseFlowMode(m)
  BY <1>0, <1>8 DEF Play!ChooseFlowMode, Play!PrimaryOther, Play!BesideAStart, Play!OtherOver
<1> QED
  BY <1>1, <1>2, <1>3, <1>4, <1>5, <1>6, <1>7, <1>8 DEF Play!Next

LEMMA PlayLoneNext ==
  PlayInv /\ Play!Next => PlayLone'
<1> SUFFICES ASSUME PlayInv, Play!Next PROVE PlayLone'
  OBVIOUS
<1> USE DEF PlayInv, PlayLone, Play!choiceFrame, Play!choiceVars
<1>1. CASE Play!HydrateRead
  BY <1>1 DEF Play!HydrateRead, PlayTypes
<1>2. ASSUME NEW change \in PlayChanges, NEW by \in Handlers \cup {"page"}, Play!Send(change, by),
             by = "page" => hydrate'.at = "done" \/ prefsTouched', by # "page" => UNCHANGED hydrate,
             by # "page" => by \in Handlers
      PROVE  PlayLone'
  <2>1. PICK alone \in BOOLEAN :
          /\ alone <=> (playSaves = {} /\ (by \in Handlers => hydrate.at = "done"))
          /\ playSaves' = PlayBeside \cup {PlaySent(change, by, alone)}
          /\ \A r \in PlayBeside : ~r.alone
    BY <1>2, PlaySend
  <2>2. /\ PlaySent(change, by, alone).alone = alone /\ PlaySent(change, by, alone).at = "sent"
        /\ PlaySent(change, by, alone).by = by
    BY DEF PlaySent
  <2>3. playSaves = {} => PlayBeside = {}
    BY DEF PlayBeside
  <2> QED BY <1>2, <2>1, <2>2, <2>3
<1>3. CASE Play!Hydrate
  <2>1. hydrate'.at = "done" /\ UNCHANGED playStored /\ (UNCHANGED playSaves \/ Play!Send(prefs, "page"))
    BY <1>3 DEF Play!Hydrate, PlayTypes
  <2>2. prefs \in PlayChanges
    BY PlayOverride DEF PlayTypes
  <2> QED BY <1>2, <2>1, <2>2, HandlersAssumption DEF HandlersAssumption
<1>4. ASSUME NEW k \in Play!Keys, Play!update(k) PROVE PlayLone'
  <2>1. prefsTouched' = TRUE /\ Play!Send([x \in {k} |-> edits'], "page") /\ edits' \in Nat
    BY <1>4 DEF Play!update, PlayTypes
  <2>2. [x \in {k} |-> edits'] \in PlayChanges
    <3>1. [x \in {k} |-> edits'] \in [{k} -> Nat] /\ {k} \in SUBSET Play!Keys
      BY <2>1
    <3> QED BY <3>1 DEF PlayChanges
  <2> QED BY <1>2, <2>1, <2>2
<1>5. ASSUME NEW s \in playSaves, Play!SaveArrives(s) PROVE PlayLone'
  <2>1. UNCHANGED <<hydrate, prefsTouched>>
        /\ playSaves' = (playSaves \ {s}) \cup {[s EXCEPT !.at = "answered", !.answer = playStored']}
    BY <1>5 DEF Play!SaveArrives
  <2>2. s \in PlaySave
    BY DEF PlayTypes
  <2>3. LET r == [s EXCEPT !.at = "answered", !.answer = playStored']
        IN  r.alone = s.alone /\ r.by = s.by /\ r.answer = playStored'
    BY <2>2 DEF PlaySave
  <2> QED BY <2>1, <2>3
<1>6. ASSUME NEW s \in playSaves, Play!SaveAnswered(s) \/ Play!SaveFails(s) PROVE PlayLone'
  BY <1>6 DEF Play!SaveAnswered, Play!SaveFails
<1>7. ASSUME NEW i \in Handlers, Play!PrimaryStart(i) PROVE PlayLone'
  <2>1. Play!Send(prefs, i) /\ UNCHANGED hydrate /\ prefs \in PlayChanges
    BY <1>7, PlayOverride DEF Play!PrimaryStart, PlayTypes
  <2>2. i # "page"
    BY HandlersAssumption DEF HandlersAssumption
  <2> QED BY <1>2, <2>1, <2>2
<1>8. ASSUME NEW i \in Handlers, Play!Flushed(i) PROVE PlayLone'
  BY <1>8 DEF Play!Flushed
<1>9. CASE UNCHANGED Play!choiceVars
  BY <1>9
<1> QED
  BY <1>1, <1>3, <1>4, <1>5, <1>6, <1>7, <1>8, <1>9
     DEF Play!Next, Play!StartStep, Play!ManualLobby, Play!waitForSelectedLobby, Play!StartSent,
         Play!ChooseFlowMode, Play!PrimaryOther, Play!BesideAStart, Play!OtherOver

LEMMA PlayInStepNext ==
  PlayInv /\ Play!Next => PlayInStep'
<1> SUFFICES ASSUME PlayInv, Play!Next PROVE PlayInStep'
  OBVIOUS
<1> USE DEF PlayInv, PlayInStep, Play!choiceFrame, Play!choiceVars
<1>0. ASSUME NEW change \in PlayChanges, NEW by \in Handlers \cup {"page"}, Play!Send(change, by), ~overlapped'
      PROVE  /\ ~overlapped /\ playSaves = {} /\ (by \in Handlers => hydrate.at = "done")
             /\ \A s \in playSaves' : s.alone /\ s.by = by /\ s.change = change
  <2>1. PICK alone \in BOOLEAN :
          /\ alone <=> (playSaves = {} /\ (by \in Handlers => hydrate.at = "done"))
          /\ overlapped' = (overlapped \/ ~alone)
          /\ playSaves' = PlayBeside \cup {PlaySent(change, by, alone)}
    BY <1>0, PlaySend
  <2>2. /\ PlaySent(change, by, alone).alone = alone /\ PlaySent(change, by, alone).by = by
        /\ PlaySent(change, by, alone).change = change
    BY DEF PlaySent
  <2>3. alone /\ ~overlapped
    BY <1>0, <2>1
  <2>4. playSaves = {} => PlayBeside = {}
    BY DEF PlayBeside
  <2> QED BY <2>1, <2>2, <2>3, <2>4
<1>1. CASE Play!HydrateRead
  BY <1>1 DEF Play!HydrateRead, PlayTypes
<1>2. CASE Play!Hydrate
  <2>1. hydrate'.at = "done" /\ UNCHANGED <<playStored, prefsTouched>>
    BY <1>2 DEF Play!Hydrate, PlayTypes
  <2>2. CASE UNCHANGED <<prefs, playSaves, saveState, merged, overlapped>>
    BY <1>2, <2>1, <2>2 DEF Play!Hydrate
  <2>3. CASE ~prefsTouched /\ hydrate.at = "answered" /\ prefs' = hydrate.answer
             /\ UNCHANGED <<playSaves, overlapped>>
    BY <1>2, <2>1, <2>3 DEF Play!Hydrate
  <2>4. CASE ~prefsTouched /\ saveState' = "saving" /\ UNCHANGED prefs /\ Play!Send(prefs, "page")
    <3>1. prefs \in PlayChanges
      BY PlayOverride DEF PlayTypes
    <3> QED BY <1>0, <2>1, <2>4, <3>1
  <2> QED BY <1>2, <2>2, <2>3, <2>4 DEF Play!Hydrate
<1>3. ASSUME NEW k \in Play!Keys, Play!update(k) PROVE PlayInStep'
  <2>1. Play!Send([x \in {k} |-> edits'], "page") /\ edits' \in Nat
    BY <1>3 DEF Play!update, PlayTypes
  <2>2. [x \in {k} |-> edits'] \in PlayChanges
    <3>1. [x \in {k} |-> edits'] \in [{k} -> Nat] /\ {k} \in SUBSET Play!Keys
      BY <2>1
    <3> QED BY <3>1 DEF PlayChanges
  <2>3. saveState' = "saving" /\ prefsTouched'
    BY <1>3 DEF Play!update
  <2> QED BY <1>0, <2>1, <2>2, <2>3
<1>4. ASSUME NEW s \in playSaves, Play!SaveArrives(s) PROVE PlayInStep'
  <2> SUFFICES ASSUME ~overlapped PROVE PlayInStep'
    BY <1>4 DEF Play!SaveArrives
  <2>1. playSaves = {s} /\ s \in PlaySave /\ s.alone /\ prefs \in PlayChoices /\ playStored \in PlayChoices
    BY DEF PlayTypes, PlayLone
  <2>2. playSaves' = {[s EXCEPT !.at = "answered", !.answer = playStored']}
    BY <1>4, <2>1 DEF Play!SaveArrives
  <2>3. \A r \in playSaves' : r.alone = s.alone /\ r.by = s.by /\ r.change = s.change
    BY <2>1, <2>2 DEF PlaySave
  <2>4. UNCHANGED <<prefs, hydrate, saveState, prefsTouched, merged, overlapped>>
    BY <1>4 DEF Play!SaveArrives
  <2>5. CASE s.by = "page"
    BY <2>1, <2>2, <2>3, <2>4, <2>5
  <2>6. CASE s.by # "page"
    <3>1. playStored' = prefs
      BY <1>4, <2>1, <2>6, PlayOverride DEF Play!SaveArrives
    <3> QED BY <2>1, <2>2, <2>3, <2>4, <2>6, <3>1
  <2> QED BY <2>5, <2>6
<1>5. ASSUME NEW s \in playSaves, s.at = "answered", Play!TakeOver(s), playSaves' = playSaves \ {s},
             UNCHANGED <<playStored, hydrate, prefsTouched>>
      PROVE  PlayInStep'
  <2> SUFFICES ASSUME ~overlapped' PROVE PlayInStep'
    OBVIOUS
  <2>1. s.alone
    BY <1>5 DEF Play!TakeOver
  <2>2. playSaves' = {} /\ prefs' = playStored'
    BY <1>5, <2>1 DEF Play!TakeOver, PlayLone
  <2>3. hydrate'.at = "done" \/ prefsTouched'
    BY <1>5, <2>1 DEF PlayLone
  <2> QED BY <2>2, <2>3
<1>6. ASSUME NEW s \in playSaves, Play!SaveFails(s) PROVE PlayInStep'
  BY <1>6 DEF Play!SaveFails, PlayLone
<1>7. ASSUME NEW i \in Handlers, Play!PrimaryStart(i) PROVE PlayInStep'
  <2>1. Play!Send(prefs, i) /\ prefs \in PlayChanges
        /\ UNCHANGED <<prefs, playStored, hydrate, saveState, prefsTouched, merged>>
    BY <1>7, PlayOverride DEF Play!PrimaryStart, PlayTypes
  <2>2. i # "page"
    BY HandlersAssumption DEF HandlersAssumption
  <2> QED BY <1>0, <2>1, <2>2
<1>8. ASSUME NEW i \in Handlers, Play!Flushed(i) PROVE PlayInStep'
  <2>1. PICK s \in playSaves :
          /\ playSaves' = playSaves \ {s} /\ UNCHANGED <<playStored, hydrate, prefsTouched>>
          /\ \/ s.at = "answered" /\ Play!TakeOver(s)
             \/ UNCHANGED <<prefs, saveState, merged, overlapped>>
    BY <1>8 DEF Play!Flushed
  <2>2. CASE s.at = "answered" /\ Play!TakeOver(s)
    BY <1>5, <2>1, <2>2
  <2>3. CASE UNCHANGED <<prefs, saveState, merged, overlapped>>
    BY <2>1, <2>3
  <2> QED BY <2>1, <2>2, <2>3
<1>9. ASSUME NEW s \in playSaves, Play!SaveAnswered(s) PROVE PlayInStep'
  BY <1>5, <1>9 DEF Play!SaveAnswered
<1> QED
  BY <1>1, <1>2, <1>3, <1>4, <1>6, <1>7, <1>8, <1>9
     DEF Play!Next, Play!StartStep, Play!ManualLobby, Play!waitForSelectedLobby, Play!StartSent,
         Play!ChooseFlowMode, Play!PrimaryOther, Play!BesideAStart, Play!OtherOver


LEMMA PlayInvNext ==
  PlayInv /\ [Play!Next]_(Play!vars) => PlayInv'
<1>1. PlayInv /\ Play!Next => PlayInv'
  BY PlayStartsNext, PlayTypesNext, PlayCleanNext, PlayLoneNext, PlayInStepNext DEF PlayInv
<1>2. PlayInv /\ UNCHANGED Play!vars => PlayInv'
  <2> SUFFICES ASSUME PlayInv, UNCHANGED Play!choiceVars, UNCHANGED Play!startVars PROVE PlayInv'
    BY DEF Play!vars
  <2>1. PlayStarts' /\ PlayTypes'
    BY DEF PlayInv, PlayStarts, PlayTypes, Play!OneStart, Play!Busy, Play!choiceVars, Play!startVars
  <2>2. PlayClean' /\ PlayLone' /\ PlayInStep'
    BY DEF PlayInv, PlayClean, PlayStillClean, PlayLone, PlayInStep, Play!Busy, Play!choiceVars, Play!startVars
  <2> QED BY <2>1, <2>2 DEF PlayInv
<1> QED BY <1>1, <1>2

LEMMA PlayShows == PlayInv => Play!SavedIsStored /\ Play!OneStart
  BY DEF PlayInv, PlayInStep, PlayStarts, Play!SavedIsStored, Play!OneStart

LEMMA PlayStartsShown ==
  PlayInv =>
    \A i \in Handlers :
      starts[i].at = "start" /\ starts[i].auto /\ starts[i].clean => playStored = prefs
  BY DEF PlayInv, PlayClean, PlayStillClean, Play!Busy

-----------------------------------------------------------------------------
(* The list of queues: QueuePicker.                                        *)

(* While the list is open, the active option is one of those there were.   *)
PickerInv == queues \in QueueLists /\ (pickerOpen => activeId \in offered)

(* The options are the current lobby and the queues on show.               *)
LEMMA PickerOptions ==
  ASSUME queues \in QueueLists
  PROVE  /\ Picker!optionIds \in Seq({0} \cup Picker!Ids(queues))
         /\ Len(Picker!optionIds) >= 1
<1> DEFINE s == Picker!sortQueues(queues)
           ids == [i \in DOMAIN s |-> s[i].id]
<1>1. \E m \in Nat : DOMAIN s = 1 .. m
  <2> DEFINE wanted == {i \in DOMAIN queues :
               /\ Picker!isSelectableQueue(queues[i])
               /\ \A j \in 1 .. i - 1 :
                    Picker!isSelectableQueue(queues[j]) => queues[j].id # queues[i].id}
  <2>1. IsFiniteSet(wanted)
    <3>1. wanted \subseteq 1 .. Len(queues) /\ Len(queues) \in Nat
      BY PickerAssumption
    <3> HIDE DEF wanted
    <3>2. IsFiniteSet(1 .. Len(queues)) /\ wanted \in SUBSET (1 .. Len(queues))
      BY <3>1, FS_Interval
    <3> QED BY <3>2, FS_Subset
  <2>2. Picker!Cardinality(wanted) \in Nat
    <3> HIDE DEF wanted
    <3>1. Cardinality(wanted) \in Nat
      BY <2>1, FS_CardinalityType
    <3>2. Picker!Cardinality(wanted) = Cardinality(wanted)
      BY DEF Picker!Cardinality, Cardinality
    <3> QED BY <3>1, <3>2
  <2>3. DOMAIN s = 1 .. Picker!Cardinality(wanted)
    BY DEF Picker!sortQueues
  <2> HIDE DEF wanted, s
  <2> QED BY <2>2, <2>3
<1>2. \A i \in DOMAIN s : s[i].id \in Picker!Ids(queues)
  BY DEF Picker!Ids, Picker!Range
<1> HIDE DEF s
<1>3. PICK m \in Nat : DOMAIN s = 1 .. m
  BY <1>1
<1>4. ids \in Seq(Picker!Ids(queues))
  BY <1>2, <1>3
<1>5. Picker!optionIds = <<0>> \o ids
  BY DEF Picker!optionIds, s
<1> HIDE DEF ids
<1>6. ids \in Seq({0} \cup Picker!Ids(queues)) /\ <<0>> \in Seq({0} \cup Picker!Ids(queues))
  BY <1>4
<1> QED BY <1>5, <1>6

(* A render leaves an option active.                                       *)
LEMMA PickerRender ==
  ASSUME PickerInv, NEW list \in QueueLists, NEW v, NEW isOpen \in BOOLEAN, NEW id,
         Picker!Render(list, v, isOpen, id),
         isOpen /\ pickerOpen => id \in offered \cup {0} \cup Picker!Ids(list)
  PROVE  PickerInv'
<1>1. queues' = list /\ pickerOpen' = isOpen
  BY DEF Picker!Render
<1>2. ASSUME isOpen PROVE activeId' \in offered'
  <2>1. offered' = (IF pickerOpen THEN offered ELSE {}) \cup {0} \cup Picker!Ids(list)
    BY <1>2 DEF Picker!Render
  <2>2. \/ Picker!Selected(list, v) /\ activeId' = v
        \/ activeId' = 0
        \/ pickerOpen /\ activeId' = id
    BY <1>2 DEF Picker!Render
  <2> QED BY <1>2, <2>1, <2>2 DEF Picker!Selected
<1> QED BY <1>1, <1>2 DEF PickerInv

LEMMA PickerInvInit == Picker!Init => PickerInv
  BY DEF Picker!Init, PickerInv

LEMMA PickerInvNext == PickerInv /\ [Picker!Next]_(Picker!vars) => PickerInv'
<1> SUFFICES ASSUME PickerInv, [Picker!Next]_(Picker!vars) PROVE PickerInv'
  OBVIOUS
<1>0. queues \in QueueLists
  BY DEF PickerInv
<1>1. ASSUME NEW id \in {0} \cup Picker!Ids(queues), NEW v, NEW isOpen \in BOOLEAN,
             Picker!Render(queues, v, isOpen, id)
      PROVE  PickerInv'
  BY <1>0, <1>1, PickerRender
<1>2. ASSUME NEW list \in QueueLists, NEW v, NEW isOpen \in BOOLEAN,
             Picker!Render(list, v, isOpen, activeId)
      PROVE  PickerInv'
  BY <1>2, PickerRender DEF PickerInv
<1>3. ASSUME NEW list \in QueueLists, Picker!QueuesRead(list) PROVE PickerInv'
  <2>1. CASE pickerOpen
    <3>1. Picker!Render(list, value, TRUE, activeId)
      BY <1>3, <2>1 DEF Picker!QueuesRead, Picker!Render
    <3> QED BY <1>2, <3>1
  <2>2. CASE ~pickerOpen
    <3>1. Picker!Render(list, value, FALSE, activeId)
      BY <1>3, <2>2 DEF Picker!QueuesRead, Picker!Render
    <3> QED BY <1>2, <3>1
  <2> QED BY <2>1, <2>2
<1>4. ASSUME NEW v, Picker!ValueChanges(v) PROVE PickerInv'
  <2>1. CASE pickerOpen
    <3>1. Picker!Render(queues, v, TRUE, activeId)
      BY <1>4, <2>1 DEF Picker!ValueChanges, Picker!Render
    <3> QED BY <1>0, <1>2, <3>1
  <2>2. CASE ~pickerOpen
    <3>1. Picker!Render(queues, v, FALSE, activeId)
      BY <1>4, <2>2 DEF Picker!ValueChanges, Picker!Render
    <3> QED BY <1>0, <1>2, <3>1
  <2> QED BY <2>1, <2>2
<1>5. CASE Picker!Trigger
  <2>1. CASE pickerOpen
    <3>1. Picker!Render(queues, value, FALSE, activeId)
      BY <1>5, <2>1 DEF Picker!Trigger, Picker!Render
    <3> QED BY <1>0, <1>2, <3>1
  <2>2. CASE ~pickerOpen
    <3>1. Picker!Render(queues, value, TRUE, activeId)
      BY <1>5, <2>2 DEF Picker!Trigger, Picker!Render
    <3> QED BY <1>0, <1>2, <3>1
  <2> QED BY <2>1, <2>2
<1>6. CASE Picker!close
  BY <1>0, <1>2, <1>6 DEF Picker!close
<1>7. \A i \in DOMAIN Picker!optionIds : Picker!optionIds[i] \in {0} \cup Picker!Ids(queues)
  BY <1>0, PickerOptions
<1>8. ASSUME NEW id \in {0} \cup Picker!Ids(queues), pickerOpen, Picker!Active(id) PROVE PickerInv'
  <2>1. Picker!Render(queues, value, TRUE, id)
    BY <1>8 DEF Picker!Active, Picker!Render
  <2> QED BY <1>1, <2>1
<1>9. CASE Picker!HomeOrEnd
  <2>1. Len(Picker!optionIds) \in Nat /\ Len(Picker!optionIds) >= 1
        /\ DOMAIN Picker!optionIds = 1 .. Len(Picker!optionIds)
    BY <1>0, PickerOptions
  <2>2. {1, Len(Picker!optionIds)} \subseteq DOMAIN Picker!optionIds
    BY <2>1
  <2> QED BY <1>7, <1>8, <1>9, <2>2 DEF Picker!HomeOrEnd
<1>10. ASSUME NEW n \in {1, Len(Picker!optionIds) - 1}, Picker!moveActive(n) PROVE PickerInv'
  <2> DEFINE len == Len(Picker!optionIds)
             cur == IF \E i \in 1 .. len : Picker!optionIds[i] = activeId
                    THEN CHOOSE i \in 1 .. len : Picker!optionIds[i] = activeId ELSE 1
             at == ((cur - 1 + n + len) % len) + 1
  <2>1. len \in Nat /\ len >= 1 /\ DOMAIN Picker!optionIds = 1 .. len
    BY <1>0, PickerOptions
  <2>2. cur \in Nat /\ cur >= 1
    <3> HIDE DEF len
    <3> QED BY <2>1
  <2>3. at \in 1 .. len
    <3>1. (cur - 1 + n + len) \in Nat
      <4>0. n = 1 \/ n = len - 1
        OBVIOUS
      <4> HIDE DEF len, cur
      <4>1. n \in Nat
        BY <2>1, <4>0
      <4> QED BY <2>1, <2>2, <4>1
    <3> HIDE DEF len, cur
    <3> QED BY <2>1, <3>1
  <2>4. pickerOpen /\ Picker!Active(Picker!optionIds[at])
    BY <1>10 DEF Picker!moveActive
  <2> HIDE DEF at, cur, len
  <2> QED BY <1>7, <1>8, <2>1, <2>3, <2>4
<1>11. ASSUME NEW id \in Picker!Range(Picker!optionIds), Picker!MouseEnter(id) \/ Picker!Click(id)
       PROVE  PickerInv'
  <2>1. id \in {0} \cup Picker!Ids(queues)
    BY <1>7 DEF Picker!Range
  <2> QED BY <1>0, <1>2, <1>8, <1>11, <2>1 DEF Picker!MouseEnter, Picker!Click, Picker!choose
<1>12. CASE Picker!Enter
  BY <1>0, <1>2, <1>12 DEF Picker!Enter, Picker!choose
<1>13. CASE UNCHANGED Picker!vars
  BY <1>13 DEF Picker!vars, PickerInv
<1> QED
  BY <1>3, <1>4, <1>5, <1>6, <1>9, <1>10, <1>11, <1>12, <1>13 DEF Picker!Next

LEMMA PickerTakes == PickerInv => [Picker!Enter => chosen' \in offered]_(Picker!vars)
  BY DEF PickerInv, Picker!Enter, Picker!choose

(* The places of a total order on a finite set: one for each element.      *)
TotalOn(K, le) ==
  /\ \A x \in K : le[<<x, x>>]
  /\ \A x, y \in K : le[<<x, y>>] \/ le[<<y, x>>]
  /\ \A x, y \in K : le[<<x, y>>] /\ le[<<y, x>>] => x = y
  /\ \A x, y, z \in K : le[<<x, y>>] /\ le[<<y, z>>] => le[<<x, z>>]
PlaceIn(K, le, x) == Cardinality({y \in K : le[<<y, x>>]})

LEMMA Places ==
  ASSUME NEW K, IsFiniteSet(K), NEW le, TotalOn(K, le)
  PROVE  /\ Cardinality(K) \in Nat
         /\ \A x \in K : PlaceIn(K, le, x) \in 1 .. Cardinality(K)
         /\ \A x, y \in K : PlaceIn(K, le, x) = PlaceIn(K, le, y) => x = y
         /\ \A x, y \in K : PlaceIn(K, le, x) < PlaceIn(K, le, y) => le[<<x, y>>] /\ x # y
         /\ \A n \in 1 .. Cardinality(K) : \E x \in K : PlaceIn(K, le, x) = n
<1> DEFINE Low(x) == {y \in K : le[<<y, x>>]}
           p(x) == PlaceIn(K, le, x)
           N == Cardinality(K)
<1>1. N \in Nat
  BY FS_CardinalityType
<1>2. \A x \in K : Low(x) \in SUBSET K /\ x \in Low(x)
  BY DEF TotalOn
<1>3. \A x \in K : IsFiniteSet(Low(x)) /\ p(x) \in Nat /\ p(x) <= N /\ p(x) # 0
  <2> SUFFICES ASSUME NEW x \in K PROVE IsFiniteSet(Low(x)) /\ p(x) \in Nat /\ p(x) <= N /\ p(x) # 0
    OBVIOUS
  <2>1. p(x) = Cardinality(Low(x)) /\ Low(x) \in SUBSET K /\ Low(x) # {}
    BY <1>2 DEF PlaceIn
  <2> HIDE DEF Low, p
  <2>2. IsFiniteSet(Low(x)) /\ Cardinality(Low(x)) <= N
    BY <2>1, FS_Subset
  <2>3. Cardinality(Low(x)) \in Nat /\ (Cardinality(Low(x)) = 0 <=> Low(x) = {})
    BY <2>2, FS_CardinalityType, FS_EmptySet
  <2> QED BY <2>1, <2>2, <2>3
<1>9. \A x \in K : p(x) \in Nat /\ p(x) <= N /\ 1 <= p(x)
  <2> SUFFICES ASSUME NEW x \in K PROVE p(x) \in Nat /\ p(x) <= N /\ 1 <= p(x)
    OBVIOUS
  <2>1. p(x) \in Nat /\ p(x) <= N /\ p(x) # 0
    BY <1>3
  <2> HIDE DEF p
  <2> QED BY <2>1
<1>4. ASSUME NEW x \in K, NEW y \in K, le[<<x, y>>], x # y PROVE p(x) < p(y)
  <2>1. Low(x) \in SUBSET Low(y)
    BY <1>4 DEF TotalOn
  <2>2. y \in Low(y) /\ y \notin Low(x)
    BY <1>4, <1>2 DEF TotalOn
  <2>3. p(x) = Cardinality(Low(x)) /\ p(y) = Cardinality(Low(y)) /\ Low(x) # Low(y)
    BY <2>2 DEF PlaceIn
  <2> HIDE DEF Low, p
  <2>4. p(x) <= p(y) /\ p(x) # p(y)
    BY <2>1, <2>3, <1>3, FS_Subset
  <2> QED BY <2>4, <1>3
<1>5. \A x, y \in K : p(x) = p(y) => x = y
  <2> SUFFICES ASSUME NEW x \in K, NEW y \in K, p(x) = p(y), x # y PROVE FALSE
    OBVIOUS
  <2>1. le[<<x, y>>] \/ le[<<y, x>>]
    BY DEF TotalOn
  <2> HIDE DEF p
  <2>2. p(x) < p(y) \/ p(y) < p(x)
    BY <2>1, <1>4
  <2>3. p(x) \in Nat /\ p(y) \in Nat
    BY <1>9
  <2> QED BY <2>2, <2>3
<1>6. \A x, y \in K : p(x) < p(y) => le[<<x, y>>] /\ x # y
  <2> SUFFICES ASSUME NEW x \in K, NEW y \in K, p(x) < p(y) PROVE le[<<x, y>>] /\ x # y
    OBVIOUS
  <2>1. le[<<x, y>>] \/ le[<<y, x>>]
    BY DEF TotalOn
  <2> HIDE DEF p
  <2>4. p(x) \in Nat /\ p(y) \in Nat
    BY <1>9
  <2>2. x # y
    BY <2>4
  <2>3. ~(p(y) < p(x))
    BY <2>4
  <2> QED BY <2>1, <2>2, <2>3, <1>4
<1>7. \A n \in 1 .. N : \E x \in K : p(x) = n
  <2> DEFINE f == [x \in K |-> p(x)]
             T == {f[x] : x \in K}
  <2>1. DOMAIN f = K /\ f = [x \in K |-> f[x]] /\ \A x \in K : f[x] = p(x)
    OBVIOUS
  <2> HIDE DEF f
  <2>2. \A x, y \in K : f[x] = f[y] => x = y
    BY <2>1, <1>5
  <2>3. IsFiniteSet(T) /\ Cardinality(T) = N
    BY <2>1, <2>2, SameSize
  <2>4. T \in SUBSET (1 .. N)
    <3> HIDE DEF p
    <3>1. \A x \in K : f[x] \in 1 .. N
      BY <2>1, <1>1, <1>9
    <3> QED BY <3>1
  <2>5. IsFiniteSet(1 .. N) /\ Cardinality(1 .. N) = N
    BY <1>1, FS_Interval
  <2> HIDE DEF T, p
  <2>6. T = 1 .. N
    BY <2>3, <2>4, <2>5, FS_Subset
  <2> QED BY <2>1, <2>6 DEF T
<1>8. \A x \in K : p(x) \in 1 .. N
  <2> HIDE DEF p
  <2> QED BY <1>1, <1>9
<1> QED BY <1>1, <1>5, <1>6, <1>7, <1>8

PickerQueues ==
  [id : Int, name : Int, hidden : BOOLEAN, group : {"ranked", "standard", "special", "bots", "practice"}]

(* The order of two queues of a list.                                      *)
PickerOrder(list) ==
  [c \in (DOMAIN list) \X (DOMAIN list) |->
     \/ Picker!Before(list[c[1]], list[c[2]])
     \/ c[1] <= c[2] /\ ~Picker!Before(list[c[2]], list[c[1]])]

LEMMA PickerRank == ASSUME NEW q \in PickerQueues PROVE Picker!Rank(q) \in 1 .. 5
<1> DEFINE G == Picker!QUEUE_GROUP_ORDER
<1>1. /\ G[1] = "ranked" /\ G[2] = "standard" /\ G[3] = "special" /\ G[4] = "bots"
      /\ G[5] = "practice"
  BY DEF Picker!QUEUE_GROUP_ORDER
<1>2. q.group \in {"ranked", "standard", "special", "bots", "practice"}
  BY DEF PickerQueues
<1> HIDE DEF G
<1>3. \E i \in 1 .. 5 : G[i] = q.group
  BY <1>1, <1>2
<1> QED BY <1>3 DEF Picker!Rank, G

LEMMA PickerBefore ==
  ASSUME NEW a \in PickerQueues, NEW b \in PickerQueues
  PROVE  /\ Picker!Before(a, b) <=> \/ Picker!Rank(a) < Picker!Rank(b)
                                    \/ Picker!Rank(a) = Picker!Rank(b) /\ a.name < b.name
         /\ Picker!Rank(a) \in Nat /\ Picker!Rank(b) \in Nat /\ a.name \in Int /\ b.name \in Int
<1>1. Picker!Rank(a) \in Nat /\ Picker!Rank(b) \in Nat
  BY PickerRank
<1>2. a.name \in Int /\ b.name \in Int
  BY DEF PickerQueues
<1> QED BY <1>1, <1>2 DEF Picker!Before

LEMMA PickerTotal ==
  ASSUME NEW list \in Seq(PickerQueues), NEW K \in SUBSET (DOMAIN list)
  PROVE  TotalOn(K, PickerOrder(list))
<1> DEFINE r(i) == Picker!Rank(list[i])
           n(i) == list[i].name
           B(i, j) == r(i) < r(j) \/ (r(i) = r(j) /\ n(i) < n(j))
           le(i, j) == PickerOrder(list)[<<i, j>>]
<1>1. \A i \in K : i \in Nat /\ list[i] \in PickerQueues
  OBVIOUS
<1>2. \A i \in K : r(i) \in Nat /\ n(i) \in Int
  BY <1>1, PickerBefore
<1>3. \A i, j \in K : Picker!Before(list[i], list[j]) <=> B(i, j)
  BY <1>1, PickerBefore
<1>4. ASSUME NEW i \in K, NEW j \in K PROVE le(i, j) <=> B(i, j) \/ (i <= j /\ ~B(j, i))
  <2>1. <<i, j>> \in (DOMAIN list) \X (DOMAIN list) /\ <<i, j>>[1] = i /\ <<i, j>>[2] = j
    OBVIOUS
  <2>2. le(i, j) <=> \/ Picker!Before(list[i], list[j])
                     \/ i <= j /\ ~Picker!Before(list[j], list[i])
    BY <2>1 DEF PickerOrder
  <2> HIDE DEF B, le
  <2> QED BY <2>2, <1>3
<1> HIDE DEF r, n, le
<1>5. ASSUME NEW i \in K, NEW j \in K, NEW k \in K
      PROVE  /\ le(i, i) /\ (le(i, j) \/ le(j, i))
             /\ le(i, j) /\ le(j, i) => i = j
             /\ le(i, j) /\ le(j, k) => le(i, k)
  <2>1. /\ i \in Nat /\ j \in Nat /\ k \in Nat /\ r(i) \in Nat /\ r(j) \in Nat /\ r(k) \in Nat
        /\ n(i) \in Int /\ n(j) \in Int /\ n(k) \in Int
    BY <1>1, <1>2
  <2>2. /\ le(i, i) <=> B(i, i) \/ (i <= i /\ ~B(i, i))
        /\ le(i, j) <=> B(i, j) \/ (i <= j /\ ~B(j, i))
        /\ le(j, i) <=> B(j, i) \/ (j <= i /\ ~B(i, j))
        /\ le(j, k) <=> B(j, k) \/ (j <= k /\ ~B(k, j))
        /\ le(i, k) <=> B(i, k) \/ (i <= k /\ ~B(k, i))
    BY <1>4
  <2> QED BY <2>1, <2>2
<1>6. /\ \A x \in K : le(x, x)
      /\ \A x, y \in K : le(x, y) \/ le(y, x)
      /\ \A x, y \in K : le(x, y) /\ le(y, x) => x = y
      /\ \A x, y, z \in K : le(x, y) /\ le(y, z) => le(x, z)
  BY <1>5
<1> QED BY <1>6 DEF TotalOn, le

(* What sortQueues keeps.                                                  *)
PickerKept(list) ==
  {i \in DOMAIN list : /\ Picker!isSelectableQueue(list[i])
                       /\ \A j \in 1 .. i - 1 :
                            Picker!isSelectableQueue(list[j]) => list[j].id # list[i].id}

LEMMA PickerKeeps ==
  ASSUME NEW list \in Seq(PickerQueues)
  PROVE  LET K == PickerKept(list)
             p(i) == PlaceIn(K, PickerOrder(list), i)
         IN /\ IsFiniteSet(K) /\ K \in SUBSET (DOMAIN list) /\ Cardinality(K) \in Nat
            /\ Picker!sortQueues(list) =
                 [n \in 1 .. Cardinality(K) |-> list[CHOOSE i \in K : p(i) = n]]
<1> DEFINE K == PickerKept(list)
           le == PickerOrder(list)
<1>1. K \in SUBSET (DOMAIN list)
  BY DEF PickerKept
<1>2. IsFiniteSet(K)
  <2>1. DOMAIN list = 1 .. Len(list) /\ Len(list) \in Nat
    OBVIOUS
  <2>2. IsFiniteSet(1 .. Len(list))
    BY <2>1, FS_Interval
  <2> HIDE DEF K
  <2> QED BY <1>1, <2>1, <2>2, FS_Subset
<1>3. \A i \in K : {j \in K : \/ Picker!Before(list[j], list[i])
                              \/ j <= i /\ ~Picker!Before(list[i], list[j])} = {j \in K : le[<<j, i>>]}
  <2> SUFFICES ASSUME NEW i \in K, NEW j \in K
               PROVE  le[<<j, i>>] <=> \/ Picker!Before(list[j], list[i])
                                       \/ j <= i /\ ~Picker!Before(list[i], list[j])
    OBVIOUS
  <2>1. <<j, i>> \in (DOMAIN list) \X (DOMAIN list) /\ <<j, i>>[1] = j /\ <<j, i>>[2] = i
    BY <1>1
  <2> QED BY <2>1 DEF PickerOrder
<1>4. \A S : Picker!Cardinality(S) = Cardinality(S)
  BY DEF Picker!Cardinality, Cardinality
<1> DEFINE Place(i) == Picker!Cardinality({j \in K : \/ Picker!Before(list[j], list[i])
                                                     \/ j <= i /\ ~Picker!Before(list[i], list[j])})
<1>5. Picker!sortQueues(list) = [n \in 1 .. Picker!Cardinality(K) |-> list[CHOOSE i \in K : Place(i) = n]]
  BY DEF Picker!sortQueues, PickerKept
<1> HIDE DEF K
<1>6. \A i \in K : Place(i) = PlaceIn(K, le, i)
  BY <1>3, <1>4 DEF PlaceIn
<1> HIDE DEF Place, le
<1>7. \A n : (CHOOSE i \in K : Place(i) = n) = (CHOOSE i \in K : PlaceIn(K, le, i) = n)
  <2> SUFFICES ASSUME NEW n PROVE (CHOOSE i \in K : Place(i) = n) = (CHOOSE i \in K : PlaceIn(K, le, i) = n)
    OBVIOUS
  <2>1. \A i : (i \in K /\ Place(i) = n) <=> (i \in K /\ PlaceIn(K, le, i) = n)
    BY <1>6
  <2> QED BY <2>1
<1>8. Picker!sortQueues(list) = [n \in 1 .. Cardinality(K) |-> list[CHOOSE i \in K : PlaceIn(K, le, i) = n]]
  <2> DEFINE a(n) == CHOOSE i \in K : Place(i) = n
             b(n) == CHOOSE i \in K : PlaceIn(K, le, i) = n
  <2>1. Picker!sortQueues(list) = [n \in 1 .. Cardinality(K) |-> list[a(n)]]
    BY <1>4, <1>5
  <2>2. \A n : a(n) = b(n)
    BY <1>7
  <2> HIDE DEF a, b
  <2>3. Picker!sortQueues(list) = [n \in 1 .. Cardinality(K) |-> list[b(n)]]
    BY <2>1, <2>2
  <2> QED BY <2>3 DEF b
<1>9. Cardinality(K) \in Nat
  BY <1>2, FS_CardinalityType
<1> QED BY <1>1, <1>2, <1>8, <1>9 DEF K, le

(* A list in order, without duplicates, of queues that can be selected.    *)
PickerSorted(s, N) ==
  /\ N \in Nat /\ s = [n \in 1 .. N |-> s[n]]
  /\ \A n \in 1 .. N : s[n] \in PickerQueues /\ Picker!isSelectableQueue(s[n])
  /\ \A n, m \in 1 .. N : n < m => s[n].id # s[m].id /\ ~Picker!Before(s[m], s[n])

LEMMA PickerSorts ==
  ASSUME NEW list \in Seq(PickerQueues)
  PROVE  \E N : PickerSorted(Picker!sortQueues(list), N)
<1> DEFINE K == PickerKept(list)
           le == PickerOrder(list)
           p(i) == PlaceIn(K, le, i)
           s == Picker!sortQueues(list)
           N == Cardinality(K)
           c(n) == CHOOSE i \in K : p(i) = n
<1>1. /\ IsFiniteSet(K) /\ K \in SUBSET (DOMAIN list) /\ N \in Nat
      /\ s = [n \in 1 .. N |-> list[c(n)]]
  BY PickerKeeps
<1>2. TotalOn(K, le)
  BY <1>1, PickerTotal
<1>3. \A i \in K : Picker!isSelectableQueue(list[i])
  BY DEF PickerKept
<1>4. ASSUME NEW i \in K, NEW j \in K, i # j PROVE list[i].id # list[j].id
  <2>1. i \in Nat /\ j \in Nat /\ i >= 1 /\ j >= 1
    BY <1>1
  <2>2. CASE i < j
    <3>1. i \in 1 .. j - 1
      BY <2>1, <2>2
    <3> QED BY <3>1, <1>3 DEF PickerKept
  <2>3. CASE j < i
    <3>1. j \in 1 .. i - 1
      BY <2>1, <2>3
    <3> QED BY <3>1, <1>3 DEF PickerKept
  <2> QED BY <2>1, <2>2, <2>3, <1>4
<1> HIDE DEF K
<1>5. /\ \A x, y \in K : p(x) < p(y) => le[<<x, y>>] /\ x # y
      /\ \A n \in 1 .. N : \E x \in K : p(x) = n
  BY <1>1, <1>2, Places
<1> HIDE DEF p
<1>6. \A n \in 1 .. N : c(n) \in K /\ p(c(n)) = n
  BY <1>5
<1> HIDE DEF c, N, s
<1>7. \A n \in 1 .. N : /\ s[n] = list[c(n)] /\ list[c(n)] \in PickerQueues
                        /\ Picker!isSelectableQueue(s[n])
  BY <1>1, <1>3, <1>6
<1>8. ASSUME NEW n \in 1 .. N, NEW m \in 1 .. N, n < m
      PROVE  s[n].id # s[m].id /\ ~Picker!Before(s[m], s[n])
  <2> DEFINE i == c(n)
             j == c(m)
  <2>1. /\ i \in K /\ j \in K /\ p(i) = n /\ p(j) = m /\ s[n] = list[i] /\ s[m] = list[j]
        /\ list[i] \in PickerQueues /\ list[j] \in PickerQueues
    BY <1>6, <1>7
  <2> HIDE DEF i, j
  <2>2. le[<<i, j>>] /\ i # j
    BY <1>5, <1>8, <2>1
  <2>3. /\ <<i, j>> \in (DOMAIN list) \X (DOMAIN list)
        /\ <<i, j>>[1] = i /\ <<i, j>>[2] = j
    BY <1>1, <2>1
  <2>4. \/ Picker!Before(list[i], list[j])
        \/ i <= j /\ ~Picker!Before(list[j], list[i])
    BY <2>2, <2>3 DEF PickerOrder
  <2>5. /\ Picker!Before(list[i], list[j]) <=>
             \/ Picker!Rank(list[i]) < Picker!Rank(list[j])
             \/ Picker!Rank(list[i]) = Picker!Rank(list[j]) /\ list[i].name < list[j].name
        /\ Picker!Before(list[j], list[i]) <=>
             \/ Picker!Rank(list[j]) < Picker!Rank(list[i])
             \/ Picker!Rank(list[j]) = Picker!Rank(list[i]) /\ list[j].name < list[i].name
        /\ Picker!Rank(list[i]) \in Nat /\ Picker!Rank(list[j]) \in Nat
        /\ list[i].name \in Int /\ list[j].name \in Int
    BY <2>1, PickerBefore
  <2>6. ~Picker!Before(list[j], list[i])
    BY <2>4, <2>5
  <2> QED BY <2>1, <2>2, <2>6, <1>4
<1>9. s = [n \in 1 .. N |-> s[n]]
  BY <1>1
<1>10. PickerSorted(s, N)
  BY <1>1, <1>7, <1>8, <1>9 DEF PickerSorted
<1> QED BY <1>10 DEF s

LEMMA PickerFirst ==
  ASSUME NEW n \in Nat, NEW N \in Nat, n <= N
  PROVE  Cardinality({j \in 1 .. N : j <= n}) = n
<1>1. {j \in 1 .. N : j <= n} = 1 .. n
  OBVIOUS
<1>2. Cardinality(1 .. n) = n
  BY FS_Interval
<1> QED BY <1>1, <1>2

(* Sorting what is in order, and grouping it, change nothing.              *)
LEMMA PickerSortedAgain ==
  ASSUME NEW s, NEW N, PickerSorted(s, N)
  PROVE  Picker!sortQueues(s) = s
<1> DEFINE K == PickerKept(s)
           p(i) == PlaceIn(K, PickerOrder(s), i)
           c(n) == CHOOSE i \in K : p(i) = n
<1>1. /\ N \in Nat /\ s = [n \in 1 .. N |-> s[n]] /\ DOMAIN s = 1 .. N
      /\ \A n \in 1 .. N : s[n] \in PickerQueues /\ Picker!isSelectableQueue(s[n])
      /\ \A n, m \in 1 .. N : n < m => s[n].id # s[m].id /\ ~Picker!Before(s[m], s[n])
  BY DEF PickerSorted
<1>2. s \in Seq(PickerQueues)
  BY <1>1
<1>3. Picker!sortQueues(s) = [n \in 1 .. Cardinality(K) |-> s[c(n)]]
  BY <1>2, PickerKeeps
<1>4. K = 1 .. N
  <2> SUFFICES ASSUME NEW i \in 1 .. N PROVE i \in K
    BY <1>1 DEF PickerKept
  <2>1. \A j \in 1 .. i - 1 : j \in 1 .. N /\ j < i
    BY <1>1
  <2> QED BY <1>1, <2>1 DEF PickerKept
<1> HIDE DEF K
<1>5. Cardinality(K) = N
  <2>1. Cardinality(1 .. N) = N
    BY <1>1, FS_Interval
  <2> QED BY <1>4, <2>1
<1>6. \A n \in 1 .. N : p(n) = n
  <2> SUFFICES ASSUME NEW n \in 1 .. N PROVE p(n) = n
    OBVIOUS
  <2>1. ASSUME NEW j \in K PROVE PickerOrder(s)[<<j, n>>] <=> j <= n
    <3>1. /\ j \in 1 .. N /\ j \in Nat /\ n \in Nat
          /\ <<j, n>> \in (DOMAIN s) \X (DOMAIN s) /\ <<j, n>>[1] = j /\ <<j, n>>[2] = n
      BY <1>1, <1>4
    <3>2. PickerOrder(s)[<<j, n>>] <=> \/ Picker!Before(s[j], s[n])
                                       \/ j <= n /\ ~Picker!Before(s[n], s[j])
      BY <3>1 DEF PickerOrder
    <3>3. ~Picker!Before(s[n], s[n])
      <4>1. Picker!Rank(s[n]) \in Nat /\ s[n].name \in Int
        BY <1>1, PickerBefore
      <4> QED BY <4>1 DEF Picker!Before
    <3>4. CASE j < n
      BY <3>1, <3>2, <3>4, <1>1
    <3>5. CASE j = n
      BY <3>1, <3>2, <3>3, <3>5
    <3>6. CASE n < j
      BY <3>1, <3>2, <3>6, <1>1
    <3> QED BY <3>1, <3>4, <3>5, <3>6
  <2>2. {j \in K : PickerOrder(s)[<<j, n>>]} = {j \in 1 .. N : j <= n}
    BY <2>1, <1>4
  <2>3. n \in Nat /\ n <= N
    BY <1>1
  <2>4. Cardinality({j \in 1 .. N : j <= n}) = n
    BY <1>1, <2>3, PickerFirst
  <2> QED BY <2>2, <2>4 DEF PlaceIn
<1> HIDE DEF p
<1>7. \A n \in 1 .. N : c(n) = n
  BY <1>4, <1>6
<1> HIDE DEF c
<1>8. [n \in 1 .. N |-> s[c(n)]] = [n \in 1 .. N |-> s[n]]
  BY <1>7
<1> QED BY <1>1, <1>3, <1>5, <1>8

LEMMA PickerGrouped ==
  ASSUME NEW s, NEW N, PickerSorted(s, N)
  PROVE  Picker!groupedQueues(s) = s
<1> DEFINE r(i) == Picker!Rank(s[i])
           Place(i) == Picker!Cardinality({j \in 1 .. N : r(j) < r(i) \/ (r(j) = r(i) /\ j <= i)})
           c(n) == CHOOSE i \in 1 .. N : Place(i) = n
<1>1. /\ N \in Nat /\ s = [n \in 1 .. N |-> s[n]] /\ DOMAIN s = 1 .. N
      /\ \A n \in 1 .. N : s[n] \in PickerQueues
      /\ \A n, m \in 1 .. N : n < m => ~Picker!Before(s[m], s[n])
  BY DEF PickerSorted
<1>2. Picker!groupedQueues(s) = [n \in 1 .. N |-> s[c(n)]]
  <2> DEFINE R(q) == Picker!Rank(q)
             G(t) == [n \in DOMAIN t |-> t[CHOOSE i \in DOMAIN t :
                        Picker!Cardinality({j \in DOMAIN t : \/ R(t[j]) < R(t[i])
                                                             \/ R(t[j]) = R(t[i]) /\ j <= i}) = n]]
  <2>1. Picker!groupedQueues(s) = G(Picker!sortQueues(s))
    BY DEF Picker!groupedQueues
  <2>2. Picker!sortQueues(s) = s
    BY PickerSortedAgain
  <2>3. G(s) = [n \in 1 .. N |-> s[c(n)]]
    BY <1>1
  <2> HIDE DEF G
  <2>4. Picker!groupedQueues(s) = G(s)
    BY <2>1, <2>2
  <2> QED BY <2>3, <2>4
<1>3. \A n \in 1 .. N : r(n) \in Nat
  BY <1>1, PickerBefore
<1>4. ASSUME NEW n \in 1 .. N, NEW m \in 1 .. N, n < m PROVE r(n) <= r(m)
  <2>1. ~Picker!Before(s[m], s[n])
    BY <1>1, <1>4
  <2>2. ~(r(m) < r(n))
    BY <2>1, <1>1, PickerBefore
  <2> QED BY <2>2, <1>3
<1> HIDE DEF r
<1>5. ASSUME NEW n \in 1 .. N PROVE Place(n) = n
  <2>1. \A j \in 1 .. N : (r(j) < r(n) \/ (r(j) = r(n) /\ j <= n)) <=> j <= n
    <3> SUFFICES ASSUME NEW j \in 1 .. N
                 PROVE  (r(j) < r(n) \/ (r(j) = r(n) /\ j <= n)) <=> j <= n
      OBVIOUS
    <3>1. j \in Nat /\ n \in Nat /\ r(j) \in Nat /\ r(n) \in Nat
      BY <1>1, <1>3
    <3>2. (j < n => r(j) <= r(n)) /\ (n < j => r(n) <= r(j)) /\ (j = n => r(j) = r(n))
      BY <1>4
    <3> QED BY <3>1, <3>2
  <2>2. {j \in 1 .. N : r(j) < r(n) \/ (r(j) = r(n) /\ j <= n)} = {j \in 1 .. N : j <= n}
    BY <2>1
  <2>3. n \in Nat /\ n <= N
    BY <1>1
  <2>4. Cardinality({j \in 1 .. N : j <= n}) = n
    BY <1>1, <2>3, PickerFirst
  <2>5. \A S : Picker!Cardinality(S) = Cardinality(S)
    BY DEF Picker!Cardinality, Cardinality
  <2> QED BY <2>2, <2>4, <2>5
<1> HIDE DEF Place
<1>6. \A n \in 1 .. N : c(n) = n
  BY <1>5
<1> HIDE DEF c
<1>7. [n \in 1 .. N |-> s[c(n)]] = [n \in 1 .. N |-> s[n]]
  BY <1>6
<1> QED BY <1>1, <1>2, <1>7

LEMMA PickerFollows == PickerInv => Picker!ArrowsFollowTheMenu
<1> SUFFICES ASSUME PickerInv PROVE Picker!ArrowsFollowTheMenu
  OBVIOUS
<1> DEFINE s == Picker!sortQueues(queues)
           ids == [i \in DOMAIN s |-> s[i].id]
           menu == Picker!groupedQueues(s)
<1>1. queues \in Seq(PickerQueues)
  BY PickerAssumption DEF PickerInv, PickerQueues
<1>2. PICK N : PickerSorted(s, N)
  BY <1>1, PickerSorts
<1>3. Picker!groupedQueues(s) = s
  BY <1>2, PickerGrouped
<1>4. Picker!optionIds = <<0>> \o ids
  BY DEF Picker!optionIds
<1> HIDE DEF s
<1>5. N \in Nat /\ DOMAIN s = 1 .. N
  BY <1>2 DEF PickerSorted
<1>6. \A n \in 1 .. N : s[n].id \in Int /\ s[n].id > 0
  BY <1>2 DEF PickerSorted, PickerQueues, Picker!isSelectableQueue
<1>7. \A n, m \in 1 .. N : ids[n] = ids[m] => n = m
  <2> SUFFICES ASSUME NEW n \in 1 .. N, NEW m \in 1 .. N, s[n].id = s[m].id, n # m PROVE FALSE
    BY <1>5
  <2>1. n < m \/ m < n
    BY <1>5
  <2> QED BY <2>1, <1>2 DEF PickerSorted
<1>8. ids \in Seq(Int) /\ Len(ids) = N /\ \A n \in 1 .. N : ids[n] > 0 /\ ids[n] \in Int
  BY <1>5, <1>6
<1> HIDE DEF ids
<1>9. Picker!IsInjective(Picker!optionIds)
  <2> DEFINE o == <<0>> \o ids
  <2>1. /\ o \in Seq(Int) /\ DOMAIN o = 1 .. N + 1 /\ o[1] = 0
        /\ \A k \in 1 .. N + 1 : k # 1 => o[k] = ids[k - 1] /\ k - 1 \in 1 .. N
    BY <1>5, <1>8
  <2> HIDE DEF o
  <2>2. ASSUME NEW a \in 1 .. N + 1, NEW b \in 1 .. N + 1, o[a] = o[b] PROVE a = b
    BY <2>1, <2>2, <1>5, <1>7, <1>8
  <2>3. Picker!optionIds = o
    BY <1>4 DEF o
  <2> QED BY <2>1, <2>2, <2>3 DEF Picker!IsInjective
<1>10. Picker!groupedQueues(Picker!sortQueues(queues)) = s
  BY <1>3 DEF s
<1>11. <<0>> \o [i \in DOMAIN s |-> s[i].id] = Picker!optionIds
  BY <1>4 DEF ids
<1> QED BY <1>9, <1>10, <1>11 DEF Picker!ArrowsFollowTheMenu

-----------------------------------------------------------------------------
(* The editor of rune pages: RunePageEditor.                               *)

(* While a page is saved, its copy is not replaced unseen: the catalogue   *)
(* has been read, and the dialog stays.                                    *)
RunesInv ==
  saving # Runes!No =>
    /\ DOMAIN saving = {"at", "of"}
    /\ ~replaced => runesOpen /\ catalogue = Runes!No /\ saving.of = Runes!Page(runesEditor)

LEMMA RunesInvInit == Runes!Init => RunesInv
  BY DEF Runes!Init, RunesInv

LEMMA RunesInvNext == RunesInv /\ [Runes!Next]_(Runes!vars) => RunesInv'
<1> SUFFICES ASSUME RunesInv, [Runes!Next]_(Runes!vars) PROVE RunesInv'
  OBVIOUS
<1> USE DEF Runes!below
<1>0. ASSUME UNCHANGED <<runesOpen, catalogue, runesEditor, saving, replaced>> PROVE RunesInv'
  <2>1. Runes!Page(runesEditor') = Runes!Page(runesEditor)
    BY <1>0
  <2> QED BY <1>0, <2>1 DEF RunesInv, Runes!Page, Runes!Chosen
<1>1. ASSUME saving' = Runes!No PROVE RunesInv'
  BY <1>1 DEF RunesInv, Runes!No
<1>2. CASE Runes!OpenEditor
  <2>1. saving = Runes!No \/ replaced
    BY <1>2 DEF Runes!OpenEditor, RunesInv
  <2> QED BY <1>2, <2>1 DEF Runes!OpenEditor, RunesInv, Runes!No
<1>3. CASE Runes!Close
  BY <1>1, <1>3 DEF Runes!Close, Runes!No
<1>4. CASE Runes!PagesRead
  <2>1. UNCHANGED <<runesOpen, runesEditor, saving>> /\ replaced' = (replaced \/ runesOpen)
    BY <1>4 DEF Runes!PagesRead
  <2>2. saving # Runes!No => replaced'
    BY <2>1 DEF RunesInv
  <2> QED BY <2>1, <2>2 DEF RunesInv, Runes!No
<1>5. ASSUME NEW r, Runes!LeagueChanges(r) PROVE RunesInv'
  BY <1>0, <1>5 DEF Runes!LeagueChanges
<1>6. CASE Runes!CatalogueRead \/ Runes!CatalogueFails
  <2>1. saving = Runes!No \/ replaced
    BY <1>6 DEF Runes!CatalogueRead, Runes!CatalogueFails, RunesInv
  <2>2. UNCHANGED <<saving, replaced>>
    BY <1>6 DEF Runes!CatalogueRead, Runes!CatalogueFails
  <2> QED BY <2>1, <2>2 DEF RunesInv, Runes!No
<1>7. ASSUME NEW copy, Runes!RuneChoice, Runes!Becomes(copy) PROVE RunesInv'
  BY <1>1, <1>7 DEF Runes!RuneChoice, Runes!Becomes, Runes!No
<1>8. ASSUME NEW style, Runes!choosePrimaryStyle(style) \/ Runes!chooseSecondaryStyle(style) PROVE RunesInv'
  BY <1>7, <1>8 DEF Runes!choosePrimaryStyle, Runes!chooseSecondaryStyle
<1>9. ASSUME NEW row, NEW p, Runes!PrimaryRow(row, p) \/ Runes!chooseSecondaryPerk(row, p) PROVE RunesInv'
  BY <1>7, <1>9 DEF Runes!PrimaryRow, Runes!chooseSecondaryPerk
<1>10. CASE Runes!save
  <2>1. /\ saving' = [at |-> "sent", of |-> Runes!Page(runesEditor)] /\ runesOpen /\ catalogue = Runes!No
        /\ UNCHANGED <<runesOpen, catalogue, runesEditor, replaced>>
    BY <1>10 DEF Runes!save, Runes!RuneChoice
  <2>2. DOMAIN saving' = {"at", "of"} /\ saving'.of = Runes!Page(runesEditor)
    BY <2>1
  <2>3. Runes!Page(runesEditor') = Runes!Page(runesEditor)
    BY <2>1
  <2> QED BY <2>1, <2>2, <2>3 DEF RunesInv, Runes!Page, Runes!Chosen, Runes!No
<1>11. CASE Runes!SaveArrives
  <2>1. /\ saving.at = "sent" /\ saving' = [saving EXCEPT !.at = "stored"]
        /\ UNCHANGED <<runesOpen, catalogue, runesEditor, replaced>>
    BY <1>11 DEF Runes!SaveArrives
  <2>2. Runes!No.at = "no"
    BY DEF Runes!No
  <2>3. saving # Runes!No
    BY <2>1, <2>2
  <2>4. DOMAIN saving' = {"at", "of"} /\ saving'.of = saving.of
    BY <2>1, <2>3 DEF RunesInv
  <2>5. Runes!Page(runesEditor') = Runes!Page(runesEditor)
    BY <2>1
  <2> QED BY <2>1, <2>3, <2>4, <2>5 DEF RunesInv, Runes!Page, Runes!Chosen, Runes!No
<1>12. CASE Runes!Saved \/ Runes!SaveFails
  BY <1>1, <1>12 DEF Runes!Saved, Runes!SaveFails
<1>13. CASE UNCHANGED Runes!vars
  BY <1>0, <1>13 DEF Runes!vars
<1> QED
  BY <1>2, <1>3, <1>4, <1>5, <1>6, <1>8, <1>9, <1>10, <1>11, <1>12, <1>13 DEF Runes!Next

LEMMA RunesBelongs == RunesInv => Runes!SavedAsShown
  BY DEF RunesInv, Runes!SavedAsShown

(* A copy that can be edited: a perk of each primary row, and of the rows  *)
(* of the secondary style, which the primary one allows, one or none.      *)
RunesCopy(copy) ==
  /\ DOMAIN copy = {"at", "primary", "sub", "chosen", "second"} /\ copy.at = "editing"
  /\ copy.primary \in Styles /\ copy.sub \in Allowed[copy.primary]
  /\ DOMAIN copy.chosen = Runes!Primary
  /\ \A row \in Runes!Primary : copy.chosen[row] \in Runes!Perks(copy.primary, row)
  /\ DOMAIN copy.second = PerkRows
  /\ \A row \in PerkRows : copy.second[row] # Runes!None => copy.second[row] \in Runes!Perks(copy.sub, row)

(* A page that League takes.                                               *)
RunesLegal(r) ==
  /\ r.primary \in Styles /\ r.sub \in Allowed[r.primary]
  /\ \A row \in Runes!Primary : Cardinality(r.perks \cap Runes!Perks(r.primary, row)) = 1
  /\ Cardinality({row \in PerkRows : r.perks \cap Runes!Perks(r.sub, row) # {}}) = 2
  /\ Cardinality(r.perks) = Cardinality(Runes!Primary) + 2

RunesPages ==
  /\ runes.primary \in Styles /\ current.primary \in Styles
  /\ catalogue # Runes!No => catalogue.of.primary \in Styles
  /\ runesEditor # Runes!No => RunesCopy(runesEditor)
  /\ saving # Runes!No => DOMAIN saving = {"at", "of"} /\ RunesLegal(saving.of)

(* A row's perks are not those of another row or style.                    *)
LEMMA RunesPerk ==
  ASSUME NEW s, NEW t, NEW row \in Runes!Primary, NEW col \in Runes!Primary,
         NEW p \in Runes!Perks(s, row), p \in Runes!Perks(t, col)
  PROVE  s = t /\ row = col /\ p # Runes!None
<1>1. PICK n \in 1 .. PerksOf[row] : p = <<s, row, n>>
  BY DEF Runes!Perks, Runes!Perk
<1>2. PICK m \in 1 .. PerksOf[col] : p = <<t, col, m>>
  BY DEF Runes!Perks, Runes!Perk
<1> QED BY <1>1, <1>2 DEF Runes!None

LEMMA RunesFirst ==
  ASSUME NEW s, NEW row \in Runes!Primary
  PROVE  Runes!Perk(s, row, 1) \in Runes!Perks(s, row) /\ Runes!Perk(s, row, 1) # Runes!None
<1>1. PerksOf[row] \in Nat \ {0}
  BY RunesAssumption DEF Runes!Primary
<1> QED BY <1>1 DEF Runes!Perks, Runes!Perk, Runes!None

LEMMA RunesChoices ==
  ASSUME NEW s, NEW selected
  PROVE  /\ DOMAIN Runes!choicesForSlots(s, selected) = Runes!Primary
         /\ \A row \in Runes!Primary : Runes!choicesForSlots(s, selected)[row] \in Runes!Perks(s, row)
<1> SUFFICES ASSUME NEW row \in Runes!Primary
             PROVE  Runes!choicesForSlots(s, selected)[row] \in Runes!Perks(s, row)
  BY DEF Runes!choicesForSlots
<1>1. CASE Runes!Perks(s, row) \cap selected # {}
  <2>1. \E p \in Runes!Perks(s, row) : p \in selected
    BY <1>1
  <2>2. (CHOOSE p \in Runes!Perks(s, row) : p \in selected) \in Runes!Perks(s, row)
    BY <2>1
  <2> QED BY <1>1, <2>2 DEF Runes!choicesForSlots
<1>2. CASE Runes!Perks(s, row) \cap selected = {}
  BY <1>2, RunesFirst DEF Runes!choicesForSlots
<1> QED BY <1>1, <1>2

LEMMA RunesSecond ==
  ASSUME NEW s, NEW selected
  PROVE  /\ DOMAIN Runes!initialSecondaryChoices(s, selected) = PerkRows
         /\ \A row \in PerkRows :
              \/ Runes!initialSecondaryChoices(s, selected)[row] = Runes!None
              \/ Runes!initialSecondaryChoices(s, selected)[row] \in Runes!Perks(s, row)
<1>1. ASSUME NEW row \in PerkRows, Runes!Perks(s, row) \cap selected # {}
      PROVE  (CHOOSE p \in Runes!Perks(s, row) : p \in selected) \in Runes!Perks(s, row)
  <2>1. \E p \in Runes!Perks(s, row) : p \in selected
    BY <1>1
  <2> QED BY <2>1
<1>2. ASSUME NEW row \in PerkRows PROVE Runes!Perk(s, row, 1) \in Runes!Perks(s, row)
  BY RunesFirst DEF Runes!Primary
<1> QED BY <1>1, <1>2 DEF Runes!initialSecondaryChoices

(* Of the styles that are allowed one is first.                            *)
LEMMA RunesAllows ==
  ASSUME NEW s \in Styles, NEW t PROVE Runes!SecondaryFor(s, t) \in Allowed[s]
<1>1. Allowed[s] \subseteq Nat /\ Allowed[s] # {}
  BY RunesAssumption
<1>2. \E v \in Allowed[s] : \A u \in Allowed[s] : v <= u
  BY <1>1, Least
<1>3. (CHOOSE v \in Allowed[s] : \A u \in Allowed[s] : v <= u) \in Allowed[s]
  BY <1>2
<1> QED BY <1>3 DEF Runes!SecondaryFor

LEMMA RunesCopied ==
  ASSUME NEW r, r.primary \in Styles PROVE RunesCopy(Runes!Copy(r))
<1> DEFINE sub == Runes!SecondaryFor(r.primary, r.sub)
           taken == Runes!choicesForSlots(r.primary, r.perks)
           second == Runes!initialSecondaryChoices(sub, r.perks)
<1>1. Runes!Copy(r) = [at |-> "editing", primary |-> r.primary, sub |-> sub, chosen |-> taken,
                       second |-> second]
  BY DEF Runes!Copy
<1>2. sub \in Allowed[r.primary]
  BY RunesAllows
<1>3. /\ DOMAIN taken = Runes!Primary
      /\ \A row \in Runes!Primary : taken[row] \in Runes!Perks(r.primary, row)
  BY RunesChoices
<1>4. /\ DOMAIN second = PerkRows
      /\ \A row \in PerkRows : second[row] # Runes!None => second[row] \in Runes!Perks(sub, row)
  BY RunesSecond
<1> HIDE DEF sub, taken, second
<1> QED BY <1>1, <1>2, <1>3, <1>4 DEF RunesCopy

(* The page of a complete copy is one that League takes.                   *)
LEMMA RunesPageLegal ==
  ASSUME NEW copy, RunesCopy(copy), Runes!Complete(copy) PROVE RunesLegal(Runes!Page(copy))
<1> DEFINE rows == Runes!Chosen(copy.second)
           first == {copy.chosen[row] : row \in Runes!Primary}
           further == {copy.second[row] : row \in rows}
           r == Runes!Page(copy)
<1>1. r.primary = copy.primary /\ r.sub = copy.sub /\ r.perks = first \cup further
  BY DEF Runes!Page
<1>2. /\ copy.primary \in Styles /\ copy.sub \in Allowed[copy.primary]
      /\ \A row \in Runes!Primary : copy.chosen[row] \in Runes!Perks(copy.primary, row)
      /\ \A row \in rows : row \in PerkRows /\ copy.second[row] \in Runes!Perks(copy.sub, row)
  BY DEF RunesCopy, Runes!Chosen
<1>3. copy.sub # copy.primary /\ PerkRows \subseteq Runes!Primary
  BY <1>2, RunesAssumption DEF Runes!Primary
<1>4. rows \subseteq PerkRows /\ Cardinality(rows) = 2
  <2>1. Cardinality(rows) = 2
    BY DEF Runes!Complete, Runes!Cardinality, Cardinality
  <2>2. rows \subseteq PerkRows
    BY DEF Runes!Chosen
  <2> QED BY <2>1, <2>2
<1>5. r.primary \in Styles /\ r.sub \in Allowed[r.primary]
  BY <1>1, <1>2
<1> HIDE DEF rows, r
<1>6. ASSUME NEW row \in Runes!Primary
      PROVE  (first \cup further) \cap Runes!Perks(copy.primary, row) = {copy.chosen[row]}
  <2>1. copy.chosen[row] \in (first \cup further) \cap Runes!Perks(copy.primary, row)
    BY <1>2
  <2>2. ASSUME NEW p \in first, p \in Runes!Perks(copy.primary, row) PROVE p = copy.chosen[row]
    <3>1. PICK col \in Runes!Primary : p = copy.chosen[col]
      BY <2>2
    <3>2. p \in Runes!Perks(copy.primary, col)
      BY <1>2, <3>1
    <3>3. row = col
      BY <2>2, <3>2, RunesPerk
    <3> QED BY <3>1, <3>3
  <2>3. ASSUME NEW p \in further PROVE p \notin Runes!Perks(copy.primary, row)
    <3>1. PICK col \in rows : p = copy.second[col]
      BY <2>3
    <3>2. col \in Runes!Primary /\ p \in Runes!Perks(copy.sub, col)
      BY <1>2, <1>3, <3>1
    <3> QED BY <1>3, <3>2, RunesPerk
  <2> HIDE DEF first, further
  <2> QED BY <2>1, <2>2, <2>3
<1>7. \A row \in Runes!Primary : Cardinality(r.perks \cap Runes!Perks(r.primary, row)) = 1
  BY <1>1, <1>6, FS_Singleton
<1>8. {row \in PerkRows : (first \cup further) \cap Runes!Perks(copy.sub, row) # {}} = rows
  <2>1. ASSUME NEW row \in rows PROVE copy.second[row] \in further \cap Runes!Perks(copy.sub, row)
    BY <1>2
  <2>2. ASSUME NEW row \in PerkRows, NEW p \in first \cup further, p \in Runes!Perks(copy.sub, row)
        PROVE  row \in rows
    <3>1. CASE p \in first
      <4>1. PICK col \in Runes!Primary : p = copy.chosen[col]
        BY <3>1
      <4>2. p \in Runes!Perks(copy.primary, col)
        BY <1>2, <4>1
      <4> QED BY <1>3, <2>2, <4>2, RunesPerk
    <3>2. CASE p \in further
      <4>1. PICK col \in rows : p = copy.second[col]
        BY <3>2
      <4>2. col \in Runes!Primary /\ p \in Runes!Perks(copy.sub, col)
        BY <1>2, <1>3, <4>1
      <4>3. row = col
        BY <1>3, <2>2, <4>2, RunesPerk
      <4> QED BY <4>3
    <3> QED BY <2>2, <3>1, <3>2
  <2> HIDE DEF first, further
  <2> QED BY <1>4, <2>1, <2>2
<1>9. Cardinality({row \in PerkRows : r.perks \cap Runes!Perks(r.sub, row) # {}}) = 2
  BY <1>1, <1>4, <1>8
<1>10. IsFiniteSet(Runes!Primary) /\ IsFiniteSet(rows)
  <2>1. IsFiniteSet(rows)
    BY <1>4, RunesAssumption, FS_Subset
  <2>2. IsFiniteSet({0} \cup PerkRows)
    BY RunesAssumption, FS_Singleton, FS_Union
  <2> QED BY <2>1, <2>2 DEF Runes!Primary
<1>11. IsFiniteSet(first) /\ Cardinality(first) = Cardinality(Runes!Primary)
  <2> DEFINE f == [row \in Runes!Primary |-> copy.chosen[row]]
  <2>1. \A row, col \in Runes!Primary : f[row] = f[col] => row = col
    BY <1>2, RunesPerk
  <2>2. first = {f[row] : row \in Runes!Primary}
    OBVIOUS
  <2>3. DOMAIN f = Runes!Primary /\ f = [row \in Runes!Primary |-> f[row]]
    OBVIOUS
  <2> HIDE DEF f, first
  <2> QED BY <1>10, <2>1, <2>2, <2>3, SameSize
<1>12. IsFiniteSet(further) /\ Cardinality(further) = 2
  <2> DEFINE f == [row \in rows |-> copy.second[row]]
  <2>1. \A row, col \in rows : f[row] = f[col] => row = col
    BY <1>2, <1>3, RunesPerk
  <2>2. further = {f[row] : row \in rows}
    OBVIOUS
  <2>3. DOMAIN f = rows /\ f = [row \in rows |-> f[row]]
    OBVIOUS
  <2> HIDE DEF f, further
  <2> QED BY <1>4, <1>10, <2>1, <2>2, <2>3, SameSize
<1>13. first \cap further = {}
  <2> SUFFICES ASSUME NEW row \in Runes!Primary, NEW col \in rows, copy.chosen[row] = copy.second[col]
               PROVE  FALSE
    OBVIOUS
  <2> QED BY <1>2, <1>3, RunesPerk
<1> HIDE DEF first, further
<1>14. Cardinality(r.perks) = Cardinality(Runes!Primary) + 2
  <2>1. Cardinality(first \cup further) = Cardinality(first) + Cardinality(further) - Cardinality({})
    BY <1>11, <1>12, <1>13, FS_Union
  <2>2. Cardinality({}) = 0 /\ Cardinality(Runes!Primary) \in Nat
    BY <1>10, FS_EmptySet, FS_CardinalityType
  <2> QED BY <1>1, <1>11, <1>12, <2>1, <2>2
<1> QED BY <1>5, <1>7, <1>9, <1>14 DEF RunesLegal, r

LEMMA RunesPagesInit == Runes!Init => RunesPages
<1> SUFFICES ASSUME Runes!Init PROVE RunesPages
  OBVIOUS
<1>1. PICK r \in Runes!AnyPage : runes = r /\ current = r
  BY DEF Runes!Init
<1>2. r.primary \in Styles
  BY DEF Runes!AnyPage
<1> QED BY <1>1, <1>2 DEF Runes!Init, RunesPages

(* A choice in the editor gives a copy that can be edited again.           *)
LEMMA RunesEdits ==
  ASSUME RunesPages, NEW copy, Runes!RuneChoice, Runes!Becomes(copy),
         RunesCopy(runesEditor) => RunesCopy(copy)
  PROVE  RunesPages'
<1>1. /\ runesEditor # Runes!No /\ runesEditor' = copy
      /\ UNCHANGED <<runes, current, catalogue, saving>>
  BY DEF Runes!RuneChoice, Runes!Becomes, Runes!below
<1>2. RunesCopy(runesEditor')
  BY <1>1 DEF RunesPages
<1>3. saving # Runes!No => DOMAIN saving' = {"at", "of"} /\ RunesLegal(saving.of)
  BY <1>1 DEF RunesPages
<1>4. UNCHANGED <<runes.primary, current.primary, catalogue, saving>>
  BY <1>1
<1> QED BY <1>1, <1>2, <1>3, <1>4 DEF RunesPages, Runes!No

LEMMA RunesPrimaryStyle ==
  ASSUME NEW style \in Styles, RunesCopy(runesEditor)
  PROVE  LET sub == Runes!SecondaryFor(style, runesEditor.sub)
         IN  RunesCopy([runesEditor EXCEPT
               !.primary = style, !.chosen = Runes!choicesForSlots(style, {}), !.sub = sub,
               !.second = IF sub = runesEditor.sub THEN @ ELSE Runes!initialSecondaryChoices(sub, {})])
<1> DEFINE sub == Runes!SecondaryFor(style, runesEditor.sub)
           taken == Runes!choicesForSlots(style, {})
           second == IF sub = runesEditor.sub THEN runesEditor.second
                     ELSE Runes!initialSecondaryChoices(sub, {})
           copy == [runesEditor EXCEPT !.primary = style, !.chosen = taken, !.sub = sub,
                                       !.second = second]
<1>1. sub \in Allowed[style]
  BY RunesAllows
<1>2. /\ DOMAIN taken = Runes!Primary
      /\ \A row \in Runes!Primary : taken[row] \in Runes!Perks(style, row)
  BY RunesChoices
<1>3. /\ DOMAIN second = PerkRows
      /\ \A row \in PerkRows : second[row] # Runes!None => second[row] \in Runes!Perks(sub, row)
  <2>1. CASE sub = runesEditor.sub
    BY <2>1 DEF RunesCopy
  <2>2. CASE sub # runesEditor.sub
    BY <2>2, RunesSecond
  <2> QED BY <2>1, <2>2
<1> HIDE DEF sub, taken, second
<1>4. /\ DOMAIN copy = {"at", "primary", "sub", "chosen", "second"} /\ copy.at = "editing"
      /\ copy.primary = style /\ copy.sub = sub /\ copy.chosen = taken /\ copy.second = second
  BY DEF RunesCopy
<1> HIDE DEF copy
<1>5. RunesCopy(copy)
  BY <1>1, <1>2, <1>3, <1>4 DEF RunesCopy
<1> QED BY <1>5 DEF copy, sub, taken, second

LEMMA RunesPagesNext == RunesPages /\ [Runes!Next]_(Runes!vars) => RunesPages'
<1> SUFFICES ASSUME RunesPages, [Runes!Next]_(Runes!vars) PROVE RunesPages'
  OBVIOUS
<1> USE DEF Runes!below
<1>1. ASSUME UNCHANGED <<runesEditor, saving>>,
             runes'.primary \in Styles, current'.primary \in Styles,
             catalogue' # Runes!No => catalogue'.of.primary \in Styles
      PROVE  RunesPages'
  BY <1>1 DEF RunesPages, Runes!No
<1>2. Runes!No.at = "no"
  BY DEF Runes!No
<1>3. CASE Runes!OpenEditor \/ Runes!Close \/ Runes!PagesRead
  <2>1. /\ UNCHANGED <<runes, runesEditor, saving>> /\ current' \in {runes, current}
        /\ \/ catalogue' = Runes!No
           \/ \E r \in {runes, current} : catalogue' = [at |-> "asked", of |-> r]
    BY <1>3 DEF Runes!OpenEditor, Runes!Close, Runes!PagesRead, Runes!CatalogueEffect
  <2>2. catalogue' # Runes!No => catalogue'.of \in {runes, current}
    BY <2>1
  <2> QED BY <1>1, <2>1, <2>2 DEF RunesPages
<1>4. CASE Runes!CatalogueRead
  <2>1. /\ UNCHANGED <<runes, current, saving>> /\ catalogue' = Runes!No
        /\ runesEditor' = Runes!Copy(catalogue.of) /\ catalogue # Runes!No
    BY <1>4 DEF Runes!CatalogueRead
  <2>2. RunesCopy(runesEditor')
    BY <2>1, RunesCopied DEF RunesPages
  <2> QED BY <2>1, <2>2 DEF RunesPages, Runes!No
<1>5. CASE Runes!CatalogueFails
  BY <1>1, <1>5 DEF Runes!CatalogueFails, RunesPages
<1>6. ASSUME NEW r \in Runes!AnyPage, Runes!LeagueChanges(r) PROVE RunesPages'
  <2>1. r.primary \in Styles
    BY DEF Runes!AnyPage
  <2>2. runes' = r /\ UNCHANGED <<current, catalogue, runesEditor, saving>>
    BY <1>6 DEF Runes!LeagueChanges
  <2> QED BY <1>1, <2>1, <2>2 DEF RunesPages
<1>7. ASSUME NEW style \in Styles, Runes!choosePrimaryStyle(style) PROVE RunesPages'
  BY <1>7, RunesPrimaryStyle, RunesEdits DEF Runes!choosePrimaryStyle
<1>8. ASSUME NEW style \in Styles, Runes!chooseSecondaryStyle(style) PROVE RunesPages'
  <2> DEFINE second == Runes!initialSecondaryChoices(style, {})
             copy == [runesEditor EXCEPT !.sub = style, !.second = second]
  <2>1. Runes!RuneChoice /\ style \in Allowed[runesEditor.primary] /\ Runes!Becomes(copy)
    BY <1>8 DEF Runes!chooseSecondaryStyle
  <2>2. /\ DOMAIN second = PerkRows
        /\ \A row \in PerkRows : second[row] # Runes!None => second[row] \in Runes!Perks(style, row)
    BY RunesSecond
  <2> HIDE DEF second
  <2>3. ASSUME RunesCopy(runesEditor) PROVE RunesCopy(copy)
    <3>1. /\ DOMAIN copy = {"at", "primary", "sub", "chosen", "second"} /\ copy.at = "editing"
          /\ copy.primary = runesEditor.primary /\ copy.sub = style
          /\ copy.chosen = runesEditor.chosen /\ copy.second = second
      BY <2>3 DEF RunesCopy
    <3> HIDE DEF copy
    <3> QED BY <2>1, <2>2, <2>3, <3>1 DEF RunesCopy
  <2> HIDE DEF copy
  <2> QED BY <2>1, <2>3, RunesEdits
<1>9. ASSUME NEW row \in Runes!Primary, NEW p, Runes!PrimaryRow(row, p) PROVE RunesPages'
  <2> DEFINE copy == [runesEditor EXCEPT !.chosen[row] = p]
  <2>1. Runes!RuneChoice /\ p \in Runes!Perks(runesEditor.primary, row) /\ Runes!Becomes(copy)
    BY <1>9 DEF Runes!PrimaryRow
  <2>2. ASSUME RunesCopy(runesEditor) PROVE RunesCopy(copy)
    <3>1. /\ DOMAIN copy = {"at", "primary", "sub", "chosen", "second"} /\ copy.at = "editing"
          /\ copy.primary = runesEditor.primary /\ copy.sub = runesEditor.sub
          /\ copy.chosen = [runesEditor.chosen EXCEPT ![row] = p] /\ copy.second = runesEditor.second
      BY <2>2 DEF RunesCopy
    <3> HIDE DEF copy
    <3> QED BY <2>1, <2>2, <3>1 DEF RunesCopy
  <2> HIDE DEF copy
  <2> QED BY <2>1, <2>2, RunesEdits
<1>10. ASSUME NEW row \in PerkRows, NEW p, Runes!chooseSecondaryPerk(row, p) PROVE RunesPages'
  <2>1. PICK gone :
          Runes!Becomes([runesEditor EXCEPT !.second =
            [r \in PerkRows |-> IF r = row THEN (IF @[r] = p THEN Runes!None ELSE p)
                            ELSE IF r \in gone THEN Runes!None ELSE @[r]]])
    BY <1>10 DEF Runes!chooseSecondaryPerk
  <2> DEFINE second == [r \in PerkRows |->
                          IF r = row THEN (IF runesEditor.second[r] = p THEN Runes!None ELSE p)
                          ELSE IF r \in gone THEN Runes!None ELSE runesEditor.second[r]]
             copy == [runesEditor EXCEPT !.second = second]
  <2>2. Runes!RuneChoice /\ p \in Runes!Perks(runesEditor.sub, row)
    BY <1>10 DEF Runes!chooseSecondaryPerk
  <2>3. Runes!Becomes(copy)
    BY <2>1
  <2>4. ASSUME RunesCopy(runesEditor) PROVE RunesCopy(copy)
    <3>1. /\ DOMAIN second = PerkRows
          /\ \A r \in PerkRows : second[r] # Runes!None => second[r] \in Runes!Perks(runesEditor.sub, r)
      BY <2>2, <2>4 DEF RunesCopy
    <3> HIDE DEF second
    <3>2. /\ DOMAIN copy = {"at", "primary", "sub", "chosen", "second"} /\ copy.at = "editing"
          /\ copy.primary = runesEditor.primary /\ copy.sub = runesEditor.sub
          /\ copy.chosen = runesEditor.chosen /\ copy.second = second
      BY <2>4 DEF RunesCopy
    <3> HIDE DEF copy
    <3> QED BY <2>4, <3>1, <3>2 DEF RunesCopy
  <2> HIDE DEF copy
  <2> QED BY <2>2, <2>3, <2>4, RunesEdits
<1>11. CASE Runes!save
  <2>1. /\ Runes!Complete(runesEditor) /\ saving' = [at |-> "sent", of |-> Runes!Page(runesEditor)]
        /\ runesEditor # Runes!No /\ UNCHANGED <<runes, current, catalogue, runesEditor>>
    BY <1>11 DEF Runes!save, Runes!RuneChoice
  <2>2. RunesLegal(Runes!Page(runesEditor))
    BY <2>1, RunesPageLegal DEF RunesPages
  <2>3. DOMAIN saving' = {"at", "of"} /\ saving'.of = Runes!Page(runesEditor)
    BY <2>1
  <2>4. RunesLegal(saving'.of)
    BY <2>2, <2>3
  <2> QED BY <2>1, <2>3, <2>4 DEF RunesPages, Runes!No
<1>12. CASE Runes!SaveArrives
  <2>1. /\ saving.at = "sent" /\ runes' = saving.of /\ saving' = [saving EXCEPT !.at = "stored"]
        /\ UNCHANGED <<current, catalogue, runesEditor>>
    BY <1>12 DEF Runes!SaveArrives
  <2>2. DOMAIN saving = {"at", "of"} /\ RunesLegal(saving.of)
    BY <1>2, <2>1 DEF RunesPages
  <2>3. DOMAIN saving' = {"at", "of"} /\ saving'.of = saving.of
    BY <2>1, <2>2
  <2>4. RunesLegal(saving'.of)
    BY <2>2, <2>3
  <2>5. runes'.primary \in Styles
    BY <2>1, <2>2 DEF RunesLegal
  <2> QED BY <2>1, <2>3, <2>4, <2>5 DEF RunesPages, Runes!No
<1>13. CASE Runes!Saved
  <2>1. /\ saving.at = "stored" /\ saving' = Runes!No /\ catalogue' = Runes!No /\ current' = saving.of
        /\ UNCHANGED <<runes, runesEditor>>
    BY <1>13 DEF Runes!Saved, Runes!CatalogueEffect
  <2>2. saving.of.primary \in Styles
    BY <1>2, <2>1 DEF RunesPages, RunesLegal
  <2> QED BY <2>1, <2>2 DEF RunesPages, Runes!No
<1>14. CASE Runes!SaveFails
  BY <1>14 DEF Runes!SaveFails, RunesPages, Runes!No
<1>15. CASE UNCHANGED Runes!vars
  BY <1>1, <1>15 DEF Runes!vars, RunesPages
<1> QED
  BY <1>3, <1>4, <1>5, <1>6, <1>7, <1>8, <1>9, <1>10, <1>11, <1>12, <1>13, <1>14, <1>15
  DEF Runes!Next

(* What is sent is a page that League can hold.                            *)
LEMMA RunesSendsLegal == RunesPages => Runes!PageIsLegal
<1>1. ASSUME NEW S PROVE Runes!Cardinality(S) = Cardinality(S)
  BY DEF Runes!Cardinality, Cardinality
<1> QED BY <1>1 DEF RunesPages, RunesLegal, Runes!PageIsLegal

-----------------------------------------------------------------------------
(* Champion select: ChampSelectWorkspace.                                  *)

(* The view on show is of this draft or an earlier, and not ahead of it;   *)
(* so is what was sent from it.  Bravery is shown where it was chosen.     *)
DraftInv ==
  /\ DOMAIN draft = {"game", "phase", "over", "intent"} /\ draft.game \in Nat /\ draft.over \in Nat
  /\ session # Draft!NoSession =>
       /\ session.game \in Nat /\ session.game <= draft.game /\ session.over \in Nat
       /\ session.game = draft.game => session.over <= draft.over
  /\ \A r \in requests :
       /\ r.game \in Nat /\ r.game <= draft.game
       /\ r.lock /\ r.game = draft.game => r.id \in Nat /\ r.id <= draft.over + 1
  /\ braverySessionKey = session.game
  /\ braverySelected => braverySessionKey \in braved

LEMMA DraftInvInit == Draft!Init => DraftInv
<1> SUFFICES ASSUME Draft!Init PROVE DraftInv
  OBVIOUS
<1>1. Draft!NoSession.game = 0
  BY DEF Draft!NoSession
<1>2. /\ draft = [game |-> 1, phase |-> "PLANNING", over |-> 0, intent |-> Draft!NoChampion]
      /\ session = Draft!NoSession /\ requests = {} /\ braverySelected = FALSE /\ braverySessionKey = 0
  BY DEF Draft!Init, Draft!NewDraft
<1>3. DOMAIN draft = {"game", "phase", "over", "intent"} /\ draft.game = 1 /\ draft.over = 0
  BY <1>2
<1> QED BY <1>1, <1>2, <1>3 DEF DraftInv

(* A request joins those on the way.                                       *)
LEMMA DraftRuns ==
  ASSUME DraftInv, NEW key, NEW id, NEW champion, NEW lock,
         Draft!runAction(key, [id |-> id, champion |-> champion, lock |-> lock, game |-> session.game]),
         UNCHANGED <<draft, session, braverySessionKey>>,
         session # Draft!NoSession,
         lock /\ session.game = draft.game => id \in Nat /\ id <= draft.over + 1,
         braved \subseteq braved', braverySelected' => braverySessionKey \in braved'
  PROVE  DraftInv'
<1> DEFINE r == [id |-> id, champion |-> champion, lock |-> lock, game |-> session.game]
<1>1. requests' = requests \cup {r}
  BY DEF Draft!runAction
<1>2. r.game = session.game /\ r.lock = lock /\ r.id = id
  OBVIOUS
<1> HIDE DEF r
<1>3. r.game \in Nat /\ r.game <= draft.game
  BY <1>2 DEF DraftInv
<1>4. r.lock /\ r.game = draft.game => r.id \in Nat /\ r.id <= draft.over + 1
  BY <1>2
<1> QED BY <1>1, <1>3, <1>4 DEF DraftInv

LEMMA DraftInvNext == DraftInv /\ [Draft!Next]_(Draft!vars) => DraftInv'
<1> SUFFICES ASSUME DraftInv, [Draft!Next]_(Draft!vars) PROVE DraftInv'
  OBVIOUS
<1> USE DEF Draft!flags
<1>0. Draft!NoSession.game = 0
  BY DEF Draft!NoSession
<1>1. CASE Draft!refresh
  <2>1. /\ UNCHANGED <<draft, requests, braved>>
        /\ \/ Draft!Render(Draft!NoSession)
           \/ \E raw \in Draft!Views : Draft!Render(Draft!normalizeChampSelectSession(raw))
    BY <1>1 DEF Draft!refresh
  <2>2. CASE Draft!Render(Draft!NoSession)
    <3>1. /\ session' = Draft!NoSession /\ braverySessionKey' = 0
          /\ braverySelected' => braverySelected /\ braverySessionKey = 0
      BY <1>0, <2>2 DEF Draft!Render, Draft!Bravery
    <3> QED BY <1>0, <2>1, <3>1 DEF DraftInv
  <2>3. ASSUME NEW raw \in Draft!Views, Draft!Render(Draft!normalizeChampSelectSession(raw))
        PROVE  DraftInv'
    <3> DEFINE s == Draft!normalizeChampSelectSession(raw)
    <3>1. /\ DOMAIN raw = {"game", "phase", "over", "intent"} /\ raw.game \in 1 .. draft.game
          /\ raw.over \in 0 .. 3
          /\ raw.game = draft.game => raw.over <= draft.over
          /\ raw.intent = Draft!ARENA_BRAVERY_CHAMPION_ID => raw.game \in braved
      BY DEF Draft!Views
    <3>2. s.game = raw.game /\ s.over = raw.over /\ s.intent = raw.intent
      BY <3>1 DEF Draft!normalizeChampSelectSession
    <3>3. session' = s /\ braverySessionKey' = s.game /\ braverySelected' = Draft!Bravery(s)
      BY <2>3 DEF Draft!Render
    <3> HIDE DEF s
    <3>4. braverySelected' => s.game \in braved
      BY <3>1, <3>2, <3>3 DEF Draft!Bravery, DraftInv
    <3>5. draft.game \in Nat /\ s.game \in Nat /\ s.game <= draft.game /\ s.over \in Nat
      BY <3>1, <3>2 DEF DraftInv
    <3> QED BY <2>1, <3>1, <3>2, <3>3, <3>4, <3>5 DEF DraftInv
  <2> QED BY <2>1, <2>2, <2>3
<1>2. CASE Draft!chooseChampion
  <2>1. session # Draft!NoSession
    BY <1>2 DEF Draft!chooseChampion, Draft!canChooseChampion, Draft!isLocalTurn
  <2>2. Draft!runAction("champion", [id |-> Draft!pending(session), champion |-> Draft!Champion,
                                     lock |-> FALSE, game |-> session.game])
    BY <1>2 DEF Draft!chooseChampion, Draft!Submit
  <2>3. UNCHANGED <<draft, session, braverySelected, braverySessionKey, braved>>
    BY <1>2 DEF Draft!chooseChampion
  <2>4. braverySelected' => braverySessionKey \in braved'
    BY <2>3 DEF DraftInv
  <2> QED BY <2>1, <2>2, <2>3, <2>4, DraftRuns
<1>3. CASE Draft!chooseBravery
  <2>1. session # Draft!NoSession
    BY <1>3 DEF Draft!chooseBravery, Draft!braveryAvailable, Draft!canChooseChampion, Draft!isLocalTurn
  <2>2. Draft!runAction("bravery", [id |-> Draft!pending(session),
                                    champion |-> Draft!ARENA_BRAVERY_CHAMPION_ID,
                                    lock |-> FALSE, game |-> session.game])
    BY <1>3 DEF Draft!chooseBravery, Draft!Submit
  <2>3. UNCHANGED <<draft, session, braverySessionKey>> /\ braved' = braved \cup {session.game}
    BY <1>3 DEF Draft!chooseBravery
  <2>4. braverySessionKey \in braved'
    BY <2>3 DEF DraftInv
  <2> QED BY <2>1, <2>2, <2>3, <2>4, DraftRuns
<1>4. CASE Draft!lockChampion
  <2>1. session # Draft!NoSession /\ Draft!liveLocalChampSelectAction(session) # 0
    BY <1>4 DEF Draft!lockChampion, Draft!canControlAction, Draft!isLocalTurn
  <2>2. Draft!runAction("lock-champion", [id |-> Draft!pending(session), champion |-> draftSelectedChampion,
                                          lock |-> TRUE, game |-> session.game])
    BY <1>4 DEF Draft!lockChampion, Draft!Submit
  <2>3. UNCHANGED <<draft, session, braverySelected, braverySessionKey, braved>>
    BY <1>4 DEF Draft!lockChampion
  <2>4. Draft!pending(session) = session.over + 1
    BY <2>1 DEF Draft!pending, Draft!liveLocalChampSelectAction, Draft!Turn
  <2>5. session.game = draft.game =>
          Draft!pending(session) \in Nat /\ Draft!pending(session) <= draft.over + 1
    BY <2>1, <2>4 DEF DraftInv
  <2>6. braverySelected' => braverySessionKey \in braved'
    BY <2>3 DEF DraftInv
  <2> QED BY <2>1, <2>2, <2>3, <2>5, <2>6, DraftRuns
<1>5. CASE Draft!Tool
  <2>1. /\ session # Draft!NoSession
        /\ Draft!runAction("tool", [id |-> 0, champion |-> Draft!NoChampion, lock |-> FALSE,
                                    game |-> session.game])
        /\ UNCHANGED <<draft, session, braverySelected, braverySessionKey, braved>>
    BY <1>5 DEF Draft!Tool
  <2>2. braverySelected' => braverySessionKey \in braved'
    BY <2>1 DEF DraftInv
  <2> QED BY <2>1, <2>2, DraftRuns
<1>6. ASSUME NEW r \in requests, Draft!ActionEnds(r) PROVE DraftInv'
  <2>1. requests' \subseteq requests /\ UNCHANGED <<session, braverySelected, braverySessionKey>>
    BY <1>6 DEF Draft!ActionEnds
  <2>2. braved \subseteq braved'
    BY <1>6 DEF Draft!ActionEnds
  <2>3. CASE UNCHANGED draft
    BY <2>1, <2>2, <2>3 DEF DraftInv
  <2>4. CASE Draft!Accepts(r) /\ draft' = [draft EXCEPT !.intent = IF r.id = 3 THEN r.champion ELSE @,
                                                        !.over = IF r.lock THEN r.id ELSE @]
    <3>1. r.id \in Nat /\ r.id > draft.over
      BY <2>4 DEF Draft!Accepts, Draft!Local
    <3>2. DOMAIN draft' = {"game", "phase", "over", "intent"} /\ draft'.game = draft.game
      BY <2>4 DEF DraftInv
    <3>3. draft'.over = IF r.lock THEN r.id ELSE draft.over
      BY <2>4 DEF DraftInv
    <3>4. draft'.over \in Nat /\ draft'.over >= draft.over
      BY <3>1, <3>3 DEF DraftInv
    <3> QED BY <2>1, <2>2, <3>2, <3>4 DEF DraftInv
  <2> QED BY <1>6, <2>3, <2>4 DEF Draft!ActionEnds
<1>7. CASE Draft!LeagueMoves
  <2>1. UNCHANGED <<session, requests, braverySelected, braverySessionKey, braved>>
    BY <1>7 DEF Draft!LeagueMoves
  <2>2. CASE /\ DOMAIN draft' = {"game", "phase", "over", "intent"} /\ draft'.game = draft.game
             /\ draft'.over \in {draft.over, draft.over + 1}
    BY <2>1, <2>2 DEF DraftInv
  <2>3. CASE draft' = Draft!NewDraft(draft.game + 1)
    <3>1. /\ DOMAIN draft' = {"game", "phase", "over", "intent"} /\ draft'.game = draft.game + 1
          /\ draft'.over = 0
      BY <2>3 DEF Draft!NewDraft
    <3> QED BY <2>1, <3>1 DEF DraftInv
  <2>4. DOMAIN draft = {"game", "phase", "over", "intent"}
    BY DEF DraftInv
  <2> QED BY <1>7, <2>2, <2>3, <2>4 DEF Draft!LeagueMoves
<1>8. CASE UNCHANGED Draft!vars
  BY <1>8 DEF Draft!vars, DraftInv
<1> QED
  BY <1>1, <1>2, <1>3, <1>4, <1>5, <1>6, <1>7, <1>8 DEF Draft!Next

LEMMA DraftBelongs == DraftInv => Draft!LocksInTurn /\ Draft!BraveryOfThisDraft
  BY DEF DraftInv, Draft!LocksInTurn, Draft!BraveryOfThisDraft, Draft!Turn

-----------------------------------------------------------------------------
(* The live session: LiveSessionPage.                                      *)

(* Unless one runs on beside which another ended, a request that runs has  *)
(* the page say that one does, and a ready check has one answer.           *)
LiveOverview == [n : Nat, is : Live!Phases \cup {"off", "client"}, session : BOOLEAN]
LiveKeys == {"launch", "quit-custom", "stop", "accept", "decline", "again", "refresh"}

(* Unless one was left running, the buttons of a ready check are off.      *)
LiveButtons ==
  /\ running \subseteq LiveKeys
  /\ ~besides =>
       /\ running # {} => action # ""
       /\ ~("accept" \in running /\ "decline" \in running)

LiveInv ==
  (* Reads come one at a time, and are not older than what is shown.       *)
  /\ liveLeague.n \in Nat /\ liveLeague.is \in Live!Phases \cup {"off", "client"}
  /\ overview \in LiveOverview /\ overview.n <= liveLeague.n
  /\ liveReads \subseteq LiveOverview
  /\ \A o \in liveReads : overview.n <= o.n /\ o.n <= liveLeague.n
  /\ \A o, p \in liveReads : o = p
  /\ ~inFlight => liveReads = {}
  (* A phase that was active is remembered.                                *)
  /\ Live!isActiveLivePhase(livePhase) => Live!isActiveLivePhase(lastActivePhase)
  /\ LiveButtons

LEMMA LiveInvInit == Live!Init => LiveInv
<1> SUFFICES ASSUME Live!Init PROVE LiveInv
  OBVIOUS
<1>1. liveLeague.n = 1 /\ liveLeague.is = "off" /\ overview = Live!NoOverview /\ liveReads = {}
      /\ livePhase = "IDLE" /\ lastActivePhase = "IDLE" /\ running = {}
  BY DEF Live!Init
<1>2. Live!NoOverview \in LiveOverview /\ Live!NoOverview.n = 0
  BY DEF LiveOverview, Live!NoOverview
<1>3. LiveButtons
  BY <1>1 DEF LiveButtons
<1> QED BY <1>1, <1>2, <1>3 DEF LiveInv

LEMMA LiveInvNext == LiveInv /\ [Live!Next]_(Live!vars) => LiveInv'
<1> SUFFICES ASSUME LiveInv, [Live!Next]_(Live!vars) PROVE LiveInv'
  OBVIOUS
<1> USE DEF LiveInv, Live!feed, Live!buttons
<1>1. CASE Live!LeagueMoves
  <2>1. LiveButtons'
    BY <1>1 DEF Live!LeagueMoves, LiveButtons
  <2> QED BY <1>1, <2>1 DEF Live!LeagueMoves, LiveOverview
<1>2. CASE Live!refresh
  <2>1. LiveButtons'
    BY <1>2 DEF Live!refresh, LiveButtons
  <2> QED BY <1>2, <2>1 DEF Live!refresh, Live!Ask, LiveOverview
<1>3. ASSUME NEW o \in liveReads, Live!OverviewRead(o) PROVE LiveInv'
  <2>1. liveReads' = {} /\ inFlight' = FALSE /\ UNCHANGED <<liveLeague, action, running, besides>>
    BY <1>3 DEF Live!OverviewRead
  <2>2. overview' \in {o, overview}
    BY <1>3 DEF Live!OverviewRead, Live!Render
  <2>3. Live!isActiveLivePhase(livePhase') => Live!isActiveLivePhase(lastActivePhase')
    BY <1>3 DEF Live!OverviewRead, Live!Render
  <2> QED BY <2>1, <2>2, <2>3 DEF LiveButtons
<1>4. ASSUME NEW key \in Live!Keys(livePhase), Live!run(key) PROVE LiveInv'
  <2>1. key \in LiveKeys /\ key # ""
    BY DEF LiveKeys, Live!Keys, Live!IdleCockpit, Live!QueuePanel, Live!ReadyCard,
           Live!ChampSelectPanel, Live!GamePanel
  <2>2. running' = running \cup {key} /\ action' = key /\ UNCHANGED besides
        /\ (key \in Live!ReadyCard => action = "")
    BY <1>4 DEF Live!run, Live!Enabled
  <2>3. UNCHANGED <<liveLeague, overview, liveReads, inFlight, livePhase, lastActivePhase>>
    BY <1>4 DEF Live!run
  <2>4. CASE besides
    BY <2>1, <2>2, <2>3, <2>4 DEF LiveButtons
  <2>5. CASE ~besides /\ key \in Live!ReadyCard
    BY <2>1, <2>2, <2>3, <2>5 DEF LiveButtons
  <2>6. CASE ~besides /\ key \notin {"accept", "decline"}
    BY <2>1, <2>2, <2>3, <2>6 DEF LiveButtons
  <2> QED BY <2>4, <2>5, <2>6 DEF Live!ReadyCard
<1>5. ASSUME NEW key \in running, Live!RunEnds(key) PROVE LiveInv'
  BY <1>5 DEF Live!RunEnds, LiveButtons
<1>6. CASE UNCHANGED Live!vars
  BY <1>6 DEF Live!vars, LiveButtons
<1> QED BY <1>1, <1>2, <1>3, <1>4, <1>5, <1>6 DEF Live!Next

LEMMA LiveOne == LiveInv => Live!OneAnswer
  BY DEF LiveInv, LiveButtons, Live!OneAnswer

LEMMA LiveForward == LiveInv /\ [Live!Next]_(Live!vars) => overview'.n >= overview.n
<1> SUFFICES ASSUME LiveInv, [Live!Next]_(Live!vars) PROVE overview'.n >= overview.n
  OBVIOUS
<1>1. ASSUME NEW o \in liveReads, Live!OverviewRead(o) PROVE overview'.n >= overview.n
  <2>1. overview' \in {o, overview}
    BY <1>1 DEF Live!OverviewRead, Live!Render
  <2> QED BY <2>1 DEF LiveInv, LiveOverview
<1>2. CASE UNCHANGED overview
  BY <1>2 DEF LiveInv, LiveOverview
<1> QED
  BY <1>1, <1>2 DEF Live!Next, Live!vars, Live!LeagueMoves, Live!refresh, Live!run, Live!RunEnds,
                    Live!feed

(* The phase of a step.                                                    *)
LEMMA LivePhaseKept ==
  LiveInv /\ [Live!Next]_(Live!vars) =>
    (Live!isActiveLivePhase(livePhase) /\ ~Live!isActiveLivePhase(livePhase')
       => ~stale' /\ overview'.is \in {"client", "Lobby"})
<1> SUFFICES ASSUME LiveInv, [Live!Next]_(Live!vars), Live!isActiveLivePhase(livePhase),
                    ~Live!isActiveLivePhase(livePhase')
             PROVE  ~stale' /\ overview'.is \in {"client", "Lobby"}
  OBVIOUS
<1>1. livePhase' # livePhase
  OBVIOUS
<1>2. PICK o \in liveReads : Live!OverviewRead(o)
  BY <1>1 DEF Live!Next, Live!vars, Live!LeagueMoves, Live!refresh, Live!run, Live!RunEnds,
              Live!feed
<1>3. PICK p \in {o, overview}, old \in BOOLEAN :
        /\ overview' = p /\ stale' = old /\ livePhase' = Live!PhaseShown(p, old)
        /\ p = o /\ ~old => o.is # "off"
        /\ p # o => old
  <2>1. CASE Live!Render(o, o.is = "off")
    BY <2>1 DEF Live!Render
  <2>2. CASE Live!Render(overview, TRUE)
    BY <2>2 DEF Live!Render
  <2> QED BY <1>2, <2>1, <2>2 DEF Live!OverviewRead
<1>4. ~old /\ Live!normalizeLivePhase(p) = "IDLE"
  BY <1>3 DEF Live!PhaseShown, LiveInv, Live!isActiveLivePhase
<1>5. p \in LiveOverview
  BY DEF LiveInv
<1>6. p.is \in {"off", "client", "Lobby"}
  BY <1>4, <1>5 DEF Live!normalizeLivePhase, LiveOverview, Live!Phases
<1> QED BY <1>3, <1>4, <1>6

-----------------------------------------------------------------------------
(* The control room: ClientControlRoom.                                    *)

(* The control room's request, and how far RiftOps' presets are ahead of   *)
(* those on show: by the profile whose save was done and not yet answered. *)
RoomCalls ==
  roomCall = Room!No \/
    /\ DOMAIN roomCall = {"op", "at", "queue", "roles", "lobby"} /\ roomCall.queue \in Queues
    /\ roomCall.at \in {"save", "send", "roles", "done"}
    /\ roomCall.at \in {"save", "done"} => roomCall.op = "profile"
    /\ roomCall.at = "roles" => roomCall.op \in {"profile", "start"}
    /\ roomCall.at = "send" => roomCall.op # "profile"

RoomAhead == roomCall.at \in {"roles", "done"} /\ roomCall.op = "profile"

RoomPresets ==
  /\ queue \in Queues /\ DOMAIN saved = Queues
  /\ roomPresets # Room!No =>
       roomPresetRead = Room!No /\ DOMAIN roomPresets = {"at", "of"} /\ DOMAIN roomPresets.of = Queues
  /\ roomPresetRead # Room!No /\ roomPresetRead.at = "read" => DOMAIN roomPresetRead.of = Queues
  /\ roomPresets # Room!No /\ ~roomCrossed =>
       saved = IF RoomAhead THEN [roomPresets.of EXCEPT ![roomCall.queue] = roomCall.roles]
               ELSE roomPresets.of

RoomInv == RoomCalls /\ RoomPresets /\ Room!EditStays

LEMMA RoomInvInit == Room!Init => RoomInv
<1> SUFFICES ASSUME Room!Init PROVE RoomInv
  OBVIOUS
<1>1. /\ queue \in Queues /\ saved \in [Queues -> Roles \cup {""}] /\ rolesDirty = FALSE
      /\ roomPresets = Room!No /\ roomPresetRead = Room!Asked /\ roomCall = Room!No
  BY DEF Room!Init
<1>2. Room!Asked.at = "asked"
  BY DEF Room!Asked
<1> QED BY <1>1, <1>2 DEF RoomInv, RoomCalls, RoomPresets, Room!EditStays

(* A request is sent for the queue on show, and saves a preset first if    *)
(* it is for a profile.                                                    *)
LEMMA RoomSends ==
  ASSUME RoomInv, NEW op, NEW at, Room!Sends(op, at), roomCall = Room!No,
         at \in {"save", "send", "roles"}, at = "save" <=> op = "profile",
         at = "roles" => op = "start"
  PROVE  RoomInv'
<1>1. /\ roomCall' = [op |-> op, at |-> at, queue |-> queue, roles |-> roles,
                      lobby |-> roomState.phase = "Lobby"]
      /\ UNCHANGED <<queue, roles, rolesDirty, edited, saved, roomPresets, roomPresetRead, roomCrossed>>
  BY DEF Room!Sends, Room!choiceVars, Room!presetVars
<1>2. /\ DOMAIN roomCall' = {"op", "at", "queue", "roles", "lobby"} /\ roomCall'.queue = queue
      /\ roomCall'.at = at /\ roomCall'.op = op
  BY <1>1
<1>3. RoomCalls'
  BY <1>2 DEF RoomInv, RoomPresets, RoomCalls
<1>4. ~RoomAhead
  BY DEF RoomAhead, Room!No
<1>5. ~RoomAhead'
  BY <1>2 DEF RoomAhead
<1>6. RoomPresets'
  BY <1>1, <1>4, <1>5 DEF RoomInv, RoomPresets, Room!No
<1> QED BY <1>1, <1>3, <1>6 DEF RoomInv, Room!EditStays

(* A step of the request leaves its queue and its kind.                    *)
LEMMA RoomGoesOn ==
  ASSUME RoomCalls, roomCall # Room!No, NEW to, roomCall' = [roomCall EXCEPT !.at = to]
  PROVE  /\ DOMAIN roomCall' = {"op", "at", "queue", "roles", "lobby"} /\ roomCall'.at = to
         /\ roomCall'.op = roomCall.op /\ roomCall'.queue = roomCall.queue
         /\ roomCall'.roles = roomCall.roles
  BY DEF RoomCalls

LEMMA RoomInvNext == RoomInv /\ [Room!Next]_(Room!vars) => RoomInv'
<1> SUFFICES ASSUME RoomInv, [Room!Next]_(Room!vars) PROVE RoomInv'
  OBVIOUS
<1> USE DEF Room!choiceVars, Room!presetVars
<1>a. /\ Room!No.at = "no" /\ Room!Asked # Room!No /\ Room!Asked.at = "asked"
      /\ DOMAIN Room!No = {"at"}
  BY DEF Room!No, Room!Asked
<1>b. UNCHANGED <<roomCall, saved, queue, roomPresets, roomPresetRead, roomCrossed>> => (RoomCalls /\ RoomPresets)'
  <2> SUFFICES ASSUME UNCHANGED <<roomCall, saved, queue, roomPresets, roomPresetRead, roomCrossed>>
               PROVE  (RoomCalls /\ RoomPresets)'
    OBVIOUS
  <2> QED BY DEF RoomInv, RoomCalls, RoomPresets, RoomAhead, Room!No
<1>1. CASE Room!LeagueMoves
  BY <1>1, <1>b DEF Room!LeagueMoves, RoomInv, Room!EditStays
<1>2. CASE Room!StateShown
  BY <1>2, <1>b DEF Room!StateShown, Room!RolesEffect, RoomInv, Room!EditStays
<1>3. CASE Room!PresetsRead
  <2>1. /\ roomPresetRead = Room!Asked /\ roomPresetRead' = [at |-> "read", of |-> saved]
        /\ UNCHANGED <<queue, saved, roomPresets, roomCall, roomCrossed, rolesDirty, roles, edited>>
    BY <1>3 DEF Room!PresetsRead
  <2>2. roomPresets = Room!No
    BY <1>a, <2>1 DEF RoomInv, RoomPresets
  <2>3. RoomPresets'
    BY <2>1, <2>2 DEF RoomInv, RoomPresets, Room!No
  <2> QED BY <2>1, <2>3 DEF RoomInv, RoomCalls, Room!EditStays, Room!No
<1>4. CASE Room!PresetsShown
  <2>1. /\ roomPresetRead # Room!No /\ roomPresetRead' = Room!No
        /\ UNCHANGED <<queue, saved, roomCall, rolesDirty, edited>>
    BY <1>4 DEF Room!PresetsShown
  <2>2. DOMAIN roomPresets' = {"at", "of"} /\ DOMAIN roomPresets'.of = Queues
    <3>1. CASE roomPresetRead.at = "read" /\ roomPresets' = [at |-> "shown", of |-> roomPresetRead.of]
      <4>1. DOMAIN roomPresetRead.of = Queues
        BY <2>1, <3>1 DEF RoomInv, RoomPresets
      <4> QED BY <3>1, <4>1
    <3>2. CASE roomPresets' = [at |-> "shown", of |-> [q \in Queues |-> ""]]
      BY <3>2
    <3> QED BY <1>4, <3>1, <3>2 DEF Room!PresetsShown
  <2>3. ~roomCrossed' => ~rolesDirty /\ roomCall = Room!No /\ roomPresets'.of = saved
    BY <1>4 DEF Room!PresetsShown
  <2>4. ~roomCrossed' => ~RoomAhead'
    BY <1>a, <2>1, <2>3 DEF RoomAhead
  <2>5. RoomPresets'
    BY <2>1, <2>2, <2>3, <2>4 DEF RoomInv, RoomPresets, Room!No
  <2> QED BY <2>1, <2>3, <2>5 DEF RoomInv, RoomCalls, Room!EditStays, Room!No
<1>5. ASSUME NEW q \in Queues, Room!ChooseQueue(q) PROVE RoomInv'
  <2>1. /\ queue' = q /\ rolesDirty' = FALSE
        /\ UNCHANGED <<saved, roomPresets, roomPresetRead, roomCall, roomCrossed>>
    BY <1>5 DEF Room!ChooseQueue
  <2>2. RoomPresets'
    BY <2>1 DEF RoomInv, RoomPresets, RoomAhead, Room!No
  <2> QED BY <2>1, <2>2 DEF RoomInv, RoomCalls, Room!EditStays, Room!No
<1>6. ASSUME NEW r \in Roles, Room!EditRoles(r) PROVE RoomInv'
  BY <1>6, <1>b DEF Room!EditRoles, RoomInv, Room!EditStays
<1>7. CASE Room!applyQueueProfile
  BY <1>7, RoomSends DEF Room!applyQueueProfile, Room!Free
<1>8. CASE Room!runPrimary
  <2>1. Room!primaryAction \in {"start", "stop", "accept", "again", "refresh"}
    BY DEF Room!primaryAction
  <2> QED BY <1>8, <2>1, RoomSends DEF Room!runPrimary, Room!Free
<1>9. CASE Room!claimRewards
  BY <1>9, RoomSends DEF Room!claimRewards, Room!Free
<1>10. CASE Room!PresetSaved
  <2>1. /\ roomCall.at = "save" /\ saved' = [saved EXCEPT ![roomCall.queue] = roomCall.roles]
        /\ roomCall' = [roomCall EXCEPT !.at = IF roomCall.lobby THEN "roles" ELSE "done"]
        /\ UNCHANGED <<queue, roomPresets, roomPresetRead, roomCrossed, rolesDirty, roles, edited>>
    BY <1>10 DEF Room!PresetSaved
  <2>2. roomCall # Room!No /\ roomCall.op = "profile"
    BY <1>a, <2>1 DEF RoomInv, RoomCalls
  <2>3. /\ DOMAIN roomCall' = {"op", "at", "queue", "roles", "lobby"}
        /\ roomCall'.at \in {"roles", "done"}
        /\ roomCall'.op = "profile" /\ roomCall'.queue = roomCall.queue
        /\ roomCall'.roles = roomCall.roles
    BY <2>1, <2>2, RoomGoesOn DEF RoomInv
  <2>4. RoomCalls'
    BY <2>2, <2>3 DEF RoomInv, RoomCalls
  <2>5. ~RoomAhead /\ RoomAhead'
    BY <2>1, <2>3 DEF RoomAhead
  <2>6. RoomPresets'
    BY <2>1, <2>3, <2>5 DEF RoomInv, RoomPresets, Room!No
  <2> QED BY <2>1, <2>4, <2>6 DEF RoomInv, Room!EditStays
<1>11. CASE Room!RolesSet
  <2>1. /\ roomCall.at = "roles"
        /\ roomCall' = [roomCall EXCEPT !.at = IF roomCall.op = "start" THEN "send" ELSE "done"]
        /\ UNCHANGED <<queue, saved, roomPresets, roomPresetRead, roomCrossed, edited>>
        /\ rolesDirty' = FALSE \/ UNCHANGED <<rolesDirty, roles>>
    BY <1>11 DEF Room!RolesSet
  <2>2. roomCall # Room!No /\ roomCall.op \in {"profile", "start"}
    BY <1>a, <2>1 DEF RoomInv, RoomCalls
  <2>3. /\ DOMAIN roomCall' = {"op", "at", "queue", "roles", "lobby"}
        /\ roomCall'.at = IF roomCall.op = "start" THEN "send" ELSE "done"
        /\ roomCall'.op = roomCall.op /\ roomCall'.queue = roomCall.queue
        /\ roomCall'.roles = roomCall.roles
    BY <2>1, <2>2, RoomGoesOn DEF RoomInv
  <2>4. RoomCalls'
    BY <2>2, <2>3 DEF RoomInv, RoomCalls
  <2>5. RoomAhead' <=> RoomAhead
    BY <2>1, <2>2, <2>3 DEF RoomAhead
  <2>6. RoomPresets'
    BY <2>1, <2>3, <2>5 DEF RoomInv, RoomPresets, Room!No
  <2> QED BY <2>1, <2>4, <2>6 DEF RoomInv, Room!EditStays
<1>12. CASE Room!RolesSkipped
  <2>1. /\ roomCall.at = "roles" /\ roomCall.op = "start"
        /\ roomCall' = [roomCall EXCEPT !.at = "send"]
        /\ UNCHANGED <<queue, saved, roomPresets, roomPresetRead, roomCrossed, edited, rolesDirty, roles>>
    BY <1>12 DEF Room!RolesSkipped
  <2>2. roomCall # Room!No
    BY <1>a, <2>1
  <2>3. /\ DOMAIN roomCall' = {"op", "at", "queue", "roles", "lobby"} /\ roomCall'.at = "send"
        /\ roomCall'.op = roomCall.op /\ roomCall'.queue = roomCall.queue
    BY <2>1, <2>2, RoomGoesOn DEF RoomInv
  <2>4. RoomCalls'
    BY <2>1, <2>2, <2>3 DEF RoomInv, RoomCalls
  <2>5. ~RoomAhead' /\ ~RoomAhead
    BY <2>1, <2>3 DEF RoomAhead
  <2>6. RoomPresets'
    BY <2>1, <2>5 DEF RoomInv, RoomPresets, Room!No
  <2> QED BY <2>1, <2>4, <2>6 DEF RoomInv, Room!EditStays
<1>13. CASE Room!RunEnds
  <2>1. /\ roomCall.at = "send" /\ roomCall' = Room!No
        /\ UNCHANGED <<queue, saved, roomPresets, roomPresetRead, roomCrossed, edited, rolesDirty, roles>>
    BY <1>13 DEF Room!RunEnds
  <2>2. ~RoomAhead' /\ ~RoomAhead
    BY <1>a, <2>1 DEF RoomAhead
  <2>3. RoomPresets'
    BY <2>1, <2>2 DEF RoomInv, RoomPresets, Room!No
  <2> QED BY <2>1, <2>3 DEF RoomInv, RoomCalls, Room!EditStays, Room!No
<1>14. CASE Room!ProfileApplied
  <2>1. /\ roomCall.at = "done" /\ roomCall' = Room!No /\ rolesDirty' = FALSE
        /\ roomPresets' = IF roomPresets = Room!No THEN Room!No
                          ELSE [roomPresets EXCEPT !.of[roomCall.queue] = roomCall.roles]
        /\ UNCHANGED <<queue, saved, roomPresetRead, roomCrossed>>
    BY <1>14 DEF Room!ProfileApplied
  <2>2. RoomAhead /\ ~RoomAhead'
    BY <1>a, <2>1 DEF RoomAhead, RoomInv, RoomCalls
  <2>3. CASE roomPresets = Room!No
    <3>1. roomPresets' = Room!No
      BY <2>1, <2>3
    <3>2. RoomPresets'
      BY <2>1, <3>1 DEF RoomInv, RoomPresets, Room!No
    <3> QED BY <2>1, <3>2 DEF RoomInv, RoomCalls, Room!EditStays, Room!No
  <2>4. CASE roomPresets # Room!No
    <3>1. roomPresets' = [roomPresets EXCEPT !.of[roomCall.queue] = roomCall.roles]
      BY <2>1, <2>4
    <3>2. /\ DOMAIN roomPresets' = {"at", "of"}
          /\ roomPresets'.of = [roomPresets.of EXCEPT ![roomCall.queue] = roomCall.roles]
      BY <2>4, <3>1 DEF RoomInv, RoomPresets
    <3>3. RoomPresets'
      BY <2>1, <2>2, <2>4, <3>2 DEF RoomInv, RoomPresets, Room!No
    <3> QED BY <2>1, <3>3 DEF RoomInv, RoomCalls, Room!EditStays, Room!No
  <2> QED BY <2>3, <2>4
<1>15. CASE Room!CallFails
  <2>1. /\ roomCall # Room!No /\ roomCall.at = "roles" => roomCall.op = "profile"
        /\ roomCall' = Room!No
        /\ ~roomCrossed' => ~roomCrossed /\ ~(roomCall.op = "profile" /\ roomCall.at # "save")
        /\ UNCHANGED <<queue, saved, roomPresets, roomPresetRead, edited, rolesDirty, roles>>
    BY <1>15 DEF Room!CallFails
  <2>2. ~RoomAhead'
    BY <1>a, <2>1 DEF RoomAhead
  <2>3. ~roomCrossed' => ~roomCrossed /\ ~RoomAhead
    BY <2>1 DEF RoomAhead
  <2>4. RoomPresets'
    BY <2>1, <2>2, <2>3 DEF RoomInv, RoomPresets, Room!No
  <2> QED BY <2>1, <2>3, <2>4 DEF RoomInv, RoomCalls, Room!EditStays, Room!No
<1>16. CASE UNCHANGED Room!vars
  BY <1>16, <1>b DEF Room!vars, RoomInv, Room!EditStays
<1> QED BY <1>1, <1>2, <1>3, <1>4, <1>5, <1>6, <1>7, <1>8, <1>9, <1>10, <1>11, <1>12, <1>13,
           <1>14, <1>15, <1>16 DEF Room!Next

(* With no request under way the presets on show are those RiftOps keeps.  *)
LEMMA RoomShows == RoomInv => Room!PresetsAreSaved
<1> SUFFICES ASSUME RoomInv, roomPresets # Room!No, roomCall = Room!No, ~roomCrossed
             PROVE  roomPresets.of = saved
  BY DEF Room!PresetsAreSaved
<1>1. ~RoomAhead
  BY DEF RoomAhead, Room!No
<1> QED BY <1>1 DEF RoomInv, RoomPresets

LEMMA RoomKeepsEdit == RoomInv => Room!EditStays
  BY DEF RoomInv

(* What the activity list is made of.                                      *)
RoomTitles == Room!Phases \cup {"done", "failed", "skipped"}

RoomEvents ==
  /\ "phase" \in DOMAIN roomLeague /\ roomLeague.phase \in Room!Phases \cup {""}
  /\ roomEvents \in Seq(RoomTitles) /\ Room!PhaseListedOnce

(* A title is put before the others; a phase only before another.          *)
LEMMA RoomRecords ==
  ASSUME RoomEvents, NEW title \in RoomTitles, roomEvents' = Room!recordEvent(roomEvents, title),
         title \in Room!Phases /\ roomEvents # <<>> => roomEvents[1] # title
  PROVE  roomEvents' \in Seq(RoomTitles) /\ Room!PhaseListedOnce'
<1> DEFINE longer == <<title>> \o roomEvents
           n == IF Len(roomEvents) < EventLimit THEN Len(roomEvents) + 1 ELSE EventLimit
<1>0. roomEvents \in Seq(RoomTitles) /\ Len(roomEvents) \in Nat
  <2>1. roomEvents \in Seq(RoomTitles)
    BY DEF RoomEvents
  <2> QED BY <2>1
<1>1. /\ longer \in Seq(RoomTitles) /\ Len(longer) = Len(roomEvents) + 1
      /\ longer[1] = title /\ \A i \in 1 .. Len(roomEvents) : longer[i + 1] = roomEvents[i]
  BY <1>0
<1>2. n \in 0 .. Len(longer)
  BY <1>0, <1>1, RoomAssumption
<1>3. roomEvents' = SubSeq(longer, 1, n)
  BY DEF Room!recordEvent
<1> HIDE DEF longer, n
<1>4. /\ roomEvents' \in Seq(RoomTitles) /\ Len(roomEvents') = n
      /\ \A i \in 1 .. n : roomEvents'[i] = longer[i]
  BY <1>0, <1>1, <1>2, <1>3
<1>5. ASSUME NEW i \in 1 .. n - 1, longer[i] \in Room!Phases PROVE longer[i + 1] # longer[i]
  <2>1. i \in 1 .. Len(roomEvents) /\ longer[i + 1] = roomEvents[i]
    BY <1>0, <1>1, <1>2
  <2>2. CASE i = 1
    <3>1. roomEvents # <<>>
      BY <2>1
    <3> QED BY <1>1, <1>5, <2>1, <2>2, <3>1
  <2>3. CASE i # 1
    <3>1. i - 1 \in 1 .. Len(roomEvents) - 1 /\ (i - 1) + 1 = i
      BY <1>0, <1>2, <2>1, <2>3
    <3>2. longer[i] = roomEvents[i - 1]
      BY <1>0, <1>1, <1>2, <3>1
    <3> QED BY <1>5, <2>1, <3>1, <3>2 DEF RoomEvents, Room!PhaseListedOnce
  <2> QED BY <2>2, <2>3
<1>6. Room!PhaseListedOnce'
  <2> SUFFICES ASSUME NEW i \in 1 .. n - 1, roomEvents'[i] \in Room!Phases
               PROVE  roomEvents'[i + 1] # roomEvents'[i]
    BY <1>4 DEF Room!PhaseListedOnce, Room!Phases
  <2>1. i \in 1 .. n /\ i + 1 \in 1 .. n
    BY <1>0, <1>1, <1>2
  <2> QED BY <1>4, <1>5, <2>1
<1> QED BY <1>4, <1>6

LEMMA RoomEventsInit == Room!Init => RoomEvents
<1> SUFFICES ASSUME Room!Init PROVE RoomEvents
  OBVIOUS
<1>1. roomEvents = <<>> /\ "phase" \in DOMAIN roomLeague /\ roomLeague.phase = "Lobby"
  BY DEF Room!Init
<1>2. <<>> \in Seq(RoomTitles) /\ Len(<<>>) = 0
  OBVIOUS
<1> QED BY <1>1, <1>2 DEF RoomEvents, Room!PhaseListedOnce, Room!Phases

LEMMA RoomEventsNext == RoomEvents /\ [Room!Next]_(Room!vars) => RoomEvents'
<1> SUFFICES ASSUME RoomEvents, [Room!Next]_(Room!vars) PROVE RoomEvents'
  OBVIOUS
<1> USE DEF Room!choiceVars, Room!presetVars, Room!leagueVars
<1>a. UNCHANGED roomEvents => roomEvents' \in Seq(RoomTitles) /\ Room!PhaseListedOnce'
  <2> SUFFICES ASSUME UNCHANGED roomEvents PROVE roomEvents' \in Seq(RoomTitles) /\ Room!PhaseListedOnce'
    OBVIOUS
  <2>1. roomEvents' \in Seq(RoomTitles)
    BY DEF RoomEvents, RoomTitles, Room!Phases
  <2> QED BY <2>1 DEF RoomEvents, Room!PhaseListedOnce, Room!Phases
<1>b. ASSUME NEW title \in {"done", "failed", "skipped"},
             roomEvents' = Room!recordEvent(roomEvents, title)
      PROVE  roomEvents' \in Seq(RoomTitles) /\ Room!PhaseListedOnce'
  <2>1. title \in RoomTitles /\ title \notin Room!Phases
    BY DEF RoomTitles, Room!Phases
  <2> QED BY <1>b, <2>1, RoomRecords
<1>c. UNCHANGED roomLeague =>
        "phase" \in DOMAIN roomLeague' /\ roomLeague'.phase \in Room!Phases \cup {""}
  BY DEF RoomEvents
<1>d. "phase" \in DOMAIN roomLeague' /\ roomLeague'.phase \in Room!Phases \cup {""}
        /\ roomEvents' \in Seq(RoomTitles) /\ Room!PhaseListedOnce' => RoomEvents'
  BY DEF RoomEvents, RoomTitles, Room!Phases
<1>1. CASE Room!LeagueMoves
  <2>1. roomLeague' \in [phase : Room!Phases \cup {""}, roles : Roles \cup {""}] /\ UNCHANGED roomEvents
    BY <1>1 DEF Room!LeagueMoves
  <2> QED BY <1>a, <1>d, <2>1
<1>2. CASE Room!StateShown
  <2>1. /\ UNCHANGED roomLeague
        /\ roomEvents' \in {Room!PhaseEvent(roomEvents, roomLeague.phase), roomEvents}
    BY <1>2 DEF Room!StateShown
  <2>2. CASE roomLeague.phase # "" /\ (roomEvents = <<>> \/ Head(roomEvents) # roomLeague.phase)
    <3>1. roomLeague.phase \in RoomTitles
      BY <2>2 DEF RoomEvents, RoomTitles
    <3>2. roomEvents # <<>> => roomEvents[1] # roomLeague.phase
      <4>1. roomEvents \in Seq(RoomTitles)
        BY DEF RoomEvents
      <4>2. Head(roomEvents) = roomEvents[1]
        BY <4>1
      <4> QED BY <2>2, <4>2
    <3>3. Room!PhaseEvent(roomEvents, roomLeague.phase) = Room!recordEvent(roomEvents, roomLeague.phase)
      BY <2>2 DEF Room!PhaseEvent
    <3>4. CASE roomEvents' = Room!recordEvent(roomEvents, roomLeague.phase)
      BY <1>c, <1>d, <2>1, <3>1, <3>2, <3>4, RoomRecords
    <3>5. CASE UNCHANGED roomEvents
      BY <1>a, <1>c, <1>d, <2>1, <3>5
    <3> QED BY <2>1, <3>3, <3>4, <3>5
  <2>3. CASE ~(roomLeague.phase # "" /\ (roomEvents = <<>> \/ Head(roomEvents) # roomLeague.phase))
    <3>1. Room!PhaseEvent(roomEvents, roomLeague.phase) = roomEvents
      BY <2>3 DEF Room!PhaseEvent
    <3> QED BY <1>a, <1>c, <1>d, <2>1, <3>1
  <2> QED BY <2>2, <2>3
<1>3. CASE Room!PresetsRead \/ Room!PresetsShown
  <2>1. UNCHANGED <<roomLeague, roomEvents>>
    BY <1>3 DEF Room!PresetsRead, Room!PresetsShown
  <2> QED BY <1>a, <1>c, <1>d, <2>1
<1>4. ASSUME NEW q, Room!ChooseQueue(q) \/ Room!EditRoles(q) PROVE RoomEvents'
  <2>1. UNCHANGED <<roomLeague, roomEvents>>
    BY <1>4 DEF Room!ChooseQueue, Room!EditRoles
  <2> QED BY <1>a, <1>c, <1>d, <2>1
<1>5. CASE Room!applyQueueProfile \/ Room!runPrimary \/ Room!claimRewards
  <2>1. UNCHANGED <<roomLeague, roomEvents>>
    BY <1>5 DEF Room!applyQueueProfile, Room!runPrimary, Room!claimRewards, Room!Sends
  <2> QED BY <1>a, <1>c, <1>d, <2>1
<1>6. CASE Room!PresetSaved
  <2>1. UNCHANGED <<roomLeague, roomEvents>>
    BY <1>6 DEF Room!PresetSaved
  <2> QED BY <1>a, <1>c, <1>d, <2>1
<1>7. CASE Room!RolesSet
  <2>1. roomLeague' = [roomLeague EXCEPT !.roles = roomCall.roles] /\ UNCHANGED roomEvents
    BY <1>7 DEF Room!RolesSet
  <2>2. "phase" \in DOMAIN roomLeague' /\ roomLeague'.phase = roomLeague.phase
    BY <2>1 DEF RoomEvents
  <2> QED BY <1>a, <1>d, <2>1, <2>2 DEF RoomEvents
<1>8. CASE Room!RolesSkipped
  <2>1. UNCHANGED roomLeague /\ roomEvents' = Room!recordEvent(roomEvents, "skipped")
    BY <1>8 DEF Room!RolesSkipped
  <2> QED BY <1>b, <1>c, <1>d, <2>1
<1>9. CASE Room!RunEnds
  <2>1. /\ roomLeague' = [roomLeague EXCEPT !.phase = Room!Done(roomCall.op)]
        /\ roomEvents' = Room!recordEvent(roomEvents, "done")
    BY <1>9 DEF Room!RunEnds
  <2>2. Room!Done(roomCall.op) \in {"Matchmaking", "Lobby", roomLeague.phase}
    BY DEF Room!Done
  <2>3. "phase" \in DOMAIN roomLeague' /\ roomLeague'.phase = Room!Done(roomCall.op)
    BY <2>1 DEF RoomEvents
  <2>4. roomLeague'.phase \in Room!Phases \cup {""}
    BY <2>2, <2>3 DEF RoomEvents, Room!Phases
  <2> QED BY <1>b, <1>d, <2>1, <2>3, <2>4
<1>10. CASE Room!ProfileApplied
  <2>1. UNCHANGED roomLeague /\ roomEvents' = Room!recordEvent(roomEvents, "done")
    BY <1>10 DEF Room!ProfileApplied
  <2> QED BY <1>b, <1>c, <1>d, <2>1
<1>11. CASE Room!CallFails
  <2>1. UNCHANGED roomLeague /\ roomEvents' = Room!recordEvent(roomEvents, "failed")
    BY <1>11 DEF Room!CallFails
  <2> QED BY <1>b, <1>c, <1>d, <2>1
<1>12. CASE UNCHANGED Room!vars
  <2>1. UNCHANGED <<roomLeague, roomEvents>>
    BY <1>12 DEF Room!vars
  <2> QED BY <1>a, <1>c, <1>d, <2>1
<1> QED BY <1>1, <1>2, <1>3, <1>4, <1>5, <1>6, <1>7, <1>8, <1>9, <1>10, <1>11, <1>12 DEF Room!Next

(* No phase is listed twice in a row.                                      *)
LEMMA RoomListsOnce == RoomEvents => Room!PhaseListedOnce
  BY DEF RoomEvents

-----------------------------------------------------------------------------
(* The automations: QoLPanel.                                              *)

(* The automations page: its rules and RiftOps' have the same shape.       *)
QoLRec(p) == DOMAIN p = {"rules", "play"} /\ DOMAIN p.rules = Rules

QoLRecs ==
  /\ QoLRec(rulesStored) /\ QoLRec(preferences)
  /\ qolLoading # QoL!No /\ qolLoading.at = "read" => QoLRec(qolLoading.of)
  /\ confirm # QoL!No => QoLRec(confirm.of)
  /\ ruleSave # QoL!No => QoLRec(ruleSave.of) /\ QoLRec(ruleSave.previous)

(* One thing at a time is read, waits to be confirmed or is saved.         *)
QoLShape ==
  /\ qolLoading # QoL!No => ruleSave = QoL!No /\ confirm = QoL!No
  /\ confirm # QoL!No => ruleSave = QoL!No /\ confirm.rule \in Rules
  /\ ruleSave # QoL!No =>
       /\ DOMAIN ruleSave = {"at", "of", "previous", "rule"} /\ ruleSave.rule \in Rules
       /\ ruleSave.at \in {"sent", "stored"}

(* Unless something crossed, the page's rules, the change it waits to be   *)
(* confirmed and the one it sends are what RiftOps has, but for the one    *)
(* rule.                                                                   *)
QoLRules ==
  ~qolCrossed =>
    /\ qolLoading # QoL!No /\ qolLoading.at = "read" => qolLoading.of = rulesStored
    /\ confirm # QoL!No => confirm.of = QoL!Flip(rulesStored, confirm.rule)
    /\ ruleSave # QoL!No /\ ruleSave.at = "sent" =>
         ruleSave.previous = rulesStored /\ ruleSave.of = QoL!Flip(rulesStored, ruleSave.rule)
    /\ ruleSave # QoL!No /\ ruleSave.at = "stored" => ruleSave.of = rulesStored
    /\ qolLoading = QoL!No /\ ruleSave = QoL!No => preferences = rulesStored

(* The first state that shows League fills in the message, before the      *)
(* player can type.                                                        *)
QoLText ==
  ~statusHydrated =>
    /\ ~qolTyped /\ qolState.phase = ""
    /\ activeAction # QoL!No => activeAction.state.phase = ""
    /\ refreshing # QoL!No => refreshing.state.phase = ""

QoLActions ==
  activeAction # QoL!No => DOMAIN activeAction = {"op", "at", "text", "state"}

QoLInv == QoLShape /\ QoLRecs /\ QoLRules /\ QoLText /\ QoLActions

(* A switch changes its rule and nothing else of the preferences.          *)
LEMMA QoLFlip ==
  ASSUME NEW p, NEW r \in Rules, DOMAIN p = {"rules", "play"}, DOMAIN p.rules = Rules
  PROVE  /\ DOMAIN QoL!Flip(p, r) = {"rules", "play"} /\ DOMAIN QoL!Flip(p, r).rules = Rules
         /\ QoL!Flip(p, r) = [p EXCEPT !.rules[r] = QoL!Flip(p, r).rules[r]]
<1>1. QoL!Flip(p, r) = [p EXCEPT !.rules = [p.rules EXCEPT ![r] = ~p.rules[r]]]
  BY DEF QoL!Flip
<1>2. QoL!Flip(p, r).rules = [p.rules EXCEPT ![r] = ~p.rules[r]]
  BY <1>1
<1>3. QoL!Flip(p, r).rules[r] = ~p.rules[r]
  BY <1>2
<1> QED BY <1>1, <1>2, <1>3

LEMMA QoLInvInit == QoL!Init => QoLInv
<1> SUFFICES ASSUME QoL!Init PROVE QoLInv
  OBVIOUS
<1>1. /\ rulesStored \in [rules : [Rules -> BOOLEAN], play : {0}] /\ qolLoading = QoL!Asked
      /\ ruleSave = QoL!No /\ confirm = QoL!No /\ qolTyped = FALSE
      /\ qolState = [phase |-> "", status |-> 0] /\ activeAction = QoL!No /\ refreshing = QoL!No
  BY DEF QoL!Init
<1>2. QoL!Asked # QoL!No /\ QoL!Asked.at = "asked"
  BY DEF QoL!Asked, QoL!No
<1>3. QoLRec(rulesStored)
  BY <1>1 DEF QoLRec
<1>4. QoLRec(preferences)
  BY DEF QoL!Init, QoL!Off, QoLRec
<1>5. QoLRecs
  BY <1>1, <1>2, <1>3, <1>4 DEF QoLRecs
<1> QED BY <1>1, <1>2, <1>5 DEF QoLInv, QoLShape, QoLRules, QoLText, QoLActions

(* The change is shown, and sent.                                          *)
LEMMA QoLUpdates ==
  ASSUME QoLInv, NEW next, NEW rule \in Rules, QoL!updatePreferences(next, rule),
         ruleSave = QoL!No, qolLoading = QoL!No, confirm' = QoL!No, QoLRec(next),
         ~qolCrossed => next = QoL!Flip(rulesStored, rule)
  PROVE  QoLInv'
<1>1. /\ ruleSave' = [at |-> "sent", of |-> next, previous |-> preferences, rule |-> rule]
      /\ UNCHANGED <<rulesStored, qolLoading, qolState, statusHydrated, qolTyped, activeAction,
                     refreshing, qolCrossed>>
  BY DEF QoL!updatePreferences, QoL!saved, QoL!text
<1>2. /\ DOMAIN ruleSave' = {"at", "of", "previous", "rule"} /\ ruleSave'.at = "sent"
      /\ ruleSave'.of = next /\ ruleSave'.previous = preferences /\ ruleSave'.rule = rule
  BY <1>1
<1>3. ruleSave' # QoL!No
  BY <1>2 DEF QoL!No
<1>4. QoLShape'
  BY <1>1, <1>2, <1>3 DEF QoLInv, QoLShape, QoL!No
<1>5. QoL!Flip(rulesStored, rule)' = QoL!Flip(rulesStored, rule)
  BY <1>1 DEF QoL!Flip
<1>6. QoLRules'
  <2> SUFFICES ASSUME ~qolCrossed' PROVE QoLRules'
    BY DEF QoLRules
  <2>1. ~qolCrossed /\ preferences = rulesStored /\ next = QoL!Flip(rulesStored, rule)
    BY <1>1 DEF QoLInv, QoLRules
  <2>2. /\ ruleSave'.previous = rulesStored' /\ ruleSave'.rule = rule
        /\ ruleSave'.of = QoL!Flip(rulesStored', rule)
    BY <1>1, <1>2, <2>1
  <2>3. qolLoading' = QoL!No' /\ confirm' = QoL!No' /\ QoL!No' = QoL!No
    BY <1>1 DEF QoL!No
  <2>4. rulesStored' = rulesStored /\ ruleSave'.at = "sent"
    BY <1>1, <1>2
  <2> QED BY <1>3, <2>1, <2>2, <2>3, <2>4 DEF QoLRules
<1>7. QoLText' /\ QoLActions'
  BY <1>1 DEF QoLInv, QoLText, QoLActions, QoL!No
<1>8. QoLRecs'
  <2>1. preferences' = next /\ qolLoading' = QoL!No' /\ confirm' = QoL!No' /\ rulesStored' = rulesStored
    BY <1>1 DEF QoL!updatePreferences, QoL!No
  <2> QED BY <1>2, <2>1 DEF QoLInv, QoLRecs, QoLRec
<1> QED BY <1>4, <1>6, <1>7, <1>8 DEF QoLInv

LEMMA QoLInvNext == QoLInv /\ [QoL!Next]_(QoL!vars) => QoLInv'
<1> SUFFICES ASSUME QoLInv, [QoL!Next]_(QoL!vars) PROVE QoLInv'
  OBVIOUS
<1> USE DEF QoL!saved, QoL!shown, QoL!text, QoL!game
<1>a. /\ QoL!Asked # QoL!No /\ QoL!Asked.at = "asked" /\ QoL!No.at = "no" /\ DOMAIN QoL!No = {"at"}
  BY DEF QoL!Asked, QoL!No
<1>b. ASSUME UNCHANGED <<rulesStored, preferences, qolLoading, ruleSave, confirm, qolCrossed>>
      PROVE  QoLShape' /\ QoLRecs' /\ QoLRules'
  BY <1>b DEF QoLInv, QoLShape, QoLRecs, QoLRec, QoLRules, QoL!No, QoL!Flip
<1>c. ASSUME UNCHANGED <<qolState, statusHydrated, qolTyped, activeAction, refreshing>>
      PROVE  QoLText' /\ QoLActions'
  BY <1>c DEF QoLInv, QoLText, QoLActions, QoL!No
<1>1. CASE QoL!PlaySaved
  <2>1. /\ ~qolCrossed' => ~qolCrossed /\ qolLoading = QoL!Asked
        /\ rulesStored' = [rulesStored EXCEPT !.play = 1]
        /\ UNCHANGED <<preferences, qolLoading, ruleSave, confirm>>
    BY <1>1 DEF QoL!PlaySaved
  <2>2. QoLShape'
    BY <2>1 DEF QoLInv, QoLShape, QoL!No
  <2>3. QoLRules'
    <3> SUFFICES ASSUME ~qolCrossed' PROVE QoLRules'
      BY DEF QoLRules
    <3>1. qolLoading = QoL!Asked /\ ruleSave = QoL!No /\ confirm = QoL!No
      BY <1>a, <2>1 DEF QoLInv, QoLShape
    <3> QED BY <1>a, <2>1, <3>1 DEF QoLRules, QoL!No
  <2>4. QoLRecs'
    <3>1. QoLRec(rulesStored)'
      BY <2>1 DEF QoLInv, QoLRecs, QoLRec
    <3> QED BY <2>1, <3>1 DEF QoLInv, QoLRecs, QoLRec, QoL!No
  <2> QED BY <1>1, <1>c, <2>2, <2>3, <2>4 DEF QoL!PlaySaved, QoLInv
<1>2. CASE QoL!LoadRead
  <2>1. /\ qolLoading = QoL!Asked /\ qolLoading' = [at |-> "read", of |-> rulesStored]
        /\ UNCHANGED <<rulesStored, preferences, ruleSave, confirm, qolCrossed>>
    BY <1>2 DEF QoL!LoadRead
  <2>2. ruleSave = QoL!No /\ confirm = QoL!No
    BY <1>a, <2>1 DEF QoLInv, QoLShape
  <2>3. qolLoading'.of = rulesStored /\ DOMAIN qolLoading' = {"at", "of"}
    BY <2>1
  <2>5. qolLoading' # QoL!No
    BY <1>a, <2>3
  <2>4. QoLShape' /\ QoLRecs' /\ QoLRules'
    BY <2>1, <2>2, <2>3, <2>5 DEF QoLInv, QoLShape, QoLRecs, QoLRec, QoLRules, QoL!No
  <2> QED BY <1>2, <1>c, <2>4 DEF QoL!LoadRead, QoLInv
<1>3. CASE QoL!LoadEnds
  <2>1. /\ qolLoading # QoL!No /\ qolLoading' = QoL!No
        /\ qolLoading.at = "read" => preferences' = qolLoading.of /\ qolCrossed' = qolCrossed
        /\ qolLoading.at # "read" => qolCrossed'
        /\ UNCHANGED <<rulesStored, ruleSave, confirm>>
    BY <1>3 DEF QoL!LoadEnds
  <2>2. ruleSave = QoL!No /\ confirm = QoL!No
    BY <2>1 DEF QoLInv, QoLShape
  <2>4. QoLRec(preferences)'
    BY <1>3, <2>1 DEF QoL!LoadEnds, QoLInv, QoLRecs, QoLRec
  <2>3. QoLShape' /\ QoLRecs' /\ QoLRules'
    BY <2>1, <2>2, <2>4 DEF QoLInv, QoLShape, QoLRecs, QoLRec, QoLRules, QoL!No
  <2> QED BY <1>3, <1>c, <2>3 DEF QoL!LoadEnds, QoLInv
<1>4. ASSUME NEW rule \in Rules, QoL!Toggle(rule) PROVE QoLInv'
  <2>1. /\ QoL!updatePreferences(QoL!Flip(preferences, rule), rule) /\ ruleSave = QoL!No
        /\ qolLoading = QoL!No /\ confirm' = QoL!No
    BY <1>4 DEF QoL!Toggle, QoL!SwitchRow
  <2>2. ~qolCrossed => preferences = rulesStored
    BY <2>1 DEF QoLInv, QoLRules
  <2>3. QoLRec(QoL!Flip(preferences, rule))
    BY QoLFlip DEF QoLInv, QoLRecs, QoLRec
  <2> QED BY <2>1, <2>2, <2>3, QoLUpdates
<1>5. ASSUME NEW rule \in Rules, QoL!AskGrind(rule) PROVE QoLInv'
  <2>1. /\ ruleSave = QoL!No /\ qolLoading = QoL!No
        /\ confirm' = [at |-> "open", rule |-> rule, of |-> QoL!Flip(preferences, rule)]
        /\ UNCHANGED <<rulesStored, preferences, qolLoading, ruleSave, qolCrossed>>
    BY <1>5 DEF QoL!AskGrind, QoL!SwitchRow
  <2>2. ~qolCrossed => preferences = rulesStored
    BY <2>1 DEF QoLInv, QoLRules
  <2>3. confirm'.rule = rule /\ confirm'.of = QoL!Flip(preferences, rule)
    BY <2>1
  <2>4. QoLShape'
    BY <2>1, <2>3 DEF QoLInv, QoLShape, QoL!No
  <2>5. ~qolCrossed' => confirm'.of = QoL!Flip(rulesStored, confirm.rule)'
    BY <2>1, <2>2, <2>3 DEF QoL!Flip
  <2>6. QoLRules'
    BY <2>1, <2>2, <2>5 DEF QoLInv, QoLRules, QoL!No
  <2>7. QoLRec(QoL!Flip(preferences, rule))
    BY QoLFlip DEF QoLInv, QoLRecs, QoLRec
  <2>8. QoLRecs'
    BY <2>1, <2>3, <2>7 DEF QoLInv, QoLRecs, QoLRec, QoL!No
  <2> QED BY <1>5, <1>c, <2>4, <2>6, <2>8 DEF QoL!AskGrind, QoLInv
<1>6. CASE QoL!ConfirmGrind
  <2>1. /\ confirm # QoL!No /\ ruleSave = QoL!No /\ confirm' = QoL!No
        /\ QoL!updatePreferences(confirm.of, confirm.rule)
    BY <1>6 DEF QoL!ConfirmGrind
  <2>2. confirm.rule \in Rules /\ qolLoading = QoL!No
    BY <2>1 DEF QoLInv, QoLShape
  <2>3. ~qolCrossed => confirm.of = QoL!Flip(rulesStored, confirm.rule)
    BY <2>1 DEF QoLInv, QoLRules
  <2>4. QoLRec(confirm.of)
    BY <2>1 DEF QoLInv, QoLRecs
  <2> QED BY <2>1, <2>2, <2>3, <2>4, QoLUpdates
<1>7. CASE QoL!CancelConfirm
  <2>1. /\ confirm' = QoL!No
        /\ UNCHANGED <<rulesStored, preferences, qolLoading, ruleSave, qolCrossed>>
    BY <1>7 DEF QoL!CancelConfirm
  <2>2. QoLShape' /\ QoLRecs' /\ QoLRules'
    BY <2>1 DEF QoLInv, QoLShape, QoLRecs, QoLRec, QoLRules, QoL!No, QoL!Flip
  <2> QED BY <1>7, <1>c, <2>2 DEF QoL!CancelConfirm, QoLInv
<1>8. CASE QoL!mergeQoLPreferences
  <2>1. /\ ruleSave.at = "sent" /\ rulesStored' = ruleSave.of
        /\ ruleSave' = [ruleSave EXCEPT !.at = "stored"]
        /\ UNCHANGED <<preferences, qolLoading, confirm>>
    BY <1>8 DEF QoL!mergeQoLPreferences
  <2>2. ruleSave # QoL!No /\ qolLoading = QoL!No /\ confirm = QoL!No
    BY <1>a, <2>1 DEF QoLInv, QoLShape
  <2>3. /\ DOMAIN ruleSave' = {"at", "of", "previous", "rule"} /\ ruleSave'.at = "stored"
        /\ ruleSave'.of = ruleSave.of /\ ruleSave'.previous = ruleSave.previous
        /\ ruleSave'.rule = ruleSave.rule /\ ruleSave.rule \in Rules
    BY <2>1, <2>2 DEF QoLInv, QoLShape
  <2>4. QoLShape'
    BY <2>1, <2>2, <2>3 DEF QoLInv, QoLShape, QoL!No
  <2>5. ruleSave' # QoL!No
    BY <1>a, <2>3
  <2>6. QoLRules'
    BY <2>1, <2>2, <2>3, <2>5 DEF QoLRules, QoL!No
  <2>7. QoLRecs'
    BY <2>1, <2>2, <2>3, <2>5 DEF QoLInv, QoLRecs, QoLRec, QoL!No
  <2> QED BY <1>8, <1>c, <2>4, <2>6, <2>7 DEF QoL!mergeQoLPreferences, QoLInv
<1>9. CASE QoL!RuleSaved
  <2>1. /\ ruleSave.at = "stored" /\ ruleSave' = QoL!No /\ preferences' = ruleSave.of
        /\ UNCHANGED <<rulesStored, qolLoading, confirm, qolCrossed>>
    BY <1>9 DEF QoL!RuleSaved
  <2>2. ruleSave # QoL!No /\ qolLoading = QoL!No /\ confirm = QoL!No
    BY <1>a, <2>1 DEF QoLInv, QoLShape
  <2>4. QoLShape' /\ QoLRecs' /\ QoLRules'
    BY <2>1, <2>2 DEF QoLInv, QoLShape, QoLRecs, QoLRec, QoLRules, QoL!No
  <2> QED BY <1>9, <1>c, <2>4 DEF QoL!RuleSaved, QoLInv
<1>10. CASE QoL!RuleSaveFails
  <2>1. /\ ruleSave # QoL!No /\ ruleSave' = QoL!No /\ preferences' = ruleSave.previous
        /\ ~qolCrossed' => ~qolCrossed /\ ruleSave.at # "stored"
        /\ UNCHANGED <<rulesStored, qolLoading, confirm>>
    BY <1>10 DEF QoL!RuleSaveFails
  <2>2. qolLoading = QoL!No /\ confirm = QoL!No /\ (ruleSave.at # "stored" => ruleSave.at = "sent")
    BY <1>a, <2>1 DEF QoLInv, QoLShape
  <2>4. QoLShape' /\ QoLRecs' /\ QoLRules'
    BY <2>1, <2>2 DEF QoLInv, QoLShape, QoLRecs, QoLRec, QoLRules, QoL!No
  <2> QED BY <1>10, <1>c, <2>4 DEF QoL!RuleSaveFails, QoLInv
<1>11. ASSUME NEW to, QoL!LeagueMoves(to) PROVE QoLInv'
  BY <1>11, <1>b, <1>c DEF QoL!LeagueMoves, QoLInv
<1>12. CASE QoL!StateShown
  <2>1. /\ qolState' = [phase |-> qolPhase, status |-> qolStatus]
        /\ ~statusHydrated' => ~statusHydrated /\ qolPhase = ""
        /\ UNCHANGED <<qolTyped, activeAction, refreshing>>
    BY <1>12 DEF QoL!StateShown
  <2>2. QoLText' /\ QoLActions'
    BY <2>1 DEF QoLInv, QoLText, QoLActions, QoL!No
  <2> QED BY <1>12, <1>b, <2>2 DEF QoL!StateShown, QoLInv
<1>13. ASSUME NEW m, QoL!TypeStatus(m) PROVE QoLInv'
  <2>1. /\ qolState.phase # "" /\ qolTyped'
        /\ UNCHANGED <<qolState, statusHydrated, activeAction, refreshing>>
    BY <1>13 DEF QoL!TypeStatus, QoL!connected
  <2>2. QoLText' /\ QoLActions'
    BY <2>1 DEF QoLInv, QoLText, QoLActions, QoL!No
  <2> QED BY <1>13, <1>b, <2>2 DEF QoL!TypeStatus, QoLInv
<1>14. ASSUME NEW op, QoL!runAction(op) PROVE QoLInv'
  <2>1. /\ activeAction' = [op |-> op, at |-> "sent", text |-> statusMessage, state |-> qolState]
        /\ UNCHANGED <<qolState, statusHydrated, qolTyped, refreshing>>
    BY <1>14 DEF QoL!runAction
  <2>2. DOMAIN activeAction' = {"op", "at", "text", "state"} /\ activeAction'.state = qolState
    BY <2>1
  <2>3. QoLText' /\ QoLActions'
    BY <2>1, <2>2 DEF QoLInv, QoLText, QoLActions, QoL!No
  <2> QED BY <1>14, <1>b, <2>3 DEF QoL!runAction, QoLInv
<1>15. CASE QoL!ActionDone
  <2>1. /\ activeAction.at = "sent" /\ activeAction' = [activeAction EXCEPT !.at = "done"]
        /\ UNCHANGED <<qolState, statusHydrated, qolTyped, refreshing>>
    BY <1>15 DEF QoL!ActionDone
  <2>2. activeAction # QoL!No
    BY <1>a, <2>1
  <2>3. DOMAIN activeAction' = {"op", "at", "text", "state"} /\ activeAction'.state = activeAction.state
    BY <2>1, <2>2 DEF QoLInv, QoLActions
  <2>4. QoLText' /\ QoLActions'
    BY <2>1, <2>2, <2>3 DEF QoLInv, QoLText, QoLActions, QoL!No
  <2> QED BY <1>15, <1>b, <2>4 DEF QoL!ActionDone, QoLInv
<1>16. CASE QoL!ActionFails
  <2>1. QoLText' /\ QoLActions'
    BY <1>16 DEF QoL!ActionFails, QoLInv, QoLText, QoLActions, QoL!No
  <2> QED BY <1>16, <1>b, <2>1 DEF QoL!ActionFails, QoLInv
<1>17. CASE QoL!ActionRefreshed
  <2>1. /\ activeAction # QoL!No /\ activeAction' = QoL!No /\ qolState' = activeAction.state
        /\ UNCHANGED <<statusHydrated, qolTyped, refreshing>>
    BY <1>17, <1>a DEF QoL!ActionRefreshed
  <2>2. QoLText' /\ QoLActions'
    BY <2>1 DEF QoLInv, QoLText, QoLActions, QoL!No
  <2> QED BY <1>17, <1>b, <2>2 DEF QoL!ActionRefreshed, QoLInv
<1>18. CASE QoL!Refresh
  <2>1. /\ refreshing' = [at |-> "asked", state |-> qolState]
        /\ UNCHANGED <<qolState, statusHydrated, qolTyped, activeAction>>
    BY <1>18 DEF QoL!Refresh
  <2>2. QoLText' /\ QoLActions'
    BY <2>1 DEF QoLInv, QoLText, QoLActions, QoL!No
  <2> QED BY <1>18, <1>b, <2>2 DEF QoL!Refresh, QoLInv
<1>19. CASE QoL!RefreshEnds
  <2>1. /\ refreshing # QoL!No /\ refreshing' = QoL!No /\ qolState' = refreshing.state
        /\ UNCHANGED <<statusHydrated, qolTyped, activeAction>>
    BY <1>19 DEF QoL!RefreshEnds
  <2>2. QoLText' /\ QoLActions'
    BY <2>1 DEF QoLInv, QoLText, QoLActions, QoL!No
  <2> QED BY <1>19, <1>b, <2>2 DEF QoL!RefreshEnds, QoLInv
<1>20. CASE UNCHANGED QoL!vars
  BY <1>20, <1>b, <1>c DEF QoL!vars, QoLInv
<1> QED BY <1>1, <1>2, <1>3, <1>4, <1>5, <1>6, <1>7, <1>8, <1>9, <1>10, <1>11, <1>12, <1>13,
           <1>14, <1>15, <1>16, <1>17, <1>18, <1>19, <1>20 DEF QoL!Next

(* With nothing on the way the rules on show are RiftOps'.                 *)
LEMMA QoLShows == QoLInv => QoL!RulesShownAreStored
  BY DEF QoLInv, QoLRules, QoL!RulesShownAreStored

(* RiftOps' rules change with the rule of the save, and with the last save *)
(* of the Play page, which is not on its way any more then.                *)
LEMMA QoLKeepsRules == QoLInv /\ [QoL!Next]_(QoL!vars) =>
  [ruleSave # QoL!No /\ ~qolCrossed /\ late' = late =>
     rulesStored' \in {rulesStored, [rulesStored EXCEPT !.rules[ruleSave.rule] =
                                       rulesStored'.rules[ruleSave.rule]]}]_(QoL!vars)
<1> SUFFICES ASSUME QoLInv, QoL!Next, ruleSave # QoL!No, ~qolCrossed, late' = late
             PROVE  rulesStored' \in {rulesStored, [rulesStored EXCEPT !.rules[ruleSave.rule] =
                                                      rulesStored'.rules[ruleSave.rule]]}
  BY DEF QoL!vars
<1>1. UNCHANGED rulesStored \/ QoL!mergeQoLPreferences
  BY DEF QoL!Next, QoL!PlaySaved, QoL!LoadRead, QoL!LoadEnds, QoL!Toggle, QoL!updatePreferences,
     QoL!AskGrind, QoL!ConfirmGrind, QoL!CancelConfirm, QoL!RuleSaved, QoL!RuleSaveFails,
     QoL!LeagueMoves, QoL!StateShown, QoL!TypeStatus, QoL!runAction, QoL!ActionDone,
     QoL!ActionFails, QoL!ActionRefreshed, QoL!Refresh, QoL!RefreshEnds, QoL!saved
<1>2. CASE QoL!mergeQoLPreferences
  <2>1. rulesStored' = ruleSave.of /\ ruleSave.at = "sent"
    BY <1>2 DEF QoL!mergeQoLPreferences
  <2>2. /\ ruleSave.of = QoL!Flip(rulesStored, ruleSave.rule) /\ ruleSave.rule \in Rules
        /\ DOMAIN rulesStored = {"rules", "play"} /\ DOMAIN rulesStored.rules = Rules
    BY <2>1 DEF QoLInv, QoLShape, QoLRecs, QoLRec, QoLRules
  <2> QED BY <2>1, <2>2, QoLFlip
<1> QED BY <1>1, <1>2

(* A poll or a late refresh leaves the message of the player.              *)
LEMMA QoLKeepsText == QoLInv /\ [QoL!Next]_(QoL!vars) =>
  [qolTyped /\ qolState' # qolState => statusMessage' = statusMessage]_(QoL!vars)
<1> SUFFICES ASSUME QoLInv, QoL!Next, qolTyped, qolState' # qolState
             PROVE  statusMessage' = statusMessage
  BY DEF QoL!vars
<1>1. statusHydrated
  BY DEF QoLInv, QoLText
<1> QED BY <1>1 DEF QoL!Next, QoL!PlaySaved, QoL!LoadRead, QoL!LoadEnds, QoL!Toggle,
           QoL!updatePreferences, QoL!AskGrind, QoL!ConfirmGrind, QoL!CancelConfirm,
           QoL!mergeQoLPreferences, QoL!RuleSaved, QoL!RuleSaveFails, QoL!LeagueMoves,
           QoL!StateShown, QoL!TypeStatus, QoL!runAction, QoL!ActionDone, QoL!ActionFails,
           QoL!ActionRefreshed, QoL!Refresh, QoL!RefreshEnds, QoL!text

-----------------------------------------------------------------------------
(* Friends and requests: SocialCenter.                                     *)

(* The social page: with no mute being sent, what it shows as muted and    *)
(* what it has just read of it is what League has.                         *)
SocialInv ==
  socialBusy # "mute" =>
    /\ live /\ muteRead = Social!No /\ ~mutesFailed => mutedPuuids = mutes
    /\ muteRead.at = "read" => muteRead.mutes = mutes

LEMMA SocialInvInit == Social!Init => SocialInv
<1> SUFFICES ASSUME Social!Init PROVE SocialInv
  OBVIOUS
<1>1. Social!Asked # Social!No /\ Social!Asked.at = "asked"
  BY DEF Social!Asked, Social!No
<1>2. muteRead = Social!Asked
  BY DEF Social!Init
<1> QED BY <1>1, <1>2 DEF SocialInv

(* What disables the buttons changes with a new read of the mutes.         *)
LEMMA SocialBusy ==
  ASSUME SocialInv, NEW b, Social!BusyIs(b), b # "mute" \/ socialBusy # "mute",
         UNCHANGED <<live, mutes, mutedPuuids, mutesFailed>>
  PROVE  SocialInv'
<1>1. b = socialBusy => muteRead' = muteRead /\ socialBusy' = socialBusy
  BY DEF Social!BusyIs
<1>2. b # socialBusy => muteRead' \in {Social!Asked, Social!No} /\ (live => muteRead' = Social!Asked)
  BY DEF Social!BusyIs
<1>3. Social!Asked # Social!No /\ Social!Asked.at # "read" /\ Social!No.at # "read"
  BY DEF Social!Asked, Social!No
<1>4. CASE b = socialBusy
  BY <1>1, <1>4 DEF SocialInv, Social!No
<1>5. CASE b # socialBusy
  BY <1>2, <1>3, <1>5 DEF SocialInv, Social!No
<1> QED BY <1>4, <1>5

LEMMA SocialInvNext == SocialInv /\ [Social!Next]_(Social!vars) => SocialInv'
<1> SUFFICES ASSUME SocialInv, [Social!Next]_(Social!vars) PROVE SocialInv'
  OBVIOUS
<1> USE DEF Social!reviewVars, Social!muteVars
<1>a. /\ Social!Asked # Social!No /\ Social!Asked.at = "asked" /\ Social!No.at = "no"
  BY DEF Social!Asked, Social!No
<1>b. UNCHANGED <<live, socialBusy, mutes, mutedPuuids, muteRead, mutesFailed>> => SocialInv'
  <2> SUFFICES ASSUME UNCHANGED <<live, socialBusy, mutes, mutedPuuids, muteRead, mutesFailed>>
               PROVE  SocialInv'
    OBVIOUS
  <2> QED BY DEF SocialInv, Social!No
<1>1. CASE Social!Poll
  BY <1>1, <1>b DEF Social!Poll
<1>2. CASE Social!LiveChanges
  <2>1. /\ live' => muteRead' = Social!Asked
        /\ ~live' => muteRead' = Social!No
        /\ live' = ~live
    BY <1>2 DEF Social!LiveChanges
  <2> QED BY <1>a, <2>1 DEF SocialInv, Social!No
<1>3. CASE Social!ClearSelection
  BY <1>3, <1>b DEF Social!ClearSelection
<1>4. ASSUME NEW p, Social!PollRead(p) PROVE SocialInv'
  BY <1>4, <1>b DEF Social!PollRead
<1>5. ASSUME NEW p, Social!PollAnswered(p) PROVE SocialInv'
  <2>1. UNCHANGED <<live, mutes, mutedPuuids, mutesFailed>>
    BY <1>5 DEF Social!PollAnswered
  <2>2. UNCHANGED <<socialBusy, muteRead>> \/ Social!BusyIs("")
    BY <1>5 DEF Social!PollAnswered
  <2> QED BY <1>b, <2>1, <2>2, SocialBusy
<1>6. ASSUME NEW l, Social!startReview(l) PROVE SocialInv'
  BY <1>6, SocialBusy DEF Social!startReview
<1>7. ASSUME NEW l, NEW x, Social!toggleSelected(l, x) PROVE SocialInv'
  BY <1>7, <1>b DEF Social!toggleSelected
<1>8. ASSUME NEW l, NEW x, Social!Act(l, x) PROVE SocialInv'
  BY <1>8, SocialBusy DEF Social!Act
<1>9. ASSUME NEW l, NEW x, Social!LeagueChanges(l, x) PROVE SocialInv'
  BY <1>9, <1>b DEF Social!LeagueChanges
<1>10. ASSUME NEW group, Social!toggleGroup(group) PROVE SocialInv'
  BY <1>10, <1>b DEF Social!toggleGroup
<1>11. CASE Social!PreviewAnswered
  BY <1>11, SocialBusy DEF Social!PreviewAnswered
<1>12. CASE Social!Confirm \/ Social!CloseReview
  BY <1>12, <1>b DEF Social!Confirm, Social!CloseReview
<1>13. CASE Social!ReviewComplete \/ Social!ReviewFails
  BY <1>13, <1>b DEF Social!ReviewComplete, Social!ReviewFails
<1>14. ASSUME NEW x, Social!OperationTreats(x) PROVE SocialInv'
  BY <1>14, <1>b DEF Social!OperationTreats
<1>15. CASE Social!ActArrives
  <2>1. socialBusy # "mute" => UNCHANGED mutes
    BY <1>15 DEF Social!ActArrives
  <2>2. UNCHANGED <<live, socialBusy, mutedPuuids, muteRead, mutesFailed>>
    BY <1>15 DEF Social!ActArrives
  <2> QED BY <2>1, <2>2 DEF SocialInv, Social!No
<1>16. CASE Social!ActAnswered
  <2>1. socialBusy # "mute" => UNCHANGED mutedPuuids
    BY <1>16 DEF Social!ActAnswered
  <2>2. UNCHANGED <<live, socialBusy, mutes, muteRead, mutesFailed>>
    BY <1>16 DEF Social!ActAnswered
  <2> QED BY <2>1, <2>2 DEF SocialInv, Social!No
<1>17. CASE Social!ActFails
  BY <1>17, SocialBusy DEF Social!ActFails
<1>18. CASE Social!MutesRead
  <2>1. muteRead' = [at |-> "read", mutes |-> mutes]
        /\ UNCHANGED <<live, socialBusy, mutes, mutedPuuids, mutesFailed>>
    BY <1>18 DEF Social!MutesRead
  <2>2. muteRead'.at = "read" /\ muteRead'.mutes = mutes
    BY <2>1
  <2>3. muteRead' # Social!No
    BY <1>a, <2>2
  <2> QED BY <2>1, <2>2, <2>3 DEF SocialInv, Social!No
<1>19. CASE Social!MutesShown
  <2>1. /\ muteRead' = Social!No
        /\ mutedPuuids' = IF muteRead.at = "read" THEN muteRead.mutes ELSE {}
        /\ ~mutesFailed' => muteRead.at = "read"
        /\ UNCHANGED <<live, socialBusy, mutes>>
    BY <1>19 DEF Social!MutesShown
  <2> QED BY <1>a, <2>1 DEF SocialInv, Social!No
<1>20. CASE UNCHANGED Social!vars
  BY <1>20, <1>b DEF Social!vars
<1> QED BY <1>1, <1>2, <1>3, <1>4, <1>5, <1>6, <1>7, <1>8, <1>9, <1>10, <1>11, <1>12, <1>13,
           <1>14, <1>15, <1>16, <1>17, <1>18, <1>19, <1>20 DEF Social!Next

(* The mute buttons say what League has.                                   *)
LEMMA SocialShows == SocialInv => Social!MutesShowLeague
  BY DEF SocialInv, Social!MutesShowLeague

(* With the dialog's operation running nothing but its end changes what is *)
(* selected.                                                               *)
LEMMA SocialEmpties == [Social!Next]_(Social!vars) =>
  [\A l \in Social!Lists : socialReview.at = "running" /\ socialSelected'[l] # socialSelected[l] =>
     socialReview.list = l /\ socialReview.done = socialReview.ids]_(Social!vars)
<1> SUFFICES ASSUME Social!Next, NEW l \in Social!Lists, socialReview.at = "running",
                    socialSelected'[l] # socialSelected[l]
             PROVE  socialReview.list = l /\ socialReview.done = socialReview.ids
  BY DEF Social!vars
<1>1. ~Social!Reachable
  BY DEF Social!Reachable, Social!No
<1>2. UNCHANGED socialSelected \/ Social!ReviewComplete
  BY <1>1 DEF Social!Next, Social!Poll, Social!LiveChanges, Social!ClearSelection,
     Social!PollRead, Social!PollAnswered, Social!startReview, Social!toggleSelected, Social!Act,
     Social!LeagueChanges, Social!toggleGroup, Social!PreviewAnswered, Social!Confirm,
     Social!CloseReview, Social!ReviewFails, Social!OperationTreats, Social!ActArrives,
     Social!ActAnswered, Social!ActFails, Social!MutesRead, Social!MutesShown
<1>3. Social!ReviewComplete
  BY <1>2
<1>4. socialReview.done = socialReview.ids /\ socialSelected' = [socialSelected EXCEPT ![socialReview.list] = {}]
  BY <1>3 DEF Social!ReviewComplete
<1> QED BY <1>4

-----------------------------------------------------------------------------
(* The preparation of a game: PreparationPanel.                            *)

(* The preparation page, as long as it could be brought up to date: its    *)
(* presets are the account's when none is being saved or removed.          *)
PrepCalls ==
  prepCall # Prep!No =>
    /\ {"op", "at"} \subseteq DOMAIN prepCall
    /\ prepCall.at = "snapshots" => prepCall.op = "itemset"
    /\ prepCall.at = "reload" => prepCall.op \in {"save", "remove"}
    /\ prepCall.at = "confirm" => prepCall.op = "preview"
    /\ prepCall.at \in {"sent", "reload", "confirm", "snapshots"}

PrepList ==
  ~listCrossed =>
    /\ prepLoading # Prep!No =>
         listed = {} /\ (prepCall # Prep!No => prepCall.op \notin {"save", "remove"})
    /\ prepLoading # Prep!No /\ prepLoading.at = "read" =>
         prepLoading.presets = Prep!Readable(prepAccount)
    /\ prepLoading = Prep!No /\ listed # {} /\ (prepCall # Prep!No => prepCall.at # "reload") =>
         listed = Prep!Readable(prepAccount)

(* The first snapshot on show is what League had before the page's last    *)
(* change of the item sets.                                                *)
PrepSets ==
  ~setsCrossed =>
    /\ sets \in Nat /\ madeSets \in Nat /\ setsBefore \in Nat /\ kept \in Seq(Nat)
    /\ kept # <<>> => Head(kept) = setsBefore
    /\ (prepCall # Prep!No => prepCall.at # "snapshots") => snapshots = kept
    /\ effect # Prep!No =>
         /\ kept = <<>> /\ (prepCall # Prep!No => prepCall.op # "itemset")
         /\ effect.at = "read" => effect.snapshots = <<>>
    /\ prepCall # Prep!No /\ prepCall.op = "rollback" => prepCall.to = setsBefore

PrepInv == PrepCalls /\ PrepList /\ PrepSets /\ Prep!AppliedToItsAccount

LEMMA PrepInvInit == Prep!Init => PrepInv
<1> SUFFICES ASSUME Prep!Init PROVE PrepInv
  OBVIOUS
<1>1. /\ listed = {} /\ prepLoading = Prep!Asked /\ prepCall = Prep!No /\ prepApplied = {}
      /\ sets = 0 /\ kept = <<>> /\ snapshots = <<>> /\ effect = Prep!Asked /\ setsBefore = 0
      /\ madeSets = 0
  BY DEF Prep!Init
<1>2. Prep!Asked # Prep!No /\ Prep!Asked.at = "asked"
  BY DEF Prep!Asked, Prep!No
<1>3. PrepCalls /\ PrepList /\ Prep!AppliedToItsAccount
  BY <1>1, <1>2 DEF PrepCalls, PrepList, Prep!AppliedToItsAccount
<1>4. kept \in Seq(Nat)
  BY <1>1
<1>5. PrepSets
  BY <1>1, <1>2, <1>4 DEF PrepSets
<1> QED BY <1>3, <1>5 DEF PrepInv

(* A call that begins, neither to save nor to change the item sets.        *)
LEMMA PrepBegins ==
  ASSUME PrepInv, prepCall = Prep!No, UNCHANGED <<prepAccount, prepStored, listed, prepLoading,
           prepApplied, sets, kept, snapshots, effect, setsBefore, madeSets>>,
         {"op", "at"} \subseteq DOMAIN prepCall', prepCall' # Prep!No, prepCall'.at = "sent",
         ~listCrossed' => ~listCrossed, ~setsCrossed' => ~setsCrossed,
         ~listCrossed' /\ prepCall'.op \in {"save", "remove"} => prepLoading = Prep!No,
         ~setsCrossed' /\ prepCall'.op = "itemset" => effect = Prep!No,
         ~setsCrossed' /\ prepCall'.op = "rollback" => prepCall'.to = setsBefore
  PROVE  PrepInv'
<1>1. PrepCalls'
  BY DEF PrepInv, PrepCalls, Prep!No
<1>2. PrepList'
  BY DEF PrepInv, PrepList, Prep!No, Prep!Readable
<1>3. PrepSets'
  BY DEF PrepInv, PrepSets, Prep!No
<1>4. Prep!AppliedToItsAccount'
  BY DEF PrepInv, Prep!AppliedToItsAccount
<1> QED BY <1>1, <1>2, <1>3, <1>4 DEF PrepInv

(* A call that ends without a change, or goes on with the lists and the    *)
(* item sets as they were.                                                 *)
LEMMA PrepGoesOn ==
  ASSUME PrepInv, prepCall # Prep!No, UNCHANGED <<prepAccount, prepStored, listed, prepLoading,
           sets, kept, snapshots, effect, setsBefore, madeSets, listCrossed, setsCrossed>>,
         prepCall.at \notin {"reload", "snapshots"}, PrepCalls', Prep!AppliedToItsAccount',
         prepCall' # Prep!No =>
           prepCall'.at \notin {"reload", "snapshots"} /\ prepCall'.op \in {"preview", "apply"}
  PROVE  PrepInv'
<1>1. PrepList'
  BY DEF PrepInv, PrepList, Prep!No, Prep!Readable
<1>2. PrepSets'
  BY DEF PrepInv, PrepSets, Prep!No
<1> QED BY <1>1, <1>2 DEF PrepInv

LEMMA PrepInvNext == PrepInv /\ [Prep!Next]_(Prep!vars) => PrepInv'
<1> SUFFICES ASSUME PrepInv, [Prep!Next]_(Prep!vars) PROVE PrepInv'
  OBVIOUS
<1> USE DEF Prep!presetVars, Prep!setVars, Prep!crossedVars, Prep!Ends
<1>a. /\ Prep!Asked # Prep!No /\ Prep!Asked.at = "asked" /\ Prep!No.at = "no"
  BY DEF Prep!Asked, Prep!No
<1>b. ASSUME UNCHANGED <<prepCall, prepStored, listed, prepLoading, prepAccount, listCrossed, setsCrossed>>
      PROVE  PrepCalls' /\ PrepList'
  BY <1>b DEF PrepInv, PrepCalls, PrepList, Prep!No, Prep!Readable
<1>c. ASSUME UNCHANGED <<prepCall, sets, kept, snapshots, effect, setsBefore, madeSets, listCrossed, setsCrossed>>
      PROVE  PrepCalls' /\ PrepSets'
  BY <1>c DEF PrepInv, PrepCalls, PrepSets, Prep!No
<1>d. ASSUME UNCHANGED prepApplied PROVE Prep!AppliedToItsAccount'
  BY <1>d DEF PrepInv, Prep!AppliedToItsAccount
<1>1. CASE Prep!LoadRead
  <2>1. /\ prepLoading = Prep!Asked
        /\ prepLoading' = [at |-> "read", presets |-> Prep!Readable(prepAccount)]
        /\ UNCHANGED <<prepStored, listed, prepAccount, prepCall, listCrossed, setsCrossed>>
    BY <1>1 DEF Prep!LoadRead
  <2>2. prepLoading'.at = "read" /\ prepLoading'.presets = Prep!Readable(prepAccount)
    BY <2>1
  <2>3. Prep!Readable(prepAccount)' = Prep!Readable(prepAccount)
    BY <2>1 DEF Prep!Readable
  <2>4. prepLoading' # Prep!No
    BY <1>a, <2>2
  <2>5. PrepList'
    BY <1>a, <2>1, <2>2, <2>3, <2>4 DEF PrepInv, PrepList, Prep!No
  <2> QED BY <1>1, <1>c, <1>d, <2>5 DEF Prep!LoadRead, PrepInv
<1>2. CASE Prep!LoadShown
  <2>1. /\ prepLoading # Prep!No /\ prepLoading' = Prep!No
        /\ listed' = IF prepLoading.at = "read" THEN prepLoading.presets ELSE listed
        /\ UNCHANGED <<prepStored, prepAccount, prepCall, listCrossed, setsCrossed>>
    BY <1>2 DEF Prep!LoadShown
  <2>2. Prep!Readable(prepAccount)' = Prep!Readable(prepAccount)
    BY <2>1 DEF Prep!Readable
  <2>3. PrepList'
    BY <2>1, <2>2 DEF PrepInv, PrepList, Prep!No
  <2> QED BY <1>2, <1>c, <1>d, <2>3 DEF Prep!LoadShown, PrepInv
<1>3. CASE Prep!EffectRead
  <2>1. /\ effect = Prep!Asked /\ effect' = [at |-> "read", snapshots |-> kept]
        /\ UNCHANGED <<prepCall, sets, kept, snapshots, setsBefore, madeSets, listCrossed, setsCrossed>>
    BY <1>3 DEF Prep!EffectRead
  <2>2. PrepSets'
    BY <1>a, <2>1 DEF PrepInv, PrepSets, Prep!No
  <2> QED BY <1>3, <1>b, <1>d, <2>2 DEF Prep!EffectRead, PrepInv
<1>4. CASE Prep!EffectShown
  <2>1. /\ effect # Prep!No /\ effect' = Prep!No
        /\ snapshots' = IF effect.at = "read" THEN effect.snapshots ELSE <<>>
        /\ UNCHANGED <<prepCall, sets, kept, setsBefore, madeSets, listCrossed, setsCrossed>>
    BY <1>4 DEF Prep!EffectShown
  <2>2. PrepSets'
    BY <2>1 DEF PrepInv, PrepSets, Prep!No
  <2> QED BY <1>4, <1>b, <1>d, <2>2 DEF Prep!EffectShown, PrepInv
<1>5. CASE Prep!SwitchAccount
  BY <1>5 DEF Prep!SwitchAccount, PrepInv, PrepCalls, PrepList, PrepSets, Prep!AppliedToItsAccount, Prep!No
<1>6. CASE Prep!SaveArrives
  <2>1. /\ prepCall.at = "sent" /\ prepCall.op = "save"
        /\ prepCall' = [prepCall EXCEPT !.at = "reload"]
        /\ UNCHANGED <<prepAccount, listed, prepLoading, listCrossed, setsCrossed>>
    BY <1>6 DEF Prep!SaveArrives
  <2>2. /\ prepCall # Prep!No /\ {"op", "at"} \subseteq DOMAIN prepCall
    BY <1>a, <2>1 DEF PrepInv, PrepCalls
  <2>3. DOMAIN prepCall' = DOMAIN prepCall /\ prepCall'.at = "reload" /\ prepCall'.op = "save"
    BY <2>1, <2>2
  <2>4. prepCall' # Prep!No
    BY <1>a, <2>3
  <2>5. PrepCalls'
    BY <2>2, <2>3 DEF PrepCalls
  <2>6. PrepList'
    BY <2>1, <2>2, <2>3, <2>4 DEF PrepInv, PrepList, Prep!No
  <2>7. PrepSets'
    BY <1>6, <2>1, <2>2, <2>3 DEF Prep!SaveArrives, PrepInv, PrepSets, Prep!No
  <2> QED BY <1>6, <1>d, <2>5, <2>6, <2>7 DEF Prep!SaveArrives, PrepInv
<1>7. CASE Prep!RemoveArrives
  <2>1. /\ prepCall.at = "sent" /\ prepCall.op = "remove"
        /\ prepStored' = prepStored \ ({prepCall.preset} \cap Prep!Readable(prepAccount))
        /\ UNCHANGED <<prepAccount, listed, prepLoading, listCrossed, setsCrossed>>
    BY <1>7 DEF Prep!RemoveArrives
  <2>2. /\ prepCall # Prep!No /\ {"op", "at"} \subseteq DOMAIN prepCall
    BY <1>a, <2>1 DEF PrepInv, PrepCalls
  <2>3. CASE prepCall.preset \in Prep!Readable(prepAccount)
    <3>1. prepCall' = [prepCall EXCEPT !.at = "reload"]
      BY <1>7, <2>3 DEF Prep!RemoveArrives
    <3>2. DOMAIN prepCall' = DOMAIN prepCall /\ prepCall'.at = "reload" /\ prepCall'.op = "remove"
      BY <2>1, <2>2, <3>1
    <3>3. prepCall' # Prep!No
      BY <1>a, <3>2
    <3>4. PrepCalls'
      BY <2>2, <3>2 DEF PrepCalls
    <3>5. PrepList'
      BY <2>1, <2>2, <3>2, <3>3 DEF PrepInv, PrepList, Prep!No
    <3>6. PrepSets'
      BY <1>7, <2>1, <2>2, <3>2 DEF Prep!RemoveArrives, PrepInv, PrepSets, Prep!No
    <3> QED BY <1>7, <1>d, <3>4, <3>5, <3>6 DEF Prep!RemoveArrives, PrepInv
  <2>4. CASE prepCall.preset \notin Prep!Readable(prepAccount)
    <3>1. prepCall' = Prep!No /\ prepStored' = prepStored
      BY <1>7, <2>1, <2>4 DEF Prep!RemoveArrives
    <3>2. Prep!Readable(prepAccount)' = Prep!Readable(prepAccount)
      BY <2>1, <3>1 DEF Prep!Readable
    <3>3. PrepList'
      BY <2>1, <3>1, <3>2 DEF PrepInv, PrepList, Prep!No
    <3>4. PrepSets' /\ PrepCalls'
      BY <1>7, <2>1, <3>1 DEF Prep!RemoveArrives, PrepInv, PrepSets, PrepCalls, Prep!No
    <3> QED BY <1>7, <1>d, <3>3, <3>4 DEF Prep!RemoveArrives, PrepInv
  <2> QED BY <2>3, <2>4
<1>8. CASE Prep!Reload
  <2>1. /\ prepCall.at = "reload" /\ prepCall' = Prep!No
        /\ ~listCrossed' => /\ listed' = Prep!Readable(prepAccount)
                            /\ ~listCrossed \/ prepLoading = Prep!No
        /\ UNCHANGED <<prepStored, prepAccount, prepLoading>>
    BY <1>8 DEF Prep!Reload
  <2>2. prepCall # Prep!No /\ prepCall.op \in {"save", "remove"}
    BY <1>a, <2>1 DEF PrepInv, PrepCalls
  <2>3. Prep!Readable(prepAccount)' = Prep!Readable(prepAccount)
    BY <2>1 DEF Prep!Readable
  <2>4. PrepList'
    BY <2>1, <2>2, <2>3 DEF PrepInv, PrepList, Prep!No
  <2>5. PrepSets' /\ PrepCalls'
    BY <1>8, <2>1, <2>2 DEF Prep!Reload, PrepInv, PrepSets, PrepCalls, Prep!No
  <2> QED BY <1>8, <1>d, <2>4, <2>5 DEF Prep!Reload, PrepInv
<1>9. ASSUME NEW kind, Prep!Save(kind) PROVE PrepInv'
  <2>1. /\ prepCall = Prep!No
        /\ prepCall' = [op |-> "save", preset |-> [id |-> 0, kind |-> kind, account |-> ""],
                        at |-> "sent"]
        /\ ~listCrossed' => ~listCrossed /\ prepLoading = Prep!No
    BY <1>9 DEF Prep!Save, Prep!SaveForms, Prep!Idle
  <2>2. DOMAIN prepCall' = {"op", "preset", "at"} /\ prepCall'.at = "sent" /\ prepCall'.op = "save"
    BY <2>1
  <2>3. prepCall' # Prep!No
    BY <1>a, <2>2
  <2> QED BY <1>9, <2>1, <2>2, <2>3, PrepBegins DEF Prep!Save
<1>10. ASSUME NEW p, Prep!Remove(p) PROVE PrepInv'
  <2>1. /\ prepCall = Prep!No
        /\ prepCall' = [op |-> "remove", preset |-> p, at |-> "sent"]
        /\ ~listCrossed' => ~listCrossed /\ prepLoading = Prep!No
    BY <1>10 DEF Prep!Remove, Prep!Row, Prep!LobbyRow, Prep!PreparationRow, Prep!Idle
  <2>2. DOMAIN prepCall' = {"op", "preset", "at"} /\ prepCall'.at = "sent" /\ prepCall'.op = "remove"
    BY <2>1
  <2>3. prepCall' # Prep!No
    BY <1>a, <2>2
  <2> QED BY <1>10, <2>1, <2>2, <2>3, PrepBegins DEF Prep!Remove
<1>11. ASSUME NEW p, Prep!Preview(p) PROVE PrepInv'
  <2>1. /\ prepCall = Prep!No
        /\ prepCall' = [op |-> "preview", preset |-> p, at |-> "sent", grant |-> 0]
    BY <1>11 DEF Prep!Preview, Prep!Row, Prep!LobbyRow, Prep!PreparationRow, Prep!Idle
  <2>2. /\ DOMAIN prepCall' = {"op", "preset", "at", "grant"} /\ prepCall'.at = "sent"
        /\ prepCall'.op = "preview"
    BY <2>1
  <2>3. prepCall' # Prep!No
    BY <1>a, <2>2
  <2> QED BY <1>11, <2>1, <2>2, <2>3, PrepBegins DEF Prep!Preview
<1>12. ASSUME NEW p, Prep!CreateItemSet(p) PROVE PrepInv'
  <2>1. /\ prepCall = Prep!No
        /\ prepCall' = [op |-> "itemset", at |-> "sent"]
        /\ ~setsCrossed' => ~setsCrossed /\ effect = Prep!No
    BY <1>12 DEF Prep!CreateItemSet, Prep!Row, Prep!LobbyRow, Prep!PreparationRow, Prep!Idle
  <2>2. DOMAIN prepCall' = {"op", "at"} /\ prepCall'.at = "sent" /\ prepCall'.op = "itemset"
    BY <2>1
  <2>3. prepCall' # Prep!No
    BY <1>a, <2>2
  <2> QED BY <1>12, <2>1, <2>2, <2>3, PrepBegins DEF Prep!CreateItemSet
<1>13. CASE Prep!PreviewArrives
  <2>1. /\ prepCall.at = "sent" /\ prepCall.op = "preview"
        /\ prepCall' = [prepCall EXCEPT !.at = "confirm", !.grant = given']
    BY <1>13 DEF Prep!PreviewArrives
  <2>2. /\ prepCall # Prep!No /\ {"op", "at"} \subseteq DOMAIN prepCall
    BY <1>a, <2>1 DEF PrepInv, PrepCalls
  <2>3. DOMAIN prepCall' = DOMAIN prepCall /\ prepCall'.at = "confirm" /\ prepCall'.op = "preview"
    BY <2>1, <2>2
  <2>4. PrepCalls'
    BY <2>2, <2>3 DEF PrepCalls
  <2> QED BY <1>13, <1>d, <2>1, <2>2, <2>3, <2>4, PrepGoesOn DEF Prep!PreviewArrives
<1>14. CASE Prep!Confirmed
  <2>1. /\ prepCall.at = "confirm"
        /\ prepCall' \in {Prep!No, [prepCall EXCEPT !.op = "apply", !.at = "sent"]}
    BY <1>14 DEF Prep!Confirmed
  <2>2. /\ prepCall # Prep!No /\ {"op", "at"} \subseteq DOMAIN prepCall
    BY <1>a, <2>1 DEF PrepInv, PrepCalls
  <2>3. prepCall' # Prep!No =>
          DOMAIN prepCall' = DOMAIN prepCall /\ prepCall'.at = "sent" /\ prepCall'.op = "apply"
    BY <2>1, <2>2
  <2>4. PrepCalls'
    BY <2>2, <2>3 DEF PrepCalls, Prep!No
  <2> QED BY <1>14, <1>d, <2>1, <2>2, <2>3, <2>4, PrepGoesOn DEF Prep!Confirmed
<1>15. CASE Prep!ApplyArrives
  <2>1. /\ prepCall.at = "sent" /\ prepCall' = Prep!No
    BY <1>15 DEF Prep!ApplyArrives
  <2>2. prepCall # Prep!No
    BY <1>a, <2>1
  <2>3. PrepCalls'
    BY <2>1 DEF PrepCalls, Prep!No
  <2>4. PICK g \in grants :
          /\ Prep!consume(g, prepCall.preset, Prep!Owner(prepCall.preset.kind, prepAccount))
          /\ prepApplied' = prepApplied \cup
               {[grant |-> g, account |-> Prep!Owner(prepCall.preset.kind, prepAccount)]}
    BY <1>15 DEF Prep!ApplyArrives
  <2>5. g.account = Prep!Owner(prepCall.preset.kind, prepAccount)
    BY <2>4 DEF Prep!consume
  <2>6. Prep!AppliedToItsAccount'
    <3> DEFINE done == [grant |-> g, account |-> Prep!Owner(prepCall.preset.kind, prepAccount)]
    <3>1. done.grant.account = done.account
      BY <2>5
    <3>2. prepApplied' = prepApplied \cup {done}
      BY <2>4
    <3> HIDE DEF done
    <3> QED BY <3>1, <3>2 DEF PrepInv, Prep!AppliedToItsAccount
  <2> QED BY <1>15, <2>1, <2>2, <2>3, <2>6, PrepGoesOn DEF Prep!ApplyArrives, Prep!No
<1>16. ASSUME NEW g, Prep!GrantExpires(g) PROVE PrepInv'
  BY <1>16, <1>b, <1>c, <1>d DEF Prep!GrantExpires, PrepInv
<1>17. CASE Prep!ItemSetArrives
  <2>1. /\ prepCall.at = "sent" /\ prepCall.op = "itemset"
        /\ kept' = <<sets>> \o kept /\ setsBefore' = sets /\ madeSets' = madeSets + 1
        /\ UNCHANGED <<prepAccount, prepStored, listed, prepLoading, prepApplied, effect, snapshots>>
    BY <1>17 DEF Prep!ItemSetArrives, Prep!keep
  <2>2. /\ prepCall # Prep!No /\ {"op", "at"} \subseteq DOMAIN prepCall
    BY <1>a, <2>1 DEF PrepInv, PrepCalls
  <2>3. CASE setsCrossed' = TRUE /\ prepCall' = Prep!No /\ UNCHANGED listCrossed
    <3>1. PrepCalls' /\ PrepSets'
      BY <2>3 DEF PrepCalls, PrepSets
    <3>2. PrepList'
      BY <2>1, <2>2, <2>3 DEF PrepInv, PrepList, Prep!No, Prep!Readable
    <3> QED BY <1>d, <2>1, <3>1, <3>2 DEF PrepInv
  <2>4. CASE /\ sets' = madeSets' /\ prepCall' = [prepCall EXCEPT !.at = "snapshots"]
             /\ UNCHANGED <<listCrossed, setsCrossed>>
    <3>1. DOMAIN prepCall' = DOMAIN prepCall /\ prepCall'.at = "snapshots" /\ prepCall'.op = "itemset"
      BY <2>1, <2>2, <2>4
    <3>2. prepCall' # Prep!No
      BY <1>a, <3>1
    <3>3. PrepCalls'
      BY <2>2, <3>1 DEF PrepCalls
    <3>4. PrepList'
      BY <2>1, <2>2, <2>4, <3>1, <3>2 DEF PrepInv, PrepList, Prep!No, Prep!Readable
    <3>5. PrepSets'
      <4> SUFFICES ASSUME ~setsCrossed' PROVE PrepSets'
        BY DEF PrepSets
      <4>1. /\ sets \in Nat /\ madeSets \in Nat /\ kept \in Seq(Nat) /\ effect = Prep!No
        BY <2>1, <2>2, <2>4 DEF PrepInv, PrepSets
      <4>2. kept' \in Seq(Nat) /\ Head(kept') = sets /\ sets' \in Nat /\ madeSets' \in Nat
        BY <2>1, <2>4, <4>1
      <4>3. effect' = Prep!No
        BY <2>1, <4>1
      <4> QED BY <2>1, <3>1, <3>2, <4>1, <4>2, <4>3 DEF PrepSets, Prep!No
    <3> QED BY <1>d, <2>1, <3>3, <3>4, <3>5 DEF PrepInv
  <2> QED BY <1>17, <2>3, <2>4 DEF Prep!ItemSetArrives
<1>18. CASE Prep!SnapshotsRead
  <2>1. /\ prepCall.at = "snapshots" /\ prepCall' = Prep!No
        /\ ~setsCrossed' => ~setsCrossed /\ snapshots' = kept
        /\ UNCHANGED <<prepAccount, prepStored, listed, prepLoading, prepApplied, sets, kept, effect,
                       setsBefore, madeSets, listCrossed>>
    BY <1>18 DEF Prep!SnapshotsRead
  <2>2. prepCall # Prep!No /\ prepCall.op = "itemset"
    BY <1>a, <2>1 DEF PrepInv, PrepCalls
  <2>3. PrepCalls' /\ PrepList'
    BY <2>1, <2>2 DEF PrepInv, PrepCalls, PrepList, Prep!No, Prep!Readable
  <2>4. PrepSets'
    BY <2>1, <2>2 DEF PrepInv, PrepSets, Prep!No
  <2> QED BY <1>d, <2>1, <2>3, <2>4 DEF PrepInv
<1>19. CASE Prep!Rollback
  <2>1. /\ prepCall = Prep!No /\ snapshots # <<>>
        /\ prepCall' = [op |-> "rollback", at |-> "sent", to |-> Head(snapshots)]
    BY <1>19 DEF Prep!Rollback, Prep!RollbackButton, Prep!Idle
  <2>2. /\ DOMAIN prepCall' = {"op", "at", "to"} /\ prepCall'.at = "sent"
        /\ prepCall'.op = "rollback" /\ prepCall'.to = Head(snapshots)
    BY <2>1
  <2>3. prepCall' # Prep!No
    BY <1>a, <2>2
  <2>4. ~setsCrossed => Head(snapshots) = setsBefore
    BY <2>1 DEF PrepInv, PrepSets
  <2> QED BY <1>19, <2>1, <2>2, <2>3, <2>4, PrepBegins DEF Prep!Rollback
<1>20. CASE Prep!RollbackArrives
  <2>1. /\ prepCall.at = "sent" /\ prepCall.op = "rollback" /\ prepCall' = Prep!No
        /\ sets' = prepCall.to
        /\ UNCHANGED <<prepAccount, prepStored, listed, prepLoading, prepApplied, kept, snapshots,
                       effect, setsBefore, madeSets, listCrossed, setsCrossed>>
    BY <1>20 DEF Prep!RollbackArrives
  <2>2. prepCall # Prep!No
    BY <1>a, <2>1
  <2>3. PrepCalls' /\ PrepList'
    BY <2>1, <2>2 DEF PrepInv, PrepCalls, PrepList, Prep!No, Prep!Readable
  <2>4. PrepSets'
    BY <2>1, <2>2 DEF PrepInv, PrepSets, Prep!No
  <2> QED BY <1>d, <2>1, <2>3, <2>4 DEF PrepInv
<1>21. CASE Prep!CallFails
  <2>1. prepCall.at = "sent" /\ prepCall' = Prep!No
    BY <1>21 DEF Prep!CallFails
  <2>2. prepCall # Prep!No
    BY <1>a, <2>1
  <2>3. PrepCalls'
    BY <2>1 DEF PrepCalls, Prep!No
  <2> QED BY <1>21, <1>d, <2>1, <2>2, <2>3, PrepGoesOn DEF Prep!CallFails, Prep!No
<1>22. CASE UNCHANGED Prep!vars
  BY <1>22, <1>b, <1>c, <1>d DEF Prep!vars, PrepInv
<1> QED BY <1>1, <1>2, <1>3, <1>4, <1>5, <1>6, <1>7, <1>8, <1>9, <1>10, <1>11, <1>12, <1>13,
           <1>14, <1>15, <1>16, <1>17, <1>18, <1>19, <1>20, <1>21, <1>22 DEF Prep!Next

(* The presets on show, and the preparations given to League, are those of *)
(* their account.                                                          *)
LEMMA PrepShows == PrepInv => Prep!ListIsStored
  BY DEF PrepInv, PrepList, Prep!ListIsStored

LEMMA PrepBelongs == PrepInv => Prep!AppliedToItsAccount
  BY DEF PrepInv

(* A rollback brings back what League had before the last change.          *)
LEMMA PrepUndoes == PrepInv /\ [Prep!Next]_(Prep!vars) =>
  [sets' # sets /\ prepCall.op = "rollback" /\ ~setsCrossed => sets' = setsBefore]_(Prep!vars)
<1> SUFFICES ASSUME PrepInv, Prep!Next, sets' # sets, prepCall.op = "rollback", ~setsCrossed
             PROVE  sets' = setsBefore
  BY DEF Prep!vars
<1>1. Prep!RollbackArrives \/ Prep!ItemSetArrives
  BY DEF Prep!Next, Prep!LoadRead, Prep!LoadShown, Prep!EffectRead, Prep!EffectShown,
     Prep!SwitchAccount, Prep!SaveArrives, Prep!RemoveArrives, Prep!Reload, Prep!Save, Prep!Remove,
     Prep!Preview, Prep!CreateItemSet, Prep!PreviewArrives, Prep!Confirmed, Prep!ApplyArrives,
     Prep!GrantExpires, Prep!SnapshotsRead, Prep!Rollback, Prep!CallFails, Prep!setVars
<1>2. Prep!RollbackArrives
  BY <1>1 DEF Prep!ItemSetArrives
<1>3. prepCall.at = "sent" /\ sets' = prepCall.to
  BY <1>2 DEF Prep!RollbackArrives
<1>4. prepCall # Prep!No
  BY <1>3 DEF Prep!No
<1> QED BY <1>3, <1>4 DEF PrepInv, PrepSets

-----------------------------------------------------------------------------
(* The profile studio: ProfileStudio.                                      *)

(* The profile page: one read of a champion's skins at a time, for the     *)
(* champion chosen; every load of the icons knows the one it is for; the   *)
(* presets on show are ahead of RiftOps' by the request answered last.     *)
ProfileSkins ==
  /\ catalogueLoading \in BOOLEAN /\ catalogueLoading <=> skinRead # Profile!No
  /\ catalogueLoading =>
       /\ selectedSkin = 0
       /\ profileSelectedChampion # 0 => skinRead.champion = profileSelectedChampion
  /\ Profile!SkinsOfChampion

ProfileIcons ==
  /\ \A l \in iconLoads : l.at = "read" => l.icon \in l.owned \cup {0}
  /\ Profile!SelectedIsOwned

ProfileDone(list) ==
  IF presetBusy.op = "save" THEN list \cup {presetBusy.preset} ELSE list \ {presetBusy.preset}

ProfilePresets ==
  /\ presetBusy # Profile!No =>
       DOMAIN presetBusy = {"at", "op", "preset"} /\ presetBusy.at \in {"sent", "done"}
  /\ ~studioCrossed =>
       /\ profilePresetRead # Profile!No =>
            presetBusy = Profile!No /\ (profilePresetRead.at = "read" => profilePresetRead.presets = store)
       /\ presetBusy # Profile!No /\ presetBusy.at = "done" => ProfileDone(profilePresets) = store
       /\ (presetBusy # Profile!No => presetBusy.at = "sent") => profilePresets = store

ProfileInv == ProfileSkins /\ ProfileIcons /\ ProfilePresets

LEMMA ProfileInvInit == Profile!Init => ProfileInv
<1> SUFFICES ASSUME Profile!Init PROVE ProfileInv
  OBVIOUS
<1>1. ProfileSkins
  BY DEF Profile!Init, ProfileSkins, Profile!SkinsOfChampion
<1>2. ProfileIcons
  <2>1. iconLoads = {[icon |-> 0, owned |-> {}, at |-> "asked"]} /\ selectedIcon = 0
    BY DEF Profile!Init
  <2>2. \A l \in iconLoads : l.at = "asked"
    BY <2>1
  <2> QED BY <2>1, <2>2 DEF ProfileIcons, Profile!SelectedIsOwned
<1>3. ProfilePresets
  <2>1. Profile!Asked.at = "asked"
    BY DEF Profile!Asked
  <2> QED BY <2>1 DEF Profile!Init, ProfilePresets
<1> QED BY <1>1, <1>2, <1>3 DEF ProfileInv

LEMMA ProfileInvNext == ProfileInv /\ [Profile!Next]_(Profile!vars) => ProfileInv'
<1> SUFFICES ASSUME ProfileInv, [Profile!Next]_(Profile!vars) PROVE ProfileInv'
  OBVIOUS
<1> USE DEF Profile!skinVars, Profile!iconVars, Profile!presetVars
<1>a. Profile!No.at = "no" /\ Profile!Asked.at = "asked" /\ Profile!Asked # Profile!No
  BY DEF Profile!No, Profile!Asked
<1>b. ASSUME UNCHANGED <<profileSelectedChampion, skins, selectedSkin, catalogueLoading,
                         catalogueError, skinRead>>
      PROVE  ProfileSkins'
  BY <1>b DEF ProfileInv, ProfileSkins, Profile!SkinsOfChampion, Profile!No
<1>c. ASSUME UNCHANGED <<qol, ownedIconIds, selectedIcon, iconLoads>>
      PROVE  ProfileIcons'
  BY <1>c DEF ProfileInv, ProfileIcons, Profile!SelectedIsOwned
<1>d. ASSUME UNCHANGED <<store, profilePresets, profilePresetRead, presetBusy, studioCrossed>>
      PROVE  ProfilePresets'
  BY <1>d DEF ProfileInv, ProfilePresets, ProfileDone, Profile!No
<1>1. ASSUME NEW t, Profile!setTool(t) PROVE ProfileInv'
  BY <1>1, <1>b, <1>c, <1>d DEF Profile!setTool, ProfileInv
<1>2. ASSUME NEW c, Profile!ChooseChampion(c) PROVE ProfileInv'
  <2>1. /\ profileSelectedChampion' = c /\ selectedSkin' = 0 /\ catalogueLoading' = TRUE
        /\ skinRead' = [at |-> "asked", champion |-> c]
    BY <1>2 DEF Profile!ChooseChampion
  <2>2. skinRead'.champion = c /\ skinRead'.at = "asked"
    BY <2>1
  <2>3. skinRead' # Profile!No
    BY <1>a, <2>2
  <2>4. ProfileSkins'
    BY <2>1, <2>2, <2>3 DEF ProfileSkins, Profile!SkinsOfChampion, Profile!No
  <2> QED BY <1>2, <1>c, <1>d, <2>4 DEF Profile!ChooseChampion, ProfileInv
<1>3. CASE Profile!SkinsAnswered
  <2>1. /\ skinRead # Profile!No /\ skinRead' = Profile!No /\ catalogueLoading' = FALSE
        /\ skins' = skinRead.champion \/ catalogueError' = TRUE
        /\ UNCHANGED <<profileSelectedChampion, selectedSkin>>
    BY <1>3 DEF Profile!SkinsAnswered
  <2>2. catalogueLoading
    BY <2>1 DEF ProfileInv, ProfileSkins
  <2>3. ProfileSkins'
    BY <2>1, <2>2 DEF ProfileInv, ProfileSkins, Profile!SkinsOfChampion, Profile!No
  <2> QED BY <1>3, <1>c, <1>d, <2>3 DEF Profile!SkinsAnswered, ProfileInv
<1>4. CASE Profile!ChooseSkin
  <2>1. /\ ~catalogueLoading /\ selectedSkin' = skins
        /\ UNCHANGED <<profileSelectedChampion, skins, catalogueLoading, catalogueError, skinRead>>
    BY <1>4 DEF Profile!ChooseSkin, Profile!BackgroundTab
  <2>2. ProfileSkins'
    BY <2>1 DEF ProfileInv, ProfileSkins, Profile!SkinsOfChampion, Profile!No
  <2> QED BY <1>4, <1>c, <1>d, <2>2 DEF Profile!ChooseSkin, ProfileInv
<1>5. CASE Profile!Reset
  <2>1. CASE /\ profileSelectedChampion' = 0 /\ selectedSkin' = 0
             /\ UNCHANGED <<selectedIcon, catalogueLoading, catalogueError, skinRead>>
    <3>1. ProfileSkins'
      BY <2>1 DEF ProfileInv, ProfileSkins, Profile!SkinsOfChampion, Profile!No
    <3> QED BY <1>5, <1>c, <1>d, <2>1, <3>1 DEF Profile!Reset, ProfileInv
  <2>2. CASE selectedIcon' = qol /\ UNCHANGED Profile!skinVars
    <3>1. UNCHANGED <<qol, ownedIconIds, iconLoads>>
      BY <1>5 DEF Profile!Reset
    <3>2. ProfileIcons'
      BY <2>2, <3>1 DEF ProfileInv, ProfileIcons, Profile!SelectedIsOwned
    <3> QED BY <1>5, <1>b, <1>d, <2>2, <3>2 DEF Profile!Reset, ProfileInv
  <2> QED BY <1>5, <2>1, <2>2 DEF Profile!Reset
<1>6. CASE Profile!QolPolled
  <2>1. /\ iconLoads' = iconLoads \cup {[icon |-> profileLeague, owned |-> {}, at |-> "asked"]}
        /\ UNCHANGED <<ownedIconIds, selectedIcon>>
    BY <1>6 DEF Profile!QolPolled
  <2> DEFINE load == [icon |-> profileLeague, owned |-> {}, at |-> "asked"]
  <2>2. load.at = "asked" /\ iconLoads' = iconLoads \cup {load}
    BY <2>1
  <2> HIDE DEF load
  <2>3. ProfileIcons'
    BY <2>2 DEF ProfileInv, ProfileIcons, Profile!SelectedIsOwned
  <2> QED BY <1>6, <1>b, <1>d, <2>3 DEF Profile!QolPolled, ProfileInv
<1>7. CASE Profile!Apply
  BY <1>7, <1>b, <1>c, <1>d DEF Profile!Apply, ProfileInv
<1>8. CASE Profile!Applied
  BY <1>8, <1>b, <1>c, <1>d DEF Profile!Applied, ProfileInv
<1>9. ASSUME NEW i, Profile!WearIcon(i) PROVE ProfileInv'
  BY <1>9, <1>b, <1>c, <1>d DEF Profile!WearIcon, ProfileInv
<1>10. ASSUME NEW i, Profile!ChooseIcon(i) PROVE ProfileInv'
  <2>1. i \in ownedIconIds /\ selectedIcon' = i /\ UNCHANGED <<qol, ownedIconIds, iconLoads>>
    BY <1>10 DEF Profile!ChooseIcon, Profile!IconLibrary
  <2>2. ProfileIcons'
    BY <2>1 DEF ProfileInv, ProfileIcons, Profile!SelectedIsOwned
  <2> QED BY <1>10, <1>b, <1>d, <2>2 DEF Profile!ChooseIcon, ProfileInv
<1>11. ASSUME NEW l \in iconLoads, Profile!IconsRead(l) PROVE ProfileInv'
  <2>1. PICK owned : iconLoads' = (iconLoads \ {l}) \cup
          {[icon |-> l.icon, owned |-> owned \cup ({l.icon} \ {0}), at |-> "read"]}
    BY <1>11 DEF Profile!IconsRead
  <2> DEFINE load == [icon |-> l.icon, owned |-> owned \cup ({l.icon} \ {0}), at |-> "read"]
  <2>2. load.icon \in load.owned \cup {0} /\ iconLoads' = (iconLoads \ {l}) \cup {load}
    BY <2>1
  <2> HIDE DEF load
  <2>3. ProfileIcons'
    BY <2>2 DEF ProfileInv, ProfileIcons, Profile!SelectedIsOwned
  <2> QED BY <1>11, <1>b, <1>d, <2>3 DEF Profile!IconsRead, ProfileInv
<1>12. ASSUME NEW l \in iconLoads, Profile!IconsShown(l) PROVE ProfileInv'
  <2>1. /\ l.at = "read" /\ iconLoads' = iconLoads \ {l} /\ ownedIconIds' = l.owned
        /\ selectedIcon' = l.icon
    BY <1>12 DEF Profile!IconsShown
  <2>2. ProfileIcons'
    BY <2>1 DEF ProfileInv, ProfileIcons, Profile!SelectedIsOwned
  <2> QED BY <1>12, <1>b, <1>d, <2>2 DEF Profile!IconsShown, ProfileInv
<1>13. ASSUME NEW slot, NEW t, Profile!handleAssignToken(slot, t) PROVE ProfileInv'
  BY <1>13, <1>b, <1>c, <1>d DEF Profile!handleAssignToken, ProfileInv
<1>14. CASE Profile!loadPresets
  <2>1. /\ profilePresetRead = Profile!Asked /\ profilePresetRead' = [at |-> "read", presets |-> store]
        /\ UNCHANGED <<store, profilePresets, presetBusy, studioCrossed>>
    BY <1>14 DEF Profile!loadPresets
  <2>2. profilePresetRead'.presets = store
    BY <2>1
  <2>3. ProfilePresets'
    BY <1>a, <2>1, <2>2 DEF ProfileInv, ProfilePresets, ProfileDone, Profile!No
  <2> QED BY <1>14, <1>b, <1>c, <2>3 DEF Profile!loadPresets, ProfileInv
<1>15. CASE Profile!PresetsShown
  <2>1. /\ profilePresetRead # Profile!No /\ profilePresetRead' = Profile!No
        /\ profilePresets' = IF profilePresetRead.at = "read" THEN profilePresetRead.presets
                             ELSE profilePresets
        /\ UNCHANGED <<store, presetBusy, studioCrossed>>
    BY <1>15 DEF Profile!PresetsShown
  <2>2. ProfilePresets'
    <3>1. CASE studioCrossed
      BY <2>1, <3>1 DEF ProfileInv, ProfilePresets, Profile!No
    <3>2. CASE ~studioCrossed
      <4>1. presetBusy = Profile!No
        BY <2>1, <3>2 DEF ProfileInv, ProfilePresets
      <4> QED BY <2>1, <3>2, <4>1 DEF ProfileInv, ProfilePresets, Profile!No
    <3> QED BY <3>1, <3>2
  <2> QED BY <1>15, <1>b, <1>c, <2>2 DEF Profile!PresetsShown, ProfileInv
<1>16. ASSUME NEW op, NEW p,
              presetBusy = Profile!No, presetBusy' = [at |-> "sent", op |-> op, preset |-> p],
              studioCrossed' = (studioCrossed \/ profilePresetRead # Profile!No),
              UNCHANGED <<store, profilePresets, profilePresetRead>>
       PROVE  ProfilePresets'
  <2>1. DOMAIN presetBusy' = {"at", "op", "preset"} /\ presetBusy'.at = "sent"
    BY <1>16
  <2>2. ~studioCrossed' => ~studioCrossed /\ profilePresetRead = Profile!No
    BY <1>16
  <2> QED BY <1>16, <2>1, <2>2 DEF ProfileInv, ProfilePresets, Profile!No
<1>17. CASE Profile!savePreset
  BY <1>17, <1>b, <1>c, <1>16 DEF Profile!savePreset, Profile!PresetsTab, ProfileInv
<1>18. ASSUME NEW p, Profile!requestDeletePreset(p) PROVE ProfileInv'
  BY <1>18, <1>b, <1>c, <1>16 DEF Profile!requestDeletePreset, Profile!PresetsTab, ProfileInv
<1>19. CASE Profile!PresetArrives
  <2>1. /\ presetBusy.at = "sent" /\ presetBusy' = [presetBusy EXCEPT !.at = "done"]
        /\ store' = ProfileDone(store)
        /\ UNCHANGED <<profilePresets, profilePresetRead, studioCrossed>>
    BY <1>19 DEF Profile!PresetArrives, ProfileDone
  <2>2. presetBusy # Profile!No
    BY <1>a, <2>1
  <2>3. /\ DOMAIN presetBusy' = {"at", "op", "preset"} /\ presetBusy'.at = "done"
        /\ presetBusy'.op = presetBusy.op /\ presetBusy'.preset = presetBusy.preset
    BY <2>1, <2>2 DEF ProfileInv, ProfilePresets
  <2>4. ProfileDone(profilePresets)' = ProfileDone(profilePresets)
    BY <2>1, <2>3 DEF ProfileDone
  <2>5. ProfilePresets'
    <3> SUFFICES ASSUME ~studioCrossed' PROVE ProfilePresets'
      BY <2>3 DEF ProfilePresets
    <3>1. profilePresets = store /\ profilePresetRead = Profile!No
      BY <2>1, <2>2 DEF ProfileInv, ProfilePresets
    <3>2. ProfileDone(profilePresets)' = store'
      BY <2>1, <2>4, <3>1
    <3>3. presetBusy' # Profile!No
      BY <1>a, <2>3
    <3> QED BY <2>1, <2>3, <3>1, <3>2, <3>3 DEF ProfilePresets, Profile!No
  <2> QED BY <1>19, <1>b, <1>c, <2>5 DEF Profile!PresetArrives, ProfileInv
<1>20. CASE Profile!PresetAnswered
  <2>1. /\ presetBusy.at = "done" /\ presetBusy' = Profile!No
        /\ profilePresets' = ProfileDone(profilePresets)
        /\ UNCHANGED <<store, profilePresetRead, studioCrossed>>
    BY <1>20 DEF Profile!PresetAnswered, ProfileDone
  <2>2. presetBusy # Profile!No
    BY <1>a, <2>1
  <2>3. ProfilePresets'
    BY <2>1, <2>2 DEF ProfileInv, ProfilePresets, Profile!No
  <2> QED BY <1>20, <1>b, <1>c, <2>3 DEF Profile!PresetAnswered, ProfileInv
<1>21. CASE Profile!PresetFails
  <2>1. /\ presetBusy # Profile!No /\ presetBusy' = Profile!No
        /\ ~studioCrossed' => ~studioCrossed /\ presetBusy.at # "done"
        /\ UNCHANGED <<store, profilePresets, profilePresetRead>>
    BY <1>21 DEF Profile!PresetFails
  <2>2. presetBusy.at # "done" => presetBusy.at = "sent"
    BY <2>1 DEF ProfileInv, ProfilePresets
  <2>3. ProfilePresets'
    BY <2>1, <2>2 DEF ProfileInv, ProfilePresets, Profile!No
  <2> QED BY <1>21, <1>b, <1>c, <2>3 DEF Profile!PresetFails, ProfileInv
<1>22. CASE UNCHANGED Profile!vars
  BY <1>22, <1>b, <1>c, <1>d DEF Profile!vars, ProfileInv
<1> QED BY <1>1, <1>2, <1>3, <1>4, <1>5, <1>6, <1>7, <1>8, <1>9, <1>10, <1>11, <1>12, <1>13,
           <1>14, <1>15, <1>17, <1>18, <1>19, <1>20, <1>21, <1>22 DEF Profile!Next

(* The skins are the champion's, the icon one the account has, and the     *)
(* presets RiftOps'.                                                       *)
LEMMA ProfileBelongs == ProfileInv => Profile!SkinsOfChampion /\ Profile!SelectedIsOwned
  BY DEF ProfileInv, ProfileSkins, ProfileIcons

LEMMA ProfileShows == ProfileInv => Profile!PresetsAreKept
  BY DEF ProfileInv, ProfilePresets, Profile!PresetsAreKept

-----------------------------------------------------------------------------
(* Home and the launch of League: AppShell.                                *)

(* Home runs one action; a client that is not known to be a desktop runs   *)
(* none; a running launch has the stage to itself, unless it was crossed.  *)
ShellInv ==
  /\ Shell!OneHomeAction
  /\ clientMode # "desktop" =>
       launches = {} /\ homeActions = {} /\ confirmModal # "restart"
  /\ clientMode = "phone" /\ settled => activeTab \in PhoneTabs
  /\ clientMode \in {"loading", "desktop", "phone"} /\ device \in {"desktop", "phone"}
  /\ timers \in Nat
  /\ Shell!OneLaunch

LEMMA ShellInvInit == Shell!Init => ShellInv
  BY DEF Shell!Init, ShellInv, Shell!OneHomeAction, Shell!OneLaunch

LEMMA ShellInvNext == ShellInv /\ [Shell!Next]_(Shell!vars) => ShellInv'
<1> SUFFICES ASSUME ShellInv, [Shell!Next]_(Shell!vars) PROVE ShellInv'
  OBVIOUS
<1> USE ShellAssumption
    DEF ShellAssumption, ShellInv, Shell!OneHomeAction, Shell!OneLaunch, Shell!shellVars,
        Shell!snapshotVars, Shell!launchVars, Shell!homeFrame, Shell!launchFrame
<1>1. CASE Shell!RemoteStatus
  BY <1>1 DEF Shell!RemoteStatus
<1>2. CASE Shell!SnapshotShown \/ Shell!TogglePalette \/ Shell!HandleQuit \/ Shell!CloseConfirm
  BY <1>2 DEF Shell!SnapshotShown, Shell!TogglePalette, Shell!HandleQuit, Shell!CloseConfirm
<1>3. ASSUME NEW tab \in AllTabs, Shell!SetActiveTab(tab) PROVE ShellInv'
  BY <1>3 DEF Shell!SetActiveTab
<1>4. CASE Shell!TabEffect
  BY <1>4 DEF Shell!TabEffect, Shell!availableTabs, Shell!remoteClient
<1>5. CASE Shell!LaunchButton \/ Shell!LaunchCommand \/ Shell!ConfirmRestart
  <2>1. clientMode = "desktop" /\ UNCHANGED <<clientMode, device, settled, activeTab, homeActions, timers>>
    BY <1>5 DEF Shell!LaunchButton, Shell!LaunchCommand, Shell!ConfirmRestart, Shell!OnHome,
                Shell!Palette, Shell!commandAvailable, Shell!remoteClient
  <2>2. Shell!Begin /\ (~shellCrossed' => launches = {})
    BY <1>5 DEF Shell!LaunchButton, Shell!LaunchCommand, Shell!ConfirmRestart
  <2>3. PICK id : launches' = launches \cup {Shell!Checking(id)}
    BY <2>2 DEF Shell!Begin
  <2> QED BY <2>1, <2>2, <2>3 DEF Shell!Begin
<1>6. ASSUME NEW l \in launches, Shell!LaunchStep(l) \/ Shell!LaunchEnds(l) \/ Shell!LaunchFails(l)
      PROVE  ShellInv'
  <2>1. clientMode = "desktop" /\ UNCHANGED <<clientMode, device, settled, activeTab, homeActions>>
    BY <1>6 DEF Shell!LaunchStep, Shell!LaunchEnds, Shell!LaunchFails
  <2>2. CASE Shell!LaunchStep(l)
    BY <2>1, <2>2 DEF Shell!LaunchStep, Shell!After
  <2>3. CASE Shell!LaunchEnds(l) \/ Shell!LaunchFails(l)
    <3>1. launches' = launches \ {l} /\ timers' = timers + 1
          /\ (~shellCrossed' => (~shellCrossed \/ launches' = {}))
          /\ (UNCHANGED confirmModal \/ confirmModal' = "restart")
      BY <2>3 DEF Shell!LaunchEnds, Shell!LaunchFails, Shell!Over
    <3>2. ~shellCrossed' => launches' = {}
      BY <3>1
    <3> QED BY <2>1, <3>1, <3>2
  <2> QED BY <1>6, <2>2, <2>3
<1>7. CASE Shell!StageTimer
  <2>1. /\ timers > 0 /\ timers' = timers - 1
        /\ UNCHANGED <<clientMode, device, settled, activeTab, homeActions, confirmModal, launches>>
        /\ (~shellCrossed' => launches = {})
    BY <1>7 DEF Shell!StageTimer
  <2> QED BY <2>1
<1>8. CASE Shell!HandleStop \/ Shell!HandleToggleMasking
           \/ \E status \in {"online", "offline"} : Shell!HandleSetStatus(status)
  <2>1. clientMode = "desktop" /\ UNCHANGED Shell!homeFrame
    BY <1>8 DEF Shell!HandleStop, Shell!HandleToggleMasking, Shell!HandleSetStatus, Shell!OnHome,
                Shell!Palette, Shell!commandAvailable, Shell!remoteClient
  <2>2. homeActions' = homeActions \/ \E name : homeActions' = {name}
    BY <1>8 DEF Shell!HandleStop, Shell!HandleToggleMasking, Shell!HandleSetStatus, Shell!HomeAction
  <2> QED BY <2>1, <2>2
<1>9. ASSUME NEW name \in homeActions, Shell!HomeActionEnds(name) PROVE ShellInv'
  BY <1>9 DEF Shell!HomeActionEnds
<1>10. CASE UNCHANGED Shell!vars
  BY <1>10 DEF Shell!vars
<1> QED
  BY <1>1, <1>2, <1>3, <1>4, <1>5, <1>6, <1>7, <1>8, <1>9, <1>10 DEF Shell!Next

LEMMA ShellOne == ShellInv => Shell!OneHomeAction /\ Shell!OneLaunch /\ Shell!PhoneKeepsOut
  BY DEF ShellInv, Shell!PhoneKeepsOut, Shell!remoteClient

-----------------------------------------------------------------------------
(* What the settings page keeps: Preferences.                              *)

(* The shape of the requests.  A request for the location that waits for   *)
(* its answer has stored its path.                                         *)
PrefsShapes ==
  /\ DOMAIN location = {"at", "path", "alone"} /\ location.at \in {"no", "sent", "stored"}
  /\ location.at = "no" => location = Prefs!NoLocation
  /\ location.at = "stored" => storedPath = location.path
  /\ location.alone => prefsSaves = {} /\ Prefs!Settled
  /\ \A s \in prefsSaves :
       DOMAIN s = {"at", "of", "whole", "path", "alone"} /\ s.at \in {"sent", "stored"}

(* A save that is alone stays so; as long as each was or one has been      *)
(* since, a save carries what is stored for all it is not about.           *)
PrefsSaved ==
  /\ \A s \in prefsSaves : s.alone =>
       /\ Prefs!Settled
       /\ \A t \in prefsSaves : t = s
       /\ s.at = "stored" => prefsStored = s.whole
  /\ ~prefsCrossed =>
       /\ \A s \in prefsSaves :
            s.alone /\ (s.at = "sent" => \A n \in Names \ s.of : s.whole[n] = prefsStored[n])
       /\ prefsAt = "read" => readPrefs = prefsStored
       /\ Prefs!Settled /\ prefsSaves = {} => shown = prefsStored

(* The same for the path, that a save carries too: it is the stored one    *)
(* until the backend has another.                                          *)
PrefsPath ==
  ~pathCrossed =>
    /\ ~Prefs!Settled => prefsSaves = {} /\ location = Prefs!NoLocation
    /\ prefsSaves # {} => location = Prefs!NoLocation
    /\ \A s \in prefsSaves : prefsTyped \/ s.path = Prefs!Located(storedPath)
    /\ Prefs!Settled /\ location.at # "stored" =>
         prefsTyped \/ riotClientPath = Prefs!Located(storedPath)

PrefsInv == PrefsShapes /\ PrefsSaved /\ PrefsPath

LEMMA PrefsNoLocation ==
  /\ DOMAIN Prefs!NoLocation = {"at", "path", "alone"}
  /\ Prefs!NoLocation.at = "no" /\ ~Prefs!NoLocation.alone
  BY DEF Prefs!NoLocation

LEMMA PrefsNotAlone == [Prefs!NoLocation EXCEPT !.alone = FALSE] = Prefs!NoLocation
<1>1. Prefs!NoLocation = [x \in {"at", "path", "alone"} |-> Prefs!NoLocation[x]]
  BY DEF Prefs!NoLocation
<1>2. Prefs!NoLocation.alone = FALSE
  BY Zenon DEF Prefs!NoLocation
<1> QED BY <1>1, <1>2, Zenon

LEMMA PrefsInvInit == Prefs!Init => PrefsInv
<1> SUFFICES ASSUME Prefs!Init PROVE PrefsInv
  OBVIOUS
<1>1. /\ prefsSaves = {} /\ location = Prefs!NoLocation /\ prefsAt = "asked"
  BY DEF Prefs!Init
<1>2. ~Prefs!Settled
  BY <1>1 DEF Prefs!Settled
<1> QED BY <1>1, <1>2, PrefsNoLocation DEF PrefsInv, PrefsShapes, PrefsSaved, PrefsPath

(* A save that crosses nothing carries what is on show, which is stored.   *)
LEMMA PrefsPersist ==
  ASSUME PrefsInv, NEW next, Prefs!Persist(next),
         UNCHANGED <<prefsStored, storedPath, riotClientPath, prefsAt, readPrefs, prefsTyped>>
  PROVE  PrefsInv'
<1> DEFINE alone == Prefs!Settled /\ prefsSaves = {}
           s == [at |-> "sent", of |-> DOMAIN next, whole |-> Prefs!Whole(next, shown),
                 path |-> riotClientPath, alone |-> alone]
           others == {[r EXCEPT !.alone = FALSE] : r \in prefsSaves}
<1>1. /\ prefsSaves' = others \cup {s} /\ location' = [location EXCEPT !.alone = FALSE]
      /\ ~prefsCrossed' => ~prefsCrossed /\ alone
      /\ ~pathCrossed' => ~pathCrossed /\ Prefs!Settled /\ location = Prefs!NoLocation
  BY DEF Prefs!Persist
<1>2. /\ DOMAIN s = {"at", "of", "whole", "path", "alone"} /\ s.at = "sent" /\ s.of = DOMAIN next
      /\ s.whole = Prefs!Whole(next, shown) /\ s.path = riotClientPath
      /\ s.alone => Prefs!Settled /\ prefsSaves = {}
      /\ alone => s.alone
  OBVIOUS
<1>3. \A n \in Names \ DOMAIN next : Prefs!Whole(next, shown)[n] = shown[n]
  BY DEF Prefs!Whole
<1>4. /\ DOMAIN location' = {"at", "path", "alone"} /\ location'.at = location.at
      /\ location'.path = location.path /\ ~location'.alone
  BY <1>1 DEF PrefsInv, PrefsShapes
<1>5. location = Prefs!NoLocation => location' = Prefs!NoLocation
  <2>1. Prefs!NoLocation = [Prefs!NoLocation EXCEPT !.alone = FALSE]
    BY PrefsNotAlone
  <2> QED BY <1>1, <2>1
<1>6. \A x \in others : \E r \in prefsSaves :
        /\ DOMAIN x = {"at", "of", "whole", "path", "alone"} /\ x.at = r.at /\ ~x.alone
        /\ x.path = r.path
  <2> SUFFICES ASSUME NEW r \in prefsSaves
               PROVE  LET x == [r EXCEPT !.alone = FALSE] IN
                        /\ DOMAIN x = {"at", "of", "whole", "path", "alone"} /\ x.at = r.at
                        /\ ~x.alone /\ x.path = r.path
    OBVIOUS
  <2>1. DOMAIN r = {"at", "of", "whole", "path", "alone"}
    BY DEF PrefsInv, PrefsShapes
  <2> QED BY <2>1
<1>7. prefsSaves = {} => others = {}
  OBVIOUS
<1>8. alone => Prefs!Settled /\ prefsSaves = {}
  OBVIOUS
<1>9. Prefs!Settled' <=> Prefs!Settled
  BY DEF Prefs!Settled
<1>10. Prefs!Located(storedPath)' = Prefs!Located(storedPath)
  BY DEF Prefs!Located
<1> HIDE DEF s, others, alone
<1>11. PrefsShapes'
  BY <1>1, <1>2, <1>4, <1>5, <1>6 DEF PrefsInv, PrefsShapes, Prefs!NoLocation
<1>12. PrefsSaved'
  <2>1. ASSUME NEW x \in prefsSaves', x.alone
        PROVE  x = s /\ others = {} /\ prefsSaves' = {s} /\ Prefs!Settled
    BY <1>1, <1>2, <1>6, <1>7, <2>1
  <2>2. \A x \in prefsSaves' : x.alone =>
          Prefs!Settled' /\ (\A t \in prefsSaves' : t = x) /\ x.at # "stored"
    BY <1>2, <1>9, <2>1
  <2>3. ASSUME ~prefsCrossed' PROVE prefsSaves' = {s} /\ s.alone /\ shown = prefsStored /\ Prefs!Settled
    BY <1>1, <1>2, <1>7, <1>8, <2>3 DEF PrefsInv, PrefsSaved
  <2>4. ASSUME ~prefsCrossed' PROVE \A n \in Names \ s.of : s.whole[n] = prefsStored[n]
    BY <1>2, <1>3, <2>3, <2>4
  <2>5. ~prefsCrossed' /\ prefsAt = "read" => FALSE
    BY <2>3 DEF Prefs!Settled
  <2> QED BY <2>2, <2>3, <2>4, <2>5 DEF PrefsSaved
<1>13. PrefsPath'
  <2> SUFFICES ASSUME ~pathCrossed' PROVE PrefsPath'
    BY DEF PrefsPath
  <2>1. /\ location = Prefs!NoLocation /\ Prefs!Settled /\ location'.at = "no"
        /\ \A r \in prefsSaves : prefsTyped \/ r.path = Prefs!Located(storedPath)
        /\ prefsTyped \/ riotClientPath = Prefs!Located(storedPath)
    BY <1>1, <1>4, PrefsNoLocation DEF PrefsInv, PrefsPath
  <2>2. \A x \in prefsSaves' : prefsTyped \/ x.path = Prefs!Located(storedPath)
    BY <1>1, <1>2, <1>6, <2>1
  <2>3. location' = Prefs!NoLocation'
    BY <1>5, <2>1 DEF Prefs!NoLocation
  <2> QED BY <1>9, <1>10, <2>1, <2>2, <2>3 DEF PrefsPath
<1> QED BY <1>11, <1>12, <1>13 DEF PrefsInv

LEMMA PrefsInvNext == PrefsInv /\ [Prefs!Next]_(Prefs!vars) => PrefsInv'
<1> SUFFICES ASSUME PrefsInv, [Prefs!Next]_(Prefs!vars) PROVE PrefsInv'
  OBVIOUS
<1> USE PrefsNoLocation DEF Prefs!pathVars, PrefsInv, PrefsShapes, PrefsSaved, PrefsPath
<1>0. Prefs!NoLocation' = Prefs!NoLocation
  BY DEF Prefs!NoLocation
<1>1. CASE Prefs!PreferencesRead
  <2>1. /\ ~Prefs!Settled /\ (prefsAt' = "read" \/ Prefs!Settled')
        /\ ~prefsCrossed' => ~prefsCrossed /\ prefsAt' = "read" /\ readPrefs' = prefsStored
        /\ ~pathCrossed' => ~pathCrossed /\ prefsAt' = "read"
        /\ UNCHANGED <<prefsStored, storedPath, shown, riotClientPath, prefsSaves, location, prefsTyped>>
    BY <1>1 DEF Prefs!PreferencesRead, Prefs!Settled
  <2>2. /\ Prefs!Located(storedPath)' = Prefs!Located(storedPath)
        /\ prefsAt' = "read" => ~Prefs!Settled'
    BY <2>1 DEF Prefs!Located, Prefs!Settled
  <2>3. PrefsShapes' /\ PrefsPath'
    BY <1>0, <2>1, <2>2
  <2>4. PrefsSaved'
    BY <2>1, <2>2
  <2> QED BY <2>3, <2>4
<1>2. CASE Prefs!PreferencesLoaded
  BY <1>0, <1>2 DEF Prefs!PreferencesLoaded, Prefs!Located, Prefs!Settled
<1>3. ASSUME NEW n, NEW v, Prefs!Choose(n, v) PROVE PrefsInv'
  BY <1>3, PrefsPersist DEF Prefs!Choose
<1>4. ASSUME NEW v, Prefs!SetGame(v) PROVE PrefsInv'
  BY <1>4, PrefsPersist DEF Prefs!SetGame
<1>5. CASE Prefs!Apply
  BY <1>5, PrefsPersist DEF Prefs!Apply
<1>6. ASSUME NEW n, NEW v, Prefs!Customize(n, v) PROVE PrefsInv'
  BY <1>0, <1>6 DEF Prefs!Customize, Prefs!Located, Prefs!Settled
<1>7. CASE Prefs!Skip
  BY <1>0, <1>7 DEF Prefs!Skip, Prefs!Located, Prefs!Settled
<1>8. ASSUME NEW s \in prefsSaves, Prefs!SaveArrives(s) PROVE PrefsInv'
  <2> DEFINE t == [s EXCEPT !.at = "stored"]
  <2>1. /\ DOMAIN t = {"at", "of", "whole", "path", "alone"} /\ t.at = "stored" /\ t.whole = s.whole
        /\ t.path = s.path /\ t.alone = s.alone
    OBVIOUS
  <2>2. /\ prefsSaves' = (prefsSaves \ {s}) \cup {t} /\ prefsStored' = s.whole
        /\ UNCHANGED <<storedPath, shown, riotClientPath, prefsAt, readPrefs, location, prefsTyped,
                       prefsCrossed, pathCrossed>>
    BY <1>8 DEF Prefs!SaveArrives
  <2> HIDE DEF t
  <2>3. (Prefs!Settled' <=> Prefs!Settled) /\ Prefs!Located(storedPath)' = Prefs!Located(storedPath)
    BY <2>2 DEF Prefs!Settled, Prefs!Located
  <2>4. PrefsShapes'
    BY <1>0, <2>1, <2>2, <2>3
  <2>5. \A x \in prefsSaves : x.alone => x = s /\ prefsSaves' = {t}
    BY <2>2
  <2>6. PrefsSaved'
    <3>1. \A x \in prefsSaves' : x.alone => x = t /\ s.alone /\ prefsSaves' = {t} /\ prefsStored' = t.whole
      BY <2>1, <2>2, <2>5
    <3>2. ASSUME ~prefsCrossed' PROVE prefsSaves' = {t} /\ t.alone /\ prefsAt # "read"
      <4>1. s.alone
        BY <2>2, <3>2
      <4> QED BY <2>1, <2>5, <4>1 DEF Prefs!Settled
    <3> QED BY <2>1, <2>2, <2>3, <3>1, <3>2
  <2>7. PrefsPath'
    BY <1>0, <2>1, <2>2, <2>3
  <2> QED BY <2>4, <2>6, <2>7
<1>9. ASSUME NEW s \in prefsSaves, Prefs!SaveAnswered(s) PROVE PrefsInv'
  <2>1. /\ s.at = "stored" /\ prefsSaves' = prefsSaves \ {s} /\ shown' = s.whole
        /\ riotClientPath' = s.path /\ (~prefsCrossed' => (~prefsCrossed \/ s.alone))
        /\ UNCHANGED <<prefsStored, storedPath, prefsAt, readPrefs, location, prefsTyped, pathCrossed>>
    BY <1>9 DEF Prefs!SaveAnswered
  <2>2. (Prefs!Settled' <=> Prefs!Settled) /\ Prefs!Located(storedPath)' = Prefs!Located(storedPath)
    BY <2>1 DEF Prefs!Settled, Prefs!Located
  <2>3. PrefsShapes'
    BY <1>0, <2>1, <2>2
  <2>4. PrefsSaved'
    <3>1. ASSUME ~prefsCrossed' PROVE prefsSaves' = {} /\ prefsStored = s.whole /\ prefsAt # "read"
      <4>1. s.alone
        BY <2>1, <3>1
      <4> QED BY <2>1, <4>1 DEF Prefs!Settled
    <3> QED BY <2>1, <2>2, <3>1
  <2>5. PrefsPath'
    BY <1>0, <2>1, <2>2
  <2> QED BY <2>3, <2>4, <2>5
<1>10. ASSUME NEW s \in prefsSaves, Prefs!SaveFails(s) PROVE PrefsInv'
  BY <1>0, <1>10 DEF Prefs!SaveFails, Prefs!Settled, Prefs!Located
<1>11. ASSUME NEW p, Prefs!TypePath(p) PROVE PrefsInv'
  BY <1>0, <1>11 DEF Prefs!TypePath, Prefs!Settled
<1>12. ASSUME NEW p, Prefs!AskLocation(p) PROVE PrefsInv'
  <2> DEFINE alone == Prefs!Settled /\ prefsSaves = {}
  <2>1. /\ location = Prefs!NoLocation /\ location' = [at |-> "sent", path |-> p, alone |-> alone]
        /\ UNCHANGED <<prefsStored, storedPath, shown, riotClientPath, prefsAt, readPrefs, prefsSaves,
                       prefsTyped, prefsCrossed>>
        /\ ~pathCrossed' => ~pathCrossed /\ alone
    BY <1>12 DEF Prefs!AskLocation
  <2>2. /\ DOMAIN location' = {"at", "path", "alone"} /\ location'.at = "sent" /\ location.at = "no"
        /\ location'.alone => Prefs!Settled /\ prefsSaves = {}
    BY <2>1
  <2>3. ~pathCrossed' => ~pathCrossed /\ Prefs!Settled /\ prefsSaves = {}
    BY <2>1
  <2>4. UNCHANGED <<prefsStored, storedPath, shown, riotClientPath, prefsAt, readPrefs, prefsSaves,
                    prefsTyped, prefsCrossed>>
    BY <2>1
  <2>5. (Prefs!Settled' <=> Prefs!Settled) /\ Prefs!Located(storedPath)' = Prefs!Located(storedPath)
    BY <2>4 DEF Prefs!Settled, Prefs!Located
  <2> HIDE DEF alone
  <2>6. PrefsShapes'
    BY <2>2, <2>4, <2>5
  <2>7. PrefsSaved'
    BY <2>4, <2>5
  <2>8. PrefsPath'
    BY <2>2, <2>3, <2>4, <2>5
  <2> QED BY <2>6, <2>7, <2>8
<1>13. CASE Prefs!LocationArrives
  <2>1. /\ location.at = "sent" /\ storedPath' = location.path
        /\ location' = [location EXCEPT !.at = "stored"]
        /\ UNCHANGED <<prefsStored, shown, riotClientPath, prefsAt, readPrefs, prefsSaves, prefsTyped,
                       prefsCrossed, pathCrossed>>
    BY <1>13 DEF Prefs!LocationArrives
  <2>2. /\ DOMAIN location' = {"at", "path", "alone"} /\ location'.at = "stored"
        /\ location'.path = location.path /\ location'.alone = location.alone
    BY <2>1
  <2>3. location # Prefs!NoLocation
    BY <2>1
  <2> QED BY <2>1, <2>2, <2>3 DEF Prefs!Settled
<1>14. CASE Prefs!LocationAnswered
  <2>1. /\ location.at = "stored" /\ location' = Prefs!NoLocation
        /\ riotClientPath' = Prefs!Located(location.path)
        /\ UNCHANGED <<prefsStored, storedPath, shown, prefsAt, readPrefs, prefsSaves, prefsCrossed>>
        /\ (~pathCrossed' => (~pathCrossed \/ location.alone))
    BY <1>14 DEF Prefs!LocationAnswered
  <2>2. location # Prefs!NoLocation
    BY <2>1
  <2>3. ~pathCrossed' => prefsSaves = {} /\ Prefs!Settled
    BY <2>1, <2>2
  <2>4. riotClientPath' = Prefs!Located(storedPath)'
    BY <2>1 DEF Prefs!Located
  <2> QED BY <1>0, <2>1, <2>3, <2>4 DEF Prefs!Settled
<1>15. CASE Prefs!LocationFails
  <2>1. /\ location' = Prefs!NoLocation /\ location # Prefs!NoLocation
        /\ UNCHANGED <<prefsStored, storedPath, shown, riotClientPath, prefsAt, readPrefs, prefsSaves,
                       prefsTyped, prefsCrossed>>
        /\ ~pathCrossed' => ~pathCrossed /\ location.at # "stored"
    BY <1>15 DEF Prefs!LocationFails
  <2>2. Prefs!Located(storedPath)' = Prefs!Located(storedPath)
    BY <2>1 DEF Prefs!Located
  <2> QED BY <1>0, <2>1, <2>2 DEF Prefs!Settled
<1>16. CASE UNCHANGED Prefs!vars
  BY <1>0, <1>16 DEF Prefs!vars, Prefs!Located, Prefs!Settled
<1> QED
  BY <1>1, <1>2, <1>3, <1>4, <1>5, <1>6, <1>7, <1>8, <1>9, <1>10, <1>11, <1>12, <1>13, <1>14, <1>15,
     <1>16 DEF Prefs!Next

LEMMA PrefsShows == PrefsInv => Prefs!ShownIsStored
  BY PrefsNoLocation DEF PrefsInv, PrefsShapes, PrefsSaved, PrefsPath, Prefs!ShownIsStored

LEMMA PrefsKeeps ==
  PrefsInv => [\A s \in prefsSaves :
                 ~prefsCrossed /\ Prefs!SaveArrives(s) =>
                   \A n \in Names \ s.of : prefsStored'[n] = prefsStored[n]]_(Prefs!vars)
  BY DEF PrefsInv, PrefsSaved, Prefs!SaveArrives

-----------------------------------------------------------------------------
(* The switches of the system settings: SystemSettings.                    *)

(* As long as nothing crossed: at most one switch is being changed, beside *)
(* no read; until it is, the switches on show are League's, unless they    *)
(* are being read again, and so is what an answer on its way says.         *)
SystemChat ==
  /\ \A t \in toggles : t.at \in {"sent", "done"}
  /\ read \in {System!No, System!Asked} \/ read.at = "read"
  /\ ~chatCrossed =>
       /\ \A t, u \in toggles : t = u
       /\ toggles # {} => read = System!No
       /\ read.at = "read" => read.on = systemLeague
       /\ \A t \in toggles : t.at = "done" => t.on = systemLeague
       /\ leagueTab /\ read = System!No /\ chatPrivacy.known /\ (\A t \in toggles : t.at = "sent") =>
            chatPrivacy.on = systemLeague

(* The proxy on show is unknown or RiftOps's, and so is an answer on its   *)
(* way.                                                                    *)
SystemProxy ==
  ~proxyCrossed =>
    /\ proxyRead.at = "read" => proxyRead.is = System!Status(proxy)
    /\ proxyRead # System!No => proxyBusy = ""
    /\ proxySetup \in {"unknown", System!Status(proxy)}

SystemInv == SystemChat /\ SystemProxy

LEMMA SystemInvInit == System!Init => SystemInv
<1> SUFFICES ASSUME System!Init PROVE SystemInv
  OBVIOUS
<1>1. System!No.at = "no" /\ System!Asked.at = "asked" /\ System!Unknown.known = FALSE
  BY DEF System!No, System!Asked, System!Unknown
<1> QED BY <1>1 DEF System!Init, SystemInv, SystemChat, SystemProxy

LEMMA SystemInvNext == SystemInv /\ [System!Next]_(System!vars) => SystemInv'
<1> SUFFICES ASSUME SystemInv, [System!Next]_(System!vars) PROVE SystemInv'
  OBVIOUS
<1> USE DEF System!proxyVars, System!chatVars
<1>0. System!No.at = "no" /\ System!Asked.at = "asked" /\ System!Unknown.known = FALSE
  BY DEF System!No, System!Asked, System!Unknown
<1>a. ASSUME UNCHANGED System!proxyVars PROVE SystemProxy'
  <2>1. System!Status(proxy') = System!Status(proxy) /\ proxySetup' = proxySetup
    BY <1>a DEF System!Status
  <2> QED BY <1>a, <2>1 DEF SystemInv, SystemProxy
<1>b. UNCHANGED System!chatVars => SystemChat'
  BY DEF SystemInv, SystemChat, System!No, System!Asked
<1>1. CASE System!PrivacyEffect
  <2>1. /\ UNCHANGED <<systemLeague, toggles>>
        /\ read' = System!No \/ read' = System!Asked
        /\ leagueTab' /\ read' = System!No => chatPrivacy' = System!Unknown
    BY <1>1, <1>0 DEF System!PrivacyEffect, System!No, System!Asked
  <2>2. ~chatCrossed' => (IF read' = System!Asked THEN toggles = {} ELSE ~chatCrossed)
    BY <1>1, <2>1 DEF System!PrivacyEffect
  <2>5. UNCHANGED <<System!No, System!Asked>> /\ System!Asked # System!No
    BY DEF System!No, System!Asked
  <2>3. ASSUME read' = System!Asked PROVE SystemChat'
    <3>1. read'.at = "asked" /\ read' # System!No' /\ (~chatCrossed' => toggles' = {})
      BY <1>0, <2>1, <2>2, <2>3, <2>5
    <3>2. \A t \in toggles' : t.at \in {"sent", "done"}
      BY <2>1 DEF SystemInv, SystemChat
    <3> QED BY <2>3, <2>5, <3>1, <3>2 DEF SystemChat
  <2>4. ASSUME read' = System!No PROVE SystemChat'
    <3>1. /\ read'.at = "no" /\ read' = System!No' /\ (~chatCrossed' => ~chatCrossed)
          /\ leagueTab' => ~chatPrivacy'.known
      BY <1>0, <2>1, <2>2, <2>4, <2>5
    <3> QED BY <2>1, <3>1 DEF SystemInv, SystemChat
  <2> QED BY <1>1, <1>a, <2>1, <2>3, <2>4 DEF System!PrivacyEffect, SystemInv
<1>2. CASE System!PrivacyRead
  <2>1. /\ read = System!Asked /\ read' = [at |-> "read", on |-> systemLeague]
        /\ UNCHANGED <<systemLeague, leagueTab, toggles, chatPrivacy, chatCrossed>>
    BY <1>2 DEF System!PrivacyRead
  <2>2. /\ read'.at = "read" /\ read'.on = systemLeague /\ read # System!No
        /\ read' # System!No' /\ UNCHANGED System!No
    BY <1>0, <2>1 DEF System!No
  <2>3. SystemChat'
    BY <2>1, <2>2 DEF SystemInv, SystemChat
  <2> QED BY <1>2, <1>a, <2>3 DEF System!PrivacyRead, SystemInv
<1>3. CASE System!PrivacyShown
  <2>1. /\ read # System!No /\ read' = System!No
        /\ chatPrivacy' = IF read.at = "read" THEN System!Known(read.on) ELSE System!Unknown
        /\ UNCHANGED <<systemLeague, leagueTab, toggles, chatCrossed>>
    BY <1>3 DEF System!PrivacyShown
  <2>2. System!Known(read.on).on = read.on
    BY DEF System!Known
  <2>3. SystemChat'
    BY <1>0, <2>1, <2>2 DEF SystemInv, SystemChat, System!No, System!Asked
  <2> QED BY <1>3, <1>a, <2>3 DEF System!PrivacyShown, SystemInv
<1>4. ASSUME NEW key, System!updateChatPrivacy(key) PROVE SystemInv'
  <2> DEFINE t == [key |-> key, value |-> key \notin chatPrivacy.on, at |-> "sent"]
  <2>1. /\ toggles' = toggles \cup {t} /\ chatPrivacy.known
        /\ UNCHANGED <<systemLeague, leagueTab, read, chatPrivacy>>
        /\ ~chatCrossed' => ~chatCrossed /\ toggles = {} /\ read = System!No
    BY <1>4 DEF System!updateChatPrivacy, System!Switch
  <2>2. t.at = "sent"
    OBVIOUS
  <2> HIDE DEF t
  <2>3. SystemChat'
    BY <1>0, <2>1, <2>2 DEF SystemInv, SystemChat, System!No, System!Asked
  <2> QED BY <1>4, <1>a, <2>3 DEF System!updateChatPrivacy, SystemInv
<1>5. ASSUME NEW t \in toggles, System!ToggleArrives(t) PROVE SystemInv'
  <2> DEFINE u == [key |-> t.key, value |-> t.value, at |-> "done", on |-> systemLeague']
  <2>1. /\ t.at = "sent" /\ toggles' = (toggles \ {t}) \cup {u}
        /\ UNCHANGED <<leagueTab, read, chatPrivacy, chatCrossed>>
    BY <1>5 DEF System!ToggleArrives
  <2>2. u.at = "done" /\ u.on = systemLeague'
    OBVIOUS
  <2> HIDE DEF u
  <2>3. SystemChat'
    <3>1. CASE chatCrossed
      BY <2>1, <2>2, <3>1 DEF SystemInv, SystemChat
    <3>2. CASE ~chatCrossed
      <4>1. toggles' = {u} /\ read' = System!No
        BY <2>1, <3>2 DEF SystemInv, SystemChat
      <4> QED BY <1>0, <2>2, <4>1 DEF SystemChat, System!No
    <3> QED BY <3>1, <3>2
  <2> QED BY <1>5, <1>a, <2>3 DEF System!ToggleArrives, SystemInv
<1>6. ASSUME NEW t \in toggles, System!ToggleAnswered(t) PROVE SystemInv'
  <2>1. /\ t.at = "done" /\ toggles' = toggles \ {t}
        /\ chatPrivacy' = IF chatPrivacy.known THEN System!Known(t.on) ELSE chatPrivacy
        /\ UNCHANGED <<systemLeague, leagueTab, read, chatCrossed>>
    BY <1>6 DEF System!ToggleAnswered
  <2>2. System!Known(t.on).on = t.on
    BY DEF System!Known
  <2>3. SystemChat'
    BY <1>0, <2>1, <2>2 DEF SystemInv, SystemChat, System!No, System!Asked
  <2> QED BY <1>6, <1>a, <2>3 DEF System!ToggleAnswered, SystemInv
<1>7. ASSUME NEW t \in toggles, System!ToggleFails(t) PROVE SystemInv'
  <2>1. /\ toggles' = toggles \ {t} /\ UNCHANGED <<systemLeague, leagueTab, read, chatPrivacy>>
        /\ ~chatCrossed' => ~chatCrossed /\ t.at # "done"
    BY <1>7 DEF System!ToggleFails
  <2>2. SystemChat'
    BY <1>0, <2>1 DEF SystemInv, SystemChat, System!No, System!Asked
  <2> QED BY <1>7, <1>a, <2>2 DEF System!ToggleFails, SystemInv
<1>8. CASE System!ProxyStatusRead
  <2> DEFINE r == [at |-> "read", is |-> System!Status(proxy)]
  <2>1. proxyRead = System!Asked /\ proxyRead' \in {System!No, r}
        /\ UNCHANGED <<proxy, proxySetup, proxyBusy, proxyCrossed>>
    BY <1>8 DEF System!ProxyStatusRead
  <2>2. r.at = "read" /\ r.is = System!Status(proxy) /\ proxyRead # System!No
    BY <1>0, <2>1
  <2> HIDE DEF r
  <2>3. SystemProxy'
    BY <1>0, <2>1, <2>2 DEF SystemInv, SystemProxy, System!No, System!Status
  <2> QED BY <1>8, <1>b, <2>3 DEF System!ProxyStatusRead, SystemInv
<1>9. CASE System!ProxyStatusShown
  <2>1. SystemProxy'
    BY <1>0, <1>9 DEF System!ProxyStatusShown, SystemInv, SystemProxy, System!No, System!Status
  <2> QED BY <1>9, <1>b, <2>1 DEF System!ProxyStatusShown, SystemInv
<1>10. CASE System!ProxyEnds
  <2>1. SystemProxy'
    BY <1>0, <1>10 DEF System!ProxyEnds, SystemInv, SystemProxy, System!No, System!Status
  <2> QED BY <1>10, <1>b, <2>1 DEF System!ProxyEnds, SystemInv
<1>11. CASE System!ProxyFails
  <2>1. ~proxyCrossed' => ~proxyCrossed /\ proxy' = proxy
    BY <1>11 DEF System!ProxyFails
  <2>2. SystemProxy'
    BY <1>0, <1>11, <2>1 DEF System!ProxyFails, SystemInv, SystemProxy
  <2> QED BY <1>11, <1>b, <2>2 DEF System!ProxyFails, SystemInv
<1>12. ASSUME NEW kind, System!ProxyRequest(kind) PROVE SystemInv'
  <2>1. ~proxyCrossed' => ~proxyCrossed /\ proxyRead = System!No
    BY <1>12 DEF System!ProxyRequest
  <2>2. SystemProxy'
    BY <1>0, <1>12, <2>1 DEF System!ProxyRequest, SystemInv, SystemProxy, System!No, System!Status
  <2> QED BY <1>12, <1>b, <2>2 DEF System!ProxyRequest, SystemInv
<1>13. CASE UNCHANGED System!vars
  BY <1>13, <1>a, <1>b DEF System!vars, SystemInv
<1> QED
  BY <1>1, <1>2, <1>3, <1>4, <1>5, <1>6, <1>7, <1>8, <1>9, <1>10, <1>11, <1>12, <1>13 DEF System!Next

LEMMA SystemShows == SystemInv => System!SwitchesShowLeague /\ System!ProxyShownIsSetUp
  BY DEF SystemInv, SystemChat, SystemProxy, System!SwitchesShowLeague, System!ProxyShownIsSetUp

-----------------------------------------------------------------------------
(* The accounts and their logins: LaunchAccounts.                          *)

(* One request at a time; it names the selected profile for as long as the *)
(* panel's list and selection can be relied on: they are those of RiftOps, *)
(* or a call has them still to read.                                       *)
AccountsSteps ==
  {<<>>, <<"load">>, <<"refresh">>, <<"refresh", "load">>, <<"load", "refresh">>}
AccountsOwes(c, what) ==
  \/ what = "load" /\ c.left \in {<<"load">>, <<"refresh", "load">>, <<"load", "refresh">>}
  \/ what = "refresh" /\ c.left \in {<<"refresh">>, <<"refresh", "load">>, <<"load", "refresh">>}

AccountsOne ==
  /\ Accounts!OneAccountAction
  /\ accountsBusy = "" => calls = {}
  /\ confirmation # Accounts!No => calls = {} /\ confirmation.op \in {"delete", "close"}
  /\ \A c \in calls :
       /\ DOMAIN c = {"op", "id", "riotId", "at", "left"}
       /\ c.op \in {"switch", "capture", "close", "save", "region", "delete"}
       /\ c.at \in {"sent", "done", "failed", "unwritten"}
       /\ c.left \in AccountsSteps /\ (c.at = "sent" => c.left = <<>>)
       /\ c.at = "unwritten" => c.op = "capture"

AccountsIds ==
  /\ DOMAIN accountsStored \subseteq 1 .. MaxProfiles /\ active \in DOMAIN accountsStored
  /\ DOMAIN profiles \subseteq 1 .. MaxProfiles
  /\ DOMAIN accountsLoads = {"shown", "call", "ranks"}
  /\ \A who \in DOMAIN accountsLoads :
       \/ accountsLoads[who] \in {Accounts!No, Accounts!Asked}
       \/ accountsLoads[who].at = "read" /\ DOMAIN accountsLoads[who].profiles \subseteq 1 .. MaxProfiles
  /\ \A c \in calls :
       (c.op = "save" => c.id \in 0 .. MaxProfiles) /\ (c.op = "region" => c.id \in 1 .. MaxProfiles)

AccountsReads ==
  /\ accountsLoads["call"] # Accounts!No => \E c \in calls : c.at # "sent"
  /\ ~accountsCrossed =>
       /\ accountsLoads["shown"] # Accounts!No \/ accountsLoads["ranks"] # Accounts!No => calls = {}
       /\ \A who \in DOMAIN accountsLoads :
            accountsLoads[who].at = "read" => accountsLoads[who].profiles = accountsStored
       /\ \/ profiles = accountsStored
          \/ accountsLoads["call"] # Accounts!No \/ accountsLoads["shown"] # Accounts!No
          \/ \E c \in calls : AccountsOwes(c, "load")
       /\ \/ activeProfileId = active
          \/ \E c \in calls : AccountsOwes(c, "refresh") \/ (c.op = "switch" /\ c.at = "failed")

AccountsNamed ==
  ~accountsCrossed =>
    /\ \A c \in calls :
         c.op \in {"capture", "close"} /\ c.at \in {"sent", "unwritten"} => c.id = active
    /\ confirmation # Accounts!No /\ confirmation.op = "close" => confirmation.id = active

AccountsInv == AccountsOne /\ AccountsIds /\ AccountsReads /\ AccountsNamed

LEMMA AccountsInvInit == Accounts!Init => AccountsInv
<1> SUFFICES ASSUME Accounts!Init PROVE AccountsInv
  OBVIOUS
<1>1. /\ accountsStored = <<"a", "b">> /\ active = 1 /\ profiles = <<>> /\ activeProfileId = 1
      /\ calls = {} /\ confirmation = Accounts!No /\ ~accountsCrossed
      /\ accountsLoads = [shown |-> Accounts!Asked, call |-> Accounts!No, ranks |-> Accounts!No]
  BY DEF Accounts!Init
<1>2. AccountsOne /\ AccountsNamed
  BY <1>1 DEF AccountsOne, AccountsNamed, Accounts!OneAccountAction
<1>3. AccountsIds
  BY <1>1, AccountsAssumption DEF AccountsIds, AccountsAssumption
<1>4. AccountsReads
  BY <1>1 DEF AccountsReads, Accounts!No, Accounts!Asked
<1> QED BY <1>2, <1>3, <1>4 DEF AccountsInv

(* The answer changes the call's state and what is left of it.             *)
LEMMA AccountsAnswered ==
  ASSUME AccountsOne, NEW c \in calls, NEW how \in {"done", "failed", "unwritten"},
         Accounts!Answered(c, how)
  PROVE  \E d : /\ calls' = {d} /\ d.op = c.op /\ d.id = c.id /\ d.at = how
                /\ DOMAIN d = {"op", "id", "riotId", "at", "left"}
                /\ d.left = IF how = "done" THEN Accounts!After(c.op) ELSE <<>>
<1> DEFINE rest == IF how = "done" THEN Accounts!After(c.op) ELSE <<>>
<1>1. calls = {c} /\ DOMAIN c = {"op", "id", "riotId", "at", "left"}
  BY DEF AccountsOne, Accounts!OneAccountAction
<1>2. calls' = {[c EXCEPT !.at = how, !.left = rest]}
  BY <1>1 DEF Accounts!Answered
<1> DEFINE d == [c EXCEPT !.at = how, !.left = rest]
<1> HIDE DEF rest
<1>3. /\ d.op = c.op /\ d.id = c.id /\ d.at = how /\ d.left = rest
      /\ DOMAIN d = {"op", "id", "riotId", "at", "left"}
  BY <1>1
<1>4. calls' = {d}
  BY <1>2
<1> HIDE DEF d
<1> QED BY <1>3, <1>4 DEF rest

LEMMA AccountsRemains ==
  ASSUME AccountsOne, NEW c \in calls, Accounts!Remains(c)
  PROVE  \E d : /\ calls' = {d} /\ d.op = c.op /\ d.id = c.id /\ d.at = c.at
                /\ DOMAIN d = {"op", "id", "riotId", "at", "left"}
                /\ d.left = Tail(c.left)
<1> DEFINE rest == Tail(c.left)
<1>1. calls = {c} /\ DOMAIN c = {"op", "id", "riotId", "at", "left"}
  BY DEF AccountsOne, Accounts!OneAccountAction
<1>2. calls' = {[c EXCEPT !.left = rest]}
  BY <1>1 DEF Accounts!Remains
<1> DEFINE d == [c EXCEPT !.left = rest]
<1> HIDE DEF rest
<1>3. /\ d.op = c.op /\ d.id = c.id /\ d.at = c.at /\ d.left = rest
      /\ DOMAIN d = {"op", "id", "riotId", "at", "left"}
  BY <1>1
<1>4. calls' = {d}
  BY <1>2
<1> HIDE DEF d
<1> QED BY <1>3, <1>4 DEF rest

LEMMA AccountsMin ==
  ASSUME NEW S, S \subseteq 1 .. MaxProfiles, S # {}
  PROVE  Accounts!Min(S) \in S
<1>1. \E x \in S : \A y \in S : x <= y
  <2>1. S \subseteq Nat
    BY AccountsAssumption DEF AccountsAssumption
  <2> QED BY <2>1, Least
<1> QED BY <1>1 DEF Accounts!Min

LEMMA AccountsMax ==
  ASSUME NEW S, S \subseteq 1 .. MaxProfiles, S # {}
  PROVE  Accounts!Max(S) \in S
<1> DEFINE T == {MaxProfiles - x : x \in S}
<1>1. T \subseteq Nat /\ T # {}
  <2>1. \A x \in 1 .. MaxProfiles : MaxProfiles - x \in Nat
    BY AccountsAssumption DEF AccountsAssumption
  <2>2. \A x \in S : MaxProfiles - x \in Nat
    BY <2>1
  <2>3. T \subseteq Nat
    BY <2>2
  <2> QED BY <2>3
<1>2. PICK x \in T : \A y \in T : x <= y
  <2> HIDE DEF T
  <2> QED BY <1>1, Least
<1>3. \E x1 \in S : \A y \in S : x1 >= y
  <2>1. PICK x1 \in S : x = MaxProfiles - x1
    BY <1>2
  <2>2. \A y \in S : MaxProfiles - x1 <= MaxProfiles - y
    BY <1>1, <1>2, <2>1
  <2> QED BY <2>2, AccountsAssumption DEF AccountsAssumption
<1> QED BY <1>3 DEF Accounts!Max

(* A request is sent while no other is under way.                          *)
LEMMA AccountsSent ==
  ASSUME AccountsInv, NEW op, NEW id, NEW riotId, Accounts!Sends(op, id, riotId), calls = {}
  PROVE  /\ accountsBusy' = op
         /\ \E d : /\ calls' = {d} /\ d.op = op /\ d.id = id /\ d.at = "sent" /\ d.left = <<>>
                   /\ DOMAIN d = {"op", "id", "riotId", "at", "left"}
         /\ ~accountsCrossed' =>
              ~accountsCrossed /\ accountsLoads["shown"] = Accounts!No /\ accountsLoads["ranks"] = Accounts!No
<1> DEFINE d == [op |-> op, id |-> id, riotId |-> riotId, at |-> "sent", left |-> <<>>]
<1>1. calls' = {d} /\ accountsBusy' = op
  BY DEF Accounts!Sends
<1>2. /\ d.op = op /\ d.id = id /\ d.at = "sent" /\ d.left = <<>>
      /\ DOMAIN d = {"op", "id", "riotId", "at", "left"}
  OBVIOUS
<1>3. ~accountsCrossed' =>
        ~accountsCrossed /\ accountsLoads["shown"] = Accounts!No /\ accountsLoads["ranks"] = Accounts!No
  BY DEF Accounts!Sends
<1> HIDE DEF d
<1> QED BY <1>1, <1>2, <1>3

(* The steps that leave the calls alone.                                   *)
AccountsQuiet ==
  \/ \E who \in {"shown", "call", "ranks"} :
       Accounts!LoadRead(who) \/ Accounts!Loaded(who) \/ Accounts!LoadFails(who)
  \/ Accounts!Refresh \/ Accounts!refreshRanks \/ Accounts!RanksShown \/ Accounts!SnapshotArrives
  \/ Accounts!SignIn \/ \E id \in DOMAIN profiles : Accounts!openProfileEditor(id)
  \/ Accounts!openNewProfileEditor \/ Accounts!useConnectedAccount \/ Accounts!resetDraft
  \/ Accounts!DeleteAsked \/ Accounts!Dismissed \/ UNCHANGED Accounts!vars

LEMMA AccountsQuietNext == AccountsInv /\ AccountsQuiet => AccountsInv'
<1> SUFFICES ASSUME AccountsInv, AccountsQuiet PROVE AccountsInv'
  OBVIOUS
<1> USE DEF Accounts!storeVars, Accounts!shownVars, Accounts!loadVars, Accounts!callVars,
            Accounts!dialogVars
<1>1. ASSUME NEW who \in {"shown", "call", "ranks"}, Accounts!LoadRead(who) PROVE AccountsInv'
  <2>1. AccountsOne' /\ AccountsNamed'
    BY <1>1 DEF AccountsInv, AccountsOne, AccountsNamed, Accounts!OneAccountAction, Accounts!LoadRead
  <2>2. DOMAIN accountsLoads = {"shown", "call", "ranks"}
    BY DEF AccountsInv, AccountsIds
  <2>3. AccountsIds'
    BY <1>1, <2>2 DEF AccountsInv, AccountsIds, Accounts!LoadRead
  <2>4. AccountsReads'
    BY <1>1, <2>2 DEF AccountsInv, AccountsReads, AccountsOwes, Accounts!LoadRead, Accounts!No, Accounts!Asked
  <2> QED BY <2>1, <2>3, <2>4 DEF AccountsInv
<1>2. ASSUME NEW who \in {"shown", "call", "ranks"}, Accounts!Loaded(who) PROVE AccountsInv'
  <2>1. AccountsOne' /\ AccountsNamed'
    BY <1>2 DEF AccountsInv, AccountsOne, AccountsNamed, Accounts!OneAccountAction, Accounts!Loaded
  <2>2. DOMAIN accountsLoads = {"shown", "call", "ranks"}
    BY DEF AccountsInv, AccountsIds
  <2>3. AccountsIds'
    BY <1>2, <2>2 DEF AccountsInv, AccountsIds, Accounts!Loaded, Accounts!No, Accounts!Asked
  <2>4. AccountsReads'
    BY <1>2, <2>2 DEF AccountsInv, AccountsReads, AccountsOwes, Accounts!Loaded, Accounts!No
  <2> QED BY <2>1, <2>3, <2>4 DEF AccountsInv
<1>3. ASSUME NEW who \in {"shown", "call", "ranks"}, Accounts!LoadFails(who) PROVE AccountsInv'
  <2>1. AccountsOne' /\ AccountsNamed'
    BY <1>3 DEF AccountsInv, AccountsOne, AccountsNamed, Accounts!OneAccountAction, Accounts!LoadFails
  <2>2. DOMAIN accountsLoads = {"shown", "call", "ranks"}
    BY DEF AccountsInv, AccountsIds
  <2>3. AccountsIds'
    BY <1>3, <2>2 DEF AccountsInv, AccountsIds, Accounts!LoadFails
  <2>4. AccountsReads'
    BY <1>3, <2>2 DEF AccountsInv, AccountsReads, Accounts!LoadFails
  <2> QED BY <2>1, <2>3, <2>4 DEF AccountsInv
<1>4. CASE Accounts!Refresh \/ Accounts!refreshRanks
  <2>1. AccountsOne' /\ AccountsNamed'
    BY <1>4 DEF AccountsInv, AccountsOne, AccountsNamed, Accounts!OneAccountAction, Accounts!Refresh,
                Accounts!refreshRanks
  <2>2. DOMAIN accountsLoads = {"shown", "call", "ranks"} /\ (accountsBusy = "" => calls = {})
    BY DEF AccountsInv, AccountsIds, AccountsOne
  <2>3. AccountsIds'
    BY <1>4, <2>2 DEF AccountsInv, AccountsIds, Accounts!Refresh, Accounts!refreshRanks
  <2>4. AccountsReads'
    <3>1. CASE Accounts!Refresh
      BY <2>2, <3>1 DEF AccountsInv, AccountsReads, AccountsOwes, Accounts!Refresh, Accounts!No,
                        Accounts!Asked
    <3>2. CASE Accounts!refreshRanks
      BY <2>2, <3>2 DEF AccountsInv, AccountsReads, AccountsOwes, Accounts!refreshRanks, Accounts!No,
                        Accounts!Asked
    <3> QED BY <1>4, <3>1, <3>2
  <2> QED BY <2>1, <2>3, <2>4 DEF AccountsInv
<1>5. CASE Accounts!RanksShown
  <2>1. AccountsOne' /\ AccountsNamed'
    BY <1>5 DEF AccountsInv, AccountsOne, AccountsNamed, Accounts!OneAccountAction, Accounts!RanksShown
  <2>2. DOMAIN accountsLoads = {"shown", "call", "ranks"}
    BY DEF AccountsInv, AccountsIds
  <2>3. AccountsIds'
    BY <1>5, <2>2 DEF AccountsInv, AccountsIds, Accounts!RanksShown, Accounts!No, Accounts!Asked
  <2>4. AccountsReads'
    BY <1>5, <2>2 DEF AccountsInv, AccountsReads, AccountsOwes, Accounts!RanksShown, Accounts!No
  <2> QED BY <2>1, <2>3, <2>4 DEF AccountsInv
<1>6. CASE \/ Accounts!SnapshotArrives \/ Accounts!SignIn \/ Accounts!openNewProfileEditor
           \/ Accounts!useConnectedAccount \/ Accounts!resetDraft \/ UNCHANGED Accounts!vars
           \/ \E id \in DOMAIN profiles : Accounts!openProfileEditor(id)
  <2>1. /\ UNCHANGED <<accountsStored, active, profiles, accountsLoads, accountsBusy, calls, confirmation,
                       accountsCrossed>>
        /\ activeProfileId' \in {activeProfileId, active}
    BY <1>6 DEF Accounts!SnapshotArrives, Accounts!SignIn, Accounts!openNewProfileEditor,
                Accounts!useConnectedAccount, Accounts!resetDraft, Accounts!vars,
                Accounts!openProfileEditor
  <2> QED
    BY <2>1 DEF AccountsInv, AccountsOne, AccountsIds, AccountsReads, AccountsNamed, AccountsOwes,
                Accounts!OneAccountAction
<1>7. CASE Accounts!DeleteAsked \/ Accounts!Dismissed
  <2>1. UNCHANGED <<accountsStored, active, profiles, accountsLoads, accountsBusy, calls, activeProfileId,
                    accountsCrossed>>
    BY <1>7 DEF Accounts!DeleteAsked, Accounts!Dismissed
  <2>2. \/ confirmation' = Accounts!No
        \/ calls = {} /\ confirmation'.op = "delete"
    <3>1. CASE Accounts!DeleteAsked
      <4>1. accountsBusy = "" /\ confirmation' = [at |-> "open", op |-> "delete", id |-> accountsEditor.id]
        BY <3>1 DEF Accounts!DeleteAsked, Accounts!EditorForm, Accounts!Free
      <4> QED BY <4>1 DEF AccountsInv, AccountsOne
    <3>2. CASE Accounts!Dismissed
      BY <3>2 DEF Accounts!Dismissed
    <3> QED BY <1>7, <3>1, <3>2
  <2> QED
    BY <2>1, <2>2 DEF AccountsInv, AccountsOne, AccountsIds, AccountsReads, AccountsNamed,
                      AccountsOwes, Accounts!OneAccountAction
<1> QED BY <1>1, <1>2, <1>3, <1>4, <1>5, <1>6, <1>7 DEF AccountsQuiet

(* The buttons that send a request.                                        *)
AccountsButton ==
  \/ \E id \in DOMAIN profiles : Accounts!runSwitch(id) \/ Accounts!updateDetectedServer(id)
  \/ Accounts!saveCurrentSession \/ Accounts!saveProfile \/ Accounts!Confirmed

AccountsSends(op, id, riotId) ==
  /\ Accounts!Sends(op, id, riotId)
  /\ op \in {"switch", "capture", "close", "save", "region", "delete"}
  /\ op = "save" => id \in 0 .. MaxProfiles
  /\ op = "region" => id \in 1 .. MaxProfiles
  /\ op = "capture" => id = Accounts!activeProfile /\ profiles # <<>>
  /\ op = "close" => confirmation # Accounts!No /\ confirmation.op = op /\ confirmation.id = id

LEMMA AccountsButtonNext == AccountsInv /\ AccountsButton => AccountsInv'
<1> SUFFICES ASSUME AccountsInv, AccountsButton PROVE AccountsInv'
  OBVIOUS
<1>1. /\ UNCHANGED <<accountsStored, active, profiles, accountsLoads, activeProfileId>>
      /\ calls = {} /\ confirmation' = Accounts!No
  BY DEF AccountsButton, Accounts!runSwitch, Accounts!updateDetectedServer, Accounts!ProfileRow,
         Accounts!saveCurrentSession, Accounts!saveProfile, Accounts!EditorForm, Accounts!Confirmed,
         Accounts!Free, Accounts!storeVars, Accounts!shownVars, Accounts!loadVars,
         Accounts!dialogVars, AccountsInv, AccountsOne
<1>2. PICK op, id, riotId : AccountsSends(op, id, riotId)
  <2>0. DOMAIN profiles \subseteq 1 .. MaxProfiles
    BY DEF AccountsInv, AccountsIds
  <2>1. ASSUME NEW id \in DOMAIN profiles, Accounts!runSwitch(id) PROVE AccountsSends("switch", id, "")
    BY <2>1 DEF Accounts!runSwitch, AccountsSends
  <2>2. ASSUME NEW id \in DOMAIN profiles, Accounts!updateDetectedServer(id)
        PROVE  AccountsSends("region", id, profiles[id])
    BY <2>0, <2>2 DEF Accounts!updateDetectedServer, AccountsSends
  <2>3. CASE Accounts!saveCurrentSession
    <3>1. AccountsSends("capture", Accounts!activeProfile, "")
      BY <2>3 DEF Accounts!saveCurrentSession, AccountsSends
    <3> QED BY <3>1
  <2>4. CASE Accounts!saveProfile
    <3>1. PICK id : /\ id = IF accountsEditor.id \in DOMAIN profiles THEN accountsEditor.id ELSE 0
                    /\ Accounts!Sends("save", id, accountsEditor.riotId)
      BY <2>4 DEF Accounts!saveProfile
    <3>2. id \in 0 .. MaxProfiles
      BY <2>0, <3>1, AccountsAssumption DEF AccountsAssumption
    <3>3. AccountsSends("save", id, accountsEditor.riotId)
      BY <3>1, <3>2 DEF AccountsSends
    <3> QED BY <3>3
  <2>5. CASE Accounts!Confirmed
    <3>1. /\ Accounts!Sends(confirmation.op, confirmation.id, "") /\ confirmation # Accounts!No
          /\ confirmation.op \in {"delete", "close"}
      BY <2>5 DEF Accounts!Confirmed, AccountsInv, AccountsOne
    <3>2. AccountsSends(confirmation.op, confirmation.id, "")
      BY <3>1 DEF AccountsSends
    <3> QED BY <3>2
  <2> QED BY <2>1, <2>2, <2>3, <2>4, <2>5 DEF AccountsButton
<1> USE DEF AccountsSends
<1>3. PICK d : /\ calls' = {d} /\ d.op = op /\ d.id = id /\ d.at = "sent" /\ d.left = <<>>
               /\ DOMAIN d = {"op", "id", "riotId", "at", "left"}
  BY <1>1, <1>2, AccountsSent
<1>4. /\ accountsBusy' = op
      /\ ~accountsCrossed' =>
           /\ ~accountsCrossed
           /\ accountsLoads["shown"] = Accounts!No /\ accountsLoads["ranks"] = Accounts!No
  BY <1>1, <1>2, AccountsSent
<1>5. accountsLoads["call"] = Accounts!No
  BY <1>1 DEF AccountsInv, AccountsReads
<1>6. ~accountsCrossed' => profiles = accountsStored /\ activeProfileId = active
  BY <1>1, <1>4, <1>5 DEF AccountsInv, AccountsReads
<1>7. AccountsOne'
  BY <1>1, <1>2, <1>3, <1>4 DEF AccountsOne, Accounts!OneAccountAction, AccountsSteps
<1>8. AccountsIds'
  BY <1>1, <1>2, <1>3 DEF AccountsInv, AccountsIds
<1>9. AccountsReads'
  <2>1. DOMAIN accountsLoads = {"shown", "call", "ranks"}
    BY DEF AccountsInv, AccountsIds
  <2> QED BY <1>1, <1>4, <1>5, <1>6, <2>1 DEF AccountsReads, Accounts!No
<1>10. AccountsNamed'
  <2>1. ~accountsCrossed' /\ op \in {"capture", "close"} => id = active
    <3>1. active \in DOMAIN accountsStored
      BY DEF AccountsInv, AccountsIds
    <3> QED BY <1>2, <1>4, <1>6, <3>1 DEF AccountsInv, AccountsNamed, Accounts!activeProfile
  <2> QED BY <1>1, <1>3, <2>1 DEF AccountsNamed
<1> QED BY <1>7, <1>8, <1>9, <1>10 DEF AccountsInv

(* The answers.                                                            *)
AccountsAnswer(c) ==
  \/ Accounts!SwitchArrives(c) \/ Accounts!CaptureArrives(c) \/ Accounts!NotPersisted(c)
  \/ Accounts!SaveArrives(c) \/ Accounts!DeleteArrives(c) \/ Accounts!RiftOpsRefuses(c)

AccountsAnswers(c, how) ==
  /\ Accounts!Answered(c, how) /\ (how = "unwritten" => c.op = "capture")
  /\ accountsStored' # accountsStored => how = "done" /\ c.op \in {"save", "region", "delete"}
  /\ active' # active =>
       \/ how = "done" /\ c.op \in {"switch", "save", "delete"}
       \/ how = "failed" /\ c.op = "switch"

LEMMA AccountsAnswerNext ==
  ASSUME AccountsInv, NEW c \in calls, AccountsAnswer(c) PROVE AccountsInv'
<1>1. /\ c.at = "sent" /\ calls = {c}
      /\ UNCHANGED <<profiles, activeProfileId, accountsLoads, accountsBusy, confirmation, accountsCrossed>>
  BY DEF AccountsAnswer, Accounts!SwitchArrives, Accounts!CaptureArrives, Accounts!NotPersisted,
         Accounts!SaveArrives, Accounts!DeleteArrives, Accounts!RiftOpsRefuses, Accounts!shownVars,
         Accounts!loadVars, Accounts!dialogVars, AccountsInv, AccountsOne, Accounts!OneAccountAction
<1>2. PICK how \in {"done", "failed", "unwritten"} : AccountsAnswers(c, how)
  <2>1. CASE Accounts!SwitchArrives(c)
    <3>1. PICK how \in {"done", "failed"} : Accounts!Answered(c, how)
      BY <2>1 DEF Accounts!SwitchArrives
    <3>2. AccountsAnswers(c, how)
      BY <2>1, <3>1 DEF Accounts!SwitchArrives, AccountsAnswers
    <3> QED BY <3>2
  <2>2. CASE Accounts!CaptureArrives(c) \/ Accounts!SaveArrives(c) \/ Accounts!DeleteArrives(c)
    <3>1. Accounts!Answered(c, "done") /\ c.op \in {"capture", "close", "save", "region", "delete"}
      BY <2>2 DEF Accounts!CaptureArrives, Accounts!SaveArrives, Accounts!DeleteArrives
    <3>2. c.op \in {"capture", "close", "region"} => active' = active
      <4>1. c.op = "region" => c.id # 0
        BY AccountsAssumption DEF AccountsInv, AccountsIds, AccountsAssumption
      <4> QED
        BY <2>2, <4>1 DEF Accounts!CaptureArrives, Accounts!SaveArrives, Accounts!DeleteArrives
    <3>3. c.op \in {"capture", "close"} => accountsStored' = accountsStored
      BY <2>2 DEF Accounts!CaptureArrives, Accounts!SaveArrives, Accounts!DeleteArrives
    <3>4. AccountsAnswers(c, "done")
      BY <3>1, <3>2, <3>3 DEF AccountsAnswers
    <3> QED BY <3>4
  <2>3. CASE Accounts!NotPersisted(c)
    <3>1. AccountsAnswers(c, "unwritten")
      BY <2>3 DEF Accounts!NotPersisted, Accounts!storeVars, AccountsAnswers
    <3> QED BY <3>1
  <2>4. CASE Accounts!RiftOpsRefuses(c)
    <3>1. AccountsAnswers(c, "failed")
      BY <2>4 DEF Accounts!RiftOpsRefuses, Accounts!storeVars, AccountsAnswers
    <3> QED BY <3>1
  <2> QED BY <2>1, <2>2, <2>3, <2>4 DEF AccountsAnswer
<1> USE DEF AccountsAnswers
<1>3. PICK d : /\ calls' = {d} /\ d.op = c.op /\ d.id = c.id /\ d.at = how
               /\ DOMAIN d = {"op", "id", "riotId", "at", "left"}
               /\ d.left = IF how = "done" THEN Accounts!After(c.op) ELSE <<>>
  BY <1>2, AccountsAnswered DEF AccountsInv
<1>4. c.op \in {"switch", "capture", "close", "save", "region", "delete"}
  BY DEF AccountsInv, AccountsOne
<1>5. /\ d.left \in AccountsSteps
      /\ how = "done" /\ c.op \in {"save", "region", "delete"} => AccountsOwes(d, "load")
      /\ how = "done" /\ c.op \in {"switch", "save", "delete"} => AccountsOwes(d, "refresh")
  BY <1>3, <1>4 DEF AccountsSteps, AccountsOwes, Accounts!After
<1>6. AccountsOne'
  BY <1>1, <1>2, <1>3, <1>4, <1>5 DEF AccountsInv, AccountsOne, Accounts!OneAccountAction
<1>7. AccountsIds'
  <2>1. DOMAIN accountsStored' \subseteq 1 .. MaxProfiles /\ active' \in DOMAIN accountsStored'
    <3>0. DOMAIN accountsStored \subseteq 1 .. MaxProfiles /\ active \in DOMAIN accountsStored
      BY DEF AccountsInv, AccountsIds
    <3>1. CASE Accounts!SwitchArrives(c)
      BY <3>0, <3>1 DEF Accounts!SwitchArrives
    <3>2. CASE Accounts!CaptureArrives(c) \/ Accounts!NotPersisted(c) \/ Accounts!RiftOpsRefuses(c)
      BY <3>0, <3>2 DEF Accounts!CaptureArrives, Accounts!NotPersisted, Accounts!RiftOpsRefuses,
                        Accounts!storeVars
    <3>3. CASE Accounts!SaveArrives(c)
      <4>1. PICK id \in 1 .. MaxProfiles :
              accountsStored' = Accounts!With(accountsStored, id, c.riotId) /\ active' \in {active, id}
        <5>1. CASE c.id = 0
          <6>1. Accounts!Max(DOMAIN accountsStored) \in DOMAIN accountsStored
            BY <3>0, AccountsMax
          <6>2. Accounts!Max(DOMAIN accountsStored) + 1 \in 1 .. MaxProfiles
            BY <3>0, <3>3, <5>1, <6>1, AccountsAssumption DEF Accounts!SaveArrives, AccountsAssumption
          <6> QED BY <3>3, <5>1, <6>2 DEF Accounts!SaveArrives
        <5>2. CASE c.id # 0
          <6>1. c.id \in 1 .. MaxProfiles
            BY <3>3, <5>2, AccountsAssumption
            DEF Accounts!SaveArrives, AccountsInv, AccountsIds, AccountsAssumption
          <6> QED BY <3>3, <5>2, <6>1 DEF Accounts!SaveArrives
        <5> QED BY <5>1, <5>2
      <4> QED BY <3>0, <4>1 DEF Accounts!With
    <3>4. CASE Accounts!DeleteArrives(c)
      <4>1. DOMAIN accountsStored' = DOMAIN accountsStored \ {c.id} /\ DOMAIN accountsStored' # {}
        BY <3>4 DEF Accounts!DeleteArrives, Accounts!Restrict
      <4>2. DOMAIN accountsStored' \subseteq 1 .. MaxProfiles
        BY <3>0, <4>1
      <4>3. active' = IF active = c.id THEN Accounts!Min(DOMAIN accountsStored') ELSE active
        BY <3>4 DEF Accounts!DeleteArrives
      <4> QED BY <3>0, <4>1, <4>2, <4>3, AccountsMin
    <3> QED BY <3>1, <3>2, <3>3, <3>4 DEF AccountsAnswer
  <2> QED BY <1>1, <1>3, <2>1 DEF AccountsInv, AccountsIds
<1>8. AccountsReads'
  <2>1. DOMAIN accountsLoads = {"shown", "call", "ranks"}
    BY DEF AccountsInv, AccountsIds
  <2>2. accountsLoads["call"] = Accounts!No
    BY <1>1 DEF AccountsInv, AccountsReads
  <2>3. ~accountsCrossed => accountsLoads["shown"] = Accounts!No /\ accountsLoads["ranks"] = Accounts!No
    BY <1>1 DEF AccountsInv, AccountsReads
  <2>4. ~accountsCrossed => \/ profiles = accountsStored' \/ AccountsOwes(d, "load")
    <3>1. ~AccountsOwes(c, "load")
      <4>1. c.left = <<>>
        BY <1>1 DEF AccountsInv, AccountsOne
      <4> QED BY <4>1 DEF AccountsOwes
    <3> QED BY <1>1, <1>2, <1>5, <2>2, <2>3, <3>1 DEF AccountsInv, AccountsReads
  <2>5. ~accountsCrossed =>
          activeProfileId = active' \/ AccountsOwes(d, "refresh") \/ (d.op = "switch" /\ d.at = "failed")
    <3>1. ~AccountsOwes(c, "refresh")
      <4>1. c.left = <<>>
        BY <1>1 DEF AccountsInv, AccountsOne
      <4> QED BY <4>1 DEF AccountsOwes
    <3> QED BY <1>1, <1>2, <1>3, <1>5, <3>1 DEF AccountsInv, AccountsReads
  <2> QED BY <1>1, <1>3, <2>1, <2>2, <2>3, <2>4, <2>5 DEF AccountsReads, Accounts!No
<1>9. AccountsNamed'
  <2>1. c.op \in {"capture", "close"} => active' = active
    BY <1>2
  <2> QED BY <1>1, <1>2, <1>3, <2>1 DEF AccountsInv, AccountsNamed, AccountsOne
<1> QED BY <1>6, <1>7, <1>8, <1>9 DEF AccountsInv

(* What the panel does once it has the answer.                             *)
LEMMA AccountsPanelNext ==
  ASSUME AccountsInv, NEW c \in calls, Accounts!SnapshotRefreshed(c) \/ Accounts!CallLoads(c)
  PROVE  AccountsInv'
<1>1. /\ calls = {c} /\ c.left # <<>> /\ c.at # "sent" /\ c.left \in AccountsSteps
      /\ UNCHANGED <<accountsStored, active, profiles, accountsBusy, confirmation>>
  BY DEF Accounts!SnapshotRefreshed, Accounts!CallLoads, Accounts!storeVars, Accounts!loadVars,
         Accounts!shownVars, Accounts!dialogVars, AccountsInv, AccountsOne, Accounts!OneAccountAction
<1>2. PICK d : /\ calls' = {d} /\ d.op = c.op /\ d.id = c.id /\ d.at = c.at
               /\ DOMAIN d = {"op", "id", "riotId", "at", "left"} /\ d.left = Tail(c.left)
  BY AccountsRemains DEF AccountsInv, Accounts!SnapshotRefreshed, Accounts!CallLoads
<1>3. /\ d.left \in AccountsSteps
      /\ Head(c.left) = "refresh" => (AccountsOwes(c, "load") => AccountsOwes(d, "load"))
      /\ Head(c.left) = "load" => (AccountsOwes(c, "refresh") => AccountsOwes(d, "refresh"))
  <2>1. c.left \in {<<"load">>, <<"refresh">>, <<"refresh", "load">>, <<"load", "refresh">>}
    BY <1>1 DEF AccountsSteps
  <2>2. CASE c.left = <<"load">> \/ c.left = <<"refresh">>
    <3>0. Tail(<<"load">>) = <<>> /\ Tail(<<"refresh">>) = <<>>
      OBVIOUS
    <3>1. d.left = <<>>
      BY <1>2, <2>2, <3>0
    <3> QED BY <2>2, <3>1 DEF AccountsSteps, AccountsOwes
  <2>3. CASE c.left = <<"refresh", "load">>
    <3>1. d.left = <<"load">> /\ Head(c.left) = "refresh"
      BY <1>2, <2>3
    <3> QED BY <3>1 DEF AccountsSteps, AccountsOwes
  <2>4. CASE c.left = <<"load", "refresh">>
    <3>1. d.left = <<"refresh">> /\ Head(c.left) = "load"
      BY <1>2, <2>4
    <3> QED BY <3>1 DEF AccountsSteps, AccountsOwes
  <2> QED BY <2>1, <2>2, <2>3, <2>4
<1>4. AccountsOne'
  BY <1>1, <1>2, <1>3 DEF AccountsInv, AccountsOne, Accounts!OneAccountAction
<1>5. DOMAIN accountsLoads = {"shown", "call", "ranks"}
  BY DEF AccountsInv, AccountsIds
<1>6. AccountsNamed' /\ (~accountsCrossed' => ~accountsCrossed)
  <2>1. ~accountsCrossed' => ~accountsCrossed
    BY DEF Accounts!SnapshotRefreshed, Accounts!CallLoads
  <2> QED BY <1>1, <1>2, <2>1 DEF AccountsInv, AccountsNamed
<1>7. CASE Accounts!SnapshotRefreshed(c)
  <2>1. AccountsIds'
    BY <1>1, <1>2, <1>7 DEF AccountsInv, AccountsIds, Accounts!SnapshotRefreshed, Accounts!loadVars
  <2>2. /\ accountsLoads' = accountsLoads /\ Head(c.left) = "refresh"
        /\ ~accountsCrossed' => activeProfileId' = active'
    BY <1>1, <1>7 DEF Accounts!SnapshotRefreshed, Accounts!loadVars
  <2>3. AccountsReads'
    BY <1>1, <1>2, <1>3, <1>6, <2>2 DEF AccountsInv, AccountsReads
  <2> QED BY <1>4, <1>6, <2>1, <2>3 DEF AccountsInv
<1>8. CASE Accounts!CallLoads(c)
  <2>1. /\ accountsLoads' = [accountsLoads EXCEPT !["call"] = Accounts!Asked] /\ Head(c.left) = "load"
        /\ activeProfileId' = activeProfileId
        /\ ~accountsCrossed' => accountsLoads["shown"] = Accounts!No
    BY <1>8 DEF Accounts!CallLoads, Accounts!shownVars
  <2>2. AccountsIds'
    BY <1>1, <1>2, <1>5, <2>1 DEF AccountsInv, AccountsIds
  <2>3. accountsLoads'["call"] # Accounts!No /\ accountsLoads'["call"].at # "read"
    BY <1>5, <2>1 DEF Accounts!No, Accounts!Asked
  <2>4. AccountsReads'
    BY <1>1, <1>2, <1>3, <1>5, <1>6, <2>1, <2>3 DEF AccountsInv, AccountsReads
  <2> QED BY <1>4, <1>6, <2>2, <2>4 DEF AccountsInv
<1> QED BY <1>7, <1>8

LEMMA AccountsEndNext ==
  ASSUME AccountsInv, NEW c \in calls, Accounts!CallEnds(c) PROVE AccountsInv'
<1>1. /\ calls = {c} /\ calls' = {} /\ accountsBusy' = "" /\ c.left = <<>> /\ c.at # "sent"
      /\ c.op \in {"switch", "capture", "close", "save", "region", "delete"}
      /\ accountsLoads["call"] = Accounts!No
      /\ UNCHANGED <<accountsStored, active, profiles, activeProfileId, accountsLoads>>
  BY DEF Accounts!CallEnds, Accounts!storeVars, Accounts!loadVars, Accounts!shownVars,
         AccountsInv, AccountsOne, Accounts!OneAccountAction
<1>2. \/ confirmation' = confirmation /\ confirmation = Accounts!No
      \/ c.at = "unwritten" /\ confirmation' = [at |-> "open", op |-> "close", id |-> c.id]
  BY <1>1 DEF Accounts!CallEnds, AccountsInv, AccountsOne
<1>3. ~accountsCrossed' =>
        ~accountsCrossed /\ (c.op = "switch" /\ c.at = "failed" => activeProfileId = active)
  BY DEF Accounts!CallEnds
<1>4. ~AccountsOwes(c, "load") /\ ~AccountsOwes(c, "refresh")
  <2>1. c.left = <<>>
    BY <1>1
  <2> QED BY <2>1 DEF AccountsOwes
<1>5. AccountsOne'
  <2>1. confirmation' = Accounts!No \/ confirmation'.op \in {"delete", "close"}
    BY <1>2
  <2> QED BY <1>1, <2>1 DEF AccountsOne, Accounts!OneAccountAction
<1>6. AccountsIds'
  BY <1>1 DEF AccountsInv, AccountsIds
<1>7. AccountsReads'
  BY <1>1, <1>3, <1>4 DEF AccountsInv, AccountsReads
<1>8. AccountsNamed'
  <2>1. c.at = "unwritten" => c.op = "capture"
    BY DEF AccountsInv, AccountsOne
  <2>2. ~accountsCrossed' /\ c.at = "unwritten" => c.id = active'
    BY <1>1, <1>3, <2>1 DEF AccountsInv, AccountsNamed
  <2>3. CASE c.at = "unwritten" /\ confirmation' = [at |-> "open", op |-> "close", id |-> c.id]
    <3>1. confirmation'.id = c.id
      BY <2>3
    <3> QED BY <1>1, <2>2, <2>3, <3>1 DEF AccountsNamed
  <2>4. CASE confirmation' = Accounts!No
    BY <1>1, <2>4 DEF AccountsNamed
  <2> QED BY <1>2, <2>3, <2>4
<1> QED BY <1>5, <1>6, <1>7, <1>8 DEF AccountsInv

LEMMA AccountsInvNext == AccountsInv /\ [Accounts!Next]_(Accounts!vars) => AccountsInv'
<1> SUFFICES ASSUME AccountsInv, [Accounts!Next]_(Accounts!vars) PROVE AccountsInv'
  OBVIOUS
<1>1. \/ AccountsQuiet \/ AccountsButton
      \/ \E c \in calls : \/ AccountsAnswer(c) \/ Accounts!SnapshotRefreshed(c) \/ Accounts!CallLoads(c)
                          \/ Accounts!CallEnds(c)
  BY DEF Accounts!Next, AccountsQuiet, AccountsButton, AccountsAnswer
<1> QED
  BY <1>1, AccountsQuietNext, AccountsButtonNext, AccountsAnswerNext, AccountsPanelNext, AccountsEndNext

LEMMA AccountsShows == AccountsInv => Accounts!OneAccountAction /\ Accounts!SavedForShown
  BY DEF AccountsInv, AccountsOne, AccountsNamed, Accounts!SavedForShown

(* The logins of a step.                                                   *)
LEMMA AccountsLogins ==
  [Accounts!Next]_(Accounts!vars) =>
    \A id \in DOMAIN logins' :
      (id \in DOMAIN logins => logins[id] # logins'[id]) => accountsStored'[id] = logins'[id]
<1> SUFFICES ASSUME [Accounts!Next]_(Accounts!vars), NEW id \in DOMAIN logins',
                    id \in DOMAIN logins => logins[id] # logins'[id]
             PROVE  accountsStored'[id] = logins'[id]
  OBVIOUS
<1>1. logins' # logins
  OBVIOUS
<1>2. PICK c \in calls : Accounts!CaptureArrives(c) \/ Accounts!DeleteArrives(c)
  BY <1>1 DEF Accounts!Next, Accounts!vars, Accounts!storeVars, Accounts!LoadRead, Accounts!Loaded,
     Accounts!LoadFails, Accounts!Refresh, Accounts!refreshRanks, Accounts!RanksShown,
     Accounts!SnapshotArrives, Accounts!SignIn, Accounts!runSwitch, Accounts!openProfileEditor,
     Accounts!updateDetectedServer, Accounts!saveCurrentSession, Accounts!openNewProfileEditor,
     Accounts!useConnectedAccount, Accounts!resetDraft, Accounts!saveProfile, Accounts!DeleteAsked,
     Accounts!Confirmed, Accounts!Dismissed, Accounts!SwitchArrives, Accounts!NotPersisted,
     Accounts!SaveArrives, Accounts!RiftOpsRefuses, Accounts!SnapshotRefreshed, Accounts!CallLoads,
     Accounts!CallEnds
<1>3. CASE Accounts!CaptureArrives(c)
  BY <1>3 DEF Accounts!CaptureArrives, Accounts!With
<1>4. CASE Accounts!DeleteArrives(c)
  BY <1>4 DEF Accounts!DeleteArrives, Accounts!Restrict
<1> QED BY <1>2, <1>3, <1>4

-----------------------------------------------------------------------------
(* The snapshots of League's settings: ClientBackups.                      *)

(* RiftOps' snapshots, and what a restore goes through with.               *)
BackupsSnapshots == [id : Nat, general : Backups!Values, input : Backups!Values]
BackupsPairs == [general : Backups!Values, input : Backups!Values]
BackupsRestores == {"kept", "general", "input"}

BackupsStore ==
  /\ settings \in BackupsPairs /\ before \in BackupsPairs /\ made \in Nat
  /\ backupsStored \in Seq(BackupsSnapshots)
  /\ "backup" \in DOMAIN backupsCall => backupsCall.backup \in BackupsSnapshots
  /\ backupsCall.at \in BackupsRestores => "backup" \in DOMAIN backupsCall /\ backupsCall.op = "restore"
  /\ "backup" \in DOMAIN backupsCall => backupsCall.at # "sent"
  /\ backupsCall # Backups!No => {"op", "at", "id"} \subseteq DOMAIN backupsCall

(* The call has left the snapshots as they were.                           *)
BackupsClean ==
  \/ backupsCall.at \in {"no", "sent", "failed"}
  \/ backupsCall.at = "done" /\ backupsCall.op = "preview"

BackupsLists ==
  /\ DOMAIN backupsLoads = {"shown", "call"}
  /\ backupsCall.at = "loading" <=> backupsLoads["call"] # Backups!No
  /\ ~backupsCrossed =>
       /\ backupsLoads["call"] # Backups!No => backupsLoads["shown"] = Backups!No
       /\ backupsLoads["call"].at = "read" => backupsLoads["call"].backups = backupsStored
       /\ BackupsClean =>
            /\ backupsLoads["shown"].at = "read" => backupsLoads["shown"].backups = backupsStored
            /\ backupsLoads["shown"] = Backups!No => backups = backupsStored

(* The question whether to delete covers every button.                     *)
BackupsAlone ==
  confirmAction # 0 => backupsCall = Backups!No /\ restoreDialog = Backups!No

BackupsInv ==
  /\ BackupsStore /\ BackupsLists /\ BackupsAlone
  /\ Backups!RecoveryPointKept /\ Backups!ResolvedIsNamed

LEMMA BackupsInvInit == Backups!Init => BackupsInv
<1> SUFFICES ASSUME Backups!Init PROVE BackupsInv
  OBVIOUS
<1>1. /\ DOMAIN Backups!No = {"at"} /\ Backups!No.at = "no" /\ Backups!Asked.at = "asked"
      /\ Backups!Asked # Backups!No
  BY DEF Backups!No, Backups!Asked
<1>2. /\ settings = [general |-> 1, input |-> 1] /\ before = settings /\ made = 0
      /\ backupsStored = <<>> /\ backups = <<>> /\ backupsCall = Backups!No
      /\ backupsLoads = [shown |-> Backups!Asked, call |-> Backups!No]
      /\ backupsSelectedChampion = ""
  BY DEF Backups!Init
<1>3. BackupsStore
  <2>1. settings \in BackupsPairs
    <3>1. 1 \in Backups!Values
      BY DEF Backups!Values
    <3> QED BY <1>2, <3>1 DEF BackupsPairs
  <2>3. backupsStored \in Seq(BackupsSnapshots)
    <3>1. backupsStored = <<>>
      BY <1>2
    <3>2. <<>> \in Seq(BackupsSnapshots)
      OBVIOUS
    <3> QED BY <3>1, <3>2
  <2>4. made \in Nat
    BY <1>2
  <2>2. "backup" \notin DOMAIN backupsCall /\ backupsCall.at \notin BackupsRestores
    BY <1>1, <1>2 DEF BackupsRestores
  <2> QED BY <1>2, <2>1, <2>2, <2>3, <2>4 DEF BackupsStore
<1>4. BackupsLists
  <2>1. DOMAIN backupsLoads = {"shown", "call"} /\ backupsLoads["shown"] = Backups!Asked
        /\ backupsLoads["call"] = Backups!No
    BY <1>2
  <2> QED BY <1>1, <1>2, <2>1 DEF BackupsLists
<1>5. Backups!RecoveryPointKept /\ Backups!ResolvedIsNamed /\ BackupsAlone
  <2>1. confirmAction = 0
    BY DEF Backups!Init
  <2> QED BY <1>1, <1>2, <2>1 DEF Backups!RecoveryPointKept, Backups!ResolvedIsNamed, BackupsAlone
<1> QED BY <1>3, <1>4, <1>5 DEF BackupsInv

(* What ends a step of the call changes how far it is, and nothing else.   *)
LEMMA BackupsEnds ==
  ASSUME NEW how, Backups!Ends(how), BackupsStore, backupsCall # Backups!No
  PROVE  /\ DOMAIN backupsCall' = DOMAIN backupsCall /\ backupsCall'.at = how
         /\ backupsCall'.op = backupsCall.op
         /\ "backup" \in DOMAIN backupsCall => backupsCall'.backup = backupsCall.backup
         /\ backupsCall' # Backups!No
<1>1. {"op", "at", "id"} \subseteq DOMAIN backupsCall
  BY DEF BackupsStore
<1>2. backupsCall' = [backupsCall EXCEPT !.at = how]
  BY DEF Backups!Ends
<1>3. /\ DOMAIN backupsCall' = DOMAIN backupsCall /\ backupsCall'.at = how
      /\ backupsCall'.op = backupsCall.op
      /\ "backup" \in DOMAIN backupsCall => backupsCall'.backup = backupsCall.backup
  BY <1>1, <1>2
<1>4. DOMAIN Backups!No = {"at"}
  BY DEF Backups!No
<1> QED BY <1>1, <1>3, <1>4

(* The new snapshot is kept, whatever had to go for it.                    *)
LEMMA BackupsKeep ==
  ASSUME BackupsStore, Backups!Keep
  PROVE  /\ made' \in Nat /\ backupsStored' \in Seq(BackupsSnapshots)
         /\ \E b \in Backups!Range(backupsStored)' : b.general = settings.general /\ b.input = settings.input
<1> DEFINE b == [id |-> made', general |-> settings.general, input |-> settings.input]
           s == Append(backupsStored, b)
<1>1. made' \in Nat /\ backupsStored' = Backups!Retained(s)
  BY DEF Backups!Keep, BackupsStore
<1>2. b \in BackupsSnapshots /\ b.general = settings.general /\ b.input = settings.input
  BY <1>1 DEF BackupsStore, BackupsSnapshots, BackupsPairs
<1> HIDE DEF b
<1>3. s \in Seq(BackupsSnapshots) /\ Len(s) \in Nat /\ Len(s) >= 1 /\ s[Len(s)] = b
  BY <1>2 DEF BackupsStore
<1> HIDE DEF s
<1>4. \E i \in DOMAIN backupsStored' : backupsStored'[i] = b
  <2>1. CASE Len(s) > BackupLimit
    <3>1. backupsStored' = SubSeq(s, Len(s) - BackupLimit + 1, Len(s))
      BY <1>1, <2>1 DEF Backups!Retained
    <3>2. Len(backupsStored') = BackupLimit /\ backupsStored'[BackupLimit] = s[Len(s)]
      BY <1>3, <2>1, <3>1, BackupsAssumption DEF BackupsAssumption
    <3>3. DOMAIN backupsStored' = 1 .. BackupLimit
      BY <1>3, <2>1, <3>1, BackupsAssumption DEF BackupsAssumption
    <3> QED BY <1>3, <3>2, <3>3, BackupsAssumption DEF BackupsAssumption
  <2>2. CASE ~(Len(s) > BackupLimit)
    <3>1. backupsStored' = s
      BY <1>1, <2>2 DEF Backups!Retained
    <3> QED BY <1>3, <3>1
  <2> QED BY <2>1, <2>2
<1>5. backupsStored' \in Seq(BackupsSnapshots)
  <2>1. CASE Len(s) > BackupLimit
    <3>1. backupsStored' = SubSeq(s, Len(s) - BackupLimit + 1, Len(s))
      BY <1>1, <2>1 DEF Backups!Retained
    <3> QED BY <1>3, <2>1, <3>1, BackupsAssumption DEF BackupsAssumption
  <2>2. CASE ~(Len(s) > BackupLimit)
    BY <1>1, <1>3, <2>2 DEF Backups!Retained
  <2> QED BY <2>1, <2>2
<1>6. b \in Backups!Range(backupsStored)'
  BY <1>4 DEF Backups!Range
<1> QED BY <1>1, <1>2, <1>5, <1>6

(* The steps of the loads.                                                 *)
LEMMA BackupsLoadsNext ==
  ASSUME BackupsInv, NEW who \in {"shown", "call"},
         \/ Backups!LoadRead(who) \/ Backups!Loaded(who) \/ Backups!LoadFails(who) \/ Backups!Refresh
  PROVE  BackupsInv'
<1> USE DEF Backups!leagueVars, Backups!storeVars, Backups!dialogs, Backups!lookup
<1>1. /\ DOMAIN Backups!No = {"at"} /\ Backups!No.at = "no" /\ Backups!Asked.at = "asked"
      /\ Backups!Asked # Backups!No
  BY DEF Backups!No, Backups!Asked
<1>2. /\ UNCHANGED <<settings, before, made, backupsStored, championQuery, backupsSelectedChampion>>
      /\ backupsCall' = backupsCall \/ backupsCall' = Backups!No
  BY DEF Backups!LoadRead, Backups!Loaded, Backups!LoadFails, Backups!Refresh
<1>3. BackupsStore'
  BY <1>1, <1>2 DEF BackupsInv, BackupsStore, BackupsRestores, BackupsPairs, BackupsSnapshots, Backups!No
<1>4. Backups!RecoveryPointKept' /\ Backups!ResolvedIsNamed' /\ BackupsAlone'
  <2>1. "backup" \in DOMAIN backupsCall' => "backup" \in DOMAIN backupsCall
    BY <1>1, <1>2
  <2>2. Backups!RecoveryPointKept'
    BY <1>2, <2>1 DEF BackupsInv, Backups!RecoveryPointKept, Backups!Range
  <2>3. UNCHANGED <<confirmAction, restoreDialog>>
    BY DEF Backups!LoadRead, Backups!Loaded, Backups!LoadFails, Backups!Refresh
  <2> QED
    BY <1>2, <2>2, <2>3 DEF BackupsInv, Backups!ResolvedIsNamed, BackupsAlone, Backups!No
<1>5. DOMAIN backupsLoads = {"shown", "call"}
  BY DEF BackupsInv, BackupsLists
<1>6. BackupsLists'
  <2>1. CASE Backups!LoadRead(who)
    <3> DEFINE r == [at |-> "read", backups |-> backupsStored, rewards |-> backupsPending]
    <3>1. /\ backupsLoads[who] = Backups!Asked /\ backupsLoads' = [backupsLoads EXCEPT ![who] = r]
          /\ UNCHANGED <<backupsStored, backups, backupsCall, backupsCrossed>>
      BY <2>1 DEF Backups!LoadRead
    <3>2. r.at = "read" /\ r.backups = backupsStored /\ DOMAIN r = {"at", "backups", "rewards"}
      OBVIOUS
    <3> HIDE DEF r
    <3>3. r # Backups!No
      BY <1>1, <3>2
    <3>4. DOMAIN backupsLoads' = {"shown", "call"} /\ backupsLoads'[who] = r
          /\ \A w \in {"shown", "call"} \ {who} : backupsLoads'[w] = backupsLoads[w]
      BY <1>5, <3>1
    <3> QED BY <1>1, <3>1, <3>2, <3>3, <3>4 DEF BackupsInv, BackupsLists, BackupsClean, Backups!No
  <2>2. CASE Backups!Loaded(who)
    <3>1. /\ backupsLoads[who].at = "read" /\ backupsLoads' = [backupsLoads EXCEPT ![who] = Backups!No]
          /\ backups' = backupsLoads[who].backups
          /\ backupsCall' = IF who = "call" THEN Backups!No ELSE backupsCall
          /\ UNCHANGED <<backupsStored, backupsCrossed>>
      BY <2>2 DEF Backups!Loaded
    <3>2. backupsLoads[who] # Backups!No
      BY <1>1, <3>1
    <3>3. DOMAIN backupsLoads' = {"shown", "call"} /\ backupsLoads'[who] = Backups!No
          /\ \A w \in {"shown", "call"} \ {who} : backupsLoads'[w] = backupsLoads[w]
      BY <1>5, <3>1
    <3>4. CASE who = "shown"
      BY <1>1, <3>1, <3>2, <3>3, <3>4 DEF BackupsInv, BackupsLists, BackupsClean, Backups!No
    <3>5. CASE who = "call"
      BY <1>1, <3>1, <3>2, <3>3, <3>5 DEF BackupsInv, BackupsLists, BackupsClean, Backups!No
    <3> QED BY <3>4, <3>5
  <2>3. CASE Backups!LoadFails(who)
    <3>1. /\ backupsLoads[who] # Backups!No /\ backupsCrossed'
          /\ backupsLoads' = [backupsLoads EXCEPT ![who] = Backups!No]
          /\ backupsCall' = IF who = "call" THEN Backups!No ELSE backupsCall
      BY <2>3 DEF Backups!LoadFails
    <3>2. DOMAIN backupsLoads' = {"shown", "call"} /\ backupsLoads'[who] = Backups!No
          /\ \A w \in {"shown", "call"} \ {who} : backupsLoads'[w] = backupsLoads[w]
      BY <1>5, <3>1
    <3>3. CASE who = "shown"
      BY <3>1, <3>2, <3>3 DEF BackupsInv, BackupsLists, Backups!No
    <3>4. CASE who = "call"
      BY <1>1, <3>1, <3>2, <3>4 DEF BackupsInv, BackupsLists, Backups!No
    <3> QED BY <3>3, <3>4
  <2>4. CASE Backups!Refresh
    <3>1. /\ backupsLoads' = [backupsLoads EXCEPT !["shown"] = Backups!Asked]
          /\ UNCHANGED <<backupsStored, backups, backupsCall>>
          /\ ~backupsCrossed' => \A w \in {"shown", "call"} : backupsLoads[w] = Backups!No
      BY <2>4 DEF Backups!Refresh, Backups!Starts
    <3>2. DOMAIN backupsLoads' = {"shown", "call"} /\ backupsLoads'["shown"] = Backups!Asked
          /\ backupsLoads'["call"] = backupsLoads["call"]
      BY <1>5, <3>1
    <3> QED BY <1>1, <3>1, <3>2 DEF BackupsInv, BackupsLists, BackupsClean, Backups!No
  <2> QED BY <2>1, <2>2, <2>3, <2>4
<1> QED BY <1>3, <1>4, <1>6 DEF BackupsInv

(* A call is sent while no other is under way, and leaves the rest alone.  *)
LEMMA BackupsCalls ==
  ASSUME BackupsInv, NEW op, NEW id,
         Backups!Calls(op, id) \/ UNCHANGED backupsCall \/ backupsCall' = Backups!No,
         backupsCall.at \in {"no", "failed"} \/ (backupsCall.at = "done" /\ backupsCall.op = "preview")
           \/ UNCHANGED backupsCall,
         UNCHANGED <<settings, before, made, backupsStored, backups, backupsLoads, backupsCrossed>>
  PROVE  BackupsStore' /\ BackupsLists' /\ Backups!RecoveryPointKept'
<1>1. DOMAIN Backups!No = {"at"} /\ Backups!No.at = "no"
  BY DEF Backups!No
<1>2. CASE UNCHANGED backupsCall
  BY <1>2 DEF BackupsInv, BackupsStore, BackupsLists, BackupsClean, BackupsRestores, BackupsPairs,
              BackupsSnapshots, Backups!RecoveryPointKept, Backups!Range, Backups!No
<1>3. CASE BackupsClean /\ (Backups!Calls(op, id) \/ backupsCall' = Backups!No)
  <2> DEFINE c == [op |-> op, at |-> "sent", id |-> id]
  <2>1. DOMAIN c = {"op", "at", "id"} /\ c.at = "sent"
    OBVIOUS
  <2>2. backupsCall' = c \/ backupsCall' = Backups!No
    BY <1>3 DEF Backups!Calls
  <2> HIDE DEF c
  <2>3. /\ "backup" \notin DOMAIN backupsCall' /\ backupsCall'.at \in {"sent", "no"}
        /\ backupsCall' # Backups!No => {"op", "at", "id"} \subseteq DOMAIN backupsCall'
    BY <1>1, <2>1, <2>2
  <2>4. BackupsStore' /\ Backups!RecoveryPointKept'
    BY <2>3 DEF BackupsInv, BackupsStore, BackupsRestores, BackupsPairs, BackupsSnapshots,
                Backups!RecoveryPointKept, Backups!No
  <2>5. BackupsLists'
    BY <1>3, <2>3 DEF BackupsInv, BackupsLists, BackupsClean, Backups!No
  <2> QED BY <2>4, <2>5
<1> QED BY <1>2, <1>3 DEF BackupsClean

(* The call's steps in RiftOps.                                            *)
LEMMA BackupsArrives ==
  ASSUME BackupsInv,
         \/ Backups!BackupArrives \/ Backups!DeleteArrives \/ Backups!PreviewArrives
         \/ Backups!RewardArrives \/ Backups!ArrivesInVain
  PROVE  BackupsInv'
<1> USE DEF Backups!leagueVars, Backups!storeVars, Backups!listVars, Backups!dialogs, Backups!lookup
<1>1. DOMAIN Backups!No = {"at"} /\ Backups!No.at = "no"
  BY DEF Backups!No
<1>2. /\ backupsCall.at = "sent"
      /\ UNCHANGED <<settings, before, backups, backupsLoads, backupsCrossed, championQuery,
                     backupsSelectedChampion>>
  BY DEF Backups!BackupArrives, Backups!DeleteArrives, Backups!PreviewArrives, Backups!RewardArrives,
         Backups!ArrivesInVain
<1>3. backupsCall # Backups!No /\ "backup" \notin DOMAIN backupsCall
  BY <1>1, <1>2 DEF BackupsInv, BackupsStore
<1>4. \E how \in {"done", "failed"} : Backups!Ends(how)
  BY DEF Backups!BackupArrives, Backups!DeleteArrives, Backups!PreviewArrives, Backups!RewardArrives,
         Backups!ArrivesInVain
<1>5. /\ DOMAIN backupsCall' = DOMAIN backupsCall /\ backupsCall'.at \in {"done", "failed"}
      /\ backupsCall'.op = backupsCall.op /\ backupsCall' # Backups!No
  BY <1>3, <1>4, BackupsEnds DEF BackupsInv
<1>6. made' \in Nat /\ backupsStored' \in Seq(BackupsSnapshots)
  <2>1. CASE Backups!BackupArrives
    BY <2>1, BackupsKeep DEF Backups!BackupArrives, BackupsInv
  <2>2. CASE Backups!DeleteArrives
    <3>1. PICK i \in DOMAIN backupsStored :
            backupsStored' = SubSeq(backupsStored, 1, i - 1) \o SubSeq(backupsStored, i + 1, Len(backupsStored))
      BY <2>2 DEF Backups!DeleteArrives
    <3>2. i \in 1 .. Len(backupsStored) /\ Len(backupsStored) \in Nat
          /\ backupsStored \in Seq(BackupsSnapshots)
      BY DEF BackupsInv, BackupsStore
    <3>3. /\ SubSeq(backupsStored, 1, i - 1) \in Seq(BackupsSnapshots)
          /\ SubSeq(backupsStored, i + 1, Len(backupsStored)) \in Seq(BackupsSnapshots)
      BY <3>2
    <3>4. made' = made
      BY <2>2 DEF Backups!DeleteArrives
    <3> QED BY <3>1, <3>3, <3>4 DEF BackupsInv, BackupsStore
  <2>3. CASE Backups!PreviewArrives \/ Backups!RewardArrives \/ Backups!ArrivesInVain
    BY <2>3 DEF Backups!PreviewArrives, Backups!RewardArrives, Backups!ArrivesInVain, BackupsInv,
                BackupsStore
  <2> QED BY <2>1, <2>2, <2>3
<1>7. BackupsStore' /\ Backups!RecoveryPointKept' /\ Backups!ResolvedIsNamed'
  BY <1>2, <1>3, <1>5, <1>6
  DEF BackupsInv, BackupsStore, BackupsRestores, BackupsPairs, Backups!RecoveryPointKept,
      Backups!ResolvedIsNamed
<1>10. BackupsAlone'
  <2>1. UNCHANGED confirmAction
    BY DEF Backups!BackupArrives, Backups!DeleteArrives, Backups!PreviewArrives,
           Backups!RewardArrives, Backups!ArrivesInVain
  <2> QED BY <1>3, <2>1 DEF BackupsInv, BackupsAlone
<1>8. (backupsCall'.at = "failed" \/ backupsCall'.op = "preview") => backupsStored' = backupsStored
  <2>1. CASE Backups!BackupArrives \/ Backups!DeleteArrives
    <3>1. Backups!Ends("done") /\ backupsCall.op \in {"backup", "delete"}
      BY <2>1 DEF Backups!BackupArrives, Backups!DeleteArrives
    <3>2. backupsCall'.at = "done"
      BY <1>3, <3>1, BackupsEnds DEF BackupsInv
    <3> QED BY <1>5, <3>1, <3>2
  <2>2. CASE Backups!PreviewArrives \/ Backups!RewardArrives \/ Backups!ArrivesInVain
    BY <2>2 DEF Backups!PreviewArrives, Backups!RewardArrives, Backups!ArrivesInVain
  <2> QED BY <2>1, <2>2
<1>9. BackupsLists'
  <2>1. /\ backupsLoads["call"] = Backups!No
        /\ BackupsClean
    BY <1>2 DEF BackupsInv, BackupsLists, BackupsClean
  <2>2. BackupsClean' => backupsStored' = backupsStored
    BY <1>5, <1>8 DEF BackupsClean
  <2> QED BY <1>1, <1>2, <1>5, <2>1, <2>2 DEF BackupsInv, BackupsLists, Backups!No
<1> QED BY <1>7, <1>9, <1>10 DEF BackupsInv

(* A restore keeps what is there before it changes anything.               *)
LEMMA BackupsRestoring ==
  ASSUME BackupsInv, Backups!RestoreKeeps \/ Backups!RestoreStep \/ Backups!RestoreFails
  PROVE  BackupsInv'
<1> USE DEF Backups!leagueVars, Backups!storeVars, Backups!listVars, Backups!dialogs, Backups!lookup
<1>1. DOMAIN Backups!No = {"at"} /\ Backups!No.at = "no"
  BY DEF Backups!No
<1>2. Backups!ResolvedIsNamed' /\ UNCHANGED <<backups, backupsLoads>>
  BY DEF Backups!RestoreKeeps, Backups!RestoreStep, Backups!RestoreFails, BackupsInv,
         Backups!ResolvedIsNamed
<1>a. BackupsAlone'
  <2>1. UNCHANGED confirmAction /\ backupsCall.at # "no"
    BY DEF Backups!RestoreKeeps, Backups!RestoreStep, Backups!RestoreFails
  <2> QED BY <1>1, <2>1 DEF BackupsInv, BackupsAlone
<1>3. CASE Backups!RestoreKeeps
  <2>1. PICK b \in Backups!Kept(backupsCall.id) :
          backupsCall' = [op |-> "restore", at |-> "kept", id |-> backupsCall.id, backup |-> b]
    BY <1>3 DEF Backups!RestoreKeeps
  <2>2. b \in BackupsSnapshots
    BY DEF Backups!Kept, Backups!Range, BackupsInv, BackupsStore
  <2>3. /\ DOMAIN backupsCall' = {"op", "at", "id", "backup"} /\ backupsCall'.op = "restore"
        /\ backupsCall'.at = "kept" /\ backupsCall'.backup = b
    BY <2>1
  <2>4. /\ backupsCall.at = "sent" /\ before' = settings /\ Backups!Keep
        /\ UNCHANGED <<settings, backupsCrossed>>
    BY <1>3 DEF Backups!RestoreKeeps
  <2>5. BackupsStore' /\ Backups!RecoveryPointKept'
    BY <1>1, <2>2, <2>3, <2>4, BackupsKeep
    DEF BackupsInv, BackupsStore, BackupsRestores, BackupsPairs, Backups!RecoveryPointKept, Backups!No
  <2>6. BackupsLists'
    BY <1>2, <2>3, <2>4 DEF BackupsInv, BackupsLists, BackupsClean, Backups!No
  <2> QED BY <1>2, <1>a, <2>5, <2>6 DEF BackupsInv
<1>4. ASSUME NEW how, Backups!Ends(how), how \notin {"no", "sent", "loading"},
             backupsCall.at \in BackupsRestores, settings' \in BackupsPairs,
             UNCHANGED <<before, backupsStored, made>>, UNCHANGED backupsCrossed \/ backupsCrossed',
             how = "failed" => backupsCrossed'
      PROVE  BackupsInv'
  <2>1. backupsCall # Backups!No
    BY <1>1, <1>4 DEF BackupsRestores
  <2>2. /\ DOMAIN backupsCall' = DOMAIN backupsCall /\ backupsCall'.at = how
        /\ backupsCall'.op = "restore" /\ "backup" \in DOMAIN backupsCall
        /\ backupsCall'.backup = backupsCall.backup /\ backupsCall' # Backups!No
    BY <1>4, <2>1, BackupsEnds DEF BackupsInv, BackupsStore
  <2>3. BackupsStore' /\ Backups!RecoveryPointKept'
    <3>1. {"op", "at", "id"} \subseteq DOMAIN backupsCall
      BY <2>1 DEF BackupsInv, BackupsStore
    <3>2. Backups!RecoveryPointKept'
      BY <1>4, <2>2 DEF BackupsInv, Backups!RecoveryPointKept, Backups!Range
    <3> QED
      BY <1>4, <2>2, <3>1, <3>2 DEF BackupsInv, BackupsStore, BackupsPairs, BackupsSnapshots
  <2>4. BackupsLists'
    BY <1>2, <1>4, <2>2 DEF BackupsInv, BackupsLists, BackupsClean, BackupsRestores, Backups!No
  <2> QED BY <1>2, <1>a, <2>3, <2>4 DEF BackupsInv
<1>5. CASE Backups!RestoreStep
  <2>1. /\ UNCHANGED <<before, backupsStored, made, backupsCrossed>>
        /\ backupsCall.at \in BackupsRestores
    BY <1>5 DEF Backups!RestoreStep, BackupsRestores
  <2>2. backupsCall.backup \in BackupsSnapshots /\ settings \in BackupsPairs
    BY <2>1 DEF BackupsInv, BackupsStore
  <2>3. settings' \in BackupsPairs
    BY <1>5, <2>2 DEF Backups!RestoreStep, BackupsSnapshots, BackupsPairs
  <2>4. \E how \in {"general", "input", "done"} : Backups!Ends(how)
    BY <1>5 DEF Backups!RestoreStep
  <2> QED BY <1>4, <2>1, <2>3, <2>4
<1>6. CASE Backups!RestoreFails
  <2>1. /\ Backups!Ends("failed") /\ backupsCrossed' /\ UNCHANGED <<before, backupsStored, made>>
        /\ backupsCall.at \in BackupsRestores
    BY <1>6 DEF Backups!RestoreFails, BackupsRestores
  <2>2. settings \in BackupsPairs /\ before \in BackupsPairs
    BY DEF BackupsInv, BackupsStore
  <2>3. settings' \in BackupsPairs
    BY <1>6, <2>2 DEF Backups!RestoreFails, BackupsPairs
  <2> QED BY <1>4, <2>1, <2>3
<1> QED BY <1>3, <1>5, <1>6

LEMMA BackupsInvNext == BackupsInv /\ [Backups!Next]_(Backups!vars) => BackupsInv'
<1> SUFFICES ASSUME BackupsInv, [Backups!Next]_(Backups!vars) PROVE BackupsInv'
  OBVIOUS
<1> USE DEF Backups!leagueVars, Backups!storeVars, Backups!listVars, Backups!dialogs, Backups!lookup
<1>0. DOMAIN Backups!No = {"at"} /\ Backups!No.at = "no"
  BY DEF Backups!No
<1>1. CASE \/ \E who \in {"shown", "call"} :
                Backups!LoadRead(who) \/ Backups!Loaded(who) \/ Backups!LoadFails(who)
           \/ Backups!Refresh
  BY <1>1, BackupsLoadsNext
<1>2. CASE \/ Backups!createBackup \/ Backups!Confirmed \/ Backups!CloseDialogs
           \/ Backups!handleExecuteRestore \/ Backups!chooseReward \/ Backups!PreviewShown
           \/ Backups!CallFails \/ UNCHANGED Backups!vars
           \/ \E id : Backups!handleOpenRestore(id) \/ Backups!handleDeleteBackup(id)
  <2>1. UNCHANGED <<settings, before, made, backupsStored, backups, backupsLoads, backupsCrossed,
                    championQuery, backupsSelectedChampion>>
    BY <1>2 DEF Backups!createBackup, Backups!Confirmed, Backups!CloseDialogs,
                Backups!handleExecuteRestore, Backups!chooseReward, Backups!PreviewShown,
                Backups!CallFails, Backups!vars, Backups!handleOpenRestore, Backups!handleDeleteBackup
  <2>2. (\E op, id : Backups!Calls(op, id)) \/ UNCHANGED backupsCall \/ backupsCall' = Backups!No
    BY <1>2 DEF Backups!createBackup, Backups!Confirmed, Backups!CloseDialogs,
                Backups!handleExecuteRestore, Backups!chooseReward, Backups!PreviewShown,
                Backups!CallFails, Backups!vars, Backups!handleOpenRestore, Backups!handleDeleteBackup
  <2>3. \/ backupsCall.at \in {"no", "failed"} \/ UNCHANGED backupsCall
        \/ backupsCall.at = "done" /\ backupsCall.op = "preview"
    BY <1>0, <1>2 DEF BackupsInv, BackupsAlone, Backups!createBackup, Backups!Confirmed, Backups!CloseDialogs, Backups!Idle,
                Backups!SnapshotRow,
                Backups!handleExecuteRestore, Backups!chooseReward, Backups!PreviewShown,
                Backups!CallFails, Backups!vars, Backups!handleOpenRestore, Backups!handleDeleteBackup
  <2>4. BackupsStore' /\ BackupsLists' /\ Backups!RecoveryPointKept'
    BY <2>1, <2>2, <2>3, BackupsCalls
  <2>5. BackupsAlone'
    BY <1>0, <1>2 DEF BackupsInv, BackupsAlone, Backups!createBackup, Backups!Confirmed,
                Backups!CloseDialogs, Backups!Idle, Backups!SnapshotRow, Backups!No,
                Backups!handleExecuteRestore, Backups!chooseReward, Backups!PreviewShown,
                Backups!CallFails, Backups!vars, Backups!handleOpenRestore, Backups!handleDeleteBackup
  <2> QED BY <2>1, <2>4, <2>5 DEF BackupsInv, Backups!ResolvedIsNamed
<1>3. CASE Backups!CallDone
  <2>1. /\ backupsCall.at = "done" /\ backupsCall.op # "preview" /\ Backups!Ends("loading")
        /\ backupsLoads' = [backupsLoads EXCEPT !["call"] = Backups!Asked]
        /\ UNCHANGED <<settings, before, made, backupsStored, backups, championQuery,
                       backupsSelectedChampion>>
        /\ ~backupsCrossed' => \A w \in {"shown", "call"} : backupsLoads[w] = Backups!No
    BY <1>3 DEF Backups!CallDone, Backups!Starts, Backups!Ends
  <2>2. backupsCall # Backups!No
    BY <1>0, <2>1
  <2>3. /\ DOMAIN backupsCall' = DOMAIN backupsCall /\ backupsCall'.at = "loading"
        /\ backupsCall'.op = backupsCall.op /\ backupsCall' # Backups!No
        /\ "backup" \in DOMAIN backupsCall => backupsCall'.backup = backupsCall.backup
    BY <2>1, <2>2, BackupsEnds DEF BackupsInv
  <2>4. /\ DOMAIN backupsLoads' = {"shown", "call"} /\ backupsLoads'["call"] = Backups!Asked
        /\ backupsLoads'["shown"] = backupsLoads["shown"]
    BY <2>1 DEF BackupsInv, BackupsLists
  <2>5. Backups!Asked # Backups!No /\ Backups!Asked.at = "asked"
    BY DEF Backups!Asked, Backups!No
  <2>6. BackupsStore'
    BY <2>1, <2>2, <2>3 DEF BackupsInv, BackupsStore, BackupsRestores, BackupsPairs, BackupsSnapshots
  <2>7. Backups!RecoveryPointKept' /\ Backups!ResolvedIsNamed' /\ BackupsAlone'
    <3>1. UNCHANGED confirmAction
      BY <1>3 DEF Backups!CallDone
    <3> QED
      BY <2>1, <2>2, <2>3, <3>1 DEF BackupsInv, Backups!RecoveryPointKept, Backups!ResolvedIsNamed,
                                    Backups!Range, BackupsAlone
  <2>8. BackupsLists'
    BY <2>1, <2>3, <2>4, <2>5 DEF BackupsInv, BackupsLists, BackupsClean, Backups!No
  <2> QED BY <2>6, <2>7, <2>8 DEF BackupsInv
<1>4. CASE \/ Backups!BackupArrives \/ Backups!DeleteArrives \/ Backups!PreviewArrives
           \/ Backups!RewardArrives \/ Backups!ArrivesInVain
  BY <1>4, BackupsArrives
<1>5. CASE Backups!RestoreKeeps \/ Backups!RestoreStep \/ Backups!RestoreFails
  BY <1>5, BackupsRestoring
<1>6. CASE Backups!SettingsChange
  <2>1. /\ settings' \in BackupsPairs
        /\ UNCHANGED <<before, made, backupsStored, backups, backupsLoads, backupsCall, backupsCrossed,
                       championQuery, backupsSelectedChampion, confirmAction, restoreDialog>>
    BY <1>6 DEF Backups!SettingsChange, BackupsPairs
  <2> QED
    BY <2>1 DEF BackupsInv, BackupsStore, BackupsLists, BackupsClean, BackupsRestores, BackupsPairs,
                BackupsSnapshots, BackupsAlone, Backups!RecoveryPointKept, Backups!ResolvedIsNamed,
                Backups!Range, Backups!No
<1>7. CASE (\E query : Backups!TypeQuery(query)) \/ (\E champion : Backups!ChooseChampion(champion))
  <2>1. UNCHANGED <<settings, before, made, backupsStored, backups, backupsLoads, backupsCall,
                    backupsCrossed, confirmAction, restoreDialog>>
    BY <1>7 DEF Backups!TypeQuery, Backups!ChooseChampion
  <2>2. Backups!ResolvedIsNamed'
    BY <1>7 DEF Backups!TypeQuery, Backups!ChooseChampion, Backups!ResolvedIsNamed
  <2> QED
    BY <2>1, <2>2 DEF BackupsInv, BackupsStore, BackupsLists, BackupsClean, BackupsRestores, BackupsPairs,
                BackupsSnapshots, BackupsAlone, Backups!RecoveryPointKept, Backups!Range, Backups!No
<1> QED
  BY <1>1, <1>2, <1>3, <1>4, <1>5, <1>6, <1>7 DEF Backups!Next

LEMMA BackupsBelongs ==
  BackupsInv => Backups!ResolvedIsNamed /\ Backups!RecoveryPointKept /\ Backups!ListIsKept
<1>1. Backups!No.at = "no"
  BY DEF Backups!No
<1> QED BY <1>1 DEF BackupsInv, BackupsLists, BackupsClean, Backups!ListIsKept

=============================================================================
