------------------------------- MODULE MCWebApp -------------------------------
(***************************************************************************)
(* Model-checking instance of WebApp: what each page is given, and what is *)
(* looked at one at a time.                                                *)
(***************************************************************************)
EXTENDS WebApp

CONSTANTS o1, o2, t1, t2, h2, g1

Queue(id, group, name, hidden) == [id |-> id, group |-> group, name |-> name, hidden |-> hidden]
MCQueueLists ==
  {<<>>, <<Queue(1, "special", 1, FALSE), Queue(2, "ranked", 2, FALSE)>>,
   <<Queue(3, "standard", 1, FALSE), Queue(2, "ranked", 2, FALSE), Queue(2, "bots", 3, FALSE)>>,
   <<Queue(4, "ranked", 1, TRUE), Queue(1, "special", 3, FALSE), Queue(5, "special", 2, FALSE)>>}

MCMastered ==
  {[name |-> "x", points |-> 9, level |-> 7, until |-> 0, played |-> 1],
   [name |-> "y", points |-> 5, level |-> 5, until |-> 2, played |-> 3],
   [name |-> "z", points |-> 5, level |-> 5, until |-> 1, played |-> 2]}

MCAllowed == [s \in 1 .. 3 |-> IF s = 3 THEN {1} ELSE (1 .. 3) \ {s}]
MCPerksOf == [r \in 0 .. 3 |-> IF r \in {0, 1} THEN 2 ELSE 1]

(* A page that is not looked at waits in one of its initial states.        *)
Waiting ==
  /\ page \in PlayPages \cup ClientPages \cup DataPages \cup AppPages
  /\ (page # "play" => playStored = [k \in Play!Keys |-> 0])
  /\ (page # "queue-picker" => queues = <<>> /\ value = 0)
  /\ (page # "runes" =>
         /\ runes \in {r \in Runes!AnyPage : <<r.primary, r.sub>> = <<3, 1>>})
  /\ (page # "history" => played = 0 /\ won = {})
  /\ (page # "settings" =>
         /\ setup = TRUE
         /\ prefsStored = [n \in Names |-> "a"]
         /\ storedPath = "")
  /\ (page # "dashboard" => device = "desktop" /\ activeTab = "live")
  /\ (page # "skins" =>
         /\ skinsAccount = "A"
         /\ owns = [a \in SkinAccounts |-> [s \in SkinIds |-> "rental"]])
  /\ (page # "system" => proxy = TRUE /\ systemLeague = Switches)
  /\ (page # "social" => mutes = {})
  /\ (page # "preparation" => prepRemoteClient = FALSE)
  /\ (page # "profile" => profileLeague = 1 /\ inventory = {1})
  /\ (page # "progress" => progressRemoteClient = FALSE)
  /\ (page # "control-room" =>
         /\ saved = [q \in Queues |-> IF q = "draft" THEN "mid" ELSE ""]
         /\ queue = "draft"
         /\ roles = "mid"
         /\ roomLeague = [phase |-> "Lobby", roles |-> "mid"])
  /\ (page # "qol" =>
         /\ late = TRUE
         /\ rulesStored = [rules |-> [r \in Rules |-> TRUE], play |-> 0])

MCInit == Waiting /\ Init

MCSpec == MCInit /\ [][Next]_vars /\ Fairness

-----------------------------------------------------------------------------
(* The bounds of the instance.                                             *)

(* Once an operation is started the materials and the queue stay, and the  *)
(* second ends it. The page gives up one operation at most.                *)
LootBound ==
  \/ \A o \in Operations : status[o] = "none" /\ o \notin started
  \/ /\ asked = {} /\ crafting \notin Items /\ selected = t1 /\ recipes = t1
     /\ plan[o1] # {} /\ batch \subseteq plan[o1] /\ (plan[o2] # {} =>
           plan[o1] = {t1})
     /\ o2 \notin over /\ Cardinality(wire) <= 1 /\ (o2 \in lost => o1 \notin lost)

(* Two saves at most are on the way, a second edit, or one before the      *)
(* first read, comes beside no start, another handler runs in the manual   *)
(* mode, the handlers are alike, and two run together, or another beside   *)
(* one, with choices that are stored.                                      *)
PlayBound ==
  /\ Cardinality(playSaves) <= 2 /\ (edits = 2 => hydrate.at = "done"
        /\ flowMode = "manual" /\ \A h \in Handlers : starts[h].at = "idle")
  /\ ((\E h \in Handlers : starts[h].at # "idle") /\ hydrate.at # "done" =>
        edits = 0)
  /\ (starts[h2].at # "idle" => playCrossed) /\ (other # "" => flowMode = "manual")
  /\ (playCrossed \/ other # "" =>
        /\ playStored = [k \in Play!Keys |-> IF k = "queue" THEN edits ELSE 0]
        /\ prefs = playStored /\ edits <= 1 /\ hydrate.at = "done"
        /\ \A s \in playSaves : s.by \in Handlers)

(* What was saved and a copy that was replaced are looked at with the      *)
(* first style.                                                            *)
RunesBound ==
  /\ (runes \notin Runes!AnyPage => saving # Runes!No \/ ~runesOpen)
  /\ (~replaced \/ (runesEditor # Runes!No /\ runesEditor.primary = 1))
  /\ (current # runes /\ runes \in Runes!AnyPage => runesEditor = Runes!No)

(* One request at a time is on the way, and for the second draft only a    *)
(* lock.                                                                   *)
DraftBound ==
  /\ Cardinality(requests) <= 1
  /\ (draft.game = 2 => \A r \in requests : r.lock)

(* Its third state is that League is gone, and then nothing is pressed.    *)
LiveBound ==
  liveLeague.n = 3 => liveLeague.is \in {"off", "client"} /\ running = {}

(* A replay is looked at beside an empty list, and the first and the fifth *)
(* game are lost.                                                          *)
HistoryBound ==
  /\ won \cap {1, 5} = {}
  /\ \/ replay = "absent" /\ replayShown = "none"
     \/ historyLoading.at = "asked" /\ played = 1 /\ won = {} /\ matches = <<>>

(* One save at a time is made unless the preferences were read and the     *)
(* location is not asked for, and the path is looked at beside saves that  *)
(* leave them as they are.                                                 *)
PrefsBound ==
  LET Same == [n \in Names |-> "a"] IN
  /\ (prefsAt # "ready" \/ location # Prefs!NoLocation =>
        Cardinality(prefsSaves) <= 1)
  /\ (\/ location # Prefs!NoLocation \/ prefsTyped \/ storedPath # ""
      \/ riotClientPath \notin {"", "detected"}) =>
        (prefsStored = Same /\ shown = Same /\ \A s \in prefsSaves : s.whole = Same)

(* League is not there yet while a launch runs, and an action of Home runs *)
(* with no dialog open and no timer due.                                   *)
ShellBound ==
  /\ (launches # {} => ~chat /\ ~shellLcuConnected /\ activeTab # "live")
  /\ (homeActions # {} => timers = 0 /\ confirmModal = "none")

(* Favourites are changed before the cache is read, and what follows a     *)
(* change of the account within a load is looked at without them, one load *)
(* at a time. The second account has rentals.                              *)
SkinsBound ==
  /\ (skinsChanges = 0 => skinsAccount = "A")
  /\ owns["B"] = [s \in SkinIds |-> "rental"]
  /\ (switched => favs = {"old"} /\ Cardinality(skinsLoads) <= 1)
  /\ favs = {"old"} \/ (skinsChanges = 0 /\ ~warmed /\ skinsLoads = {} /\
        skinsAccount = "A")

(* The proxy is looked at before the chat settings are.                    *)
SystemBound ==
  /\ (toggles # {} => systemLcuConnected /\ \E t \in toggles : t.key = "a")
  /\ (Cardinality(toggles) = 2 => read = System!No /\ "b" \in systemLeague)
  /\ \/ proxyRead = System!Asked /\ proxyBusy = ""
     \/ chatPrivacy = System!Unknown /\ read = System!No /\ toggles = {}

(* The mutes, and the selections, are looked at one at a time, the mutes   *)
(* with the lists as they were.                                            *)
SocialBound ==
  /\ (socialActing # Social!No => polls["timer"] = Social!No)
  /\ (~live => socialBusy = "" /\ socialReview = Social!No)
  /\ (mutes \cup mutedPuuids # {} =>
        have = [l \in Social!Lists |-> IF l = "friends" THEN Friends ELSE FriendRequests])
  /\ \/ socialSelected = [l \in Social!Lists |-> {}] /\ socialReview = Social!No
     \/ /\ live /\ mutes = {} /\ mutedPuuids = {} /\
           muteRead \in {Social!No, Social!Asked} /\ socialActing = Social!No
        /\ polls["timer"] = Social!No /\ socialSnapshot["friends"] # {}

(* The item sets are looked at beside one preset.                          *)
PrepBound ==
  LET One == prepStored = {[id |-> 1, kind |-> "preparation", account |-> "a"]} IN
  /\ (kept # <<>> => One /\ given = 0 /\ prepAccount = "a" /\
        prepLoading = Prep!No /\ listed # {})
  /\ (kept = <<>> => effect.at # "read")
  /\ (listCrossed \/ setsCrossed => One)
  /\ (given > 0 => One /\ kept = <<>> /\ effect = Prep!No)

(* The tools of the page are looked at one at a time.                      *)
ProfileBound ==
  LET Fresh == profilePresetRead = Profile!Asked /\ presetBusy = Profile!No /\
        store = {}
      Icon0 == qol = 0 /\ ownedIconIds = {} /\ profileLeague = 1 /\
            \A l \in iconLoads : l.at = "asked" IN
  /\ (profileSelectedChampion # 0 \/ skins # 0 => Fresh /\ Icon0 /\
        inventory = {1} /\ tool \in {"background", "icon"})
  /\ (~Icon0 => Fresh /\ tool = "icon" /\ skinRead = Profile!No /\ inventory # {1})
  /\ (~Fresh => Icon0 /\ inventory = {1} /\ tool = "presets")
  /\ (selectedTokenIds # <<>> => Fresh /\ Icon0 /\ inventory = {1} /\
        tool = "regalia")

(* The lookup of a champion is looked at with nothing backed up.           *)
BackupsBound ==
  /\ (settings.general = settings.input \/ "backup" \in DOMAIN backupsCall)
  /\ (championQuery # "" \/ ~backupsPending \/ backupsLoads.shown # Backups!No =>
        made = 0 /\ settings.general = 1)

(* Ranks, edits, the third profile and what follows loads that crossed a   *)
(* change are looked at one at a time.                                     *)
AccountsBound ==
  LET Two == accountsStored = <<"a", "b">> IN
  /\ (accountsCrossed => Two /\ riot # "" /\ accountsEditor = Accounts!No /\
        accountsLoads.ranks = Accounts!No)
  /\ (accountsLoads.ranks # Accounts!No \/ (accountsLoads.shown # Accounts!No /\
        profiles # <<>>) =>
        calls = {} /\ accountsEditor = Accounts!No /\ logins = <<>> /\ Two /\
              riot = "a" /\ active = 1)
  /\ (~Two \/ accountsEditor # Accounts!No => riot # "" /\ logins = <<>>)
  /\ (3 \in DOMAIN accountsStored => riot = "a" /\ accountsEditor = Accounts!No)
  /\ Cardinality(DOMAIN logins) <= 1

(* The masteries are looked at before the rewards, and one grant is chosen *)
(* from.                                                                   *)
ProgressBound ==
  /\ (masterySort # "points" \/ masterySearch # {} \/ masteryLimit > 2 =>
        progressRewards = <<>> /\ progressLoads["effect"] = Progress!Asked /\
              progressConnected /\ notification)
  /\ (~notification => selectedRewards = <<>> /\ operations = <<>>)
  /\ (selectedRewards # <<>> => DOMAIN selectedRewards = {g1}
        /\ (preview = Progress!No /\ operations = <<>> => progressConnected /\
              \A who \in Progress!Whos : progressLoads[who] = Progress!No))
  /\ (operations # <<>> => selectedRewards # <<>> \/
        \E i \in DOMAIN operations : operations[i].state = "complete")

(* A long list of events, an edit and a change in League are looked at one *)
(* at a time.                                                              *)
RoomBound ==
  /\ saved["aram"] # "top"
  /\ (Len(roomEvents) > 1 => ~rolesDirty /\ roomCall = Room!No /\
        roomPresetRead = Room!No)
  /\ (roomEvents # <<>> /\ Head(roomEvents) \in {"failed", "skipped"} =>
        roomCall = Room!No /\ moves = 0 /\ ~rolesDirty)
  /\ (moves > 0 => roomPresetRead = Room!Asked /\ (roomCall # Room!No =>
        roomState = roomLeague))

(* The rules are looked at before League answers, and the actions with the *)
(* rules as they were.                                                     *)
QoLBound ==
  LET Quiet == activeAction = QoL!No /\ refreshing = QoL!No /\ ~ballot /\
        statusMessage = 0 /\ qolState.phase = "" /\ qolPhase = "ChampSelect"
      Rules0 == ruleSave = QoL!No /\ confirm = QoL!No /\ qolLoading = QoL!Asked /\
            late /\ \A r \in Rules : rulesStored.rules[r] IN
  /\ (Quiet \/ Rules0)
  /\ (refreshing # QoL!No => activeAction = QoL!No /\ ~ballot)
  /\ (qolTyped => ~ballot /\
        {qolPhase, qolState.phase} \subseteq {"", "ChampSelect"} /\
        (activeAction # QoL!No => activeAction.op = "status"))
  /\ (ballot => {qolPhase, qolState.phase} \subseteq {"EndOfGame", "Lobby"})
  /\ (activeAction # QoL!No /\ activeAction.op # "status" =>
        activeAction.state = qolState \/ activeAction.at = "done")

Bound ==
  /\ LootBound /\ PlayBound /\ RunesBound /\ DraftBound /\ LiveBound
  /\ HistoryBound /\ PrefsBound /\ ShellBound /\ SkinsBound /\ SystemBound
  /\ SocialBound /\ PrepBound /\ ProfileBound /\ BackupsBound /\ AccountsBound
  /\ ProgressBound /\ RoomBound /\ QoLBound

=============================================================================
