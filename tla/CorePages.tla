------------------------------ MODULE CorePages -------------------------------
(***************************************************************************)
(* The pages of the web interface from which games are played, the client  *)
(* is managed and the application is run, each with its own state.  WebApp *)
(* adds the pages of the client's data, and says how all of them are looked*)
(* at.  A variable that two pages name alike has the page's name before it.*)
(***************************************************************************)
EXTENDS Integers, Sequences, FiniteSets, TLC

CONSTANTS
  MaxEdits, Handlers,
  QueueLists,
  Styles, Allowed, PerkRows, PerksOf, MaxReads,
  Games,
  MaxLiveChanges,
  Names, Settings,
  AllTabs, PhoneTabs, Desktop, MaxLaunches,
  MaxFeedChanges,
  Switches,
  Friends, FriendRequests,
  MaxPresets, MaxSets,
  StudioChampions, Icons, Tokens, MaxSaved,
  BackupLimit, MaxMade, LookupChampions,
  RiotIDs, MaxProfiles,
  Roles, Queues, EventLimit, MaxMoves,
  Rules, Reviewed

(* A save is the page's or a start handler's.                              *)
ASSUME HandlersAssumption == "page" \notin Handlers

(* League answers with lists of queues.                                    *)
ASSUME PickerAssumption ==
  \A list \in QueueLists : list \in Seq([id : Int, name : Int, hidden : BOOLEAN, group :
                                         {"ranked", "standard", "special", "bots", "practice"}])

(* A phone has the tab Home, and none of the commands of the desktop.      *)
ASSUME ShellAssumption ==
  "dashboard" \in PhoneTabs /\ {"launch", "stop", "toggle-mask"} \subseteq Desktop

(* There is room for the two profiles the accounts page begins with.       *)
ASSUME AccountsAssumption == MaxProfiles \in Nat /\ MaxProfiles >= 2

(* RiftOps keeps snapshots.                                                *)
ASSUME BackupsAssumption == BackupLimit \in Nat /\ BackupLimit >= 1

(* So many lines has the activity list.                                    *)
ASSUME RoomAssumption == EventLimit \in Nat

(* A style allows others beside it, and every row offers a perk.           *)
ASSUME RunesAssumption ==
  /\ Styles \subseteq Nat /\ Allowed \in [Styles -> SUBSET Styles]
  /\ \A s \in Styles : Allowed[s] # {} /\ s \notin Allowed[s]
  /\ PerkRows \subseteq Nat \ {0} /\ IsFiniteSet(PerkRows)
  /\ PerksOf \in [{0} \cup PerkRows -> Nat \ {0}]

VARIABLES
  page, prefs, playStored, playSaves, hydrate, saveState, prefsTouched, edits,
  merged, overlapped, flowMode, playActing, starts, other, playCrossed, queues, value,
  pickerOpen, activeId, offered, chosen, runes, current, runesOpen, catalogue,
  runesEditor, saving, runesReads, replaced, draft, session, draftSelectedChampion,
  requests, draftBusy, braverySelected, braverySessionKey, braved, liveLeague,
  liveReads, inFlight, overview, stale, livePhase, lastActivePhase, action, running,
  besides, setup, prefsStored, storedPath, shown, riotClientPath, prefsAt, readPrefs,
  prefsSaves, choices, location, prefsTyped, prefsCrossed, pathCrossed, device,
  clientMode, activeTab, settled, commandPaletteOpen, confirmModal, shellPhase, chat,
  shellLcuConnected, launchStage, launches, timers, homeActions, shellCrossed, engine,
  feedChanges, feedSnapshot, pageVisible, schedule, poll, left, user, feedEvents,
  systemLeague, systemLcuConnected, leagueTab, chatPrivacy, read, chatPrivacyBusy,
  toggles, chatCrossed, proxy, proxySetup, proxyRead, proxyBusy, proxyCrossed, have,
  mutes, live, socialSnapshot, socialSelected, polls, socialBusy, socialActing,
  socialReview, mutedPuuids, muteRead, mutesFailed, prepRemoteClient, prepAccount,
  prepStored, listed, prepLoading, effect, prepCall, grants, given, prepApplied, sets,
  kept, snapshots, setsBefore, madeSets, listCrossed, setsCrossed, tool,
  profileSelectedChampion, skins, selectedSkin, catalogueLoading, catalogueError,
  skinRead, profileLeague, inventory, qol, ownedIconIds, selectedIcon, iconLoads,
  selectedTokenIds, profileBusy, store, profilePresets, profilePresetRead, presetBusy,
  studioCrossed, settings, backupsStored, made, before, backupsPending, backups,
  backupsRewards, backupsLoading, backupsLoads, backupsCall, restoreDialog,
  confirmAction, championQuery, backupsSelectedChampion, backupsCrossed, riot,
  accountsStored, active, logins, profiles, accountsConnected, activeProfileId,
  accountsLoading, accountsLoads, accountsBusy, calls, accountsEditor, confirmation,
  accountsCrossed, roomLeague, moves, roomState, queue, roles, rolesDirty, saved,
  roomPresets, roomPresetRead, roomCall, roomEvents, edited, roomCrossed, rulesStored,
  late, preferences, qolLoading, ruleSave, confirm, qolPhase, qolState, qolStatus,
  statusMessage, statusHydrated, qolTyped, activeAction, refreshing, ballot, qolCrossed

playVars == <<prefs, playStored, playSaves, hydrate, saveState, prefsTouched, edits,
              merged, overlapped, flowMode, playActing, starts, other, playCrossed>>
pickerVars == <<queues, value, pickerOpen, activeId, offered, chosen>>
runesVars == <<runes, current, runesOpen, catalogue, runesEditor, saving, runesReads,
               replaced>>
draftVars == <<draft, session, draftSelectedChampion, requests, draftBusy,
               braverySelected, braverySessionKey, braved>>
liveVars == <<liveLeague, liveReads, inFlight, overview, stale, livePhase,
              lastActivePhase, action, running, besides>>
prefsVars == <<setup, prefsStored, storedPath, shown, riotClientPath, prefsAt,
               readPrefs, prefsSaves, choices, location, prefsTyped, prefsCrossed,
               pathCrossed>>
shellVars == <<device, clientMode, activeTab, settled, commandPaletteOpen, confirmModal,
               shellPhase, chat, shellLcuConnected, launchStage, launches, timers,
               homeActions, shellCrossed>>
feedVars == <<engine, feedChanges, feedSnapshot, pageVisible, schedule, poll, left,
              user, feedEvents>>
systemVars == <<systemLeague, systemLcuConnected, leagueTab, chatPrivacy, read,
                chatPrivacyBusy, toggles, chatCrossed, proxy, proxySetup, proxyRead,
                proxyBusy, proxyCrossed>>
socialVars == <<have, mutes, live, socialSnapshot, socialSelected, polls, socialBusy,
                socialActing, socialReview, mutedPuuids, muteRead, mutesFailed>>
prepVars == <<prepRemoteClient, prepAccount, prepStored, listed, prepLoading, effect,
              prepCall, grants, given, prepApplied, sets, kept, snapshots, setsBefore,
              madeSets, listCrossed, setsCrossed>>
profileVars == <<tool, profileSelectedChampion, skins, selectedSkin, catalogueLoading,
                 catalogueError, skinRead, profileLeague, inventory, qol, ownedIconIds,
                 selectedIcon, iconLoads, selectedTokenIds, profileBusy, store,
                 profilePresets, profilePresetRead, presetBusy, studioCrossed>>
backupsVars == <<settings, backupsStored, made, before, backupsPending, backups,
                 backupsRewards, backupsLoading, backupsLoads, backupsCall,
                 restoreDialog, confirmAction, championQuery, backupsSelectedChampion,
                 backupsCrossed>>
accountsVars == <<riot, accountsStored, active, logins, profiles, accountsConnected,
                  activeProfileId, accountsLoading, accountsLoads, accountsBusy, calls,
                  accountsEditor, confirmation, accountsCrossed>>
roomVars == <<roomLeague, moves, roomState, queue, roles, rolesDirty, saved,
              roomPresets, roomPresetRead, roomCall, roomEvents, edited, roomCrossed>>
qolVars == <<rulesStored, late, preferences, qolLoading, ruleSave, confirm, qolPhase,
             qolState, qolStatus, statusMessage, statusHydrated, qolTyped, activeAction,
             refreshing, ballot, qolCrossed>>

playPagesVars == <<playVars, pickerVars, runesVars, draftVars, liveVars>>
clientPagesVars == <<roomVars, qolVars, socialVars, prepVars, profileVars>>
appPagesVars == <<shellVars, feedVars, prefsVars, systemVars, accountsVars,
                  backupsVars>>

Play == INSTANCE PlayFlowPage WITH
  stored <- playStored, saves <- playSaves, acting <- playActing, crossed <- playCrossed
Picker == INSTANCE QueuePicker WITH
  Answers <- QueueLists, open <- pickerOpen
Runes == INSTANCE RunePageEditor WITH
  Rows <- PerkRows, open <- runesOpen, editor <- runesEditor, reads <- runesReads
Draft == INSTANCE ChampSelectWorkspace WITH
  selectedChampion <- draftSelectedChampion, busy <- draftBusy
Live == INSTANCE LiveSession WITH
  MaxChanges <- MaxLiveChanges, league <- liveLeague, reads <- liveReads,
  phase <- livePhase
Prefs == INSTANCE Preferences WITH
  stored <- prefsStored, saves <- prefsSaves, typed <- prefsTyped,
  crossed <- prefsCrossed
Shell == INSTANCE AppShell WITH
  phase <- shellPhase, lcuConnected <- shellLcuConnected, crossed <- shellCrossed
Feed == INSTANCE SnapshotFeed WITH
  MaxChanges <- MaxFeedChanges, changes <- feedChanges, snapshot <- feedSnapshot,
  events <- feedEvents
System == INSTANCE SystemSettings WITH
  league <- systemLeague, lcuConnected <- systemLcuConnected
Social == INSTANCE SocialCenter WITH
  Requests <- FriendRequests, snapshot <- socialSnapshot, selected <- socialSelected,
  busy <- socialBusy, acting <- socialActing, review <- socialReview
Prep == INSTANCE PreparationPanel WITH
  remoteClient <- prepRemoteClient, account <- prepAccount, stored <- prepStored,
  loading <- prepLoading, call <- prepCall, applied <- prepApplied
Profile == INSTANCE ProfileStudio WITH
  Champions <- StudioChampions, selectedChampion <- profileSelectedChampion,
  league <- profileLeague, busy <- profileBusy, presets <- profilePresets,
  presetRead <- profilePresetRead
Backups == INSTANCE ClientBackups WITH
  Limit <- BackupLimit, Champions <- LookupChampions, stored <- backupsStored,
  pending <- backupsPending, rewards <- backupsRewards, loading <- backupsLoading,
  loads <- backupsLoads, call <- backupsCall,
  selectedChampion <- backupsSelectedChampion
Accounts == INSTANCE LaunchAccounts WITH
  stored <- accountsStored, connected <- accountsConnected, loading <- accountsLoading,
  loads <- accountsLoads, busy <- accountsBusy, editor <- accountsEditor
Room == INSTANCE ClientControlRoom WITH
  league <- roomLeague, state <- roomState, presets <- roomPresets,
  presetRead <- roomPresetRead, call <- roomCall, events <- roomEvents
QoL == INSTANCE QoLPanel WITH
  loading <- qolLoading, phase <- qolPhase, state <- qolState, status <- qolStatus,
  typed <- qolTyped

PlayPages == {"play", "queue-picker", "runes", "champ-select", "live"}
ClientPages == {"control-room", "qol", "social", "preparation", "profile"}
AppPages == {"dashboard", "feed", "settings", "system", "accounts", "utilities"}

(* A page that is not looked at waits in one of its initial states.        *)
CoreInit ==
  /\ Play!Init
  /\ Picker!Init
  /\ Runes!Init
  /\ Draft!Init
  /\ Live!Init
  /\ Room!Init
  /\ QoL!Init
  /\ Social!Init
  /\ Prep!Init
  /\ Profile!Init
  /\ Shell!Init
  /\ Feed!Init
  /\ Prefs!Init
  /\ System!Init
  /\ Accounts!Init
  /\ Backups!Init

PlayPagesNext ==
  /\ page \in PlayPages
  /\ UNCHANGED <<clientPagesVars, appPagesVars>>
  /\ \/ /\ page = "play"
        /\ UNCHANGED <<pickerVars, runesVars, draftVars, liveVars>>
        /\ Play!Next
     \/ /\ page = "queue-picker"
        /\ UNCHANGED <<playVars, runesVars, draftVars, liveVars>>
        /\ Picker!Next
     \/ /\ page = "runes"
        /\ UNCHANGED <<playVars, pickerVars, draftVars, liveVars>>
        /\ Runes!Next
     \/ /\ page = "champ-select"
        /\ UNCHANGED <<playVars, pickerVars, runesVars, liveVars>>
        /\ Draft!Next
     \/ /\ page = "live"
        /\ UNCHANGED <<playVars, pickerVars, runesVars, draftVars>>
        /\ Live!Next

ClientPagesNext ==
  /\ page \in ClientPages
  /\ UNCHANGED <<playPagesVars, appPagesVars>>
  /\ \/ /\ page = "control-room"
        /\ UNCHANGED <<qolVars, socialVars, prepVars, profileVars>>
        /\ Room!Next
     \/ /\ page = "qol"
        /\ UNCHANGED <<roomVars, socialVars, prepVars, profileVars>>
        /\ QoL!Next
     \/ /\ page = "social"
        /\ UNCHANGED <<roomVars, qolVars, prepVars, profileVars>>
        /\ Social!Next
     \/ /\ page = "preparation"
        /\ UNCHANGED <<roomVars, qolVars, socialVars, profileVars>>
        /\ Prep!Next
     \/ /\ page = "profile"
        /\ UNCHANGED <<roomVars, qolVars, socialVars, prepVars>>
        /\ Profile!Next

AppPagesNext ==
  /\ page \in AppPages
  /\ UNCHANGED <<playPagesVars, clientPagesVars>>
  /\ \/ /\ page = "dashboard"
        /\ UNCHANGED <<feedVars, prefsVars, systemVars, accountsVars, backupsVars>>
        /\ Shell!Next
     \/ /\ page = "feed"
        /\ UNCHANGED <<shellVars, prefsVars, systemVars, accountsVars, backupsVars>>
        /\ Feed!Next
     \/ /\ page = "settings"
        /\ UNCHANGED <<shellVars, feedVars, systemVars, accountsVars, backupsVars>>
        /\ Prefs!Next
     \/ /\ page = "system"
        /\ UNCHANGED <<shellVars, feedVars, prefsVars, accountsVars, backupsVars>>
        /\ System!Next
     \/ /\ page = "accounts"
        /\ UNCHANGED <<shellVars, feedVars, prefsVars, systemVars, backupsVars>>
        /\ Accounts!Next
     \/ /\ page = "utilities"
        /\ UNCHANGED <<shellVars, feedVars, prefsVars, systemVars, accountsVars>>
        /\ Backups!Next

=============================================================================
