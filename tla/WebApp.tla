-------------------------------- MODULE WebApp --------------------------------
(***************************************************************************)
(* The pages of the web interface, each checked with its own choices,      *)
(* requests and answers: those of CorePages, and the pages of the client's *)
(* data (history, loot, skins, progress, metadata).  App.tsx renders one   *)
(* tab at a time and unmounts the others, so a behaviour here is a         *)
(* behaviour of one page; what App.tsx keeps mounted (the shell, its       *)
(* snapshot feed, the preferences) and the parts that stand on their own   *)
(* (the queue picker, the rune editor, the control room, the metadata      *)
(* cache) are looked at in the same way.  The loot page's variables keep   *)
(* their own names.                                                        *)
(***************************************************************************)
EXTENDS CorePages

CONSTANTS
  Operations, Items,
  HistoryPage, HistoryLimit, MaxGames,
  SkinAccounts, SkinIds, MaxSkinChanges,
  Grants, Options, MaxPreviews, MasteryPage, Mastered,
  Paths, TTL, JSON_CACHE_MAX, MaxTime, MaxClears

(* What stands for no operation, and for a craft that is not of one        *)
(* material, is neither.                                                   *)
ASSUME LootAssumption == "none" \notin Operations /\ {"", "batch"} \cap Items = {}

(* What is read stays valid for a while.                                   *)
ASSUME CacheAssumption == TTL \in Nat /\ TTL >= 1

(* A page of the history has games, and there is a limit to what is read.  *)
ASSUME HistoryAssumption == HistoryPage \in Nat \ {0} /\ HistoryLimit \in Nat

(* There are finitely many skins.                                          *)
ASSUME SkinsAssumption == IsFiniteSet(SkinIds)

(* League's masteries are finitely many, with numbers.                     *)
ASSUME MasteryAssumption ==
  /\ IsFiniteSet(Mastered) /\ MasteryPage \in Nat
  /\ \A c \in Mastered : c.points \in Int /\ c.until \in Int

VARIABLES
  status, started, over, plan, touched, applied, reported, succeeded, batch,
  crafting, previewing, review, executing, reloading, call, wire, lost, selected,
  recipes, asked, played, won, matches, hasMore, dataSource, historyLoading, more,
  replay, replayShown, replayRead, skinsAccount, owns, skinsChanges, cache, skinsLoads,
  allSkins, error, warmed, favs, switched, progressRemoteClient, progressConnected,
  progressPending, selectedIds, notification, progressRewards, mastery, progressLoading,
  progressLoads, selectedRewards, preview, operations, progressReview, watching, sent,
  masterySort, masterySearch, masteryLimit, progressCrossed, now, clears, jsonCache,
  persisted, jsonInflight, returned, crossedClear

lootVars == <<status, started, over, plan, touched, applied, reported, succeeded, batch,
              crafting, previewing, review, executing, reloading, call, wire, lost,
              selected, recipes, asked>>
historyVars == <<played, won, matches, hasMore, dataSource, historyLoading, more,
                 replay, replayShown, replayRead>>
skinsVars == <<skinsAccount, owns, skinsChanges, cache, skinsLoads, allSkins, error,
               warmed, favs, switched>>
progressVars == <<progressRemoteClient, progressConnected, progressPending, selectedIds,
                  notification, progressRewards, mastery, progressLoading,
                  progressLoads, selectedRewards, preview, operations, progressReview,
                  watching, sent, masterySort, masterySearch, masteryLimit,
                  progressCrossed>>
cacheVars == <<now, clears, jsonCache, persisted, jsonInflight, returned, crossedClear>>

dataPagesVars == <<historyVars, lootVars, skinsVars, progressVars, cacheVars>>

Loot == INSTANCE LootWorkshop
History == INSTANCE MatchHistory WITH
  PageSize <- HistoryPage, Limit <- HistoryLimit, loading <- historyLoading
Skins == INSTANCE SkinShowcase WITH
  Skins <- SkinIds, MaxChanges <- MaxSkinChanges, account <- skinsAccount,
  changes <- skinsChanges, loads <- skinsLoads
Progress == INSTANCE ProgressPage WITH
  PageSize <- MasteryPage, Champions <- Mastered, remoteClient <- progressRemoteClient,
  connected <- progressConnected, pending <- progressPending,
  rewards <- progressRewards, loading <- progressLoading, loads <- progressLoads,
  review <- progressReview
Cache == INSTANCE MetadataCache

DataPages == {"history", "loot", "skins", "progress", "cache"}

vars == <<page, playPagesVars, clientPagesVars, appPagesVars, dataPagesVars>>

Init ==
  /\ page \in PlayPages \cup ClientPages \cup AppPages \cup DataPages
  /\ CoreInit
  /\ Loot!Init
  /\ History!Init
  /\ Skins!Init
  /\ Progress!Init
  /\ Cache!Init

DataPagesNext ==
  /\ page \in DataPages
  /\ \/ /\ page = "history"
        /\ UNCHANGED <<lootVars, skinsVars, progressVars, cacheVars>>
        /\ History!Next
     \/ /\ page = "loot"
        /\ UNCHANGED <<historyVars, skinsVars, progressVars, cacheVars>>
        /\ Loot!Next
     \/ /\ page = "skins"
        /\ UNCHANGED <<historyVars, lootVars, progressVars, cacheVars>>
        /\ Skins!Next
     \/ /\ page = "progress"
        /\ UNCHANGED <<historyVars, lootVars, skinsVars, cacheVars>>
        /\ Progress!Next
     \/ /\ page = "cache"
        /\ UNCHANGED <<historyVars, lootVars, skinsVars, progressVars>>
        /\ Cache!Next

Next ==
  /\ UNCHANGED page
  /\ \/ UNCHANGED dataPagesVars /\ (PlayPagesNext \/ ClientPagesNext \/ AppPagesNext)
     \/ UNCHANGED <<playPagesVars, clientPagesVars, appPagesVars>> /\ DataPagesNext

Fairness ==
  /\ Loot!Fairness
  /\ Play!Fairness
  /\ History!Fairness
  /\ Shell!Fairness
  /\ Feed!Fairness

Spec == Init /\ [][Next]_vars /\ Fairness

-----------------------------------------------------------------------------
(* The properties of the pages.                                            *)

(* What a page shows as saved is what RiftOps or League keeps, once        *)
(* nothing that may change it is on its way: also after refused saves,     *)
(* polls that cross a save and changes of the connection. Two requests     *)
(* that overlap, or an answer that is lost, may leave it wrong, as in the  *)
(* code: then each clause is claimed again from the point at which the     *)
(* page recovers, which its own comment names. That is the next save       *)
(* answered alone (Play, Prefs, QoL), the next request done or load that   *)
(* went well (Proxy, Mutes, Prep, Backups, Progress), the card opened      *)
(* again (Switches); the control room and the studio read their presets    *)
(* once, and there it is the page opened again. The cache of requests      *)
(* never returns what is older than its age allows, nor what was read      *)
(* before it was cleared with nothing on its way.                          *)
ShowsWhatIsStored ==
  /\ page = "play" => Play!SavedIsStored
  /\ page = "settings" => Prefs!ShownIsStored
  /\ page = "qol" => QoL!RulesShownAreStored
  /\ page = "control-room" => Room!PresetsAreSaved
  /\ page = "system" => System!SwitchesShowLeague
  /\ page = "system" => System!ProxyShownIsSetUp
  /\ page = "social" => Social!MutesShowLeague
  /\ page = "preparation" => Prep!ListIsStored
  /\ page = "profile" => Profile!PresetsAreKept
  /\ page = "utilities" => Backups!ListIsKept
  /\ page = "progress" => Progress!PendingIsShown
  /\ page = "cache" => Cache!ReturnsFresh

(* While other buttons are clicked, polls are answered and connections     *)
(* come and go, a page has one action of a kind under way: one craft in    *)
(* the dialog, one start of a lobby, one answer to League, one launch and  *)
(* one action of Home, one request for the accounts, one request that      *)
(* claims what one review named; and a phone starts none of the desktop's. *)
(* In the code a second one can begin beside a first where the page lost   *)
(* sight of an operation (Loot), where a start handler that ignores the    *)
(* others, a request beside another, or the timer of an earlier launch     *)
(* ended and so freed the button of one that runs on (Play, Live, Shell),  *)
(* and from the palette or a dialog (Shell): there, and for no longer than *)
(* what began so lasts, the clause does not count them.                    *)
OneActionAtATime ==
  /\ page = "loot" => Loot!OneInSight
  /\ page = "play" => Play!OneStart
  /\ page = "live" => Live!OneAnswer
  /\ page = "dashboard" => Shell!OneHomeAction
  /\ page = "dashboard" => Shell!OneLaunch
  /\ page = "dashboard" => Shell!PhoneKeepsOut
  /\ page = "accounts" => Accounts!OneAccountAction
  /\ page = "progress" => Progress!SentOnce

(* What is kept, offered or sent belongs to the account, champion, draft,  *)
(* profile or name it is shown for, also when that has changed since it    *)
(* was asked for. Not claimed are the cache of skins once the account      *)
(* changed within one load (Skins), the turn of a lock that reaches a      *)
(* later draft than its own (Draft), the profile a login is captured for   *)
(* after loads that failed or crossed a change of the profiles (Accounts), *)
(* and an edit of roles that the page's first read or a half-saved profile *)
(* came over (Room).                                                       *)
BelongsToWhatIsShown ==
  /\ page = "skins" => Skins!CacheOfItsAccount
  /\ page = "preparation" => Prep!AppliedToItsAccount
  /\ page = "accounts" => Accounts!SavedForShown
  /\ page = "profile" => Profile!SkinsOfChampion
  /\ page = "profile" => Profile!SelectedIsOwned
  /\ page = "champ-select" => Draft!LocksInTurn
  /\ page = "champ-select" => Draft!BraveryOfThisDraft
  /\ page = "utilities" => Backups!ResolvedIsNamed
  /\ page = "utilities" => Backups!RecoveryPointKept
  /\ page = "runes" => Runes!SavedAsShown
  /\ page = "control-room" => Room!EditStays

(* What a page works out from the lists it was given is what they say: the *)
(* order the arrow keys follow, the rune page League takes, games without  *)
(* a gap, the streak, what an account owns when League lists it twice, the *)
(* filters' counts, the masteries closest to a level, each phase listed    *)
(* once.                                                                   *)
ListsAreRight ==
  /\ page = "queue-picker" => Picker!ArrowsFollowTheMenu
  /\ page = "runes" => Runes!PageIsLegal
  /\ page = "history" => History!NoGap
  /\ page = "history" => History!StreakIsTheRun
  /\ page = "skins" => Skins!OwnedAsRead
  /\ page = "skins" => Skins!FiltersAgree
  /\ page = "progress" => Progress!ClosestFirst
  /\ page = "control-room" => Room!PhaseListedOnce

(* A step takes what the page showed when the user acted and changes       *)
(* nothing beside it: a queue or a selection is emptied only when all of   *)
(* it was treated, a start sends the choices on show, an option is taken   *)
(* from those offered, an answer never replaces a later one, a save        *)
(* changes its own setting only, a rollback puts back what was there, a    *)
(* login is saved for the profile that names its account, a text being     *)
(* typed stays. Every save sends a whole record: one that crosses another, *)
(* or follows one whose answer was lost, may change more, as the comments  *)
(* of KeepsOthers and KeepsOtherRules say.                                 *)
StepsKeepToWhatIsShown ==
  /\ Loot!EmptiedWhenCrafted
  /\ Social!EmptiedWhenTreated
  /\ Play!StartsWithShown
  /\ Picker!TakesWhatWasOffered
  /\ Live!NeverBack
  /\ Live!KeepsThePhase
  /\ Prefs!KeepsOthers
  /\ QoL!KeepsOtherRules
  /\ Prep!RollbackUndoes
  /\ Accounts!LoginOfItsAccount
  /\ Skins!HeartFlips
  /\ QoL!TypedStays

(* The recipes on show are those of the selected material: the loot page   *)
(* implements LatestRequest, whose answers to an earlier question change   *)
(* nothing.                                                                *)
RecipesOfSelection == Loot!RecipesOfSelection

(* What a page waits for ends, in every order the requests and timers may  *)
(* end in: the watch of a craft, every start that waits for its lobby and  *)
(* every launch, those that began beside another included, and with the    *)
(* last of them the stage; a replay's download; and the engine's last      *)
(* state is shown, whatever answers are lost while requests still end and  *)
(* timers still run.                                                       *)
PagesSettle ==
  /\ Loot!WatchEnds
  /\ Play!ActingEnds
  /\ Shell!StageEnds
  /\ History!ReplayReadyIsSeen
  /\ Feed!EngineIsShown

=============================================================================
