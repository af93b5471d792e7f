# A formal model of RiftOps

RiftOps is a desktop program that stands between a player and the Riot Client.
It launches the client through its own config and chat proxies, keeps one
encrypted saved login per account, drives League through the client's local
API ("Full Auto", the QoL automations, reviewed bulk operations), and can be
controlled from a phone in the local network. Almost all of it is goroutines
that share a mutex for a moment and then act on what they read: HTTP handlers,
one goroutine per launch, per Full Auto run and per bulk operation, timers, and
two programs nobody controls, League and the Riot Client.

This directory holds TLA+ models of the parts where that interleaving decides
whether the program is right, the TLC configurations that check them on small
instances, and TLAPS proofs for instances of every size: each safety and action
property that a run finds to hold is also a theorem.

- [Inventory](#inventory)
- [The modules](#the-modules)
- [The runs](#the-runs)
- [Fairness](#fairness)
- [What is proved](#what-is-proved)
- [Where the code and its text disagree](#where-the-code-and-its-text-disagree)
- [What is not modelled](#what-is-not-modelled)
- [Plan](#plan)

## Inventory

| Component | State | Operations | Talks to | Hard behaviour | What makes it correct |
|---|---|---|---|---|---|
| Full Auto runtime, `internal/playflow/runtime.go` | status (active, run id, reason), cancel function; per run the cycle flags of `runState` | Start, Stop, the poll loop | League (lobby, roles, matchmaking, play again), QoL manager (hook) | Stop and a new Start while an old poll is inside a request; the phase read is stale when used; hook calls after the unlock | one driver at a time, never two matchmaking starts per game, a stopped run ends |
| Draft, `internal/playflow/draft.go` | what was hovered, banned, locked, swapped | one step per poll in champion select | League | the session is read again between the requests | no lock of a champion that was banned or taken, no second lock |
| QoL manager, `internal/qol/manager.go` | settings, per-phase marks, cooldowns, the runtime flag | one loop, setters | League, Full Auto | marks and flags change between two reads of the phase | each automation acts as often per game as it says |
| Engine, `internal/engine` | running, cancel, config, runtime policy, snapshot; `lifecycleMu` | Run, Stop, switch, capture, refresh, forget, presence setters | vault, Riot Client, proxies, settings file | startup under the lock, waiting and cleanup outside it; Riot opened or closed by the player at any time | one run at a time; saves hold their own account's newest files |
| Session vault, `internal/sessionvault` | encrypted save per profile; Riot's own login files | capture, refresh, restore, fresh login, delete | disk, Riot Client | several files, copied one by one beside a running client; crashes and failing writes; a cleanup without `lifecycleMu` | a save is of one account and loses no file; a refresh neither creates nor prolongs one |
| Chat proxy, `internal/chatproxy`, `internal/xmpp`, `internal/presence` | open sessions, last presence, policy | two readers per session, policy change | Riot's chat, the client | the policy changes while a presence is being forwarded | the mask in force is the one last sent |
| Reviewed operations, `cmd/riftops-ui/operation_handlers.go` | one record per operation, receipt ledger | preview, execute, cancel, read, clear | League, feature store | lost answers, cancel against the last target, expiry | a target is changed at most once, the receipt says what happened |
| Remote access, `cmd/riftops-ui/remote_access.go` | listener, pairing code, sessions, the setting | enable, disable, pair, rotate, revoke | engine settings, phones | the mutex is dropped while a port is bound; late requests | no listener without an owner, one session per code, ended stays ended |
| Watchdog, `cmd/riftops-ui/watchdog.go` | run marker, restart flag | watch loop, restart | the operating system | crash and restart | no restart loop, a clean exit is seen as clean |
| Settings, feature store, atomic file | JSON files | load, change, save | disk | two writers, a failing write | the file is the last state saved |
| League and Riot access, certificates, config proxy, updates, platform | caches only | requests | network, operating system | I/O | conversions |
| Web interface, `cmd/riftops-ui/frontend`: a shell and one component per page | per page what it read, what the user edits, the request that is busy; favourites, cached catalogues and collections in the browser | polls, event stream, edits saved at once, reviewed batches, launches | local API, and League and the engine through it | answers overtake each other, saves hold whole records, pages are left with requests on the way, a phone has fewer rights | what is shown is what is stored once nothing is on the way; one action at a time; what belongs to one account or selection is not used for another |

`PROJECT.json` lists every component with its status, and under `hazards` what
can go wrong in this code that a test would hardly reach, at the line where it
bites and with the properties that cover it.

## The modules

A history variable is marked as such where it is declared; every other variable
is state of the code or of the programs around it. Definitions named *Faulty*
are not part of a specification: each is an action with a plausible bug, used
to see that a property notices it.

### Gameflow and PlayFlowRuntime

`Gameflow` holds League's phases as the code knows them and which phase may
follow which. It is an environment: it allows more than League does.

`PlayFlowRuntime` is the Full Auto service. `status`, `cancelled` and `mode`
are `Service.status`, its cancel function and the run's configuration; `pc`
says where a run's goroutine is, `state` is its `runState` with the phase its
poll read. The code's critical sections are one action each (`Start`, `Stop`,
`finish`); what follows the unlock (`StartHook`, `StopHook`, `FinishHook`) is
another, because the hook to the QoL manager is called outside the mutex.
A poll is not one action: `BeginStep` (the `isCurrentRun` test), `ReadPhase`,
then the action for the phase read, then each League request and its answer.
`SendStart` sends the matchmaking request and `StartAnswer` takes its answer, in
between anything may happen. A request may fail without effect, fail after it
had its effect, or succeed.

### DraftRuntime

What a poll of Full Auto does while League is in champion select, for the three
kinds of queue that differ (a role-aware draft, Arena, ARAM). `turn`, `at`,
`shown` and `member` are what a session reports of the player's actions, `taken`
and `bench` what the others hold. `attempt`, `manual`, `rejected` and `aram` are
the fields of `draftRuntime`; `pc` is the request a poll is at. `Poll` is the
first read with all the early returns after it (`PollBench`, `PollManual`,
`PollWaits`, `PollProceeds`), `FetchAvailability` the list of champions and the
choice of a candidate, then `Hover` and `HoverAndConfirm`, for Arena and ARAM
`ExecuteSpecialPick`, then `LockAfterRefetch`, `SubmitLock` and `ConfirmLock`; a
later poll settles a lock that was not confirmed (`ObserveSubmittedLock`). A
request is put in flight; League applies it at any later time or never
(`RequestArrives`), whatever the request's answer was, but
no request outlives the turn of its action (`InTime`). When a lock is due is
decided by the draft timer, and is a choice at every poll. The history `owner`
says who made the choice an action shows. `raced` says that the player has
chosen since the session was last read.

### ReviewedOperation

One record per operation: its state in the handlers (`state`, `age`, `cancel`),
and its goroutine (`pc`, `index`, `results`, `answer`, `ending`, `held`). The
receipt ledger is the part of the feature store that survives `Restart`. A
target is whatever the operation names. `Validate` looks a target up again and
`Send` mutates it, and between them League, the player and other operations may
take the target away. League's answer is `ok`, `rejected`, or `unclear` (a
timeout, a 5xx, a broken connection), which leaves open whether the mutation
was applied. `Expansions` are the operations that mutate once in all
(`runExpansionOperation`); the others go through their targets
(`runReviewedOperation`). Those in `Bulk` (kind `reward-select-bulk`) have several
targets: one request asks for every grant (`Asked`), League may take any of them,
and what its answer says of each is discarded, so there is one result, under
the name of the first target, for them all. Their receipts promise less
(`ReceiptOfBulk`), and so does `OperationLifecycle` of the operations in `Together`:
"succeeded" means that League accepted a request for all of them, and a complete
run has one result. `finishOperation` is the three critical sections it is
in the code: `Finish`, `Receipt`, `Store`.

### RemoteAccess

`SaveConfig` and `SaveDisk` are `Engine.SavePhoneAccess`; `StartCheck` and
`StartInstall` the two halves of `start` around the unlocked bind;
`ListenerFails` the end of a listener by itself; `Shutdown`, `NewPair`,
`ConsumePair`, `Revoke`, `RevokeAll`, `Authenticate` and `StatusPrunes` the
manager's methods. Requests that were accepted before a shutdown may still
arrive after it, so `ConsumePair` needs no listener. `Shutdown` is one step, where
the code clears its state, unlocks (`remote_access.go:210`) and then has the server
stop (`remote_access.go:214`): between the two, for two seconds at most, a listener
without sessions or a code still answers, and the model does not show it.

### EngineLifecycle

Runs, account operations and the Riot Client. `life` is `lifecycleMu`, held by
a run during its startup or by an account operation from its first step to its
last; `http` is `profileSessionMu`, which the HTTP handlers of account
operations hold and the tray does not. `pc` says where `Engine.Run` of a
launch request is: startup (`inspect`, `close`, `settle`, `login`, `restore`)
under the lock, then `launch`, waiting (`proxied`, `direct`, `watch`,
`attached`, with the fallback to a direct chat), then the deferred cleanup
(`cleanup`, `reset`, `idle`) outside it. `op` is the one account operation
under way. Riot's remembered-login files are `disk`: whose they are and which
write they are; `saved` is what the vault holds per profile. The player opens,
signs in to and closes Riot at any time, and Riot writes its files while it is
up and once more when it goes down. Riot may be closed (`Closed`), or refuse.

### SessionVault and SavedLogins

`EngineLifecycle` takes a save for one thing; `SessionVault` looks inside. Riot's
remembered login is several files, and the module copies them one at a time,
with Riot, a crash or a failing write between any two. They are grouped by what
the order of work tells apart: `private`, the file that names its account
(`DiskPUUID`) and holds the authorization, what a restore writes before it
(`cookies`) and what it writes after it (`sessions`). `saved` is the encrypted
save of each profile, `mu` is `Vault.mu`, and `op` says for the two goroutines
that may use the vault which call each is in: `main` holds `lifecycleMu`,
`cleanup` is the end of a run, which does not. A call is `capture` (of a
running client), `closedCapture`, `refresh` (`RefreshVerified`), `settle`
(`RefreshSettled`), `restore` (`prepareLogin`, which settles first) or `fresh`
(`PrepareFreshLogin`); it goes through `lock`, `read` (`CaptureFile` for each path),
`check` and `store`, and when it is to write Riot's files through `load`, `clear`
(`ClearFile`) and `write` (`WriteFile`). A save is replaced by renaming a
temporary file, and so in one step (`StoreCapture`), or not at all
(`StoreFails`). `Crash` ends every call and frees the lock. The Riot Client opens,
closes, changes account and writes its files at any of these steps. One write of
Riot's is one step (`Write`), which is easier than the real client: between two files
of one such write RiftOps could read a mixture of two writes. Each file is still
read at a moment of its own, so a capture meets any number of whole writes between two
files, and what `SavesOneAccount` excludes (files of two accounts in one save) is
looked at for those; a write of Riot's that is itself cut half way is not.

`crossed` is a history: Riot wrote into a restore, or wrote another account's
files into a read that relies on a closed client, or an account went away and
came back around a capture. RiftOps cannot notice any of these. `cut` says that
a write of Riot's files stopped after the one that names the account and before
the last, and that nothing has replaced them since.

`SavedLogins` is the abstract specification: a profile has a save or none, which
can sign in or not, and has expired or not. A save comes into being only for a
capture the user asked for, which makes it usable and not expired; a refresh
replaces what is there by a usable login and leaves its expiry alone; anything
else only forgets or expires. `SessionVault` implements it (`KeepsSaves`), with
`asked` read from the captures under way.

### OperationLifecycle and LatestRequest

Two more abstract specifications. `OperationLifecycle` is what a reviewed operation
promises whoever previewed it: it starts at most once, League is asked to
change each target at most once and only between the start and the end, a
success is reported only for a change League made, and a complete operation has
reported on every target. It knows no goroutine, clock or ledger.
`ReviewedOperation` implements it (`KeepsPromise`: the goroutine's results,
`sent` and `applied` are read as `reported`, `touched` and `applied`; its steps are
proved to, in `ReviewedOperationProofs`), and the
Loot page relies on nothing else: `LootWorkshop` runs `Server!Preview`,
`Server!Start` and the others as its server, so the composition of page,
network and operation needs no detail of the handlers.

`LatestRequest` is what a panel promises that loads details of a selection: it
shows nothing, or the details of what is selected now. The Loot page implements
it (`RecipesOfSelection`) with requests that are deactivated when the selection
changes, and with a craft that disables the selection while it reads again.

### WebApp and the pages

`WebApp` composes the modules of the web interface
(`cmd/riftops-ui/frontend/src`). App.tsx renders one tab at a time and unmounts
the others, and each page keeps its own state, so a behaviour of `WebApp` is a
behaviour of one page: `page` is chosen in the first state, and what belongs to
other pages stays. The pages' variables, instances and steps are in two modules,
`CorePages` (play, client and application) and `WebApp`, which extends it with the
pages of the client's data and states the specification and its properties;
their proofs are divided in the same way, and `MCWebApp` holds what TLC needs. What App.tsx always keeps mounted (shell, snapshot feed,
preferences) and the parts several pages share (queue picker, rune editor,
cache) are looked at in the same way. Each page module has RiftOps's or
League's side of its requests in it, as far as the page can tell: a request, its
effect there, its answer on the way back and the handling of the answer are
steps of their own, so answers may be late, overtaken or lost. The names of
states and handlers are the source's.

| Module | Code | What its actions are |
|---|---|---|
| `LootWorkshop` | `LootDashboard.tsx`, `ReviewOperationModal.tsx`, `reviewedOperation.ts` | a material and its recipes, the queue, the review dialog, and `runReviewedOperation`: execute, watch, retry after a lost read, give up; a request may arrive after it was given up |
| `PlayFlowPage` | `PlayFlowPage.tsx` | the first read of the choices, an edit and its save, answers that hold the whole record; the main button and its start handler (`Flushed`, `ManualLobby`, `waitForSelectedLobby`, `StartSent`) |
| `QueuePicker` | `PlayFlowPage.tsx` | sorting and grouping of the queues, arrow keys, Enter, pointer, and a poll that replaces the queues under an open list |
| `RunePageEditor` | `RunePageEditor.tsx` | styles, rows and shards of the copy that is edited, its replacement by a read, the save |
| `ChampSelectWorkspace` | `ChampSelectWorkspace.tsx`, `champSelectFlow.ts`, `arenaBravery.ts` | views of the session in any order, selection, Bravery, hover, ban, lock and the tools |
| `LiveSession` | `LCUProvider.tsx`, `LiveSessionPage.tsx`, `liveSession.ts` | the one poll all pages share, the phase on show, the actions it enables |
| `MatchHistory` | `MatchHistory.tsx` | first page, further pages while games end, the streak, a replay's download |
| `Preferences` | `App.tsx`, `SettingsPage.tsx`, `FirstRunSetup.tsx` | the first read, saves of the whole record, first-run setup |
| `AppShell` | `App.tsx`, `clientCapabilities.ts`, `CommandPalette.tsx` | desktop or phone, tabs, palette, launch with its stages and timers, Home's actions, the confirm dialog |
| `SnapshotFeed` | `App.tsx` | event stream, polls beside it, reads after actions, a hidden page |
| `SkinShowcase` | `SkinShowcase.tsx`, `collectionProgress.ts` | reads per account, the kept collection, League's double records, filters, favourites |
| `SystemSettings` | `SettingsPage.tsx` | chat privacy switches and their reads, set-up of the trusted proxy |
| `SocialCenter` | `SocialCenter.tsx` | polls of the lists, selections, batches, single actions, mutes |
| `PreparationPanel` | `PreparationPanel.tsx` | presets, their preview and apply with a one-time grant, item sets, snapshots, rollback |
| `ProfileStudio` | `ProfileStudio.tsx` | background, icon and tokens, loads that overlap, identity presets |
| `ClientBackups` | `SafeToolsPanel.tsx`, `safe_feature_handlers.go` | settings backups with their limit, a restore in steps, rewards, a champion's look-up |
| `LaunchAccounts` | `LaunchProfilesPanel.tsx` | list, switch, capture, save, edit, delete, ranks, and the login kept per profile |
| `ProgressPage` | `ProgressPage.tsx` | reward grants, their review and operation, masteries, League coming and going |
| `ClientControlRoom` | `ClientControlRoom.tsx` | League's phase, the primary action, roles from three sources, the activity list |
| `QoLPanel` | `QoLPanel.tsx` | automation rules and the whole-record save, status message, actions, honor ballot |
| `MetadataCache` | `api.ts` | `fetchCachedJSON` in memory and storage, shared requests, expiry, clearing |

Each page module states its own properties; `WebApp` collects them into seven, by
what they are about, and these are what the run checks:

- `ShowsWhatIsStored`: what is shown as saved is what is stored, once nothing is
  on the way; where the code lets overlapping requests or a lost answer leave a
  page wrong, from the page's recovery on (see [below](#what-suspends-a-property)):
  `SavedIsStored`, `ShownIsStored`, `RulesShownAreStored`,
  `PresetsAreSaved`, `SwitchesShowLeague`, `ProxyShownIsSetUp`,
  `MutesShowLeague`, `ListIsStored`, `PresetsAreKept`, `ListIsKept`,
  `PendingIsShown`, `ReturnsFresh`.
- `OneActionAtATime`: nothing is done twice, beside itself, or by who may not,
  but for what the code itself lets begin beside another, until that has ended:
  `OneInSight`, `OneStart`, `OneAnswer`, `OneHomeAction`, `OneLaunch`,
  `PhoneKeepsOut`, `OneAccountAction`, `SentOnce`.
- `BelongsToWhatIsShown`: nothing is attributed to the wrong account, champion,
  draft, profile or name: `CacheOfItsAccount`, `AppliedToItsAccount`,
  `SavedForShown`, `SkinsOfChampion`, `SelectedIsOwned`, `LocksInTurn`,
  `BraveryOfThisDraft`, `ResolvedIsNamed`, `RecoveryPointKept`, `SavedAsShown`,
  `EditStays`.
- `ListsAreRight`: what is worked out from lists is right at its edges:
  `ArrowsFollowTheMenu`, `PageIsLegal`, `NoGap`, `StreakIsTheRun`,
  `OwnedAsRead`, `FiltersAgree`, `ClosestFirst`, `PhaseListedOnce`.
- `StepsKeepToWhatIsShown`: what a step may never do: drop, overwrite or send
  what the page did not show: `EmptiedWhenCrafted`, `EmptiedWhenTreated`,
  `StartsWithShown`, `TakesWhatWasOffered`, `NeverBack`, `KeepsThePhase`,
  `KeepsOthers`, `KeepsOtherRules`, `RollbackUndoes`, `LoginOfItsAccount`,
  `HeartFlips`, `TypedStays`.
- `RecipesOfSelection`: the Loot page implements `LatestRequest`.
- `PagesSettle`: waiting ends (liveness), with no exception: a start or a launch
  that began beside another ends as well: `WatchEnds`, `ActingEnds`,
  `StageEnds`, `ReplayReadyIsSeen`, `EngineIsShown`.

A property has one mutant, and so has each of the seven: it breaks one of the
parts, on one page. The mutants thus show of a part of each bundle that an error in
the code would break it; of the other parts the run and the proofs show that they
hold.

The hazards behind them, page by page (`PROJECT.json` lists those that matter
most, beside the ones of the Go side):

| Where | What can go wrong | Covered by |
|---|---|---|
| `LootDashboard.tsx:250` | A confirmed craft runs in RiftOps while the dialog watches it: requests are lost, the dialog closes or the watch gives up, and another craft may be confirmed beside it. | `OneInSight`, `EmptiedWhenCrafted`, `WatchEnds` |
| `LootDashboard.tsx:254` | After a partial failure the whole queue is kept, the recipes that succeeded included: the next preview crafts them again if the materials are still there. | Nothing. The user is told how many failed and reviews every item again; no text of the repository says that the queue shrinks. |
| `LootDashboard.tsx:255` | A watch that ends after its dialog was closed by an error closes whatever dialog is open by then. | Nothing. Closing is refused while the dialog executes, so it takes two dialogs after a lost answer; the server keeps both operations apart (OncePerTarget). |
| `LootDashboard.tsx:181` | Recipes of the material selected before may be answered after the new selection's. | `RecipesOfSelection` |
| `PlayFlowPage.tsx:883` | Each change of the play choices is saved at once: answers of two saves, and of the first read, may come in any order and each holds the whole record. | `SavedIsStored`, from the next save answered alone: until then the page may show the older of two answers. |
| `PlayFlowPage.tsx:913` | Buttons beside the main one, and polls that bring another phase, act while a start handler waits for the lobby. | `OneStart` (handlers that look at `acting`; a second start through the button that another's end enabled is not counted while it lasts), `ActingEnds` (both end) |
| `PlayFlowPage.tsx:1143` | A start must use the choices on show, though their save is still on its way or failed. | `StartsWithShown` |
| `PlayFlowPage.tsx:298` | The effect resets the active option after every render of the parent, so arrow keys lose their place when a poll arrives. | Nothing. Nothing in the repository says that the place is kept; what is chosen is still what was offered (TakesWhatWasOffered). |
| `PlayFlowPage.tsx:249` | The arrow keys walk the options in the order of ids, which must be the order in which they are drawn, with groups, duplicates and a hidden current lobby. | `ArrowsFollowTheMenu` |
| `PlayFlowPage.tsx:341` | Enter takes the active option of the list as it was rendered; a poll may just have replaced it. | `TakesWhatWasOffered` |
| `ChampSelectWorkspace.tsx:208` | A read of the session that began before the draft ended is shown after it, and a view of an earlier draft names the same action ids. | `LocksInTurn`, `BraveryOfThisDraft` |
| `ChampSelectWorkspace.tsx:328` | An older poll overwrites the champion just selected; a lock then sends that one. | Nothing. The view shows the champion it will lock; League's own session is the reference and the next poll brings it. |
| `LiveSessionPage.tsx:495` | lastActivePhase is never reset: after a failed read in a later session the page shows the phase of an earlier game. | `KeepsThePhase` |
| `LCUProvider.tsx:73` | Polls of five pages share one request; an answer read before another must not replace it. | `NeverBack`, `OneAnswer` |
| `LiveSessionPage.tsx:514` | Only the last event of the game is compared, so of two events between two polls one is not announced. | Nothing. Toasts are a convenience; the list of events shows both. |
| `MatchHistory.tsx:331` | Games end between two pages, so the next page begins with games that are listed already. | `NoGap` |
| `MatchHistory.tsx:382` | The detail of one game that is answered clears the loading mark of another. | Nothing. Presentation: the other game's detail is still shown when it comes. |
| `MatchHistory.tsx:413` | A replay's download is asked for once and then polled: a failed or late status must not leave it downloading. | `ReplayReadyIsSeen` |
| `MatchHistory.tsx:471` | The streak stops at the first other result, and at games without one. | `StreakIsTheRun` |
| `App.tsx:312` | Every save sends the whole record as this page knows it: an earlier save that is still on its way, or preferences that were never read, overwrite the others. | `KeepsOthers` for a save that has no other beside it or lost before it; `ShownIsStored` after the next such save. The overwriting itself happens, and no property excludes it. |
| `App.tsx:313` | Preferences whose first read failed are defaults, and the first save stores all of them. | `ShownIsStored`, from the first save that is answered on. KeepsOthers claims nothing of that save, which does overwrite the others. |
| `App.tsx:404` | The timer of an earlier launch clears the stage of a later one and enables the button again. | `StageEnds`: both launches end, and the stage with them. OneLaunch does not count a second launch begun in this way, until no launch is left; Engine.Run refuses it (OneRunAtATime). |
| `App.tsx:480` | Stop, masking and presence come from buttons, palette and dialogs; state set in React is not yet seen by a second call in the same tick. | `OneHomeAction` |
| `App.tsx:494` | The palette's launch does not look at the stage. | Nothing. The model has it and OneLaunch does not count launches that overlap by it, until they have ended; Engine.Run refuses a second run (OneRunAtATime). |
| `App.tsx:169` | A phone whose status read fails is taken for a desktop and offered its commands. | Nothing. The server refuses them to a phone (RemoteAccess); PhoneKeepsOut covers a phone that was recognised. |
| `App.tsx:271` | Tabs are reached by the sidebar, keys, events and the palette, before and after the client's mode is known. | `PhoneKeepsOut` |
| `App.tsx:231` | The event stream may break, be late or stay silent while the engine changes; polls begin and end with visibility and may be answered after a newer event. | `EngineIsShown` |
| `App.tsx:209` | An older answer that comes after a newer event overwrites it until the next poll. | Nothing. EngineIsShown says that it does not last. |
| `SkinShowcase.tsx:310` | The account changes between the profile's read and the skins': one account's skins would be kept for the other. | Nothing. The model has it (`switched`): CacheOfItsAccount is claimed without such a switch. The comment at SkinShowcase.tsx:308 speaks of display while League reconnects. |
| `SkinShowcase.tsx:314` | A collection kept for one account is on show first when another signs in. | `CacheOfItsAccount`, `OwnedAsRead` |
| `collectionProgress.ts:27` | League lists a skin twice, owned in one record and rented or a shard in the other. | `OwnedAsRead`, `FiltersAgree` |
| `SkinShowcase.tsx:278` | Favourites are kept under an old and a new key, which a skin and its classic twin share. | `HeartFlips` |
| `SettingsPage.tsx:208` | A privacy read that was sent before a toggle is answered after it; chatPrivacyBusy holds the last key only. | `SwitchesShowLeague` |
| `SettingsPage.tsx:150` | The first read of the proxy's status may be answered after the setup. | `ProxyShownIsSetUp` |
| `SocialCenter.tsx:147` | Timer, button and the end of an action poll at the same time, and a mute is sent while an older read of the mutes is on its way. | `MutesShowLeague` |
| `SocialCenter.tsx:241` | A batch that is complete with failures clears the whole selection, friends that were added meanwhile included. | `EmptiedWhenTreated` |
| `PreparationPanel.tsx:176` | A preset is previewed for one account and applied after another signed in. | `AppliedToItsAccount` |
| `PreparationPanel.tsx:85` | The list is read again after each change; the first read may be answered after one. | `ListIsStored` |
| `PreparationPanel.tsx:289` | Apply keeps what was there and rollback puts it back, whatever sets were made by League meanwhile and whichever snapshot is chosen. | `RollbackUndoes` |
| `ProfileStudio.tsx:199` | Skins of the champion chosen before stay after an error, and may be answered after the next choice. | `SkinsOfChampion` |
| `ProfileStudio.tsx:136` | Two reads of the icons overlap and each resets the selection. | `SelectedIsOwned` |
| `ProfileStudio.tsx:333` | Presets are saved, deleted and applied while the list is read. | `PresetsAreKept` |
| `ProfileStudio.tsx:154` | A poll replaces the status message that is being typed. | Nothing. QoLPanel guards the same field (TypedStays); here the effect runs only when League's message changes. |
| `ProfileStudio.tsx:371` | One token can be put into two slots. | Nothing. League refuses or accepts such a set; the page promises nothing about it. |
| `safe_feature_handlers.go:1725` | The list of backups is cut at its limit: the backup made before a restore may push out the one that is restored. | `RecoveryPointKept` |
| `SafeToolsPanel.tsx:175` | A failed restore leaves a new backup that the list does not show. | `ListIsKept`, from the next load on. |
| `SafeToolsPanel.tsx:69` | The list is read when the page opens and after each call. | `ListIsKept` |
| `safe_feature_handlers.go:1740` | RiftOps stopping in the middle of a restore leaves some settings restored. | Nothing. The backup made before it is kept (RecoveryPointKept); the handler promises no more. |
| `SafeToolsPanel.tsx:390` | The champion that is looked up must be the one named in the field when it is asked for. | `ResolvedIsNamed` |
| `LaunchProfilesPanel.tsx:143` | Switch, capture, save, edit and delete share one busy mark, and each ends with reads that may overlap the next one's. | `OneAccountAction`, `SavedForShown` |
| `LaunchProfilesPanel.tsx:181` | The capture's request does not name the profile: another account may be active by the time it arrives. | `LoginOfItsAccount` |
| `LaunchProfilesPanel.tsx:116` | The ranks' refresh replaces the whole list by an older one. | Nothing. The model has it (`accountsCrossed`); the next read brings the list back. |
| `LaunchProfilesPanel.tsx:241` | An edit sends the profile as it was listed, and brings back one that was deleted. | Nothing. The model has it; the profile that comes back has no saved login (LoginOfItsAccount). |
| `ProgressPage.tsx:293` | A reward selection whose answer is lost is confirmed again. | `SentOnce` |
| `ProgressPage.tsx:296` | All selections are dropped after one grant was claimed. | `PendingIsShown` |
| `ProgressPage.tsx:182` | Refreshes overlap: the pending grants of an older one may stay on show. | `PendingIsShown` |
| `ProgressPage.tsx:232` | The masteries closest to their next level are listed first, with those at the top level and ties. | `ClosestFirst` |
| `RunePageEditor.tsx:144` | A page that is read again replaces the copy that is being edited. | Nothing. The workspace reads the pages only when it opens and after a save; the copy on show is the copy that is saved (SavedAsShown). |
| `RunePageEditor.tsx:138` | After a failed read of the catalogue the copy of the previous page is still there, and could be saved onto another. | `SavedAsShown` |
| `RunePageEditor.tsx:148` | Changing styles must leave a page that League takes: no row twice, no style twice, none missing. | `PageIsLegal` |
| `ClientControlRoom.tsx:141` | The presets' read, League's roles and the player's edit all set the same two fields. | `EditStays`, `PresetsAreSaved` |
| `ClientControlRoom.tsx:195` | A preset is stored and the lobby's roles fail: the page says that it failed. | Nothing. The model has it (`roomCrossed`): PresetsAreSaved claims nothing until the page is opened again, since it reads its presets once. |
| `ClientControlRoom.tsx:229` | A start after a preset was chosen does not send the roles shown, as they were not edited. | Nothing. The code sends them only for an edit (rolesDirty); the comment at line 226 speaks of a role update that is optional. |
| `ClientControlRoom.tsx:155` | The effect that lists a phase runs again whenever anything it depends on is made anew. | `PhaseListedOnce` |
| `QoLPanel.tsx:206` | A rule is shown switched before it is saved, and the save holds every rule and the play choices. | `RulesShownAreStored`, `KeepsOtherRules` |
| `QoLPanel.tsx:317` | The whole record is sent: a play choice saved on the way is overwritten. | `RulesShownAreStored`, from the next save of a rule on. KeepsOtherRules claims nothing of the save that overwrites; main.go:3535 says so of quick changes of the same field sets, which go by PATCH. |
| `QoLPanel.tsx:155` | A poll replaces the status message while it is typed. | `TypedStays` |
| `api.ts:33` | Clearing the cache does not forget the requests in flight: they fill it again with what was read before. | Nothing. The model has it (`crossedClear`): ReturnsFresh is claimed for what was asked for after. |
| `api.ts:25` | The cache has a limit, an age, a copy in the browser and one request for each path. | `ReturnsFresh` |

### What suspends a property

The code lets a page come to states in which what it promises is not so: two
saves of a whole record on the way at once, a button that another handler's end
has enabled, a launch from the palette that does not look at the stage, an account
that changes between the two reads of one load, a request that failed after it had
its effect. The models have the steps into these states, the runs explore them and
go on from them, and the proofs cover them. A history variable marks them
(`crossed`, `overlapped`, `switched`, `besides`, `lost` or a name that ends so), and
the property of that name claims nothing while it is set. What sets it and what
clears it:

| History | Set by | Suspends | Until |
|---|---|---|---|
| `PlayFlowPage.overlapped` | a save made beside another or beside the first read | `SavedIsStored` | a save that has no other beside it is answered |
| `PlayFlowPage.crossed` | a handler that ignores `acting` ends while a start runs (`OtherOver`) | `OneStart` | no start is left |
| `Preferences.crossed`, `pathCrossed` | a save beside another, one that failed, a first read that failed | `ShownIsStored`, `KeepsOthers` | a request of its kind is answered alone |
| `QoLPanel.qolCrossed` | a first read that failed, a lost answer, a save of the Play page after the read | `RulesShownAreStored`, `KeepsOtherRules` | the next save of a rule is answered |
| `SystemSettings.chatCrossed` | requests that overlap, a lost answer | `SwitchesShowLeague` | the card is opened with none under way |
| `SystemSettings.proxyCrossed` | a setup beside the first read, one that failed half way | `ProxyShownIsSetUp` | the next setup or removal is done |
| `SocialCenter.mutesFailed` | a read of the mutes failed | `MutesShowLeague` | the next read goes well |
| `PreparationPanel.listCrossed` | another account, a load overtaken or failed | `ListIsStored` | the next save or removal has read the list |
| `PreparationPanel.setsCrossed` | another account, item sets changed beside the first read or refused, snapshots not read | `RollbackUndoes` | the page is opened again |
| `ClientBackups.backupsCrossed` | loads that overlap or fail, a restore that failed half way | `ListIsKept` | a load begins beside no other |
| `ProgressPage.progressCrossed` | refreshes that overlap or fail, an operation lost from sight | `PendingIsShown` | a refresh goes well beside no other |
| `ProfileStudio.studioCrossed`, `ClientControlRoom.roomCrossed` | a request that failed after it had its effect; in the control room, presets read over an edit | `PresetsAreKept`; `PresetsAreSaved`, `EditStays` | the page is opened again: it reads them once |
| `LaunchAccounts.accountsCrossed` | loads that cross a change of the profiles or fail | `SavedForShown` | the page is opened again |
| `LiveSession.besides` | a request ends while another runs on, which enables the buttons | `OneAnswer` | no request is left |
| `AppShell.crossed` | an earlier timer resets the stage of a running launch; a launch from palette or dialog beside one | `OneLaunch` | no launch is left |
| `LootWorkshop.lost` | an operation the page gave up watching | `OneInSight`, for that operation | it has ended |
| `SkinShowcase.switched` | the account changes between the two reads of one load | `CacheOfItsAccount` | the end of the run: a collection kept for the wrong account stays in the browser |
| `MetadataCache.crossedClear` | a request is under way when the cache is cleared | the second half of `ReturnsFresh` | the end of the run: the late answer is kept as long as its age allows |

No liveness property is suspended.

## The runs

| Run | Module, configuration | Shows |
|---|---|---|
| `playflow_two` | `PlayFlowRuntime_two.cfg` | `SingleDriver`, `SendsOnlyWhileCurrent` with two repeat runs and a Stop handler |
| `playflow_cycle` | `PlayFlowRuntime_cycle.cfg` | `TypeOK`, `OneStartPerGame`, `RunsEndWhenDue` (a stopped run ends, and a single run ends in the game it led to) over two games, both cycle modes, a selected role-based queue |
| `playflow_stop`, `playflow_hook` | violations | see [below](#where-the-code-and-its-text-disagree) |
| `draft` | `DraftRuntime.cfg` | `TypeOK`, `LockedOnce`, `PlayerKept`, `BenchKept`, `BanLeftIfChosen`, `LockSettles` for a champion select of each kind |
| `operation_batch` | `ReviewedOperation_shared.cfg` | `TypeOK`, `OncePerTarget`, `CancelStopsSoon`, `ReceiptsTrue` (one receipt at most; a batch's accounts for every target, a bulk selection's says whether League accepted the request for all of them), `StopsWhenUnclear`, `RunsEnd`, and that the handlers implement `OperationLifecycle` (`KeepsPromise`), for a batch of two targets, a bulk selection of the same two and a third operation whose receipt makes the ledger overflow |
| `remote_manager` | `RemoteAccess_manager.cfg` | `NoOrphanListener`, `CodePairsOnce`, `EndedStaysEnded` |
| `remote_setting` | violation | see below |
| `engine_account` | `EngineLifecycle_one.cfg` | `SavesOwnAccount`, `FinalWriteKept`, `RollbackNeedsInterference`: two profiles, one launch, any number of account operations |
| `engine_two` | `EngineLifecycle_two.cfg` | `OneRunAtATime`, `NoForeignKill`, `EngineReleased` (a cancelled run ends, `lifecycleMu` is given back) with two launches of a profile that allows several clients |
| `session_vault` | `SessionVault.cfg` | `TypeOK`, `SavesOneAccount`, `LosesFilesOnlyToACut`, and that the vault implements `SavedLogins` (`KeepsSaves`): two accounts, one with a profile, two faults |
| `web_pages` | `MCWebApp`, `WebApp.cfg` | `ShowsWhatIsStored`, `OneActionAtATime`, `BelongsToWhatIsShown`, `ListsAreRight`, `StepsKeepToWhatIsShown`, `RecipesOfSelection` and `PagesSettle`, which are the 57 properties of the 21 page modules; five of them are liveness |

### Bounds

- `PlayFlowRuntime`: two runs, because every conflict is between a run and the
  one after it; two games, the least in which the flags of one game can be
  wrong in the next; one Stop handler between its unlock and its hook at a time
  (`stopHooks`), since a second Stop of a stopped service does the same.
- `DraftRuntime`: two champions, so that a plan has a choice and a fallback and
  the player something else to choose; two lanes with different plans; no bound
  on polls, requests or changes of mind. The champions others hold only grow.
- `ReviewedOperation`: two targets, so that there is a first, a last and a
  pause between them; two operations over both for the conflicts
  (`SharedTarget`: with both in play the batch goes as far as its first target);
  `MaxReceipts = 2` instead of 20, and a third operation that runs once the
  first two have ended in unclear answers and stored their receipts, so that the
  oldest is dropped.
- `RemoteAccess`: two handlers race in `start`; two listeners, three codes and
  two sessions let one of each follow an ended one.
- `EngineLifecycle`: `MaxRuns`, `MaxWrites` (writes of Riot's files, enough for
  an older save and a newer file) and `MaxOpens` (the player opening Riot).
  Profiles are interchangeable, so `engine_account` uses symmetry; it has no
  liveness property.
- `SessionVault`: two accounts, one of which has a profile: files can be foreign
  either way, and saves of two profiles share nothing but the files and the
  lock. `MaxFaults = 2` lets a fault follow a fault, such as a restore that is cut
  and a refresh of what it left. No further write of Riot is followed once one
  crossed, since `SavesOneAccount` and `LosesFilesOnlyToACut` claim nothing after it.
- `WebApp`: each page has the least that lets an answer be overtaken: two
  operations and two materials, two edits, two start handlers, two drafts, five
  games in pages of two, two accounts or three profiles, a cache of one entry.
  The constraint `Bound` is a
  conjunction of one part per page (`LootBound`, `PlayBound`, ...), each with a
  comment: parts of a page that do not touch each other's state are looked at one
  at a time. What follows a history that suspends a property is explored too, with
  fewer requests or choices beside it where the page is large.

Runs state `CHECK_DEADLOCK FALSE` where the bounds, or the end of all runs,
let the system stop; `RemoteAccess` never stops, and deadlock is checked.

## Fairness

- `PlayFlowRuntime`: weak fairness of each run's own steps and of the tail of
  Start and Stop. Every request the goroutine makes carries the run's context
  and a client timeout, so none blocks for ever. Nothing is assumed of League,
  of the player, or of the user pressing Stop.
- `DraftRuntime`: weak fairness of the poll's next step. Champion select is polled
  until it ends and requests time out; League and the player promise nothing.
- `ReviewedOperation`: weak fairness of the operation's goroutine; all its
  requests share a context of 90 seconds.
- The pages: a request of a page is answered or fails, and its timers fire:
  RiftOps serves them on the same computer, and its handlers bound what they ask
  of League by timeouts. Nothing is assumed of the user, who may never
  press a button, nor of League. `SnapshotFeed` needs strong fairness of
  `PollRead`: of the polls made again and again one is answered, or nothing
  could be shown while the stream is silent. `LootWorkshop` assumes of the
  server what `OperationLifecycle` promises, that an operation ends, which is
  `RunsEnd` of `ReviewedOperation`.
- `EngineLifecycle`: weak fairness of each run's next step and of the account
  operation under way. It does not assume that chat ever connects, that the
  player closes Riot, or that a timeout fires. It does assume that closing Riot
  returns, with success or an error: `closeRiot` passes a context on, and the
  one `Run` uses to close an existing client (`engine.go:700`) is cancelled only
  by Stop, which waits for the lock `Run` holds. A process that survives being
  killed without an error would block there; the model does not show this.

## What is proved

Every theorem is checked by TLAPS for all values of the constants that satisfy
the module's assumptions. A proof module extends the component's module; its
inductive invariant is `TypeOK`, the properties, and what makes them inductive.

- `PlayFlowRuntimeProofs`: `TypeCorrect`, `OnlyOneDriver`, `NeverSubmitsTwice`,
  `StartsAreCurrent`. `SingleDriver` is not inductive without `Born`: a run
  that Start has not made yet is at `unborn`, and ids grow, so the next id is
  always of an unborn run. `OneStartPerGame` needs `Cycle`, which says for each
  place of the goroutine what its flags and the phase it read tell of the
  number of starts already sent: a run that is about to send has sent none
  since a game last began. The steps of a goroutine change only their own run's
  state (`PollLocal`), which lets the proof treat the fifteen of them as one
  case for every other run.
- `RemoteAccessProofs`: `TypeCorrect`, `ListenersAreOwned`, `OneSessionPerCode`,
  `NoSessionReturns`. `CodesFresh` is the strengthening: the code in force has
  paired nobody yet, and ids of codes and sessions only grow.
- `ReviewedOperationProofs`: `TypeCorrect`, `MutatesOnce`, `CancelTakesEffect`,
  `UnclearIsFinal`, `ReceiptsAreTrue`, `KeepsItsPromise`.
  The strengthening says of each operation that what is still ahead in its plan
  has not been sent (`Untouched`; a bulk selection sends everything in its only
  round, `OneRound`), that there is a target whenever it is inside
  a round (`InPlan`), that an unclear answer has left the loop (`Unclear`), and
  that a mutation sent after a cancel is followed by the check of the channel
  (`Cancelled`). Steps that send nothing are one case (`Moves`); `Send` is the
  other. It rests on the assumptions that a plan names each target once (the preview
  drops repeats, `operation_handlers.go:278`) and that only a bulk selection has several
  targets and one request: the web interface sends no target ids beside its reward
  selections, to which the preview would add the grant (`operation_handlers.go:157`).
  For the receipts, `ReceiptInv` follows a run's results through the three
  critical sections that make its receipt: the numbers it counts are those of
  its results (`Counted`), the results and the skipped targets are the plan
  (`Accounted`), a success is of a target League changed (`Recorded`), the one result
  of a bulk selection is there when League changed anything and calls it a success
  only when all was asked for (`BulkTold`), and what is
  held between two of the sections, then what is on the ledger, says so
  (`HeldTrue`, `LedgerTrue`). Trimming the ledger keeps a subset of its receipts
  in their order (`Kept`, `InOrder`), which is all the proof needs of it.
  `KeepsItsPromise` is that `ReviewedOperation` implements the steps of
  `OperationLifecycle` under the mapping named in it (`promisedPlan` and the
  others). `RoundInv` says for each place of the
  goroutine which first targets of the plan its results name (`Rounds`,
  `Covers`), so that a target is recorded only after it was reached and a run
  that completes has covered its plan. Then each step is matched: `Send` is a
  touch, a recorded answer a report, `Finish` the end, the rest stutter.
- `EngineLifecycleProofs`: `TypeCorrect`, `RunsExclusive`, `SavesKeepTheirAccount`,
  `ClosesOwnClient`. Every action is first projected on what it does to the
  runs and their owner (`RunsStep`), to the client (`ClientStep`) and to the saves
  (`SavedStep`), and the invariants are proved of the projections. `Known` is the
  strengthening: a run that started has a profile, and whoever launched the
  client has started. `ClosesOwnClient` then follows from the exclusion: only
  the owner of the engine closes Riot (`ClosersOwn`), so another run that
  launched it has ended.
- The same module, for the saves: `KeepsFinalWrite`, `RollsBackOnlyInterfered`. Each step
  is projected on lifecycleMu (`LockStep`) and on Riot's files (`FilesStep`: they
  stay, Riot goes away under a run, Riot is open, or a run's login is
  prepared). `AllSettled` says that the save of a run that saw Riot go and is
  over, or of one about to restore that did not, is as new as Riot's files:
  one invariant that both theorems need, since the restore is also what could
  undo a final write. `Witnessed` and `Locked` keep it: the run that saw Riot go
  has started, so it keeps its profile, and a run that restores holds the lock.
- `SessionVaultProofs`: `TypeCorrect`, `OneAccount`, `LosesNoFile` and `SavesKept`, the
  whole refinement of `SavedLogins`, initial states and steps. Four invariants rest on
  one another. `Disciplined` says who holds `Vault.mu` and what a call may be at
  each of its steps. `Pure` follows the files: what a call has read so far is of
  its own account as long as Riot is, so that the second look at the account,
  after the last file, speaks for all of them; a call that saw another account
  write (`foreign`) is refused by it unless that account has gone again, which is
  `crossed`. `RefInv` says that a refresh past the lock has a save to replace, and
  that it had not expired: `Delete` takes the lock, and expiry during the refresh is
  kept. `LosesNoFile` rests on `Intact`, which follows one file beside the others:
  files that carry an account's name are all of its files as long as its save has
  them all (`DiskWhole`), so what a call has read so far of a whole login is what
  the save holds of it (`CallWhole`). A restore ends that between the file that
  names the account and the last (`HalfWritten`), and if it stops there, for
  good (`cut`).
- `CorePagesProofs` and `WebAppProofs`: `ShowsStored`, `OneAction`, `BelongsToShown`,
  `ListsRight`, `StepsKeepToShown` and `ShowsRecipesOfSelection`, that is every
  property of the pages but the liveness of `PagesSettle`. `PagesInv` is the
  conjunction of one invariant per page or two (`PlayInv`, `PickerInv`, ...). Each is
  proved of its page's own initial states and steps (`PlayInvInit`, `PlayInvNext`);
  what `WebApp` adds is that a step is a step of the page on show and leaves the
  others' variables alone (`PlayStep` and its like). A page's invariant says, for
  every request on its way, what its answer will hold: that of two reads the later
  one is still to come, that a save on its way is the one shown, that the busy mark
  names the one action sent (`PlayInStep`, `SystemChat`, `PrepList`, `AccountsReads`,
  `QoLActions`, `LootSight`, `CacheInv`). Where a property is suspended
  by a history, so is that part of the invariant; the proof then has to show that
  the step which clears the history leaves the page right, whatever state the
  page had come to.
  For `ListsRight` the lemmas are about the lists. `Places`: numbering the elements
  of a finite set by how many come before, in a total order, is a bijection; from
  it, that sorting the queues and grouping the sorted ones give one order
  (`PickerSorts`, `PickerSortedAgain`, `PickerGrouped`). `RunesPageLegal`: what is sent of
  a legal copy has one perk per primary row and two of the secondary style
  (`RunesPages` keeps the copy legal through every choice). `HistoryAppended`: the
  games of a page that are not in the list yet are its tail, whatever ended
  meanwhile, so the list stays an interval; `HistoryStreak`: the recursive count of
  `streak` exists for every list, by the least length for which it would not, and
  with it what it counts (`HistoryStreakIs`). `SkinsMerged`: one or two records of a
  skin merge into one that is owned if any is. `NearestListed`: a finite set of
  masteries can be listed by distance to the next level, by well-founded
  induction on its size; the page's CHOOSE is then such a listing.
  `ShowsRecipesOfSelection` is the refinement of `LatestRequest`. Only the
  request of the present selection is active, and the selection has not moved
  since a craft was sent (`LootRecipes`): the second is what makes the reading
  after a craft safe, which does not ask whether it is still wanted.
  The assumptions on what the pages are given are named in `CorePages` and
  `WebApp` (`HandlersAssumption` to `MasteryAssumption`): sets of skins, masteries
  and perks are finite, limits are numbers, marks such as "none" name no operation,
  a style never allows itself beside it. The run evaluates each of them.
- `DraftRuntimeProofs`: `TypeCorrect`, `LocksOnce`, `KeepsPlayersChoice`,
  `KeepsPlayersSwap`, `BanIsTaken`: every safety and action property of `draft`,
  for any champions, lanes and configured plans. `LocksSettled` says what keeps
  a locked action from being locked again: its turn is over, or it is left to
  the player, or the attempt about it is locking or blocked; and in a draft,
  where a new lane begins a pick's attempt again without those marks, the
  action shows a champion (`Chosen`), which the new attempt takes for the
  player's choice. `Owned` and `Fresh` say that what RiftOps counts as its own
  is not the player's; `Dealt` the same of the ARAM bench; `BanKnown` and
  `ArenaBan` that a ban which RiftOps chose shows what it remembers as its own
  from the confirmation of the hover on. The proof of `Dealt` showed that a
  swap of the player to the very champion RiftOps is asking for cannot be told
  from RiftOps' own; two champions are too few for TLC to meet the case, so
  `PlayerSwaps` counts it with the swaps back.

Model-checked only: the liveness properties, that is `RunsEndWhenDue`,
`LockSettles`, `RunsEnd`, `EngineReleased`, `PagesSettle` and the end of every operation
that `OperationLifecycle` promises besides its steps (`KeepsPromise` is proved but for
that): they rest on fairness and ENABLED, which are beyond the prover. The three
properties that the code violates are left to TLC, which shows how.

## Where the code and its text disagree

- `playflow_stop`, `StopReasonKept`: `finish` (`runtime.go:760`) compares the run
  id but not `Active`. A request that fails because Stop cancelled its context
  replaces `stopped-by-user` by a failure reason.
- `playflow_hook`, `YieldsWhileActive`: the hook calls of one run's end and the
  next run's start are not ordered, so the QoL manager may believe that no run
  is active while one is (`runtime.go:211`, `qol/manager.go:288`).
- `remote_setting`, `ListenerOnlyWhenEnabled`: a disable whose settings write
  fails returns before it stops the listener, and overlapping requests are not
  ordered with their writes (`remote_access.go:683`, `main.go:439`).

Seen while modelling `draft.go`, and part of the model: an Arena ban is hovered
but never locked, because `executeSpecialPick` passes `"pick"` to
`lockAfterRefetch` for bans too (`draft.go:685`), which then reports that League
advanced the action; a player who chooses Bravery by hand is overwritten,
because only ids above 0 count as a choice (`draft.go:187`); a pick intent
declared in the planning phase is read as a choice for the ban and leaves the
ban to the player (`draft.go:396`); and a lane assigned after an unclear hover of
a pick starts a new attempt, which hovers again.

Seen while modelling the engine and the vault: a restoring launch skips the
refresh when the player has opened Riot after the launch looked for it, and then
puts an older save over the newer files (`session_lifecycle.go:106`;
`RollbackNeedsInterference` shows that this is the only way). A restore that a
crash or a failing write ends between the file that names the account and
`Data/Sessions` leaves a beginning that the next `RefreshSettled` of that profile
takes for its newest login, and stores over the whole one
(`remembered.go:102`, while `CHANGELOG.md:19` says "Saving cannot silently overwrite
a complete login with an incomplete snapshot"); `LosesFilesOnlyToACut` names this
case. And a disk without any of Riot's files makes `captureFiles` fail with an
error that is not ignored, so that a profile with a save cannot be launched until
Riot has written one (`vault.go:225`, `session_lifecycle.go:82`).

Seen elsewhere, with no line of the repository to hold against: the
snapshot can stay at "stopping" when a run ends by itself while Stop announces
it; a restart between a mutation and its receipt leaves no receipt; an execute
after expiry overwrites the state of a running or finished operation with
"expired", and later cancels are then ignored (`ExecuteExpired`: the receipt stays
true, and nothing is claimed of the state); the receipt of a bulk reward selection
has one item, named after its first grant, where its total counts them all
(`operation_handlers.go:665`, `:945`), and the page shows both
(`SocialCenter.tsx:328`).

## What is not modelled

The status and note of every component are in `PROJECT.json`. Conversions
(JSON, stanzas, certificates), reads that only display, and calls to the
operating system are outside the models, which take their possible results as
choices. Time is a choice too: a timeout may fire at any moment it is armed.
Of the web interface, pages and panels that read and show (missions, ranks,
challenges, diagnostics, the look-ups of `SafeToolsPanel`, `FriendsPanel`, the
scoreboards of the live page, details and filters of the match history) and
buttons that are one request whose result is shown (`applyRegalia` and the
preview of a preset in `ProfileStudio`, autostart, the dialog of the phone's
access) are left out. The planning helpers of `champSelectFlow.ts` are called by
its tests only; the draft is driven by `draft.go`. A request's text, its
wording on the screen and formats of dates and numbers are no part of any model.
In `EngineLifecycle` the vault's reads and writes do not fail and are whole,
and a profile names one account; `SessionVault` looks at them file by file, but
has one launch's worth of callers instead of `EngineLifecycle`'s runs. It leaves
out saves of format 1, limits of size and number, links, the `.backup` files,
temporary files (a crash can leave one among Riot's cookies or sessions), the
encryption, and that a restore reads the save's status once more just before it
takes the lock.

## Plan

Done: the Go side's Full Auto, draft, reviewed operations, remote access and
engine with their proofs; the vault under crashes, with `SavedLogins`, which it is
proved to implement; the abstract `OperationLifecycle` with its two users
and `LatestRequest`; the web interface page by page, with its proofs.

What would come next, in this order:

1. `QolManager`, composed with `Gameflow` and with the hook of `PlayFlowRuntime`;
   its run would take the place of `playflow_hook`.
2. `SessionVault` under `EngineLifecycle`'s runs: the composition of the two.
3. `EnginePresence`: the three copies of the presence policy, and `ChatSession`,
   which forwards presences under it.
4. The pick-order swap and rune pages of the draft; `Watchdog`, settings and
   profiles; `SnapshotFeed` composed with `EngineLifecycle` and `RemoteAccess`
   with the phone's shell, as the Loot page is with its operation.
5. Proofs: what the modules above bring; a bound on the steps a stopped run
   still takes, as the safety part of `RunsEndWhenDue`; type invariants of the
   pages whose other properties do not rest on their types.
