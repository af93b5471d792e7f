--------------------------- MODULE EngineLifecycle ---------------------------
(***************************************************************************)
(* internal/engine: how runs of the engine, the account operations and the *)
(* Riot Client share one machine.  Engine.Run is a goroutine per launch    *)
(* request; Stop, SwitchLaunchProfile, capture, refresh and forget run on  *)
(* handlers and on the tray; lifecycleMu keeps the operations and a run's  *)
(* startup apart, but a run's waiting and its cleanup happen outside it.   *)
(* Around them the player starts, signs in to and closes Riot at any time. *)
(*                                                                         *)
(* Left out: what a launch is given (game, arguments, patchline, ports),   *)
(* presence masking, and I/O errors of the vault.  Every profile has the   *)
(* Riot ID of one account, so profiles and accounts share their names.     *)
(***************************************************************************)
EXTENDS Naturals

CONSTANTS
  Profiles,    \* launch profiles, and the accounts they name
  NoProfile,   \* none of them
  MaxRuns,     \* bound on the launch requests
  MaxWrites,   \* bound on Riot's writes of its remembered login
  MaxOpens,    \* bound on the times the player opens Riot
  Multi        \* profiles whose arguments allow several Riot clients

ASSUME ConstantsAssumption ==
  /\ NoProfile \notin Profiles
  /\ MaxRuns \in Nat /\ MaxWrites \in Nat /\ MaxOpens \in Nat
  /\ Multi \subseteq Profiles

Runs == 1 .. MaxRuns
NoRun == 0

(* Holders of lifecycleMu beside a run.                                    *)
Free == 0
AnOp == MaxRuns + 1

(* Riot's remembered-login files: whose they are and which write.          *)
Files   == [owner : Profiles \cup {NoProfile}, ver : 0 .. MaxWrites]
NoFiles == [owner |-> NoProfile, ver |-> 0]

Options == {"plain", "attach", "restart", "restore", "fresh"}
Steps   == {"unborn", "pending", "inspect", "close", "settle", "login", "restore",
            "launch", "proxied", "fallback", "launchDirect", "direct", "watch",
            "attached", "closeCancelled", "cleanup", "reset", "idle", "done"}
Ops     == {"none", "stop", "trayStop", "select", "switch", "save", "closeAndSave"}
OpSteps == {"none", "announce", "close", "cancel", "wait", "last"}
NoOp    == [op |-> "none", at |-> "none", run |-> NoRun, profile |-> NoProfile,
            phase |-> "settled"]

VARIABLES
  life,      \* holder of lifecycleMu: a run, AnOp, or Free
  running,   \* Engine.running
  cancel,    \* Engine.cancel: the run it cancels, NoRun for nil
  active,    \* the active profile of Engine.config
  phase,     \* Engine.snapshot.Phase: settled (Idle, Error) or busy
  pc,        \* run -> where Run is
  opt,       \* run -> its RunOptions
  prof,      \* run -> the profile of the config it cloned
  cancelled, \* runs whose context is cancelled
  op,        \* the account operation that holds lifecycleMu
  http,      \* profileSessionMu: free, held, or held to verify a switch
  choosing,  \* selectProfile: the profile it is about to select
  riot,      \* the Riot Client: up, who launched it, the run that saw it go
  account,   \* who is signed in to it
  disk,      \* its remembered-login files
  writes,    \* how often it wrote them
  saved,     \* profile -> its encrypted save
  opens      \* how often the player opened Riot, to bound the model

engine == <<life, running, cancel, active, phase>>
runs   == <<pc, opt, prof, cancelled>>
ui     == <<op, http, choosing>>
client == <<riot, account, disk, writes, opens>>
vars   == <<engine, runs, ui, client, saved>>

Init ==
  /\ life = Free /\ running = FALSE /\ cancel = NoRun /\ phase = "settled"
  /\ active \in Profiles
  /\ pc = [r \in Runs |-> "unborn"]
  /\ opt = [r \in Runs |-> "plain"]
  /\ prof = [r \in Runs |-> NoProfile]
  /\ cancelled = {}
  /\ op = NoOp /\ http = "free" /\ choosing = NoProfile
  /\ riot = [up |-> FALSE, by |-> NoRun, seenBy |-> NoRun]
  /\ account = NoProfile /\ disk = NoFiles /\ writes = 0 /\ opens = 0
  /\ saved = [p \in Profiles |-> [files |-> NoFiles, expired |-> FALSE]]

------------------------------------------------------------------------------
(* The vault and the client.                                               *)

(* savedLoginStatusForProfile answers without error.                       *)
Usable(p) == saved[p].files # NoFiles /\ ~saved[p].expired

(* refreshStoppedProfile: with Riot down, a usable save takes over the     *)
(* files Riot left, if they are of the same account.                       *)
Refreshed(p) ==
  IF ~riot.up /\ Usable(p) /\ disk.owner = p
    THEN [saved EXCEPT ![p].files = disk]
    ELSE saved

(* A run that will still refresh its profile when it ends.                 *)
Observing(r) == pc[r] \in {"inspect", "close", "settle", "login", "restore", "launch",
                           "proxied", "fallback", "launchDirect", "direct", "watch",
                           "attached", "closeCancelled", "cleanup"}
Observer == IF \E r \in Runs : Observing(r)
              THEN CHOOSE r \in Runs : Observing(r) ELSE NoRun

(* Riot writes the login of the account that is signed in.                 *)
Write ==
  /\ account # NoProfile /\ writes < MaxWrites
  /\ writes' = writes + 1
  /\ disk' = [owner |-> account, ver |-> writes + 1]

(* The client goes away, writing its login or not (a forced kill).         *)
RiotGoesDown ==
  /\ riot.up
  /\ riot' = [riot EXCEPT !.up = FALSE, !.seenBy = Observer]
  /\ account' = NoProfile
  /\ Write \/ UNCHANGED <<disk, writes>>
  /\ UNCHANGED opens

(* closeRiot succeeds: nothing was running, or it quit, or it was killed.  *)
Closed == RiotGoesDown \/ (~riot.up /\ UNCHANGED client)

(* A client starts and signs in with the login it remembers.               *)
RiotComesUp(by) ==
  /\ riot' = [up |-> TRUE, by |-> by, seenBy |-> NoRun]
  /\ account' = disk.owner

PlayerOpensRiot ==
  /\ ~riot.up /\ opens < MaxOpens
  /\ RiotComesUp(NoRun)
  /\ opens' = opens + 1
  /\ UNCHANGED <<disk, writes, engine, runs, ui, saved>>

PlayerSignsIn(p) ==
  /\ riot.up /\ account # p
  /\ account' = p
  /\ UNCHANGED <<riot, disk, writes, opens, engine, runs, ui, saved>>

RiotWritesLogin ==
  /\ riot.up
  /\ Write
  /\ UNCHANGED <<riot, account, opens, engine, runs, ui, saved>>

PlayerClosesRiot == RiotGoesDown /\ UNCHANGED <<engine, runs, ui, saved>>

SaveExpires(p) ==
  /\ Usable(p)
  /\ saved' = [saved EXCEPT ![p].expired = TRUE]
  /\ UNCHANGED <<engine, runs, ui, client>>

------------------------------------------------------------------------------
(* Launch requests.                                                        *)

(* go Engine.Run(o).                                                       *)
Spawn(r, o) ==
  /\ pc[r] = "unborn" /\ \A s \in Runs : s < r => pc[s] # "unborn"
  /\ pc' = [pc EXCEPT ![r] = "pending"]
  /\ opt' = [opt EXCEPT ![r] = o]
  /\ UNCHANGED <<prof, cancelled>>

(* startEngine: attach when Riot is open and no restart was asked for.     *)
StartEngine(r) ==
  /\ http = "free"
  /\ \E o \in {"restart", IF riot.up THEN "attach" ELSE "plain"} : Spawn(r, o)
  /\ UNCHANGED <<engine, ui, client, saved>>

(* selectProfile: an idle engine needs no Stop, and without a run Stop     *)
(* returns at once.                                                        *)
SelectIdle(p) ==
  /\ http = "free" /\ (phase = "settled" \/ (life = Free /\ cancel = NoRun))
  /\ http' = "held" /\ choosing' = p
  /\ UNCHANGED <<op, engine, runs, client, saved>>

(* Faulty SelectLaunchProfile: commits without a chosen profile.           *)
SelectNothing ==
  /\ active' = choosing /\ choosing' = NoProfile /\ http' = "free"
  /\ UNCHANGED <<life, running, cancel, phase, op, runs, client, saved>>

(* SelectLaunchProfile does not take lifecycleMu.                          *)
SelectLaunchProfile ==
  /\ choosing # NoProfile /\ op.op # "select"
  /\ active' = choosing /\ choosing' = NoProfile /\ http' = "free"
  /\ UNCHANGED <<life, running, cancel, phase, op, runs, client, saved>>

------------------------------------------------------------------------------
(* Engine.Run.                                                             *)

Goto(r, step) == pc' = [pc EXCEPT ![r] = step]
(* fail: the error phase, then the deferred cleanup.                       *)
Fail(r)       == Goto(r, "cleanup") /\ phase' = "settled"
Unlock(r, step) == Goto(r, step) /\ life' = Free

(* Faulty Begin: starts beside a run that is still going.                  *)
BeginBeside(r) ==
  /\ pc[r] = "pending" /\ life = Free
  /\ life' = r /\ running' = TRUE /\ cancel' = r /\ phase' = "busy"
  /\ prof' = [prof EXCEPT ![r] = active]
  /\ Goto(r, "inspect")
  /\ UNCHANGED <<active, opt, cancelled, ui, client, saved>>

Begin(r) ==
  /\ pc[r] = "pending" /\ life = Free /\ ~running
  /\ life' = r /\ running' = TRUE /\ cancel' = r /\ phase' = "busy"
  /\ prof' = [prof EXCEPT ![r] = active]
  /\ Goto(r, "inspect")
  /\ UNCHANGED <<active, opt, cancelled, ui, client, saved>>

(* "RiftOps is already running".                                           *)
Reject(r) ==
  /\ pc[r] = "pending" /\ life = Free /\ running
  /\ Goto(r, "done")
  /\ UNCHANGED <<engine, opt, prof, cancelled, ui, client, saved>>

(* hasAllowMultipleClients of the arguments the launch is given.           *)
AllowMultiple(r) == prof[r] \in Multi

(* What the list of Riot processes decides.                                *)
Inspect(r) ==
  /\ pc[r] = "inspect"
  /\ \/ ~riot.up /\ Goto(r, "login") /\ UNCHANGED <<life, phase>>
     \/ riot.up /\ opt[r] = "restart" /\ Goto(r, "close") /\ UNCHANGED <<life, phase>>
     \/ riot.up /\ opt[r] = "attach" /\ ~AllowMultiple(r) /\ Unlock(r, "attached")
        /\ UNCHANGED phase
     \/ riot.up /\ opt[r] \in {"plain", "attach"} /\ AllowMultiple(r) /\ Unlock(r, "launch")
        /\ UNCHANGED phase
     \/ riot.up /\ opt[r] \notin {"restart", "attach"}
        /\ (AllowMultiple(r) => opt[r] \in {"restore", "fresh"})
        /\ Fail(r) /\ UNCHANGED life
     \/ Fail(r) /\ UNCHANGED life
  /\ UNCHANGED <<running, cancel, active, opt, prof, cancelled, ui, client, saved>>

StopExisting(r) ==
  /\ pc[r] = "close"
  /\ \/ Closed /\ Goto(r, "settle") /\ UNCHANGED phase
     \/ Fail(r) /\ UNCHANGED client
  /\ UNCHANGED <<life, running, cancel, active, opt, prof, cancelled, ui, saved>>

(* refreshStoppedProfile after the close.                                  *)
Settle(r) ==
  /\ pc[r] = "settle"
  /\ saved' = Refreshed(prof[r])
  /\ Goto(r, "login")
  /\ UNCHANGED <<engine, opt, prof, cancelled, ui, client>>

(* Faulty prepareLogin: restores without adopting Riot's last files.       *)
PrepareStale(r) ==
  /\ pc[r] = "login"
  /\ \/ opt[r] = "restore" /\ Goto(r, "restore") /\ UNCHANGED <<disk, life>>
     \/ opt[r] = "fresh" /\ disk' = NoFiles /\ Unlock(r, "launch")
     \/ opt[r] \notin {"restore", "fresh"} /\ Unlock(r, "launch") /\ UNCHANGED disk
  /\ UNCHANGED <<running, cancel, active, phase, opt, prof, cancelled, ui,
                 riot, account, writes, opens, saved>>

(* prepareLogin up to the restore; the startup lock is released after it.  *)
PrepareLogin(r) ==
  /\ pc[r] = "login"
  /\ \/ /\ opt[r] = "fresh"
        /\ disk' = NoFiles
        /\ Unlock(r, "launch") /\ UNCHANGED saved
     \/ /\ opt[r] = "restore"
        /\ saved' = Refreshed(prof[r])
        /\ Goto(r, "restore") /\ UNCHANGED <<disk, life>>
     \/ /\ opt[r] \in {"plain", "attach", "restart"}
        /\ saved' = Refreshed(prof[r])
        /\ Unlock(r, "launch") /\ UNCHANGED disk
  /\ UNCHANGED <<running, cancel, active, phase, opt, prof, cancelled, ui,
                 riot, account, writes, opens>>

(* Restore, or PrepareFreshLogin when there is nothing to restore.         *)
RestoreLogin(r) ==
  /\ pc[r] = "restore"
  /\ disk' = IF Usable(prof[r]) THEN saved[prof[r]].files ELSE NoFiles
  /\ Unlock(r, "launch")
  /\ UNCHANGED <<running, cancel, active, phase, opt, prof, cancelled, ui,
                 riot, account, writes, opens, saved>>

(* adapter.Launch; a client that is already open takes the launch over.    *)
LaunchClient(r) == IF riot.up THEN UNCHANGED <<riot, account>> ELSE RiotComesUp(r)

Launch(r) ==
  /\ pc[r] = "launch"
  /\ \/ /\ r \notin cancelled /\ LaunchClient(r) /\ phase' = "busy"
        /\ \/ opt[r] # "fresh" /\ Goto(r, "proxied")
           \/ Goto(r, "direct")
     \/ Fail(r) /\ UNCHANGED <<riot, account>>
  /\ UNCHANGED <<life, running, cancel, active, opt, prof, cancelled, ui,
                 disk, writes, opens, saved>>

(* The loop around the proxied client: chat connects or the process ends.  *)
ChatConnectedOrExited(r) ==
  /\ pc[r] = "proxied" /\ Goto(r, "watch")
  /\ phase' \in {phase, "busy"}
  /\ UNCHANGED <<life, running, cancel, active, opt, prof, cancelled, ui, client, saved>>

(* TLSFailures or the handshake timer, with an account signed in.          *)
HandshakeFails(r) ==
  /\ pc[r] = "proxied" /\ account # NoProfile
  /\ phase' = "busy"
  /\ Goto(r, "fallback")
  /\ UNCHANGED <<life, running, cancel, active, opt, prof, cancelled, ui, client, saved>>

Fallback(r) ==
  /\ pc[r] = "fallback"
  /\ \/ Closed /\ Goto(r, "launchDirect") /\ UNCHANGED phase
     \/ Fail(r) /\ UNCHANGED client
  /\ UNCHANGED <<life, running, cancel, active, opt, prof, cancelled, ui, saved>>

(* waitForNoRiotProcesses, then runWithDirectChat.                         *)
RelaunchDirect(r) ==
  /\ pc[r] = "launchDirect"
  /\ \/ ~riot.up /\ r \notin cancelled /\ RiotComesUp(r)
        /\ Goto(r, "direct") /\ phase' = "busy"
     \/ Fail(r) /\ UNCHANGED <<riot, account>>
  /\ UNCHANGED <<life, running, cancel, active, opt, prof, cancelled, ui,
                 disk, writes, opens, saved>>

ProcessExited(r) ==
  /\ pc[r] = "direct" /\ Goto(r, "watch")
  /\ UNCHANGED <<engine, opt, prof, cancelled, ui, client, saved>>

(* A config or chat proxy that dies cancels its run.                       *)
ProxyDies(r) ==
  /\ pc[r] \in {"proxied", "direct"} /\ r \notin cancelled
  /\ cancelled' = cancelled \cup {r}
  /\ UNCHANGED <<engine, pc, opt, prof, ui, client, saved>>

(* Faulty ContextDone: only a direct client listens for the cancellation.  *)
ContextDoneDirect(r) ==
  /\ r \in cancelled /\ pc[r] = "direct" /\ Goto(r, "closeCancelled")
  /\ UNCHANGED <<engine, opt, prof, cancelled, ui, client, saved>>

ContextDone(r) ==
  /\ r \in cancelled
  /\ \/ pc[r] \in {"proxied", "direct"} /\ Goto(r, "closeCancelled")
     \/ pc[r] \in {"watch", "attached"} /\ Goto(r, "cleanup")
  /\ UNCHANGED <<engine, opt, prof, cancelled, ui, client, saved>>

(* The poll sees no Riot process, or cannot list the processes.            *)
RiotSeenGone(r) ==
  /\ pc[r] \in {"watch", "attached"} /\ ~riot.up
  /\ Goto(r, "cleanup")
  /\ UNCHANGED <<engine, opt, prof, cancelled, ui, client, saved>>

MonitorFails(r) ==
  /\ pc[r] = "watch"
  /\ Goto(r, "cleanup")
  /\ UNCHANGED <<engine, opt, prof, cancelled, ui, client, saved>>

CloseCancelledClient(r) ==
  /\ pc[r] = "closeCancelled"
  /\ Closed \/ UNCHANGED client
  /\ Goto(r, "cleanup")
  /\ UNCHANGED <<engine, opt, prof, cancelled, ui, saved>>

(* Faulty cleanup: refreshes the profile that is active by now.            *)
SettleActive(r) ==
  /\ pc[r] = "cleanup"
  /\ saved' = Refreshed(active)
  /\ Goto(r, "reset")
  /\ UNCHANGED <<engine, opt, prof, cancelled, ui, client>>

(* The deferred cleanup: refresh, forget the run, announce Idle.           *)
CleanupSettle(r) ==
  /\ pc[r] = "cleanup"
  /\ saved' = Refreshed(prof[r])
  /\ Goto(r, "reset")
  /\ UNCHANGED <<engine, opt, prof, cancelled, ui, client>>

CleanupReset(r) ==
  /\ pc[r] = "reset"
  /\ running' = FALSE /\ cancel' = NoRun
  /\ Goto(r, "idle")
  /\ UNCHANGED <<life, active, phase, opt, prof, cancelled, ui, client, saved>>

CleanupIdle(r) ==
  /\ pc[r] = "idle"
  /\ phase' = "settled"
  /\ life' = IF life = r THEN Free ELSE life
  /\ Goto(r, "done")
  /\ UNCHANGED <<running, cancel, active, opt, prof, cancelled, ui, client, saved>>

------------------------------------------------------------------------------
(* The account operations, each under lifecycleMu from its first step to   *)
(* its last.                                                               *)

BeginOp(kind, at, profile) ==
  /\ life = Free /\ life' = AnOp
  /\ op' = [op |-> kind, at |-> at, run |-> cancel, profile |-> profile, phase |-> phase]
  /\ IF kind = "trayStop" THEN UNCHANGED http ELSE http = "free" /\ http' = "held"

EndOp(ok) ==
  /\ life' = Free /\ op' = NoOp
  /\ http' = CASE op.op = "trayStop" -> http
              [] op.op = "select" /\ ok -> "held"
              [] op.op = "switch" /\ ok -> "verifying"
              [] OTHER -> "free"
  /\ choosing' = IF op.op = "select" /\ ~ok THEN NoProfile ELSE choosing

(* Stop from the UI, from the tray, or for selectProfile.                  *)
Stop ==
  /\ cancel # NoRun
  /\ \/ \E kind \in {"stop", "trayStop"} :
            BeginOp(kind, "announce", active) /\ UNCHANGED choosing
     \/ /\ phase = "busy"
        /\ BeginOp("select", "announce", active) /\ choosing' \in Profiles
  /\ UNCHANGED <<running, cancel, active, phase, runs, client, saved>>

SwitchLaunchProfile(p) ==
  /\ \E r \in Runs : pc[r] = "unborn" \* the launch that follows
  /\ BeginOp("switch", "close", p)
  /\ UNCHANGED <<choosing, running, cancel, active, phase, runs, client, saved>>

(* CaptureSavedLogin and CaptureAndCloseSavedLogin, the account verified.  *)
CaptureSavedLogin ==
  /\ account = active
  /\ BeginOp("save", "last", active) \/ BeginOp("closeAndSave", "close", active)
  /\ UNCHANGED <<choosing, running, cancel, active, phase, runs, client, saved>>

OpAt(at, next) == op.at = at /\ op' = [op EXCEPT !.at = next]

OpAnnounce ==
  /\ OpAt("announce", "close")
  /\ phase' = "busy"
  /\ UNCHANGED <<life, running, cancel, active, http, choosing, runs, client, saved>>

OpClose ==
  /\ OpAt("close", "cancel")
  /\ Closed
  /\ UNCHANGED <<engine, http, choosing, runs, saved>>

(* ErrRiotCloseFailed: Stop puts the snapshot it began with back.          *)
OpCloseFails ==
  /\ op.at = "close" /\ riot.up
  /\ phase' = IF op.op \in {"stop", "trayStop", "select"} THEN op.phase ELSE phase
  /\ EndOp(FALSE)
  /\ UNCHANGED <<running, cancel, active, runs, client, saved>>

OpCancel ==
  /\ OpAt("cancel", "wait")
  /\ LET target == IF op.op = "closeAndSave" THEN cancel ELSE op.run IN
       /\ cancelled' = cancelled \cup ({target} \ {NoRun})
       /\ phase' = IF op.op = "switch" /\ target # NoRun THEN "busy" ELSE phase
  /\ UNCHANGED <<life, running, cancel, active, pc, opt, prof, http, choosing, client, saved>>

(* Faulty wait: the operation clears running itself and goes on.           *)
ClearRunning ==
  /\ OpAt("wait", "last")
  /\ running' = FALSE /\ cancel' = NoRun
  /\ UNCHANGED <<life, active, phase, http, choosing, runs, client, saved>>

(* waitUntilStopped.                                                       *)
OpWait ==
  /\ OpAt("wait", "last") /\ ~running
  /\ UNCHANGED <<engine, http, choosing, runs, client, saved>>

OpTimesOut ==
  /\ op.at = "wait" /\ running
  /\ EndOp(FALSE)
  /\ UNCHANGED <<running, cancel, active, phase, runs, client, saved>>

StopSettles ==
  /\ op.at = "last" /\ op.op \in {"stop", "trayStop", "select"}
  /\ saved' = Refreshed(op.profile)
  /\ EndOp(TRUE)
  /\ UNCHANGED <<running, cancel, active, phase, runs, client>>

(* The outgoing save is settled, the target selected, and switchProfile    *)
(* launches it: restored if its save is usable and no login was forced.    *)
SwitchSettles(r) ==
  /\ op.at = "last" /\ op.op = "switch"
  /\ saved' = Refreshed(active)
  /\ active' = op.profile
  /\ \E o \in {"fresh"} \cup (IF Usable(op.profile) THEN {"restore"} ELSE {}) : Spawn(r, o)
  /\ EndOp(TRUE)
  /\ UNCHANGED <<running, cancel, phase, client>>

(* Faulty CaptureVerified: trusts the live account, not the files.         *)
CaptureLive ==
  /\ op.at = "last" /\ op.op \in {"save", "closeAndSave"}
  /\ disk.owner # NoProfile /\ (op.op = "save" => account = op.profile)
  /\ saved' = [saved EXCEPT ![op.profile] = [files |-> disk, expired |-> FALSE]]
  /\ EndOp(TRUE)
  /\ UNCHANGED <<running, cancel, active, phase, runs, client>>

(* CaptureVerified: the files must be the profile's; so must the live      *)
(* account, unless the client was closed for the save.                     *)
SaveCaptured ==
  /\ op.at = "last" /\ op.op \in {"save", "closeAndSave"}
  /\ disk.owner = op.profile /\ (op.op = "save" => account = op.profile)
  /\ saved' = [saved EXCEPT ![op.profile] = [files |-> disk, expired |-> FALSE]]
  /\ EndOp(TRUE)
  /\ UNCHANGED <<running, cancel, active, phase, runs, client>>

SaveRefused ==
  /\ op.at = "last" /\ op.op \in {"save", "closeAndSave"}
  /\ ~(disk.owner = op.profile /\ (op.op = "save" => account = op.profile))
  /\ EndOp(FALSE)
  /\ UNCHANGED <<running, cancel, active, phase, runs, client, saved>>

(* After a switch: waitForProfileLaunch, then RefreshSavedLogin if it was  *)
(* the right account.                                                      *)
SwitchVerified ==
  /\ http = "verifying" /\ http' = "free"
  /\ \/ /\ life = Free /\ Usable(active)
        /\ account = active /\ disk.owner = active
        /\ saved' = [saved EXCEPT ![active].files = disk]
     \/ UNCHANGED saved
  /\ UNCHANGED <<engine, runs, op, choosing, client>>

ForgetSavedLogin ==
  /\ http = "free" /\ life = Free
  /\ saved' = [saved EXCEPT ![active] = [files |-> NoFiles, expired |-> FALSE]]
  /\ UNCHANGED <<engine, runs, ui, client>>

------------------------------------------------------------------------------
Run(r) ==
  \/ Begin(r) \/ Reject(r) \/ Inspect(r) \/ StopExisting(r) \/ Settle(r)
  \/ PrepareLogin(r) \/ RestoreLogin(r) \/ Launch(r) \/ Fallback(r)
  \/ RelaunchDirect(r) \/ ContextDone(r) \/ RiotSeenGone(r)
  \/ CloseCancelledClient(r) \/ CleanupSettle(r) \/ CleanupReset(r) \/ CleanupIdle(r)

Operate ==
  \/ OpAnnounce \/ OpClose \/ OpCloseFails \/ OpCancel \/ OpWait \/ StopSettles
  \/ \E r \in Runs : SwitchSettles(r)
  \/ SaveCaptured \/ SaveRefused

(* What may happen at any time, or not at all.                             *)
Outside ==
  \/ Stop \/ CaptureSavedLogin \/ ForgetSavedLogin \/ SelectLaunchProfile
  \/ SwitchVerified \/ OpTimesOut
  \/ \E r \in Runs : \/ StartEngine(r) \/ ChatConnectedOrExited(r) \/ HandshakeFails(r)
                     \/ ProcessExited(r) \/ ProxyDies(r) \/ MonitorFails(r)
  \/ \E p \in Profiles : \/ SelectIdle(p) \/ SwitchLaunchProfile(p)
                         \/ PlayerSignsIn(p) \/ SaveExpires(p)
  \/ PlayerOpensRiot \/ RiotWritesLogin \/ PlayerClosesRiot

Next == Operate \/ Outside \/ \E r \in Runs : Run(r)

Spec == Init /\ [][Next]_vars
(* Goroutines and the operations they wait for make progress; timeouts,    *)
(* the player and Riot promise nothing.                                    *)
FairSpec == Spec /\ WF_vars(Operate) /\ \A r \in Runs : WF_vars(Run(r))

------------------------------------------------------------------------------
(* Properties.                                                             *)

TypeOK ==
  /\ life \in {Free, AnOp} \cup Runs
  /\ running \in BOOLEAN /\ cancel \in Runs \cup {NoRun}
  /\ active \in Profiles /\ phase \in {"settled", "busy"}
  /\ pc \in [Runs -> Steps] /\ opt \in [Runs -> Options]
  /\ prof \in [Runs -> Profiles \cup {NoProfile}] /\ cancelled \subseteq Runs
  /\ op \in [op : Ops, at : OpSteps, run : Runs \cup {NoRun},
             profile : Profiles \cup {NoProfile}, phase : {"settled", "busy"}]
  /\ http \in {"free", "held", "verifying"} /\ choosing \in Profiles \cup {NoProfile}
  /\ riot \in [up : BOOLEAN, by : Runs \cup {NoRun}, seenBy : Runs \cup {NoRun}]
  /\ account \in Profiles \cup {NoProfile} /\ disk \in Files
  /\ writes \in 0 .. MaxWrites /\ opens \in 0 .. MaxOpens
  /\ saved \in [Profiles -> [files : Files, expired : BOOLEAN]]

(* Between taking Engine.running and giving it back.                       *)
Owns(r) == Observing(r) \/ pc[r] = "reset"

(* At most one run owns the engine, and it is the one Stop would cancel:   *)
(* a slow cleanup, a failed startup and a refused second launch never      *)
(* leave two runs driving the same Riot Client.                            *)
OneRunAtATime ==
  /\ \A r, s \in Runs : Owns(r) /\ Owns(s) => r = s
  /\ \A r \in Runs : Owns(r) => running /\ cancel = r
  /\ running => \E r \in Runs : Owns(r)

(* A run closes Riot up to 20 s after it was cancelled, and while it starts *)
(* up; the client it closes is never one that another live run launched.   *)
Closes(r) == riot.up /\ ~riot'.up /\ pc'[r] # pc[r]
NoForeignKill ==
  [][\A r, s \in Runs : Closes(r) /\ riot.by = s /\ s # r => pc[s] \in {"idle", "done"}]_vars

(* An account's save never holds another account's files, whoever signs in *)
(* to Riot and whichever profile is selected while an operation runs.      *)
SavesOwnAccount ==
  \A p \in Profiles : saved[p].files # NoFiles => saved[p].files.owner = p

(* What Riot wrote up to its end under a run is in the profile's save once *)
(* the run is over: by Stop, a switch, or the player closing Riot, also    *)
(* when another profile was selected meanwhile.                            *)
FinalWriteKept ==
  \A r \in Runs :
    (riot.seenBy = r /\ ~riot.up /\ pc[r] \in {"reset", "idle", "done"}
       /\ Usable(prof[r]) /\ disk.owner = prof[r])
      => saved[prof[r]].files = disk

(* A launch or a restore replaces an account's files by older ones only    *)
(* when Riot was opened behind its back, after the run looked for it.      *)
RollsBack == disk'.owner = disk.owner /\ disk'.ver < disk.ver /\ disk' # NoFiles
RollbackNeedsInterference == [][RollsBack => riot.up \/ riot.seenBy = life]_vars

(* A run whose context is cancelled gives the engine back, and an operation *)
(* that waits for it under lifecycleMu does not keep it from doing so:     *)
(* lifecycleMu is always released again.                                   *)
EngineReleased ==
  /\ cancel \in cancelled ~> cancel \notin cancelled
  /\ life # Free ~> life = Free
==============================================================================
