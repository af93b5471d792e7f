------------------------ MODULE EngineLifecycleProofs ------------------------
(* Proofs about EngineLifecycle, for any profiles and any number of runs.  *)
(* Every action is first projected on the part of the state an invariant   *)
(* is about: what it does to the runs and their owner, to the client, to   *)
(* the saves.  The invariants are then proved of the projections.          *)
EXTENDS EngineLifecycle, TLAPS

USE ConstantsAssumption DEF ConstantsAssumption

-----------------------------------------------------------------------------
(* The inductive invariant.                                                *)

Owning == {"inspect", "close", "settle", "login", "restore", "launch", "proxied",
           "fallback", "launchDirect", "direct", "watch", "attached",
           "closeCancelled", "cleanup", "reset"}

(* Before a run has cloned the configuration.                              *)
Unstarted == {"unborn", "pending"}

(* What is known of the profiles of runs and operations, and of the run    *)
(* that launched the client.                                               *)
Known ==
  /\ op.op # "none" => op.profile \in Profiles
  /\ \A r \in Runs : pc[r] \notin Unstarted \cup {"done"} => prof[r] \in Profiles
  /\ riot.by # NoRun => pc[riot.by] \notin Unstarted

IndInv == TypeOK /\ Known /\ OneRunAtATime /\ SavesOwnAccount

(* The conjuncts of TypeOK.                                                *)
TypeEngine ==
  /\ life \in {Free, AnOp} \cup Runs
  /\ running \in BOOLEAN /\ cancel \in Runs \cup {NoRun}
  /\ active \in Profiles /\ phase \in {"settled", "busy"}
TypeRuns ==
  /\ pc \in [Runs -> Steps] /\ opt \in [Runs -> Options]
  /\ prof \in [Runs -> Profiles \cup {NoProfile}] /\ cancelled \subseteq Runs
TypeUi ==
  /\ op \in [op : Ops, at : OpSteps, run : Runs \cup {NoRun},
             profile : Profiles \cup {NoProfile}, phase : {"settled", "busy"}]
  /\ http \in {"free", "held", "verifying"} /\ choosing \in Profiles \cup {NoProfile}
TypeClient ==
  /\ riot \in [up : BOOLEAN, by : Runs \cup {NoRun}, seenBy : Runs \cup {NoRun}]
  /\ account \in Profiles \cup {NoProfile} /\ disk \in Files
  /\ writes \in 0 .. MaxWrites /\ opens \in 0 .. MaxOpens
TypeSaved == saved \in [Profiles -> [files : Files, expired : BOOLEAN]]

LEMMA Parts == TypeOK <=> TypeEngine /\ TypeRuns /\ TypeUi /\ TypeClient /\ TypeSaved
  BY DEF TypeOK, TypeEngine, TypeRuns, TypeUi, TypeClient, TypeSaved

LEMMA OwnsIff == ASSUME NEW r \in Runs PROVE Owns(r) <=> pc[r] \in Owning
  BY DEF Owns, Observing, Owning

LEMMA OwnsIffNext == ASSUME NEW r \in Runs PROVE Owns(r)' <=> pc'[r] \in Owning
  BY DEF Owns, Observing, Owning

LEMMA InitIndInv == Init => IndInv
  <1> SUFFICES ASSUME Init PROVE IndInv OBVIOUS
  <1>1. TypeOK
    <2> USE DEF Init
    <2>1. TypeEngine BY DEF TypeEngine
    <2>2. TypeRuns BY DEF TypeRuns, Steps, Options
    <2>3. TypeUi BY DEF TypeUi, Ops, OpSteps, NoOp
    <2>4. TypeClient BY DEF TypeClient, Files, NoFiles
    <2>5. TypeSaved BY DEF TypeSaved, Files, NoFiles
    <2> QED BY <2>1, <2>2, <2>3, <2>4, <2>5, Parts
  <1>2. Known BY DEF Init, Known, NoOp, Unstarted
  <1>3. OneRunAtATime BY OwnsIff DEF Init, OneRunAtATime, Owning
  <1>4. SavesOwnAccount BY DEF Init, SavesOwnAccount
  <1> QED BY <1>1, <1>2, <1>3, <1>4 DEF IndInv

-----------------------------------------------------------------------------
(* Runs and their owner.                                                   *)

Leaves(r, from, to) == pc[r] \in from /\ \E step \in to : pc' = [pc EXCEPT ![r] = step]

RunsStep ==
  \/ UNCHANGED <<pc, opt, prof, running, cancel>>
  \/ \E r \in Runs, o \in Options :
       Spawn(r, o) /\ UNCHANGED <<running, cancel>>
  \/ \E r \in Runs :
       /\ Leaves(r, {"pending"}, {"inspect"}) /\ ~running
       /\ prof' = [prof EXCEPT ![r] = active] /\ running' = TRUE /\ cancel' = r
       /\ UNCHANGED opt
  \/ \E r \in Runs :
       /\ \/ Leaves(r, {"pending"}, {"done"})
          \/ Leaves(r, Owning \ {"reset"}, Owning)
          \/ Leaves(r, {"idle"}, {"done"})
       /\ UNCHANGED <<opt, prof, running, cancel>>
  \/ \E r \in Runs :
       /\ Leaves(r, {"reset"}, {"idle"})
       /\ running' = FALSE /\ cancel' = NoRun /\ UNCHANGED <<opt, prof>>

LEMMA RunProjects == ASSUME NEW r \in Runs, Run(r) PROVE RunsStep
  <1> USE DEF RunsStep, Leaves, Goto
  <1>1. CASE Begin(r) BY <1>1 DEF Begin
  <1>2. CASE Reject(r) BY <1>2 DEF Reject, engine
  <1>3. CASE Inspect(r) \/ PrepareLogin(r) \/ RestoreLogin(r) \/ Launch(r)
    BY <1>3 DEF Inspect, PrepareLogin, RestoreLogin, Launch, Unlock, Fail, Owning
  <1>4. CASE StopExisting(r) \/ Settle(r) \/ Fallback(r) \/ RelaunchDirect(r)
    BY <1>4 DEF StopExisting, Settle, Fallback, RelaunchDirect, Fail, Owning, engine
  <1>5. CASE ContextDone(r) \/ RiotSeenGone(r) \/ CloseCancelledClient(r) \/ CleanupSettle(r)
    BY <1>5 DEF ContextDone, RiotSeenGone, CloseCancelledClient, CleanupSettle, Owning,
                engine
  <1>6. CASE CleanupReset(r) BY <1>6 DEF CleanupReset
  <1>7. CASE CleanupIdle(r) BY <1>7 DEF CleanupIdle
  <1> QED BY <1>1, <1>2, <1>3, <1>4, <1>5, <1>6, <1>7 DEF Run

LEMMA OperateProjects == ASSUME Operate PROVE RunsStep
  <1> USE DEF RunsStep
  <1>1. CASE OpAnnounce \/ OpClose \/ OpCloseFails \/ OpCancel \/ OpWait \/ StopSettles
             \/ SaveCaptured \/ SaveRefused
    BY <1>1 DEF OpAnnounce, OpClose, OpCloseFails, OpCancel, OpWait, StopSettles,
                SaveCaptured, SaveRefused, runs, engine
  <1>2. ASSUME NEW r \in Runs, SwitchSettles(r) PROVE RunsStep
    BY <1>2 DEF SwitchSettles, Options
  <1> QED BY <1>1, <1>2 DEF Operate

LEMMA OutsideProjects == ASSUME Outside PROVE RunsStep
  <1> USE DEF RunsStep, Leaves, Goto
  <1>1. CASE Stop \/ CaptureSavedLogin \/ ForgetSavedLogin \/ SelectLaunchProfile
             \/ SwitchVerified \/ OpTimesOut
    BY <1>1 DEF Stop, CaptureSavedLogin, ForgetSavedLogin, SelectLaunchProfile,
                SwitchVerified, OpTimesOut, runs, engine
  <1>2. ASSUME NEW r \in Runs,
               \/ StartEngine(r) \/ ChatConnectedOrExited(r) \/ HandshakeFails(r)
               \/ ProcessExited(r) \/ ProxyDies(r) \/ MonitorFails(r)
        PROVE RunsStep
    BY <1>2 DEF StartEngine, ChatConnectedOrExited, HandshakeFails, ProcessExited,
                ProxyDies, MonitorFails, Options, Owning, engine
  <1>3. ASSUME NEW p \in Profiles,
               \/ SelectIdle(p) \/ SwitchLaunchProfile(p) \/ PlayerSignsIn(p) \/ SaveExpires(p)
        PROVE RunsStep
    BY <1>3 DEF SelectIdle, SwitchLaunchProfile, PlayerSignsIn, SaveExpires, runs, engine
  <1>4. CASE PlayerOpensRiot \/ RiotWritesLogin \/ PlayerClosesRiot
    BY <1>4 DEF PlayerOpensRiot, RiotWritesLogin, PlayerClosesRiot, runs, engine
  <1> QED BY <1>1, <1>2, <1>3, <1>4 DEF Outside

LEMMA NextProjects == Next => RunsStep
  BY RunProjects, OperateProjects, OutsideProjects DEF Next

(* A run that owns the engine is the only one, and gives it back itself.   *)
LEMMA OneRunInv == ASSUME TypeOK, OneRunAtATime, RunsStep PROVE OneRunAtATime'
  <1> DEFINE One(f, busy, owner) ==
        /\ \A r, s \in Runs : f[r] \in Owning /\ f[s] \in Owning => r = s
        /\ \A r \in Runs : f[r] \in Owning => busy /\ owner = r
        /\ busy => \E r \in Runs : f[r] \in Owning
  <1>1. One(pc, running, cancel) BY OwnsIff DEF OneRunAtATime
  <1>2. pc \in [Runs -> Steps] BY DEF TypeOK
  <1>3. One(pc', running', cancel')
    <2>1. CASE UNCHANGED <<pc, opt, prof, running, cancel>> BY <1>1, <2>1
    <2>2. ASSUME NEW r \in Runs, NEW o \in Options, Spawn(r, o), UNCHANGED <<running, cancel>>
          PROVE One(pc', running', cancel')
      BY <1>1, <1>2, <2>2 DEF Spawn, Owning
    <2>3. ASSUME NEW r \in Runs, Leaves(r, {"pending"}, {"inspect"}), ~running,
                 running' = TRUE, cancel' = r
          PROVE One(pc', running', cancel')
      BY <1>1, <1>2, <2>3 DEF Leaves, Owning
    <2>4. ASSUME NEW r \in Runs, UNCHANGED <<running, cancel>>,
                 \/ Leaves(r, {"pending"}, {"done"}) \/ Leaves(r, {"idle"}, {"done"})
          PROVE One(pc', running', cancel')
      BY <1>1, <1>2, <2>4 DEF Leaves, Owning
    <2>5. ASSUME NEW r \in Runs, UNCHANGED <<running, cancel>>,
                 Leaves(r, Owning \ {"reset"}, Owning)
          PROVE One(pc', running', cancel')
      <3>1. pc[r] \in Owning /\ pc'[r] \in Owning
            /\ \A s \in Runs : s # r => pc'[s] = pc[s]
        BY <1>2, <2>5 DEF Leaves
      <3> QED BY <1>1, <2>5, <3>1
    <2>6. ASSUME NEW r \in Runs, Leaves(r, {"reset"}, {"idle"}), running' = FALSE
          PROVE One(pc', running', cancel')
      BY <1>1, <1>2, <2>6 DEF Leaves, Owning
    <2> QED BY <2>1, <2>2, <2>3, <2>4, <2>5, <2>6 DEF RunsStep
  <1> QED BY <1>3, OwnsIffNext DEF OneRunAtATime

(* A step changes at most one run's place and profile, every place is a    *)
(* step of the code, and no run becomes unstarted again.                   *)
LEMMA RunsInv ==
  ASSUME IndInv, RunsStep
  PROVE  /\ pc' \in [Runs -> Steps] /\ opt' \in [Runs -> Options]
         /\ prof' \in [Runs -> Profiles \cup {NoProfile}]
         /\ running' \in BOOLEAN /\ cancel' \in Runs \cup {NoRun}
         /\ \A r \in Runs : pc'[r] \notin Unstarted \cup {"done"} => prof'[r] \in Profiles
         /\ \A r \in Runs : pc[r] \notin Unstarted => pc'[r] \notin Unstarted
  <1> DEFINE Cloned(f, g) ==
        \A r \in Runs : f[r] \notin Unstarted \cup {"done"} => g[r] \in Profiles
             Kept(f) == \A r \in Runs : pc[r] \notin Unstarted => f[r] \notin Unstarted
             Goal == /\ pc' \in [Runs -> Steps] /\ opt' \in [Runs -> Options]
                     /\ prof' \in [Runs -> Profiles \cup {NoProfile}]
                     /\ running' \in BOOLEAN /\ cancel' \in Runs \cup {NoRun}
                     /\ Cloned(pc', prof') /\ Kept(pc')
  <1>1. /\ pc \in [Runs -> Steps] /\ opt \in [Runs -> Options] /\ active \in Profiles
        /\ prof \in [Runs -> Profiles \cup {NoProfile}]
        /\ running \in BOOLEAN /\ cancel \in Runs \cup {NoRun}
        /\ Cloned(pc, prof)
    BY DEF IndInv, TypeOK, Known
  <1>2. /\ Owning \subseteq Steps /\ {"unborn", "pending", "idle", "done"} \subseteq Steps
        /\ Owning \cap (Unstarted \cup {"done"}) = {}
    BY DEF Owning, Steps, Unstarted
  <1>3. CASE UNCHANGED <<pc, opt, prof, running, cancel>> BY <1>1, <1>3
  <1>4. ASSUME NEW r \in Runs, NEW o \in Options, Spawn(r, o), UNCHANGED <<running, cancel>>
        PROVE  Goal
    BY <1>1, <1>2, <1>4 DEF Spawn, Unstarted
  <1>5. ASSUME NEW r \in Runs, Leaves(r, {"pending"}, {"inspect"}), UNCHANGED opt,
               prof' = [prof EXCEPT ![r] = active], running' = TRUE, cancel' = r
        PROVE  Goal
    BY <1>1, <1>5 DEF Leaves, Unstarted, Steps
  <1>6. ASSUME NEW r \in Runs, UNCHANGED <<opt, prof, running, cancel>>,
               \/ Leaves(r, {"pending"}, {"done"}) \/ Leaves(r, {"idle"}, {"done"})
        PROVE  Goal
    BY <1>1, <1>6 DEF Leaves, Unstarted, Steps
  <1>7. ASSUME NEW r \in Runs, UNCHANGED <<opt, prof, running, cancel>>,
               Leaves(r, Owning \ {"reset"}, Owning)
        PROVE  Goal
    BY <1>1, <1>2, <1>7 DEF Leaves
  <1>8. ASSUME NEW r \in Runs, UNCHANGED <<opt, prof>>,
               Leaves(r, {"reset"}, {"idle"}), running' = FALSE, cancel' = NoRun
        PROVE  Goal
    BY <1>1, <1>8 DEF Leaves, Unstarted, Steps
  <1>9. Goal BY <1>3, <1>4, <1>5, <1>6, <1>7, <1>8 DEF RunsStep
  <1> QED BY <1>9

-----------------------------------------------------------------------------
(* The client.                                                             *)

ClientStep ==
  \/ UNCHANGED client
  \/ RiotGoesDown
  \/ Write /\ UNCHANGED <<riot, account, opens>>
  \/ \E by \in Runs \cup {NoRun} :
       /\ by # NoRun => pc[by] \notin Unstarted
       /\ RiotComesUp(by) /\ UNCHANGED <<disk, writes>>
       /\ opens' = opens \/ (opens < MaxOpens /\ opens' = opens + 1)
  \/ account' \in Profiles /\ UNCHANGED <<riot, disk, writes, opens>>
  \/ /\ disk' = NoFiles \/ \E p \in Profiles : disk' = saved[p].files
     /\ UNCHANGED <<riot, account, writes, opens>>

LEMMA NextClient == ASSUME IndInv, Next PROVE ClientStep
  <1> USE DEF ClientStep
  <1>1. ASSUME NEW r \in Runs, Run(r) PROVE ClientStep
    <2>1. CASE Begin(r) \/ Reject(r) \/ Inspect(r) \/ Settle(r) \/ ContextDone(r)
               \/ RiotSeenGone(r) \/ CleanupSettle(r) \/ CleanupReset(r) \/ CleanupIdle(r)
      BY <2>1 DEF Begin, Reject, Inspect, Settle, ContextDone, RiotSeenGone, CleanupSettle,
                  CleanupReset, CleanupIdle
    <2>2. CASE StopExisting(r) \/ Fallback(r) \/ CloseCancelledClient(r)
      BY <2>2 DEF StopExisting, Fallback, CloseCancelledClient, Closed
    <2>3. CASE PrepareLogin(r) BY <2>3 DEF PrepareLogin, client
    <2>4. CASE RestoreLogin(r)
      <3>1. prof[r] \in Profiles
        BY <2>4 DEF RestoreLogin, IndInv, Known, Unstarted
      <3> QED BY <2>4, <3>1 DEF RestoreLogin
    <2>5. CASE Launch(r) \/ RelaunchDirect(r)
      <3>1. pc[r] \notin Unstarted
        BY <2>5 DEF Launch, RelaunchDirect, Unstarted
      <3>2. UNCHANGED client \/ (RiotComesUp(r) /\ UNCHANGED <<disk, writes, opens>>)
        BY <2>5 DEF Launch, LaunchClient, RelaunchDirect, client
      <3> QED BY <3>1, <3>2
    <2> QED BY <1>1, <2>1, <2>2, <2>3, <2>4, <2>5 DEF Run
  <1>2. CASE Operate
    BY <1>2 DEF Operate, OpAnnounce, OpClose, OpCloseFails, OpCancel, OpWait, StopSettles,
                SwitchSettles, SaveCaptured, SaveRefused, Closed
  <1>3. CASE Outside
    <2>1. CASE \/ Stop \/ CaptureSavedLogin \/ ForgetSavedLogin \/ SelectLaunchProfile
               \/ SwitchVerified \/ OpTimesOut
               \/ \E r \in Runs : \/ StartEngine(r) \/ ChatConnectedOrExited(r)
                                  \/ HandshakeFails(r) \/ ProcessExited(r)
                                  \/ ProxyDies(r) \/ MonitorFails(r)
               \/ \E p \in Profiles : SelectIdle(p) \/ SwitchLaunchProfile(p) \/ SaveExpires(p)
      BY <2>1 DEF Stop, CaptureSavedLogin, ForgetSavedLogin, SelectLaunchProfile,
                  SwitchVerified, OpTimesOut, StartEngine, ChatConnectedOrExited,
                  HandshakeFails, ProcessExited, ProxyDies, MonitorFails, SelectIdle,
                  SwitchLaunchProfile, SaveExpires
    <2>2. ASSUME NEW p \in Profiles, PlayerSignsIn(p) PROVE ClientStep
      BY <2>2 DEF PlayerSignsIn
    <2>3. CASE PlayerOpensRiot BY <2>3 DEF PlayerOpensRiot
    <2>4. CASE RiotWritesLogin \/ PlayerClosesRiot
      BY <2>4 DEF RiotWritesLogin, PlayerClosesRiot
    <2> QED BY <1>3, <2>1, <2>2, <2>3, <2>4 DEF Outside
  <1> QED BY <1>1, <1>2, <1>3 DEF Next

LEMMA ClientType ==
  ASSUME TypeClient, TypeSaved, ClientStep
  PROVE  TypeClient'
  <1>1. CASE UNCHANGED client BY <1>1 DEF TypeClient, client
  <1>2. CASE RiotGoesDown
    <2>1. Observer \in Runs \cup {NoRun} BY DEF Observer
    <2>2. riot' \in [up : BOOLEAN, by : Runs \cup {NoRun}, seenBy : Runs \cup {NoRun}]
      BY <1>2, <2>1 DEF TypeClient, RiotGoesDown
    <2>3. disk' \in Files /\ writes' \in 0 .. MaxWrites
      BY <1>2 DEF TypeClient, RiotGoesDown, Write, Files
    <2> QED BY <1>2, <2>2, <2>3 DEF TypeClient, RiotGoesDown
  <1>3. CASE Write /\ UNCHANGED <<riot, account, opens>>
    BY <1>3 DEF Write, TypeClient, Files
  <1>4. ASSUME NEW by \in Runs \cup {NoRun}, RiotComesUp(by), UNCHANGED <<disk, writes>>,
               opens' = opens \/ (opens < MaxOpens /\ opens' = opens + 1)
        PROVE  TypeClient'
    BY <1>4 DEF RiotComesUp, TypeClient, Files
  <1>5. CASE account' \in Profiles /\ UNCHANGED <<riot, disk, writes, opens>>
    BY <1>5 DEF TypeClient
  <1>6. CASE /\ disk' = NoFiles \/ \E p \in Profiles : disk' = saved[p].files
             /\ UNCHANGED <<riot, account, writes, opens>>
    <2>1. disk' \in Files BY <1>6 DEF TypeSaved, NoFiles, Files
    <2> QED BY <1>6, <2>1 DEF TypeClient
  <1> QED BY <1>1, <1>2, <1>3, <1>4, <1>5, <1>6 DEF ClientStep

(* The run that launched the client has started, and stays started.        *)
LEMMA LaunchedByInv ==
  ASSUME IndInv, ClientStep,
         \A r \in Runs : pc[r] \notin Unstarted => pc'[r] \notin Unstarted
  PROVE  riot'.by # NoRun => pc'[riot'.by] \notin Unstarted
  <1>1. riot.by \in Runs \cup {NoRun} /\ (riot.by # NoRun => pc[riot.by] \notin Unstarted)
    BY DEF IndInv, TypeOK, Known
  <1>2. \/ riot'.by = riot.by
        \/ \E by \in Runs \cup {NoRun} :
             riot'.by = by /\ (by # NoRun => pc[by] \notin Unstarted)
    <2>1. riot \in [up : BOOLEAN, by : Runs \cup {NoRun}, seenBy : Runs \cup {NoRun}]
      BY DEF IndInv, TypeOK
    <2>2. CASE \/ UNCHANGED client \/ UNCHANGED riot BY <2>2 DEF client
    <2>3. CASE RiotGoesDown BY <2>1, <2>3 DEF RiotGoesDown
    <2>4. ASSUME NEW by \in Runs \cup {NoRun}, RiotComesUp(by) PROVE riot'.by = by
      BY <2>4 DEF RiotComesUp
    <2> QED BY <2>2, <2>3, <2>4 DEF ClientStep
  <1> QED BY <1>1, <1>2

-----------------------------------------------------------------------------
(* The saves.                                                              *)

SavedStep ==
  \/ UNCHANGED saved
  \/ \E p \in Profiles : saved' = Refreshed(p)
  \/ \E p \in Profiles : saved' = [saved EXCEPT ![p].expired = TRUE]
  \/ \E p \in Profiles :
       /\ disk.owner = p
       /\ \/ saved' = [saved EXCEPT ![p] = [files |-> disk, expired |-> FALSE]]
          \/ saved' = [saved EXCEPT ![p].files = disk]
  \/ \E p \in Profiles : saved' = [saved EXCEPT ![p] = [files |-> NoFiles, expired |-> FALSE]]

LEMMA NextSaved == ASSUME IndInv, Next PROVE SavedStep
  <1> USE DEF SavedStep
  <1>1. ASSUME NEW r \in Runs, Run(r) PROVE SavedStep
    <2>1. CASE \/ Begin(r) \/ Reject(r) \/ Inspect(r) \/ StopExisting(r) \/ RestoreLogin(r)
               \/ Launch(r) \/ Fallback(r) \/ RelaunchDirect(r) \/ ContextDone(r)
               \/ RiotSeenGone(r) \/ CloseCancelledClient(r) \/ CleanupReset(r)
               \/ CleanupIdle(r)
      BY <2>1 DEF Begin, Reject, Inspect, StopExisting, RestoreLogin, Launch, Fallback,
                  RelaunchDirect, ContextDone, RiotSeenGone, CloseCancelledClient,
                  CleanupReset, CleanupIdle
    <2>2. CASE Settle(r) \/ PrepareLogin(r) \/ CleanupSettle(r)
      <3>1. prof[r] \in Profiles
        BY <2>2 DEF Settle, PrepareLogin, CleanupSettle, IndInv, Known, Unstarted
      <3> QED BY <2>2, <3>1 DEF Settle, PrepareLogin, CleanupSettle
    <2> QED BY <1>1, <2>1, <2>2 DEF Run
  <1>2. CASE Operate
    <2>1. CASE OpAnnounce \/ OpClose \/ OpCloseFails \/ OpCancel \/ OpWait \/ SaveRefused
      BY <2>1 DEF OpAnnounce, OpClose, OpCloseFails, OpCancel, OpWait, SaveRefused
    <2>2. CASE StopSettles \/ SaveCaptured
      <3>1. op.profile \in Profiles
        BY <2>2 DEF StopSettles, SaveCaptured, IndInv, Known
      <3> QED BY <2>2, <3>1 DEF StopSettles, SaveCaptured
    <2>3. ASSUME NEW r \in Runs, SwitchSettles(r) PROVE SavedStep
      BY <2>3 DEF SwitchSettles, IndInv, TypeOK
    <2> QED BY <1>2, <2>1, <2>2, <2>3 DEF Operate
  <1>3. CASE Outside
    <2>1. active \in Profiles BY DEF IndInv, TypeOK
    <2>2. CASE \/ Stop \/ CaptureSavedLogin \/ SelectLaunchProfile \/ OpTimesOut
               \/ \E r \in Runs : \/ StartEngine(r) \/ ChatConnectedOrExited(r)
                                  \/ HandshakeFails(r) \/ ProcessExited(r)
                                  \/ ProxyDies(r) \/ MonitorFails(r)
               \/ \E p \in Profiles : SelectIdle(p) \/ SwitchLaunchProfile(p) \/ PlayerSignsIn(p)
               \/ PlayerOpensRiot \/ RiotWritesLogin \/ PlayerClosesRiot
      BY <2>2 DEF Stop, CaptureSavedLogin, SelectLaunchProfile, OpTimesOut, StartEngine,
                  ChatConnectedOrExited, HandshakeFails, ProcessExited, ProxyDies,
                  MonitorFails, SelectIdle, SwitchLaunchProfile, PlayerSignsIn,
                  PlayerOpensRiot, RiotWritesLogin, PlayerClosesRiot
    <2>3. CASE ForgetSavedLogin \/ SwitchVerified
      BY <2>1, <2>3 DEF ForgetSavedLogin, SwitchVerified
    <2>4. ASSUME NEW p \in Profiles, SaveExpires(p) PROVE SavedStep
      BY <2>4 DEF SaveExpires
    <2> QED BY <1>3, <2>2, <2>3, <2>4 DEF Outside
  <1> QED BY <1>1, <1>2, <1>3 DEF Next

(* Whoever changes a save puts files of its own account into it.           *)
LEMMA SavedInv ==
  ASSUME TypeClient, TypeSaved, SavesOwnAccount, SavedStep
  PROVE  TypeSaved' /\ SavesOwnAccount'
  <1>0. disk \in Files /\ NoFiles \in Files BY DEF TypeClient, NoFiles, Files
  <1>1. CASE UNCHANGED saved BY <1>1 DEF TypeSaved, SavesOwnAccount
  <1>2. ASSUME NEW p \in Profiles, saved' = Refreshed(p) PROVE TypeSaved' /\ SavesOwnAccount'
    BY <1>0, <1>2 DEF TypeSaved, SavesOwnAccount, Refreshed
  <1>3. ASSUME NEW p \in Profiles, saved' = [saved EXCEPT ![p].expired = TRUE]
        PROVE  TypeSaved' /\ SavesOwnAccount'
    BY <1>0, <1>3 DEF TypeSaved, SavesOwnAccount
  <1>4. ASSUME NEW p \in Profiles, disk.owner = p,
               \/ saved' = [saved EXCEPT ![p] = [files |-> disk, expired |-> FALSE]]
               \/ saved' = [saved EXCEPT ![p].files = disk]
        PROVE  TypeSaved' /\ SavesOwnAccount'
    <2>1. CASE saved' = [saved EXCEPT ![p] = [files |-> disk, expired |-> FALSE]]
      BY <1>0, <1>4, <2>1 DEF TypeSaved, SavesOwnAccount
    <2>2. CASE saved' = [saved EXCEPT ![p].files = disk]
      <3>1. \A q \in Profiles : saved'[q].files = IF q = p THEN disk ELSE saved[q].files
        BY <2>2 DEF TypeSaved
      <3>2. TypeSaved' BY <1>0, <2>2 DEF TypeSaved
      <3> QED BY <1>4, <3>1, <3>2 DEF SavesOwnAccount
    <2> QED BY <1>4, <2>1, <2>2
  <1>5. ASSUME NEW p \in Profiles,
               saved' = [saved EXCEPT ![p] = [files |-> NoFiles, expired |-> FALSE]]
        PROVE  TypeSaved' /\ SavesOwnAccount'
    BY <1>0, <1>5 DEF TypeSaved, SavesOwnAccount
  <1> QED BY <1>1, <1>2, <1>3, <1>4, <1>5 DEF SavedStep

-----------------------------------------------------------------------------
(* What is left: the lock, the active profile, the phase, cancelled runs   *)
(* and the operations.                                                     *)

Rest ==
  /\ life \in {Free, AnOp} \cup Runs
  /\ active \in Profiles /\ phase \in {"settled", "busy"}
  /\ cancelled \subseteq Runs
  /\ TypeUi
  /\ op.op # "none" => op.profile \in Profiles

LEMMA RestInv == ASSUME IndInv, Next PROVE Rest'
  <1>0. Rest /\ cancel \in Runs \cup {NoRun}
    BY Parts DEF IndInv, Known, Rest, TypeEngine, TypeRuns
  <1>1. ASSUME NEW r \in Runs, Run(r) PROVE Rest'
    <2> USE DEF Rest, TypeUi, ui, engine
    <2>1. CASE \/ Reject(r) \/ Settle(r) \/ ContextDone(r) \/ RiotSeenGone(r)
               \/ CloseCancelledClient(r) \/ CleanupSettle(r) \/ CleanupReset(r)
      BY <1>0, <2>1 DEF Reject, Settle, ContextDone, RiotSeenGone, CloseCancelledClient,
                        CleanupSettle, CleanupReset
    <2>2. CASE Begin(r) \/ StopExisting(r) \/ Fallback(r) \/ Launch(r) \/ RelaunchDirect(r)
      BY <1>0, <2>2 DEF Begin, StopExisting, Fallback, Launch, RelaunchDirect, Fail
    <2>3. CASE Inspect(r) \/ PrepareLogin(r) \/ RestoreLogin(r)
      BY <1>0, <2>3 DEF Inspect, PrepareLogin, RestoreLogin, Unlock, Fail
    <2>4. CASE CleanupIdle(r) BY <1>0, <2>4 DEF CleanupIdle
    <2> QED BY <1>1, <2>1, <2>2, <2>3, <2>4 DEF Run
  <1> DEFINE Settled == /\ life' \in {Free, AnOp} \cup Runs
                        /\ active' \in Profiles /\ phase' \in {"settled", "busy"}
                        /\ cancelled' \subseteq Runs
  <1> HIDE DEF Settled
  <1>2. ASSUME NEW ok \in BOOLEAN, EndOp(ok), op.op # "none", Settled PROVE Rest'
    BY <1>0, <1>2 DEF EndOp, Rest, TypeUi, NoOp, Ops, OpSteps, Settled
  <1>3. ASSUME NEW kind \in Ops \ {"none"}, NEW at \in OpSteps, NEW p \in Profiles,
               BeginOp(kind, at, p), choosing' \in Profiles \cup {NoProfile}, Settled
        PROVE  Rest'
    <2>1. op' \in [op : Ops, at : OpSteps, run : Runs \cup {NoRun},
                   profile : Profiles \cup {NoProfile}, phase : {"settled", "busy"}]
      BY <1>0, <1>3 DEF BeginOp, Rest
    <2>2. op'.profile = p BY <1>3 DEF BeginOp
    <2>3. http' \in {"free", "held", "verifying"} BY <1>0, <1>3 DEF BeginOp, Rest, TypeUi
    <2> QED BY <1>3, <2>1, <2>2, <2>3 DEF Rest, TypeUi, Settled
  <1>4. ASSUME NEW at \in OpSteps, OpAt(op.at, at), UNCHANGED <<http, choosing>>, Settled
        PROVE  Rest'
    BY <1>0, <1>4 DEF OpAt, Rest, TypeUi, Settled
  <1>5. CASE Operate
    <2>1. CASE OpAnnounce \/ OpClose \/ OpCancel \/ OpWait
      <3>1. Settled
        BY <1>0, <2>1 DEF OpAnnounce, OpClose, OpCancel, OpWait, Rest, TypeUi, Settled,
                          engine, runs
      <3>2. \E at \in OpSteps : OpAt(op.at, at)
        BY <2>1 DEF OpAnnounce, OpClose, OpCancel, OpWait, OpAt, OpSteps
      <3>3. UNCHANGED <<http, choosing>> BY <2>1 DEF OpAnnounce, OpClose, OpCancel, OpWait
      <3> QED BY <1>4, <3>1, <3>2, <3>3
    <2>2. CASE OpCloseFails
      <3>1. Settled
        BY <1>0, <2>2 DEF OpCloseFails, EndOp, Rest, TypeUi, Settled, runs
      <3>2. CASE op.op # "none" BY <2>2, <3>1, <3>2, <1>2 DEF OpCloseFails
      <3>3. CASE op.op = "none"
        BY <1>0, <2>2, <3>1, <3>3
           DEF OpCloseFails, EndOp, Rest, TypeUi, NoOp, Ops, OpSteps, Settled
      <3> QED BY <3>2, <3>3
    <2>3. CASE StopSettles \/ SaveCaptured \/ SaveRefused
      <3>1. Settled
        BY <1>0, <2>3 DEF StopSettles, SaveCaptured, SaveRefused, EndOp, Rest, Settled, runs
      <3>2. op.op # "none" BY <2>3 DEF StopSettles, SaveCaptured, SaveRefused
      <3> QED BY <2>3, <3>1, <3>2, <1>2 DEF StopSettles, SaveCaptured, SaveRefused
    <2>4. ASSUME NEW r \in Runs, SwitchSettles(r) PROVE Rest'
      <3>1. Settled BY <1>0, <2>4 DEF SwitchSettles, EndOp, Spawn, Rest, Settled
      <3> QED BY <2>4, <3>1, <1>2 DEF SwitchSettles
    <2> QED BY <1>5, <2>1, <2>2, <2>3, <2>4 DEF Operate
  <1>6. CASE Outside
    <2> USE DEF Settled
    <2>1. CASE Stop
      <3>1. Settled BY <1>0, <2>1 DEF Stop, BeginOp, Rest, runs
      <3>2. \E kind \in Ops \ {"none"}, at \in OpSteps, p \in Profiles :
              BeginOp(kind, at, p) /\ choosing' \in Profiles \cup {NoProfile}
        BY <1>0, <2>1 DEF Stop, Ops, OpSteps, Rest, TypeUi
      <3> QED BY <3>1, <3>2, <1>3
    <2>2. CASE CaptureSavedLogin
      <3>1. Settled BY <1>0, <2>2 DEF CaptureSavedLogin, BeginOp, Rest, runs
      <3>2. \E kind \in Ops \ {"none"}, at \in OpSteps, p \in Profiles : BeginOp(kind, at, p)
        BY <1>0, <2>2 DEF CaptureSavedLogin, Ops, OpSteps, Rest
      <3>3. choosing' \in Profiles \cup {NoProfile}
        BY <1>0, <2>2 DEF CaptureSavedLogin, Rest, TypeUi
      <3> QED BY <3>1, <3>2, <3>3, <1>3
    <2>3. ASSUME NEW q \in Profiles, SwitchLaunchProfile(q) PROVE Rest'
      <3>1. Settled BY <1>0, <2>3 DEF SwitchLaunchProfile, BeginOp, Rest, runs
      <3>2. "switch" \in Ops \ {"none"} /\ "close" \in OpSteps BY DEF Ops, OpSteps
      <3>3. BeginOp("switch", "close", q) /\ choosing' \in Profiles \cup {NoProfile}
        BY <1>0, <2>3 DEF SwitchLaunchProfile, Rest, TypeUi
      <3> QED BY <3>1, <3>2, <3>3, <1>3
    <2>4. CASE OpTimesOut
      <3>1. Settled BY <1>0, <2>4 DEF OpTimesOut, EndOp, Rest, runs
      <3>2. CASE op.op # "none" BY <2>4, <3>1, <3>2, <1>2 DEF OpTimesOut
      <3>3. CASE op.op = "none"
        BY <1>0, <2>4, <3>1, <3>3 DEF OpTimesOut, EndOp, Rest, TypeUi, NoOp, Ops, OpSteps
      <3> QED BY <3>2, <3>3
    <2>5. CASE \/ ForgetSavedLogin \/ SelectLaunchProfile \/ SwitchVerified
               \/ PlayerOpensRiot \/ RiotWritesLogin \/ PlayerClosesRiot
      BY <1>0, <2>5 DEF ForgetSavedLogin, SelectLaunchProfile, SwitchVerified,
         PlayerOpensRiot, RiotWritesLogin, PlayerClosesRiot, Rest, TypeUi, engine, runs, ui
    <2>6. ASSUME NEW r \in Runs,
                 \/ StartEngine(r) \/ ChatConnectedOrExited(r) \/ HandshakeFails(r)
                 \/ ProcessExited(r) \/ ProxyDies(r) \/ MonitorFails(r)
          PROVE  Rest'
      BY <1>0, <2>6 DEF StartEngine, Spawn, ChatConnectedOrExited, HandshakeFails,
         ProcessExited, ProxyDies, MonitorFails, Rest, TypeUi, engine, ui
    <2>7. ASSUME NEW p \in Profiles, SelectIdle(p) \/ PlayerSignsIn(p) \/ SaveExpires(p)
          PROVE  Rest'
      BY <1>0, <2>7 DEF SelectIdle, PlayerSignsIn, SaveExpires, Rest, TypeUi, engine, runs, ui
    <2> QED BY <1>6, <2>1, <2>2, <2>3, <2>4, <2>5, <2>6, <2>7 DEF Outside
  <1> QED BY <1>1, <1>5, <1>6 DEF Next

LEMMA NextIndInv == IndInv /\ [Next]_vars => IndInv'
  <1>1. ASSUME IndInv, Next PROVE IndInv'
    <2>1. RunsStep /\ ClientStep /\ SavedStep
      BY <1>1, NextProjects, NextClient, NextSaved
    <2>2. TypeClient /\ TypeSaved BY <1>1, Parts DEF IndInv
    <2>3. TypeClient' BY <2>1, <2>2, ClientType
    <2>4. TypeSaved' /\ SavesOwnAccount' BY <1>1, <2>1, <2>2, SavedInv DEF IndInv
    <2>5. Rest' BY <1>1, RestInv
    <2>6. OneRunAtATime' BY <1>1, <2>1, OneRunInv DEF IndInv
    <2>7. TypeOK'
      BY <1>1, <2>1, <2>3, <2>4, <2>5, RunsInv
         DEF TypeOK, TypeClient, TypeSaved, TypeUi, Rest
    <2>8. Known'
      BY <1>1, <2>1, <2>5, RunsInv, LaunchedByInv DEF Known, Rest
    <2> QED BY <2>4, <2>6, <2>7, <2>8 DEF IndInv
  <1>2. ASSUME IndInv, UNCHANGED vars PROVE IndInv'
    BY <1>2 DEF vars, engine, runs, ui, client, IndInv, TypeOK, Known, OneRunAtATime,
                SavesOwnAccount, Owns, Observing
  <1> QED BY <1>1, <1>2

-----------------------------------------------------------------------------
(* The engine's, the runs', the operations' and the client's state keeps   *)
(* its types.                                                              *)
THEOREM TypeCorrect == Spec => []TypeOK
  <1>1. IndInv => TypeOK BY DEF IndInv
  <1> QED BY <1>1, InitIndInv, NextIndInv, PTL DEF Spec

(* However many launches are asked for, and whatever is stopped, switched  *)
(* or fails, one run at a time owns the engine, and it is the one that a   *)
(* Stop would cancel (Run's test of running and its deferred cleanup).     *)
THEOREM RunsExclusive == Spec => []OneRunAtATime
  <1>1. IndInv => OneRunAtATime BY DEF IndInv
  <1> QED BY <1>1, InitIndInv, NextIndInv, PTL DEF Spec

(* A save never holds the files of another account than its profile's      *)
(* (captureVerified, refreshStoppedProfile).                               *)
THEOREM SavesKeepTheirAccount == Spec => []SavesOwnAccount
  <1>1. IndInv => SavesOwnAccount BY DEF IndInv
  <1> QED BY <1>1, InitIndInv, NextIndInv, PTL DEF Spec

(* Only the owner of the engine closes Riot as a step of its own.          *)
LEMMA ClosersOwn ==
  ASSUME IndInv, Next, NEW r \in Runs, Closes(r)
  PROVE  pc[r] \in Owning
  <1>0. /\ riot.up /\ ~riot'.up /\ pc'[r] # pc[r]
        /\ pc \in [Runs -> Steps]
    BY DEF Closes, IndInv, TypeOK
  <1>1. ASSUME NEW q \in Runs, Run(q) PROVE pc[r] \in Owning
    <2>1. CASE StopExisting(q) \/ Fallback(q) \/ CloseCancelledClient(q)
      <3>1. pc[q] \in Owning /\ \E step \in Steps : pc' = [pc EXCEPT ![q] = step]
        BY <2>1 DEF StopExisting, Fallback, CloseCancelledClient, Goto, Fail, Owning, Steps
      <3> QED BY <1>0, <3>1
    <2>2. CASE \/ Begin(q) \/ Reject(q) \/ Inspect(q) \/ Settle(q) \/ PrepareLogin(q)
               \/ RestoreLogin(q) \/ ContextDone(q) \/ RiotSeenGone(q)
               \/ CleanupSettle(q) \/ CleanupReset(q) \/ CleanupIdle(q)
      BY <1>0, <2>2 DEF Begin, Reject, Inspect, Settle, PrepareLogin, RestoreLogin,
         ContextDone, RiotSeenGone, CleanupSettle, CleanupReset, CleanupIdle, client
    <2>3. CASE Launch(q) \/ RelaunchDirect(q)
      BY <1>0, <2>3 DEF Launch, RelaunchDirect, LaunchClient, RiotComesUp
    <2> QED BY <1>1, <2>1, <2>2, <2>3 DEF Run
  <1>2. CASE Operate
    BY <1>0, <1>2 DEF Operate, OpAnnounce, OpClose, OpCloseFails, OpCancel, OpWait,
       StopSettles, SwitchSettles, SaveCaptured, SaveRefused, runs, client
  <1>3. CASE Outside
    BY <1>0, <1>3 DEF Outside, Stop, CaptureSavedLogin, ForgetSavedLogin,
       SelectLaunchProfile, SwitchVerified, OpTimesOut, StartEngine,
       ChatConnectedOrExited, HandshakeFails, ProcessExited, ProxyDies, MonitorFails,
       SelectIdle, SwitchLaunchProfile, PlayerSignsIn, SaveExpires, PlayerOpensRiot,
       RiotComesUp, RiotWritesLogin, PlayerClosesRiot, runs, client
  <1> QED BY <1>1, <1>2, <1>3 DEF Next

(* A run that closes Riot never closes a client that another live run      *)
(* launched: only the owner closes, and the launcher of an open client is  *)
(* the owner or over (closeCancelledClient, the direct fallback).          *)
THEOREM ClosesOwnClient == Spec => NoForeignKill
  <1>1. ASSUME IndInv, Next, NEW r \in Runs, NEW s \in Runs, Closes(r), riot.by = s, s # r
        PROVE  pc[s] \in {"idle", "done"}
    <2>1. pc[r] \in Owning BY <1>1, ClosersOwn
    <2>2. pc[s] \notin Owning BY <1>1, <2>1, OwnsIff DEF IndInv, OneRunAtATime
    <2>3. pc[s] \notin Unstarted BY <1>1 DEF IndInv, Known, Runs, NoRun
    <2>4. pc[s] \in Steps BY <1>1 DEF IndInv, TypeOK
    <2> QED BY <2>2, <2>3, <2>4 DEF Steps, Owning, Unstarted
  <1>2. IndInv /\ [Next]_vars =>
          [\A r, s \in Runs : Closes(r) /\ riot.by = s /\ s # r => pc[s] \in {"idle", "done"}]_vars
    BY <1>1
  <1> QED BY <1>2, InitIndInv, NextIndInv, PTL DEF Spec, NoForeignKill

-----------------------------------------------------------------------------
(* What the saves hold over time: the last login Riot wrote under a run is *)
(* kept, and no older one replaces a newer unless Riot was opened behind   *)
(* the run's back.  The strengthening.                                     *)

(* The save of a profile is as new as the files Riot left of its account.  *)
Settled(p) == Usable(p) /\ disk.owner = p => saved[p].files = disk

Over == {"reset", "idle", "done"}

(* A run whose profile has to be settled while Riot is down: one that saw  *)
(* Riot go and is over, or one about to restore that did not.              *)
Due(r) ==
  \/ pc[r] \in Over /\ riot.seenBy = r
  \/ pc[r] = "restore" /\ riot.seenBy # r

AllSettled == \A r \in Runs : ~riot.up /\ Due(r) => Settled(prof[r])

(* The run that saw Riot go has started.                                   *)
Witnessed ==
  riot.seenBy # NoRun => pc[riot.seenBy] \notin Unstarted /\ prof[riot.seenBy] \in Profiles

(* A run that starts up holds lifecycleMu, and so does an operation.       *)
Startup == {"inspect", "close", "settle", "login", "restore"}
Locked ==
  /\ \A r \in Runs : pc[r] \in Startup => life = r
  /\ op.at # "none" => life = AnOp

SavesInv == IndInv /\ AllSettled /\ Witnessed /\ Locked

LEMMA InitSavesInv == Init => SavesInv
  <1> SUFFICES ASSUME Init PROVE SavesInv OBVIOUS
  <1>1. AllSettled BY DEF Init, AllSettled, Due, Over, NoRun, Runs
  <1>2. Witnessed BY DEF Init, Witnessed
  <1>3. Locked BY DEF Init, Locked, Startup, NoOp
  <1> QED BY <1>1, <1>2, <1>3, InitIndInv DEF SavesInv

-----------------------------------------------------------------------------
(* What a step does to lifecycleMu.                                        *)

NoneEnters == \A r \in Runs : pc'[r] \in Startup => pc[r] \in Startup

LockStep ==
  \/ life' = life /\ NoneEnters /\ (op'.at # "none" => op.at # "none")
  \/ life = Free /\ life' = AnOp /\ UNCHANGED pc
  \/ op.at # "none" /\ life' = Free /\ op'.at = "none" /\ NoneEnters
  \/ \E r \in Runs :
       life = Free /\ life' = r /\ pc' = [pc EXCEPT ![r] = "inspect"] /\ UNCHANGED op
  \/ \E r \in Runs : 
       /\ life = r \/ pc[r] \in Startup
       /\ life' = Free /\ UNCHANGED op
       /\ \E step \in Steps \ Startup : pc' = [pc EXCEPT ![r] = step]

LEMMA LockedInv ==
  ASSUME TypeOK, Locked, LockStep
  PROVE  Locked'
  <1>0. pc \in [Runs -> Steps] /\ Free \notin Runs /\ AnOp \notin Runs /\ AnOp # Free
    BY DEF TypeOK, Free, AnOp, Runs
  <1> USE DEF Locked
  <1>1. CASE life' = life /\ NoneEnters /\ (op'.at # "none" => op.at # "none")
    BY <1>1 DEF NoneEnters
  <1>2. CASE life = Free /\ life' = AnOp /\ UNCHANGED pc
    BY <1>0, <1>2
  <1>3. CASE op.at # "none" /\ life' = Free /\ op'.at = "none" /\ NoneEnters
    BY <1>0, <1>3 DEF NoneEnters
  <1>4. ASSUME NEW r \in Runs, life = Free, life' = r, UNCHANGED op,
               pc' = [pc EXCEPT ![r] = "inspect"]
        PROVE  Locked'
    BY <1>0, <1>4
  <1>5. ASSUME NEW r \in Runs, life = r \/ pc[r] \in Startup, life' = Free, UNCHANGED op,
               NEW step \in Steps \ Startup, pc' = [pc EXCEPT ![r] = step]
        PROVE  Locked'
    <2>1. life = r BY <1>5
    <2>2. op'.at = "none" BY <1>0, <1>5, <2>1
    <2>3. \A s \in Runs : pc'[s] \notin Startup BY <1>0, <1>5, <2>1
    <2> QED BY <2>2, <2>3
  <1> QED BY <1>1, <1>2, <1>3, <1>4, <1>5 DEF LockStep

LEMMA NextLock == ASSUME TypeOK, Next PROVE LockStep
  <1>0. pc \in [Runs -> Steps] BY DEF TypeOK
  <1> USE DEF LockStep, NoneEnters
  <1>1. ASSUME NEW r \in Runs, Run(r) PROVE LockStep
    <2> USE DEF Goto, ui, engine
    <2>1. CASE Begin(r) BY <2>1 DEF Begin
    <2>2. CASE \/ Reject(r) \/ StopExisting(r) \/ Settle(r) \/ Launch(r) \/ Fallback(r)
               \/ RelaunchDirect(r) \/ ContextDone(r) \/ RiotSeenGone(r)
               \/ CloseCancelledClient(r) \/ CleanupSettle(r) \/ CleanupReset(r)
      BY <1>0, <2>2 DEF Reject, StopExisting, Settle, Launch, Fallback, RelaunchDirect,
         ContextDone, RiotSeenGone, CloseCancelledClient, CleanupSettle, CleanupReset,
         Fail, Startup
    <2>3. CASE Inspect(r)
      BY <1>0, <2>3 DEF Inspect, Unlock, Fail, Startup, Steps
    <2>4. CASE PrepareLogin(r) \/ RestoreLogin(r)
      BY <1>0, <2>4 DEF PrepareLogin, RestoreLogin, Unlock, Startup, Steps
    <2>5. CASE CleanupIdle(r)
      BY <1>0, <2>5 DEF CleanupIdle, Startup, Steps
    <2> QED BY <1>1, <2>1, <2>2, <2>3, <2>4, <2>5 DEF Run
  <1>2. CASE Operate
    <2>1. CASE OpAnnounce \/ OpClose \/ OpCancel \/ OpWait
      BY <2>1 DEF OpAnnounce, OpClose, OpCancel, OpWait, OpAt, engine, runs
    <2>2. CASE OpCloseFails \/ StopSettles \/ SaveCaptured \/ SaveRefused
      BY <2>2 DEF OpCloseFails, StopSettles, SaveCaptured, SaveRefused, EndOp, NoOp, runs
    <2>3. ASSUME NEW r \in Runs, SwitchSettles(r) PROVE LockStep
      BY <1>0, <2>3 DEF SwitchSettles, Spawn, EndOp, NoOp, Startup
    <2> QED BY <1>2, <2>1, <2>2, <2>3 DEF Operate
  <1>3. CASE Outside
    <2>1. CASE Stop \/ CaptureSavedLogin \/ \E p \in Profiles : SwitchLaunchProfile(p)
      BY <2>1 DEF Stop, CaptureSavedLogin, SwitchLaunchProfile, BeginOp, runs
    <2>2. CASE OpTimesOut BY <2>2 DEF OpTimesOut, EndOp, NoOp, runs
    <2>3. CASE \/ ForgetSavedLogin \/ SelectLaunchProfile \/ SwitchVerified
               \/ PlayerOpensRiot \/ RiotWritesLogin \/ PlayerClosesRiot
               \/ \E p \in Profiles : SelectIdle(p) \/ PlayerSignsIn(p) \/ SaveExpires(p)
      BY <2>3 DEF ForgetSavedLogin, SelectLaunchProfile, SwitchVerified, PlayerOpensRiot,
         RiotWritesLogin, PlayerClosesRiot, SelectIdle, PlayerSignsIn, SaveExpires,
         engine, runs, ui
    <2>4. ASSUME NEW r \in Runs,
                 \/ StartEngine(r) \/ ChatConnectedOrExited(r) \/ HandshakeFails(r)
                 \/ ProcessExited(r) \/ ProxyDies(r) \/ MonitorFails(r)
          PROVE  LockStep
      BY <1>0, <2>4 DEF StartEngine, Spawn, ChatConnectedOrExited, HandshakeFails,
         ProcessExited, ProxyDies, MonitorFails, Goto, Startup, engine, ui
    <2> QED BY <1>3, <2>1, <2>2, <2>3, <2>4 DEF Outside
  <1> QED BY <1>1, <1>2, <1>3 DEF Next

-----------------------------------------------------------------------------
(* What a step does to Riot's files, as far as the saves are concerned.    *)

(* Riot and its files stay; a run that comes to be due is settled.         *)
KeepsFiles ==
  /\ UNCHANGED <<riot, disk>>
  /\ \A r \in Runs : Due(r)' => Due(r) \/ saved' = Refreshed(prof[r])

(* Riot goes away under a run that goes on.                                *)
GoesDown ==
  /\ RiotGoesDown /\ UNCHANGED saved
  /\ \A r \in Runs : pc'[r] \in Over \cup {"restore"} => pc'[r] = pc[r]

(* Riot is open after the step, and only an open one writes.               *)
StaysUp ==
  /\ riot'.up
  /\ (riot.up /\ riot' = riot) \/ (riot'.seenBy = NoRun /\ UNCHANGED disk)

(* A run's login is prepared: no files, or those of its profile's save.    *)
Replaces ==
  /\ UNCHANGED <<riot, saved>>
  /\ \/ disk' = NoFiles
     \/ \E r \in Runs : pc[r] = "restore" /\ Usable(prof[r]) /\ disk' = saved[prof[r]].files

FilesStep == KeepsFiles \/ GoesDown \/ StaysUp \/ Replaces

(* A run that moves on without being over or about to restore.             *)
LEMMA MovesKeepFiles ==
  ASSUME TypeOK, UNCHANGED <<riot, disk>>, NEW r \in Runs,
         NEW step \in Steps \ (Over \cup {"restore"}), pc' = [pc EXCEPT ![r] = step]
  PROVE  KeepsFiles
  BY DEF TypeOK, KeepsFiles, Due

LEMMA StaysKeepFiles ==
  ASSUME UNCHANGED <<riot, disk, pc>>
  PROVE  KeepsFiles
  BY DEF KeepsFiles, Due

(* A close that succeeds.                                                  *)
LEMMA ClosedFiles ==
  ASSUME TypeOK, Closed, UNCHANGED saved,
         \/ UNCHANGED pc
         \/ \E r \in Runs : \E step \in Steps \ (Over \cup {"restore"}) :
              pc' = [pc EXCEPT ![r] = step]
  PROVE  FilesStep
  <1>1. CASE RiotGoesDown
    <2>1. \A r \in Runs : pc'[r] \in Over \cup {"restore"} => pc'[r] = pc[r]
      BY DEF TypeOK
    <2> QED BY <1>1, <2>1 DEF GoesDown, FilesStep
  <1>2. CASE UNCHANGED client
    BY <1>2, MovesKeepFiles, StaysKeepFiles DEF client, FilesStep
  <1> QED BY <1>1, <1>2 DEF Closed

LEMMA RunFiles ==
  ASSUME SavesInv, NEW r \in Runs, Run(r)
  PROVE  FilesStep
  <1>0. TypeOK /\ pc \in [Runs -> Steps] /\ prof[r] \in Profiles \cup {NoProfile}
    BY DEF SavesInv, IndInv, TypeOK
  <1>1. ASSUME UNCHANGED <<riot, disk>>,
               NEW step \in Steps \ (Over \cup {"restore"}), pc' = [pc EXCEPT ![r] = step]
        PROVE  FilesStep
    BY <1>0, <1>1, MovesKeepFiles DEF FilesStep
  <1>2. CASE Begin(r) \/ Settle(r) \/ ContextDone(r) \/ RiotSeenGone(r)
    <2>1. /\ UNCHANGED <<riot, disk>>
          /\ \E step \in {"inspect", "login", "closeCancelled", "cleanup"} :
               pc' = [pc EXCEPT ![r] = step]
      BY <1>2 DEF Begin, Settle, ContextDone, RiotSeenGone, Goto, client
    <2> QED BY <2>1, <1>1 DEF Steps, Over
  <1>3. CASE Inspect(r)
    <2>1. /\ UNCHANGED <<riot, disk>>
          /\ \E step \in {"login", "close", "attached", "launch", "cleanup"} :
               pc' = [pc EXCEPT ![r] = step]
      BY <1>3 DEF Inspect, Goto, Unlock, Fail, client
    <2> QED BY <2>1, <1>1 DEF Steps, Over
  <1>4. CASE StopExisting(r) \/ Fallback(r) \/ CloseCancelledClient(r)
    <2>1. /\ UNCHANGED saved /\ (Closed \/ UNCHANGED client)
          /\ \E step \in {"settle", "launchDirect", "cleanup"} : pc' = [pc EXCEPT ![r] = step]
      BY <1>4 DEF StopExisting, Fallback, CloseCancelledClient, Goto, Fail
    <2>2. {"settle", "launchDirect", "cleanup"} \subseteq Steps \ (Over \cup {"restore"})
      BY DEF Steps, Over
    <2>3. CASE Closed BY <1>0, <2>1, <2>2, <2>3, ClosedFiles
    <2>4. CASE UNCHANGED client BY <2>1, <2>2, <2>4, <1>1 DEF client
    <2> QED BY <2>1, <2>3, <2>4
  <1>5. CASE PrepareLogin(r)
    <2>1. UNCHANGED riot BY <1>5 DEF PrepareLogin
    <2>2. CASE disk' = NoFiles /\ UNCHANGED saved BY <2>1, <2>2 DEF Replaces, FilesStep
    <2>3. CASE saved' = Refreshed(prof[r]) /\ pc' = [pc EXCEPT ![r] = "restore"] /\ disk' = disk
      <3>1. \A s \in Runs : s # r => pc'[s] = pc[s] BY <1>0, <2>3
      <3>2. \A s \in Runs : Due(s)' => Due(s) \/ saved' = Refreshed(prof[s])
        BY <2>1, <2>3, <3>1 DEF Due
      <3> QED BY <2>1, <2>3, <3>2 DEF KeepsFiles, FilesStep
    <2>4. CASE pc' = [pc EXCEPT ![r] = "launch"] /\ disk' = disk
      BY <2>1, <2>4, <1>1 DEF Steps, Over
    <2> QED BY <1>5, <2>2, <2>3, <2>4 DEF PrepareLogin, Goto, Unlock
  <1>6. CASE RestoreLogin(r)
    BY <1>6 DEF RestoreLogin, Replaces, FilesStep
  <1>7. CASE Launch(r) \/ RelaunchDirect(r)
    <2>1. /\ UNCHANGED disk
          /\ \E step \in {"proxied", "direct", "cleanup"} : pc' = [pc EXCEPT ![r] = step]
      BY <1>7 DEF Launch, RelaunchDirect, Goto, Fail
    <2>2. UNCHANGED riot \/ RiotComesUp(r)
      BY <1>7 DEF Launch, LaunchClient, RelaunchDirect
    <2>3. CASE UNCHANGED riot BY <2>1, <2>3, <1>1 DEF Steps, Over
    <2>4. CASE RiotComesUp(r) BY <2>1, <2>4 DEF RiotComesUp, StaysUp, FilesStep
    <2> QED BY <2>2, <2>3, <2>4
  <1>8. CASE CleanupSettle(r)
    <2>1. /\ UNCHANGED <<riot, disk>> /\ saved' = Refreshed(prof[r])
          /\ pc' = [pc EXCEPT ![r] = "reset"]
      BY <1>8 DEF CleanupSettle, Goto, client
    <2>2. \A s \in Runs : s # r => pc'[s] = pc[s] BY <1>0, <2>1
    <2>3. \A s \in Runs : Due(s)' => Due(s) \/ saved' = Refreshed(prof[s])
      BY <2>1, <2>2 DEF Due
    <2> QED BY <2>1, <2>3 DEF KeepsFiles, FilesStep
  <1>9. CASE Reject(r) \/ CleanupReset(r) \/ CleanupIdle(r)
    <2>1. /\ UNCHANGED <<riot, disk>>
          /\ \E step \in {"idle", "done"} : pc' = [pc EXCEPT ![r] = step]
          /\ pc[r] \in Over \cup {"pending"}
      BY <1>9 DEF Reject, CleanupReset, CleanupIdle, Goto, client, Over
    <2>2. pc[r] = "pending" => riot.seenBy # r
      BY DEF SavesInv, Witnessed, Unstarted, Runs, NoRun
    <2>3. \A s \in Runs : s # r => pc'[s] = pc[s] BY <1>0, <2>1
    <2>4. pc'[r] \in Over /\ pc'[r] # "restore" BY <1>0, <2>1 DEF Over
    <2>5. \A s \in Runs : Due(s)' => Due(s)
      BY <2>1, <2>2, <2>3, <2>4 DEF Due
    <2> QED BY <2>1, <2>5 DEF KeepsFiles, FilesStep
  <1> QED
    BY <1>2, <1>3, <1>4, <1>5, <1>6, <1>7, <1>8, <1>9 DEF Run

LEMMA NextFiles ==
  ASSUME SavesInv, Next
  PROVE  FilesStep
  <1>0. TypeOK /\ pc \in [Runs -> Steps]
    BY DEF SavesInv, IndInv, TypeOK
  <1>1. ASSUME NEW r \in Runs, Run(r) PROVE FilesStep
    BY <1>1, RunFiles
  <1>2. ASSUME UNCHANGED <<riot, disk, pc>> PROVE FilesStep
    BY <1>2, StaysKeepFiles DEF FilesStep
  <1>3. ASSUME UNCHANGED <<riot, disk>>, NEW r \in Runs,
               NEW step \in Steps \ (Over \cup {"restore"}), pc' = [pc EXCEPT ![r] = step]
        PROVE  FilesStep
    BY <1>0, <1>3, MovesKeepFiles DEF FilesStep
  <1>4. CASE Operate
    <2>1. CASE \/ OpAnnounce \/ OpCloseFails \/ OpCancel \/ OpWait \/ StopSettles
               \/ SaveCaptured \/ SaveRefused
      BY <2>1, <1>2 DEF OpAnnounce, OpCloseFails, OpCancel, OpWait, StopSettles,
         SaveCaptured, SaveRefused, runs, client
    <2>2. CASE OpClose
      BY <1>0, <2>2, ClosedFiles DEF OpClose, runs
    <2>3. ASSUME NEW r \in Runs, SwitchSettles(r) PROVE FilesStep
      BY <2>3, <1>3 DEF SwitchSettles, Spawn, client, Steps, Over
    <2> QED BY <1>4, <2>1, <2>2, <2>3 DEF Operate
  <1>5. CASE Outside
    <2>1. CASE \/ Stop \/ CaptureSavedLogin \/ ForgetSavedLogin \/ SelectLaunchProfile
               \/ SwitchVerified \/ OpTimesOut
               \/ \E r \in Runs : ProxyDies(r)
               \/ \E p \in Profiles : \/ SelectIdle(p) \/ SwitchLaunchProfile(p)
                                      \/ PlayerSignsIn(p) \/ SaveExpires(p)
      BY <2>1, <1>2 DEF Stop, CaptureSavedLogin, ForgetSavedLogin, SelectLaunchProfile,
         SwitchVerified, OpTimesOut, ProxyDies, SelectIdle, SwitchLaunchProfile,
         PlayerSignsIn, SaveExpires, runs, client
    <2>2. ASSUME NEW r \in Runs,
                 \/ StartEngine(r) \/ ChatConnectedOrExited(r) \/ HandshakeFails(r)
                 \/ ProcessExited(r) \/ MonitorFails(r)
          PROVE  FilesStep
      <3>1. /\ UNCHANGED <<riot, disk>>
            /\ \E step \in {"pending", "watch", "fallback", "cleanup"} :
                 pc' = [pc EXCEPT ![r] = step]
        BY <2>2 DEF StartEngine, Spawn, ChatConnectedOrExited, HandshakeFails,
           ProcessExited, MonitorFails, Goto, client
      <3> QED BY <3>1, <1>3 DEF Steps, Over
    <2>3. CASE PlayerOpensRiot
      BY <2>3 DEF PlayerOpensRiot, RiotComesUp, StaysUp, FilesStep
    <2>4. CASE RiotWritesLogin
      BY <2>4 DEF RiotWritesLogin, StaysUp, FilesStep
    <2>5. CASE PlayerClosesRiot
      BY <2>5 DEF PlayerClosesRiot, GoesDown, FilesStep, runs
    <2> QED BY <1>5, <2>1, <2>2, <2>3, <2>4, <2>5 DEF Outside
  <1> QED BY <1>1, <1>4, <1>5 DEF Next

-----------------------------------------------------------------------------
(* The steps keep the strengthening.                                       *)

(* A settled save stays settled while the files stay.                      *)
LEMMA StaysSettled ==
  ASSUME TypeOK, SavedStep, UNCHANGED disk, NEW p \in Profiles, Settled(p)
  PROVE  Settled(p)'
  <1>0. saved \in [Profiles -> [files : Files, expired : BOOLEAN]] BY DEF TypeOK
  <1> USE DEF Settled, Usable
  <1>1. CASE UNCHANGED saved BY <1>1
  <1>2. ASSUME NEW q \in Profiles, saved' = Refreshed(q) PROVE Settled(p)'
    BY <1>0, <1>2 DEF Refreshed
  <1>3. ASSUME NEW q \in Profiles, saved' = [saved EXCEPT ![q].expired = TRUE]
        PROVE  Settled(p)'
    BY <1>0, <1>3
  <1>4. ASSUME NEW q \in Profiles,
               \/ saved' = [saved EXCEPT ![q] = [files |-> disk, expired |-> FALSE]]
               \/ saved' = [saved EXCEPT ![q].files = disk]
        PROVE  Settled(p)'
    BY <1>0, <1>4
  <1>5. ASSUME NEW q \in Profiles,
               saved' = [saved EXCEPT ![q] = [files |-> NoFiles, expired |-> FALSE]]
        PROVE  Settled(p)'
    BY <1>0, <1>5
  <1> QED BY <1>1, <1>2, <1>3, <1>4, <1>5 DEF SavedStep

(* refreshStoppedProfile settles the save while Riot is down.              *)
LEMMA RefreshSettles ==
  ASSUME TypeOK, ~riot.up, UNCHANGED disk, NEW p \in Profiles, saved' = Refreshed(p)
  PROVE  Settled(p)'
  <1>0. saved \in [Profiles -> [files : Files, expired : BOOLEAN]] BY DEF TypeOK
  <1>1. CASE Usable(p) /\ disk.owner = p
    <2>1. saved' = [saved EXCEPT ![p].files = disk] BY <1>1 DEF Refreshed
    <2>2. saved'[p].files = disk BY <1>0, <2>1
    <2> QED BY <2>2 DEF Settled
  <1>2. CASE ~(Usable(p) /\ disk.owner = p)
    BY <1>2 DEF Refreshed, Settled, Usable
  <1> QED BY <1>1, <1>2

(* A run that is due has the profile it started with, which is one.        *)
LEMMA RunsKeepProfile ==
  ASSUME TypeOK, RunsStep, NEW r \in Runs, pc[r] \notin Unstarted
  PROVE  prof'[r] = prof[r]
  <1>0. pc \in [Runs -> Steps] /\ prof \in [Runs -> Profiles \cup {NoProfile}] BY DEF TypeOK
  <1>1. CASE UNCHANGED prof BY <1>1
  <1>2. ASSUME NEW s \in Runs, Leaves(s, {"pending"}, {"inspect"}),
               prof' = [prof EXCEPT ![s] = active]
        PROVE  prof'[r] = prof[r]
    BY <1>0, <1>2 DEF Leaves, Unstarted
  <1> QED BY <1>1, <1>2 DEF RunsStep, Spawn

LEMMA ObserverRuns ==
  Observer # NoRun => Observer \in Runs /\ Observing(Observer)
  BY DEF Observer

LEMMA ObservingKnown ==
  ASSUME IndInv, NEW r \in Runs, Observing(r)
  PROVE  pc[r] \notin Unstarted /\ prof[r] \in Profiles
  BY DEF IndInv, Known, Observing, Unstarted

LEMMA WitnessedInv ==
  ASSUME SavesInv, RunsStep, FilesStep
  PROVE  Witnessed'
  <1>0. /\ TypeOK /\ IndInv
        /\ riot \in [up : BOOLEAN, by : Runs \cup {NoRun}, seenBy : Runs \cup {NoRun}]
    BY DEF SavesInv, IndInv, TypeOK
  <1>1. ASSUME NEW r \in Runs, pc[r] \notin Unstarted, prof[r] \in Profiles
        PROVE  pc'[r] \notin Unstarted /\ prof'[r] \in Profiles
    BY <1>0, <1>1, RunsInv, RunsKeepProfile
  <1>2. CASE riot'.seenBy = riot.seenBy
    BY <1>0, <1>1, <1>2 DEF SavesInv, Witnessed
  <1>3. CASE riot'.seenBy = NoRun BY <1>3 DEF Witnessed
  <1>4. CASE RiotGoesDown
    <2>1. riot'.seenBy = Observer BY <1>0, <1>4 DEF RiotGoesDown
    <2>2. CASE Observer = NoRun BY <2>1, <2>2 DEF Witnessed
    <2>3. CASE Observer # NoRun
      BY <1>0, <1>1, <2>1, <2>3, ObserverRuns, ObservingKnown DEF Witnessed
    <2> QED BY <2>2, <2>3
  <1> QED
    BY <1>2, <1>3, <1>4 DEF FilesStep, KeepsFiles, GoesDown, StaysUp, Replaces

LEMMA AllSettledInv ==
  ASSUME SavesInv, RunsStep, SavedStep, FilesStep
  PROVE  AllSettled'
  <1>0. /\ TypeOK /\ IndInv /\ pc \in [Runs -> Steps]
        /\ riot \in [up : BOOLEAN, by : Runs \cup {NoRun}, seenBy : Runs \cup {NoRun}]
        /\ saved \in [Profiles -> [files : Files, expired : BOOLEAN]]
    BY DEF SavesInv, IndInv, TypeOK
  <1> SUFFICES ASSUME NEW r \in Runs, ~riot'.up, Due(r)'
               PROVE  Settled(prof[r])'
    BY DEF AllSettled
  <1>1. pc[r] \notin Unstarted /\ prof[r] \in Profiles
        => prof'[r] = prof[r]
    BY <1>0, RunsKeepProfile
  <1>2. CASE KeepsFiles
    <2>1. riot' = riot /\ disk' = disk BY <1>2 DEF KeepsFiles
    <2>2. Due(r) \/ saved' = Refreshed(prof[r]) BY <1>2 DEF KeepsFiles
    <2>3. prof'[r] \in Profiles /\ prof'[r] = prof[r]
      <3>1. CASE riot'.seenBy = r
        BY <1>0, <1>1, <2>1, <3>1 DEF SavesInv, Witnessed, Runs, NoRun
      <3>2. CASE pc'[r] = "restore"
        <4>1. prof'[r] \in Profiles BY <1>0, <3>2, RunsInv DEF Unstarted
        <4>2. pc[r] \notin Unstarted
          BY <1>0, <3>2 DEF RunsStep, Leaves, Spawn, Unstarted, Owning
        <4> QED BY <1>0, <4>1, <4>2, RunsKeepProfile
      <3> QED BY <3>1, <3>2 DEF Due
    <2>4. CASE saved' = Refreshed(prof[r])
      <3>1. prof[r] \in Profiles /\ ~riot.up BY <2>1, <2>3
      <3> QED BY <1>0, <2>1, <2>3, <2>4, <3>1, RefreshSettles DEF Settled, Usable
    <2>5. CASE Due(r)
      <3>1. Settled(prof[r]) BY <2>1, <2>5 DEF SavesInv, AllSettled
      <3> QED BY <1>0, <2>1, <2>3, <3>1, StaysSettled DEF Settled, Usable
    <2> QED BY <2>2, <2>4, <2>5
  <1>3. CASE GoesDown
    <2>1. riot'.seenBy = Observer BY <1>0, <1>3 DEF GoesDown, RiotGoesDown
    <2>2. pc'[r] = pc[r] /\ pc[r] \in Over \cup {"restore"}
      BY <1>3 DEF GoesDown, Due
    <2>3. CASE pc[r] \in Over
      <3>1. Observer = r BY <2>1, <2>2, <2>3 DEF Due, Over
      <3>2. Observing(r) BY <3>1, ObserverRuns DEF Runs, NoRun
      <3> QED BY <2>3, <3>2 DEF Observing, Over
    <2>4. CASE pc[r] = "restore"
      <3>1. Observer # r BY <2>1, <2>2, <2>4 DEF Due, Over
      <3>2. Observing(r) BY <2>4 DEF Observing
      <3>3. Observer \in Runs /\ Observing(Observer) BY <3>2 DEF Observer
      <3>4. Observer = r BY <1>0, <3>2, <3>3 DEF IndInv, OneRunAtATime, Owns
      <3> QED BY <3>1, <3>4
    <2> QED BY <2>2, <2>3, <2>4
  <1>4. CASE StaysUp BY <1>4 DEF StaysUp
  <1>5. CASE Replaces
    <2>1. prof'[r] \in Profiles
      <3>1. CASE riot'.seenBy = r
        BY <1>0, <1>1, <1>5, <3>1 DEF Replaces, SavesInv, Witnessed, Runs, NoRun
      <3>2. CASE pc'[r] = "restore" BY <1>0, <3>2, RunsInv DEF Unstarted
      <3> QED BY <3>1, <3>2 DEF Due
    <2>2. CASE disk' = NoFiles BY <2>1, <2>2 DEF Settled, NoFiles
    <2>3. ASSUME NEW s \in Runs, pc[s] = "restore", Usable(prof[s]),
                 disk' = saved[prof[s]].files
          PROVE  Settled(prof[r])'
      <3>1. prof[s] \in Profiles BY <1>0, <2>3 DEF IndInv, Known, Unstarted
      <3>2. disk'.owner = prof[s]
        BY <1>0, <2>3, <3>1 DEF IndInv, SavesOwnAccount, Usable
      <3> QED BY <1>5, <2>3, <3>2 DEF Settled, Replaces
    <2> QED BY <1>5, <2>2, <2>3 DEF Replaces
  <1> QED BY <1>2, <1>3, <1>4, <1>5 DEF FilesStep

LEMMA NextSavesInv == SavesInv /\ [Next]_vars => SavesInv'
  <1>1. ASSUME SavesInv, Next PROVE SavesInv'
    <2>1. IndInv /\ TypeOK /\ Locked BY <1>1 DEF SavesInv, IndInv
    <2>2. IndInv' BY <1>1, <2>1, NextIndInv
    <2>3. RunsStep /\ SavedStep /\ FilesStep
      BY <1>1, <2>1, NextProjects, NextSaved, NextFiles
    <2>4. Locked' BY <1>1, <2>1, NextLock, LockedInv
    <2>5. Witnessed' /\ AllSettled' BY <1>1, <2>3, WitnessedInv, AllSettledInv
    <2> QED BY <2>2, <2>4, <2>5 DEF SavesInv
  <1>2. ASSUME SavesInv, UNCHANGED vars PROVE SavesInv'
    <2>1. IndInv' BY <1>2, NextIndInv DEF SavesInv
    <2> QED
      BY <1>2, <2>1 DEF SavesInv, AllSettled, Due, Settled, Usable, Witnessed, Locked,
         vars, engine, runs, ui, client
  <1> QED BY <1>1, <1>2

-----------------------------------------------------------------------------
(* What Riot wrote up to its end under a run is in the profile's save once *)
(* the run is over, also when another profile was selected meanwhile       *)
(* (refreshStoppedProfile in Run's deferred cleanup, and in Stop).         *)
THEOREM KeepsFinalWrite == Spec => []FinalWriteKept
  <1>1. SavesInv => FinalWriteKept
    BY DEF SavesInv, AllSettled, Due, Over, Settled, FinalWriteKept
  <1> QED BY <1>1, InitSavesInv, NextSavesInv, PTL DEF Spec

(* An account's files are replaced by older ones only when Riot was opened *)
(* after the run that restores them had looked for it (prepareLogin        *)
(* settles the save before it restores).                                   *)
THEOREM RollsBackOnlyInterfered == Spec => RollbackNeedsInterference
  <1>1. ASSUME SavesInv, Next, RollsBack, ~riot.up
        PROVE  riot.seenBy = life
    <2>0. IndInv /\ FilesStep BY <1>1, NextFiles DEF SavesInv
    <2>1. disk'.owner = disk.owner /\ disk'.ver < disk.ver /\ disk' # NoFiles /\ disk' # disk
      <3>1. disk.ver \in Nat BY <2>0 DEF IndInv, TypeOK, Files
      <3> QED BY <1>1, <3>1 DEF RollsBack
    <2>2. Replaces
      BY <1>1, <2>0, <2>1 DEF FilesStep, KeepsFiles, GoesDown, RiotGoesDown, StaysUp
    <2>3. PICK r \in Runs : /\ pc[r] = "restore" /\ Usable(prof[r])
                            /\ disk' = saved[prof[r]].files
      BY <2>1, <2>2 DEF Replaces
    <2>4. prof[r] \in Profiles BY <2>0, <2>3 DEF IndInv, Known, Unstarted
    <2>5. disk.owner = prof[r]
      BY <2>0, <2>1, <2>3, <2>4 DEF IndInv, SavesOwnAccount, Usable
    <2>6. ~Settled(prof[r]) BY <2>1, <2>3, <2>5 DEF Settled
    <2>7. riot.seenBy = r BY <1>1, <2>3, <2>6 DEF SavesInv, AllSettled, Due
    <2>8. life = r BY <1>1, <2>3 DEF SavesInv, Locked, Startup
    <2> QED BY <2>7, <2>8
  <1>2. SavesInv /\ [Next]_vars => [RollsBack => riot.up \/ riot.seenBy = life]_vars
    BY <1>1
  <1> QED BY <1>2, InitSavesInv, NextSavesInv, PTL DEF Spec, RollbackNeedsInterference

=============================================================================
