----------------------------- MODULE SessionVault -----------------------------
(***************************************************************************)
(* internal/sessionvault: Riot's remembered login lies in several files,   *)
(* and the vault copies them, one at a time, into a profile's encrypted    *)
(* save and back, while Riot may run and RiftOps may stop or fail to write *)
(* at any step.  The engine calls it from the goroutine that holds         *)
(* lifecycleMu ("main") and from the cleanup of a run that does not        *)
(* ("cleanup"); a profile is deleted without it, too.                      *)
(*                                                                         *)
(* The files are grouped by what the order of work tells apart:            *)
(*   private   Data/RiotGamesPrivateSettings.yaml, the one that names its  *)
(*             account and holds the authorization                         *)
(*   cookies   what is written before it: Config, Data/Cookies, and        *)
(*             Data/RiotClientPrivateSettings.yaml                         *)
(*   sessions  what is written after it: Data/Sessions                     *)
(* A profile is named as the account its Riot ID belongs to.  Left out:    *)
(* saves of format 1, encryption, limits of size, links and unstable files *)
(* (readStableFile gives up as a failing read does), the .backup files,    *)
(* temporary files, and that a restore looks at the status once more just  *)
(* before it takes the lock.                                               *)
(***************************************************************************)
EXTENDS Naturals, Sequences

CONSTANTS
  Accounts,  \* Riot accounts
  Profiles,  \* those that have a launch profile
  Nobody,    \* no account
  MaxFaults  \* bound on crashes and failing writes

ASSUME ConstantsAssumption ==
  /\ Nobody \notin Accounts /\ Profiles \subseteq Accounts
  /\ MaxFaults \in Nat

Owners  == Accounts \cup {Nobody}
Files   == [private : Owners, auth : BOOLEAN, cookies : Owners, sessions : Owners]
Threads == {"main", "cleanup"}

(* The files of an account that is signed in, and of none.                 *)
Login(p, auth) == [private |-> p, auth |-> auth, cookies |-> p, sessions |-> p]
NoFiles        == Login(Nobody, FALSE)
TrustOnly(p)   == [NoFiles EXCEPT !.private = p]

(* sessionPaths, in which files are read and removed, and the sorted keys, *)
(* in which they are written.                                              *)
SessionPaths == <<"private", "cookies", "sessions">>
SortedKeys   == <<"cookies", "private", "sessions">>

(* The files to, with one of them as it is in from.                        *)
Copy(to, from, part) ==
  IF part = "private" THEN [to EXCEPT !.private = from.private, !.auth = from.auth]
  ELSE IF part = "cookies" THEN [to EXCEPT !.cookies = from.cookies]
  ELSE [to EXCEPT !.sessions = from.sessions]

Held(f, part) ==
  IF part = "private" THEN f.private ELSE IF part = "cookies" THEN f.cookies ELSE f.sessions

Kinds == {"none", "capture", "closedCapture", "refresh", "settle", "restore", "fresh"}
Captures == {"capture", "closedCapture"}
Steps == {"idle", "lock", "read", "check", "store", "load", "clear", "write"}
Calls == [kind : Kinds, of : Owners, at : Steps, n : 1 .. 3, got : Files, foreign : BOOLEAN]
Idle  == [kind |-> "none", of |-> Nobody, at |-> "idle", n |-> 1, got |-> NoFiles,
          foreign |-> FALSE]

VARIABLES
  riot,    \* the Riot Client: up, and who is signed in to it
  disk,    \* its remembered-login files
  saved,   \* profile -> its encrypted save; NoFiles when there is none
  mu,      \* holder of Vault.mu, or "free"
  op,      \* thread -> the call it is in, and how far
  faults,  \* crashes and failing writes so far
  cut,     \* a write ended between the file that names its account and the
           \* last one, and nothing has mended the files since
  crossed  \* Riot wrote into a restore or a read, see Crosses

vars == <<riot, disk, saved, mu, op, faults, cut, crossed>>

(* A save may be missing, or be an older one without an authorization.     *)
Init ==
  /\ riot = [up |-> FALSE, account |-> Nobody]
  /\ \E a \in Owners : disk = Login(a, a # Nobody)
  /\ saved \in [Profiles -> [files : Files, expired : {FALSE}]]
  /\ \A p \in Profiles : saved[p].files \in {NoFiles, Login(p, TRUE), Login(p, FALSE)}
  /\ mu = "free" /\ op = [t \in Threads |-> Idle]
  /\ faults = 0 /\ cut = FALSE /\ crossed = FALSE

------------------------------------------------------------------------------
(* What the files say.                                                     *)

DiskPUUID(f) == IF f.auth THEN f.private ELSE Nobody
RememberedLoginReady(f, p) == DiskPUUID(f) = p

Stored(p) == saved[p].files # NoFiles
(* Status, and LoginStatus, answer without error.                          *)
Status(p)      == Stored(p) /\ ~saved[p].expired
LoginStatus(p) == Status(p) /\ RememberedLoginReady(saved[p].files, p)

------------------------------------------------------------------------------
(* The calls.  An operation that ends leaves its thread and the lock.      *)

Leave(t)  == op' = [op EXCEPT ![t] = Idle] /\ mu' = "free"
Goto(t, step) == op' = [op EXCEPT ![t].at = step, ![t].n = 1]
Fault     == faults < MaxFaults /\ faults' = faults + 1

(* A restore goes on after the refresh before it, and when that had nothing *)
(* to adopt.                                                               *)
AfterRefresh(t) ==
  IF op[t].kind = "restore" THEN Goto(t, "load") ELSE op' = [op EXCEPT ![t] = Idle]

(* captureSavedLogin, RefreshSavedLogin: the account is signed in to Riot; *)
(* refreshStoppedProfile, prepareLogin and the capture after closeRiot:    *)
(* Riot is down.  A cleanup only refreshes.                                *)
Begin(t, kind, p) ==
  /\ op[t].at = "idle"
  /\ t = "cleanup" => kind = "settle"
  /\ IF kind \in {"capture", "refresh"} THEN riot.account = p ELSE ~riot.up
  /\ kind = "refresh" => LoginStatus(p)
  /\ op' = [op EXCEPT ![t] = [Idle EXCEPT !.kind = kind, !.of = p,
                                !.at = IF kind = "fresh" THEN "load" ELSE "lock"]]
  /\ UNCHANGED <<riot, disk, saved, mu, faults, cut, crossed>>

(* refreshStoppedProfile leaves a running Riot alone.                      *)
SeesRiot(t) ==
  /\ op[t].at = "lock" /\ op[t].kind \in {"settle", "restore"} /\ riot.up
  /\ AfterRefresh(t)
  /\ UNCHANGED <<riot, disk, saved, mu, faults, cut, crossed>>

(* Faulty Lock: the status was read before the lock.                       *)
LockUnchecked(t) ==
  /\ op[t].at = "lock" /\ mu = "free"
  /\ Goto(t, "read") /\ mu' = t
  /\ UNCHANGED <<riot, disk, saved, faults, cut, crossed>>

(* The lock, and for a refresh the status of the save under it.            *)
Lock(t) ==
  /\ op[t].at = "lock" /\ mu = "free"
  /\ IF op[t].kind \in Captures \/ Status(op[t].of)
       THEN Goto(t, "read") /\ mu' = t
       ELSE AfterRefresh(t) /\ UNCHANGED mu
  /\ UNCHANGED <<riot, disk, saved, faults, cut, crossed>>

(* Faulty CaptureFile: one path too many.                                  *)
CaptureFileOn(t) ==
  /\ op[t].at = "read"
  /\ op' = IF op[t].n <= Len(SessionPaths)
             THEN [op EXCEPT ![t].got = Copy(@, disk, SessionPaths[op[t].n]), ![t].n = @ + 1]
             ELSE [op EXCEPT ![t].n = 1, ![t].at = "check"]
  /\ UNCHANGED <<riot, disk, saved, mu, faults, cut, crossed>>

(* captureFiles, one of the paths.                                         *)
CaptureFile(t) ==
  /\ op[t].at = "read"
  /\ LET got == Copy(op[t].got, disk, SessionPaths[op[t].n])
     IN op' = IF op[t].n < Len(SessionPaths)
                THEN [op EXCEPT ![t].got = got, ![t].n = @ + 1]
                ELSE [op EXCEPT ![t].got = got, ![t].n = 1, ![t].at = "check"]
  /\ UNCHANGED <<riot, disk, saved, mu, faults, cut, crossed>>

(* Faulty Verified: what was true when the call began.                     *)
VerifiedBefore(t) == op[t].kind # "none"

(* verify: the live account again; after closeRiot nothing is asked.       *)
Verified(t) == op[t].kind = "closedCapture" \/ riot.account = op[t].of

(* The checks of captureVerified and of RefreshSettled.  No file at all is *)
(* an error that also ends a restore.                                      *)
Check(t) ==
  /\ op[t].at = "check"
  /\ \/ op[t].got = NoFiles /\ Leave(t)
     \/ /\ op[t].got # NoFiles
        /\ op[t].kind \in {"settle", "restore"}
        /\ IF RememberedLoginReady(op[t].got, op[t].of)
             THEN Goto(t, "store") /\ UNCHANGED mu ELSE AfterRefresh(t) /\ mu' = "free"
     \/ /\ op[t].got # NoFiles
        /\ op[t].kind \in Captures \cup {"refresh"}
        /\ IF Verified(t) /\ RememberedLoginReady(op[t].got, op[t].of)
             THEN Goto(t, "store") /\ UNCHANGED mu ELSE Leave(t)
  /\ UNCHANGED <<riot, disk, saved, faults, cut, crossed>>

(* storeCapture: the temporary file replaces the save as a whole.  Only a  *)
(* capture begins a new retention.                                         *)
StoreCapture(t) ==
  /\ op[t].at = "store"
  /\ saved' = [saved EXCEPT ![op[t].of] =
                 [files |-> op[t].got,
                  expired |-> @.expired /\ op[t].kind \notin Captures]]
  /\ AfterRefresh(t) /\ mu' = "free"
  /\ UNCHANGED <<riot, disk, faults, cut, crossed>>

(* Sealing or writing the save fails, and with it the launch.              *)
StoreFails(t) ==
  /\ op[t].at = "store"
  /\ Fault /\ Leave(t)
  /\ UNCHANGED <<riot, disk, saved, cut, crossed>>

(* PrepareFreshLogin knows the remembered device of p, from Riot's files   *)
(* or from the save.                                                       *)
KnowsDevice(p) ==
  Stored(p) /\ (DiskPUUID(disk) = p \/ (Status(p) /\ DiskPUUID(saved[p].files) = p))

(* prepareLogin decides what to write: the save, or for a fresh login the  *)
(* device's cookie, which may be missing or outdated.                      *)
Loadable(t) ==
  LET p == op[t].of
  IN IF op[t].kind = "restore" /\ LoginStatus(p) THEN {saved[p].files}
     ELSE {NoFiles} \cup IF KnowsDevice(p) THEN {TrustOnly(p)} ELSE {}

(* Restore, PrepareFreshLogin: load.                                       *)
Load(t) ==
  /\ op[t].at = "load" /\ mu = "free"
  /\ mu' = t
  /\ \E files \in Loadable(t) :
       op' = [op EXCEPT ![t].at = "clear", ![t].n = 1, ![t].got = files]
  /\ UNCHANGED <<riot, disk, saved, faults, cut, crossed>>

(* clearManagedSession, one of the paths.                                  *)
ClearFile(t) ==
  /\ op[t].at = "clear"
  /\ disk' = Copy(disk, NoFiles, SessionPaths[op[t].n])
  /\ IF op[t].n < Len(SessionPaths) THEN op' = [op EXCEPT ![t].n = @ + 1]
                                    ELSE Goto(t, "write")
  /\ UNCHANGED <<riot, saved, mu, faults, cut, crossed>>

(* Faulty WriteFile: forgets the last key.                                 *)
WriteFileShort(t) ==
  /\ op[t].at = "write"
  /\ LET part == SortedKeys[op[t].n]
     IN disk' = IF Held(op[t].got, part) = Nobody THEN disk ELSE Copy(disk, op[t].got, part)
  /\ IF op[t].n + 1 < Len(SortedKeys)
       THEN op' = [op EXCEPT ![t].n = @ + 1] /\ UNCHANGED <<mu, cut>>
       ELSE Leave(t) /\ cut' = FALSE
  /\ UNCHANGED <<riot, saved, faults, crossed>>

(* writePrivateFile of one of the keys.                                    *)
WriteFile(t) ==
  /\ op[t].at = "write"
  /\ LET part == SortedKeys[op[t].n]
     IN disk' = IF Held(op[t].got, part) = Nobody THEN disk ELSE Copy(disk, op[t].got, part)
  /\ IF op[t].n < Len(SortedKeys)
       THEN op' = [op EXCEPT ![t].n = @ + 1] /\ UNCHANGED <<mu, cut>>
       ELSE Leave(t) /\ cut' = FALSE
  /\ UNCHANGED <<riot, saved, faults, crossed>>

(* The file that names the account is written, and not all the others.     *)
Partway(t) == op[t].at = "write" /\ op[t].n = Len(SortedKeys)

(* A file cannot be read, removed or written: the rest is left as it is.   *)
FileFails(t) ==
  /\ op[t].at \in {"read", "clear", "write"}
  /\ Fault /\ Leave(t) /\ cut' = (cut \/ Partway(t))
  /\ UNCHANGED <<riot, disk, saved, crossed>>

(* Delete, for a deleted profile or ForgetSavedLogin.                      *)
Delete(p) ==
  /\ mu = "free" /\ Stored(p)
  /\ saved' = [saved EXCEPT ![p] = [files |-> NoFiles, expired |-> FALSE]]
  /\ UNCHANGED <<riot, disk, mu, op, faults, cut, crossed>>

Expire(p) ==
  /\ Status(p)
  /\ saved' = [saved EXCEPT ![p].expired = TRUE]
  /\ UNCHANGED <<riot, disk, mu, op, faults, cut, crossed>>

(* RiftOps stops: what it was doing, and the lock, are gone.               *)
Crash ==
  /\ \E t \in Threads : op[t].at # "idle"
  /\ Fault
  /\ op' = [t \in Threads |-> Idle] /\ mu' = "free"
  /\ cut' = (cut \/ \E t \in Threads : Partway(t))
  /\ UNCHANGED <<riot, disk, saved, crossed>>

------------------------------------------------------------------------------
(* The Riot Client, which nobody holds back while RiftOps works.           *)

Live(t) == op[t].kind \in {"capture", "refresh"}

(* Riot writes a's files into a restore, or another account's than the one *)
(* a settled read is about.                                                *)
Crosses(a) ==
  \E t \in Threads :
    \/ op[t].at \in {"clear", "write"}
    \/ op[t].at \in {"read", "check"} /\ ~Live(t) /\ a # op[t].of

(* The login Riot writes when it does: remembered or not (yet), all its    *)
(* files in one step, which is easier than the real client, whose source   *)
(* is not here.  Bound: no further write is followed once one crossed.     *)
Write(a) ==
  /\ a # Nobody /\ ~crossed
  /\ \E auth \in BOOLEAN : disk' = Login(a, auth)
  /\ crossed' = Crosses(a)
  /\ cut' = (cut /\ \E t \in Threads : op[t].at \in {"read", "check", "store"})
  /\ op' = [t \in Threads |->
              [op[t] EXCEPT !.foreign = @ \/ (Live(t) /\ a # op[t].of)]]

(* An account comes back to Riot after another's files were written while  *)
(* a live capture went on.                                                 *)
Returns(a) == \E t \in Threads : Live(t) /\ op[t].foreign /\ op[t].of = a

RiotOpens ==
  /\ ~riot.up
  /\ \E a \in {Nobody} \cup IF disk.auth THEN {disk.private} ELSE {} :
       /\ riot' = [up |-> TRUE, account |-> a]
       /\ crossed' = (crossed \/ Returns(a))
  /\ UNCHANGED <<disk, saved, mu, op, faults, cut>>

SignsIn(a) ==
  /\ riot.up /\ riot.account # a
  /\ riot' = [riot EXCEPT !.account = a]
  /\ crossed' = (crossed \/ Returns(a))
  /\ UNCHANGED <<disk, saved, mu, op, faults, cut>>

SignsOut ==
  /\ riot.account # Nobody
  /\ riot' = [riot EXCEPT !.account = Nobody]
  /\ disk' = [disk EXCEPT !.auth = FALSE]
  /\ UNCHANGED <<saved, mu, op, faults, cut, crossed>>

RiotWrites ==
  /\ riot.up /\ Write(riot.account)
  /\ UNCHANGED <<riot, saved, mu, faults>>

RiotCloses ==
  /\ riot.up /\ riot' = [up |-> FALSE, account |-> Nobody]
  /\ Write(riot.account) \/ UNCHANGED <<disk, op, cut, crossed>>
  /\ UNCHANGED <<saved, mu, faults>>

------------------------------------------------------------------------------
Step(t) ==
  \/ \E kind \in Kinds \ {"none"}, p \in Profiles : Begin(t, kind, p)
  \/ SeesRiot(t) \/ Lock(t) \/ CaptureFile(t) \/ Check(t) \/ StoreCapture(t) \/ StoreFails(t)
  \/ Load(t) \/ ClearFile(t) \/ WriteFile(t) \/ FileFails(t)

Next ==
  \/ \E t \in Threads : Step(t)
  \/ \E p \in Profiles : Delete(p) \/ Expire(p)
  \/ \E a \in Accounts : SignsIn(a)
  \/ RiotOpens \/ SignsOut \/ RiotWrites \/ RiotCloses
  \/ Crash

Spec == Init /\ [][Next]_vars

------------------------------------------------------------------------------
(* Properties.                                                             *)

(* Types of the state.                                                     *)
TypeOK ==
  /\ riot \in [up : BOOLEAN, account : Owners]
  /\ disk \in Files
  /\ saved \in [Profiles -> [files : Files, expired : BOOLEAN]]
  /\ mu \in Threads \cup {"free"}
  /\ op \in [Threads -> Calls]
  /\ faults \in 0 .. MaxFaults /\ cut \in BOOLEAN /\ crossed \in BOOLEAN

(* The files f are p's, as far as they are there.                          *)
OnlyOf(f, p) == {f.private, f.cookies, f.sessions} \subseteq {p, Nobody}

(* A save holds files of its profile's account alone, though they are      *)
(* copied one by one beside a running client and any copy may be cut short:*)
(* unless Riot itself wrote into a restore, or into a read of a closed     *)
(* client's files (vault.go:132-146, 334-358, remembered.go:99-110).       *)
SavesOneAccount ==
  ~crossed => \A p \in Profiles : OnlyOf(saved[p].files, p)

Whole(f, p) == f = Login(p, TRUE)

(* A save that was whole never loses a file to a refresh or a capture,     *)
(* unless a restore was cut short before: then its beginning, once it      *)
(* names the account, passes for the account's files (remembered.go:103).  *)
LosesFilesOnlyToACut ==
  [][\A p \in Profiles :
       Whole(saved[p].files, p) /\ saved'[p].files # NoFiles
         => Whole(saved'[p].files, p) \/ cut \/ crossed]_vars

(* What SavedLogins speaks of.                                             *)
promisedSaves ==
  [p \in Profiles |-> [ready   |-> Stored(p) /\ RememberedLoginReady(saved[p].files, p),
                       expired |-> ~Stored(p) \/ saved[p].expired]]
promisedStored == {p \in Profiles : Stored(p)}
promisedAsked  == {p \in Profiles : \E t \in Threads : op[t].of = p /\ op[t].kind \in Captures}

Store == INSTANCE SavedLogins WITH
  saves <- promisedSaves, stored <- promisedStored, asked <- promisedAsked

(* The vault implements SavedLogins: whatever crashes, fails or runs       *)
(* beside it, saves are created only by a capture the user asked for, are  *)
(* replaced by usable logins, and are not revived or prolonged by a        *)
(* refresh (vault.go:97, remembered.go:87).                                *)
KeepsSaves == Store!Spec
==============================================================================
