-------------------------- MODULE SessionVaultProofs --------------------------
(***************************************************************************)
(* Proofs about SessionVault, for any accounts, profiles and number of     *)
(* crashes and failing writes.  Four invariants, each resting on the ones  *)
(* before: Disciplined (types, who holds Vault.mu, what a call may be at   *)
(* each step), Pure (what is known of the files while they are copied),    *)
(* Intact (which of the files a copy has are whole, unless a write was cut *)
(* short) and RefInv (a refresh past the lock has a save to replace).      *)
(***************************************************************************)
EXTENDS SessionVault, TLAPS

USE ConstantsAssumption DEF ConstantsAssumption

------------------------------------------------------------------------------
(* Types, and the discipline of the calls.                                 *)

(* The steps of a call that holds Vault.mu.                                *)
Holding == {"read", "check", "store", "clear", "write"}

Locked == \A t \in Threads : op[t].at \in Holding <=> mu = t

(* What a call of thread t may be at each of its steps.                    *)
CallRight(c, t) ==
  /\ c.at = "idle" <=> c.kind = "none"
  /\ c.at # "idle" => c.of \in Profiles
  /\ t = "cleanup" => c.kind \in {"none", "settle"}
  /\ c.at \in {"load", "clear", "write"} => c.kind \in {"restore", "fresh"}
  /\ c.at \in {"lock", "read", "check", "store"} => c.kind # "fresh"
  /\ c.at = "lock" => c.got = NoFiles
  /\ c.at = "read" /\ c.n = 1 => c.got = NoFiles
  /\ c.at = "store" => RememberedLoginReady(c.got, c.of)

CallsRight == \A t \in Threads : CallRight(op[t], t)

Disciplined == TypeOK /\ Locked /\ CallsRight

(* There are three files to copy.                                          *)
LEMMA PathLengths == Len(SessionPaths) = 3 /\ Len(SortedKeys) = 3
  BY DEF SessionPaths, SortedKeys

(* Files made of files are files.                                          *)
LEMMA FilesTypes ==
  /\ NoFiles \in Files
  /\ \A p \in Owners, auth \in BOOLEAN : Login(p, auth) \in Files
  /\ \A p \in Owners : TrustOnly(p) \in Files
  /\ \A part : \A f, g \in Files : Copy(f, g, part) \in Files
  /\ \A f \in Files : [f EXCEPT !.auth = FALSE] \in Files
  BY DEF NoFiles, Login, TrustOnly, Copy, Files, Owners

(* A call that moves on is a call.                                         *)
LEMMA CallTypes ==
  ASSUME NEW c \in Calls, NEW at \in Steps, NEW n \in 1 .. 3, NEW got \in Files
  PROVE  /\ [c EXCEPT !.at = at, !.n = n] \in Calls
         /\ [c EXCEPT !.got = got, !.n = n] \in Calls
         /\ [c EXCEPT !.got = got, !.n = n, !.at = at] \in Calls
         /\ [c EXCEPT !.at = at, !.n = n, !.got = got] \in Calls
         /\ [c EXCEPT !.n = n, !.at = at] \in Calls
         /\ [c EXCEPT !.n = n] \in Calls
  BY DEF Calls

(* The names of the steps.                                                 *)
LEMMA StepNames ==
  /\ "idle" \in Steps /\ "lock" \in Steps /\ "read" \in Steps /\ "check" \in Steps
  /\ "store" \in Steps /\ "load" \in Steps /\ "clear" \in Steps /\ "write" \in Steps
  BY DEF Steps

(* The next of the files is one of them.                                   *)
LEMMA Counting == \A c \in Calls : /\ c.n \in 1 .. 3 /\ 1 \in 1 .. 3
                                   /\ c.n < 3 => c.n + 1 \in 1 .. 3
  BY DEF Calls

(* No call is a call, of either thread.                                    *)
LEMMA IdleCall == Idle \in Calls /\ \A t \in Threads : CallRight(Idle, t)
  BY FilesTypes DEF Idle, Calls, Kinds, Steps, Owners, CallRight, Threads

(* The discipline holds at first.                                          *)
LEMMA InitDisciplined == Init => Disciplined
  <1> SUFFICES ASSUME Init PROVE Disciplined OBVIOUS
  <1>1. TypeOK
    <2>1. saved \in [Profiles -> [files : Files, expired : BOOLEAN]] BY DEF Init
    <2>2. disk \in Files BY FilesTypes DEF Init
    <2>3. op \in [Threads -> Calls] BY IdleCall DEF Init
    <2>4. riot \in [up : BOOLEAN, account : Owners] BY DEF Init, Owners
    <2>5. faults \in 0 .. MaxFaults BY DEF Init
    <2>6. /\ mu \in Threads \cup {"free"}
          /\ cut \in BOOLEAN /\ crossed \in BOOLEAN
      BY DEF Init
    <2> QED BY <2>1, <2>2, <2>3, <2>4, <2>5, <2>6 DEF TypeOK
  <1>2. Locked BY DEF Init, Locked, Idle, Holding, Threads
  <1>3. CallsRight BY IdleCall DEF Init, CallsRight
  <1> QED BY <1>1, <1>2, <1>3 DEF Disciplined

(* No step of a call breaks the discipline.                                *)
LEMMA StepDisciplined ==
  ASSUME Disciplined, NEW t \in Threads, Step(t) PROVE Disciplined'
  <1> USE DEF Disciplined
  <1>t. /\ op \in [Threads -> Calls] /\ disk \in Files /\ faults \in Nat
        /\ saved \in [Profiles -> [files : Files, expired : BOOLEAN]]
        /\ riot \in [up : BOOLEAN, account : Owners]
        /\ op[t] \in Calls
    BY DEF TypeOK
  <1>c. CallRight(op[t], t) BY DEF CallsRight
  <1>1. ASSUME NEW c \in Calls, op' = [op EXCEPT ![t] = c], CallRight(c, t),
               \/ mu \in {"free", t} /\ mu' = IF c.at \in Holding THEN t ELSE "free"
               \/ mu' = mu /\ mu # t /\ c.at \notin Holding,
               riot' = riot, disk' \in Files,
               saved' \in [Profiles -> [files : Files, expired : BOOLEAN]],
               faults' \in 0 .. MaxFaults, cut' \in BOOLEAN, crossed' = crossed
        PROVE Disciplined'
    <2>1. op' \in [Threads -> Calls] /\ op'[t] = c /\ \A s \in Threads \ {t} : op'[s] = op[s]
      BY <1>1, <1>t
    <2>2. TypeOK' BY <1>1, <2>1 DEF TypeOK
    <2>3. Locked' BY <1>1, <2>1 DEF Locked, Threads
    <2>4. CallsRight' BY <1>1, <2>1 DEF CallsRight
    <2> QED BY <2>2, <2>3, <2>4
  <1>s. /\ faults' = faults => faults' \in 0 .. MaxFaults
        /\ saved' = saved => saved' \in [Profiles -> [files : Files, expired : BOOLEAN]]
        /\ cut' = cut => cut' \in BOOLEAN
        /\ disk' = disk => disk' \in Files
        /\ Fault => faults' \in 0 .. MaxFaults
    BY DEF TypeOK, Fault
  <1>h. /\ op[t].at \in Holding => mu = t
        /\ op[t].at \notin Holding /\ mu # "free" => mu # t
    BY DEF Locked
  (* What comes after a refresh, and leaving.                              *)
  <1>a. ASSUME AfterRefresh(t), op[t].at # "idle"
        PROVE \E c \in Calls : /\ op' = [op EXCEPT ![t] = c] /\ CallRight(c, t)
                               /\ c.at \notin Holding
    <2>1. CASE op[t].kind = "restore"
      <3> DEFINE c == [op[t] EXCEPT !.at = "load", !.n = 1]
      <3>1. c \in Calls BY <1>t, CallTypes, StepNames, Counting
      <3>2. CallRight(c, t) BY <1>a, <2>1, <1>c, <1>t DEF CallRight, Calls
      <3>3. op' = [op EXCEPT ![t] = c] BY <1>a, <2>1, <1>t DEF AfterRefresh, Goto
      <3> QED BY <1>a, <3>1, <3>2, <3>3, <1>t DEF AfterRefresh, Holding, Calls
    <2>2. CASE op[t].kind # "restore"
      BY <1>a, <2>2, IdleCall DEF AfterRefresh, Idle, Holding
    <2> QED BY <2>1, <2>2
  <1>l. ASSUME Leave(t)
        PROVE \E c \in Calls : /\ op' = [op EXCEPT ![t] = c] /\ CallRight(c, t)
                               /\ c.at \notin Holding /\ mu' = "free"
    BY <1>l, IdleCall DEF Leave, Idle, Holding
  <1>2. ASSUME NEW kind \in Kinds \ {"none"}, NEW p \in Profiles, Begin(t, kind, p)
        PROVE Disciplined'
    <2> DEFINE c == [Idle EXCEPT !.kind = kind, !.of = p,
                                 !.at = IF kind = "fresh" THEN "load" ELSE "lock"]
    <2>1. c \in Calls BY IdleCall DEF Calls, Owners, Steps
    <2>2. CallRight(c, t) BY <1>2 DEF CallRight, Begin, Idle, Kinds
    <2>3. c.at \notin Holding BY DEF Holding, Idle
    <2>4. mu' = mu /\ mu # t BY <1>2, <1>h DEF Begin, Holding, Locked
    <2>5. /\ riot' = riot /\ disk' = disk /\ saved' = saved
          /\ faults' = faults /\ cut' = cut /\ crossed' = crossed
          /\ op' = [op EXCEPT ![t] = c]
      BY <1>2 DEF Begin
    <2> QED
      <3> HIDE DEF c
      <3> QED BY <2>1, <2>2, <2>3, <2>4, <2>5, <1>1, <1>s, <1>t
  <1>3. ASSUME Lock(t) PROVE Disciplined'
    <2>1. CASE op[t].kind \in Captures \/ Status(op[t].of)
      <3> DEFINE c == [op[t] EXCEPT !.at = "read", !.n = 1]
      <3>1. c \in Calls BY <1>t, CallTypes, StepNames, Counting
      <3>2. CallRight(c, t) /\ c.at \in Holding
        BY <1>3, <1>c, <1>t DEF CallRight, Calls, Lock, Holding
      <3>3. op' = [op EXCEPT ![t] = c] /\ mu = "free" /\ mu' = t
        BY <1>3, <2>1, <1>t DEF Lock, Goto
      <3> HIDE DEF c
      <3> QED BY <1>3, <3>1, <3>2, <3>3, <1>1, <1>s, <1>t DEF Lock
    <2>2. CASE ~(op[t].kind \in Captures \/ Status(op[t].of))
      <3>1. AfterRefresh(t) /\ op[t].at # "idle" /\ mu = "free" BY <1>3, <2>2 DEF Lock
      <3>2. PICK c \in Calls : /\ op' = [op EXCEPT ![t] = c] /\ CallRight(c, t)
                                /\ c.at \notin Holding
        BY <3>1, <1>a
      <3>3. mu' = mu BY <1>3, <2>2 DEF Lock
      <3> QED BY <1>3, <3>1, <3>2, <3>3, <1>1, <1>s, <1>t DEF Lock, Threads
    <2> QED BY <2>1, <2>2
  <1>4. ASSUME CaptureFile(t) PROVE Disciplined'
    <2> DEFINE got == Copy(op[t].got, disk, SessionPaths[op[t].n])
               c == IF op[t].n < 3 THEN [op[t] EXCEPT !.got = got, !.n = @ + 1]
                    ELSE [op[t] EXCEPT !.got = got, !.n = 1, !.at = "check"]
    <2>1. got \in Files BY <1>t, FilesTypes DEF Calls
    <2>2. op' = [op EXCEPT ![t] = c] BY <1>4, <1>t, PathLengths DEF CaptureFile
    <2> HIDE DEF got
    <2>3. c \in Calls BY <1>t, <2>1, CallTypes, StepNames, Counting
    <2>4. CallRight(c, t) /\ c.at \in Holding
      BY <1>4, <1>c, <1>t DEF CallRight, Calls, CaptureFile, Holding
    <2>5. mu = t /\ mu' = mu BY <1>4, <1>h DEF CaptureFile, Holding
    <2> HIDE DEF c
    <2> QED BY <1>4, <2>2, <2>3, <2>4, <2>5, <1>1, <1>s, <1>t DEF CaptureFile
  <1>5. ASSUME Check(t) PROVE Disciplined'
    <2>1. mu = t /\ op[t].at # "idle" BY <1>5, <1>h DEF Check, Holding
    <2>2. /\ riot' = riot /\ disk' = disk /\ saved' = saved
          /\ faults' = faults /\ cut' = cut /\ crossed' = crossed
      BY <1>5 DEF Check
    <2>3. CASE Leave(t)
      <3>1. PICK c \in Calls : /\ op' = [op EXCEPT ![t] = c] /\ CallRight(c, t)
                                /\ c.at \notin Holding /\ mu' = "free"
        BY <2>3, <1>l
      <3> QED BY <2>1, <2>2, <3>1, <1>1, <1>s, <1>t
    <2>4. CASE AfterRefresh(t) /\ mu' = "free"
      <3>1. PICK c \in Calls : /\ op' = [op EXCEPT ![t] = c] /\ CallRight(c, t)
                                /\ c.at \notin Holding
        BY <2>4, <2>1, <1>a
      <3> QED BY <2>1, <2>2, <2>4, <3>1, <1>1, <1>s, <1>t
    <2>5. CASE Goto(t, "store") /\ UNCHANGED mu /\ RememberedLoginReady(op[t].got, op[t].of)
      <3> DEFINE c == [op[t] EXCEPT !.at = "store", !.n = 1]
      <3>1. c \in Calls BY <1>t, CallTypes, StepNames, Counting
      <3>2. CallRight(c, t) /\ c.at \in Holding
        BY <1>5, <2>5, <1>c, <1>t DEF CallRight, Calls, Check, Holding
      <3>3. op' = [op EXCEPT ![t] = c] BY <2>5, <1>t DEF Goto
      <3> HIDE DEF c
      <3> QED BY <2>1, <2>2, <2>5, <3>1, <3>2, <3>3, <1>1, <1>s, <1>t
    <2> QED BY <1>5, <2>3, <2>4, <2>5 DEF Check
  <1>6. ASSUME StoreCapture(t) PROVE Disciplined'
    <2>1. mu = t /\ op[t].at # "idle" /\ AfterRefresh(t) /\ mu' = "free"
      BY <1>6, <1>h DEF StoreCapture, Holding
    <2>2. PICK c \in Calls : /\ op' = [op EXCEPT ![t] = c] /\ CallRight(c, t)
                              /\ c.at \notin Holding
      BY <2>1, <1>a
    <2>3. saved' \in [Profiles -> [files : Files, expired : BOOLEAN]]
      BY <1>6, <1>t DEF StoreCapture, Calls
    <2>4. riot' = riot /\ disk' = disk /\ faults' = faults /\ cut' = cut /\ crossed' = crossed
      BY <1>6 DEF StoreCapture
    <2> QED BY <2>1, <2>2, <2>3, <2>4, <1>1, <1>s, <1>t
  <1>7. ASSUME StoreFails(t) \/ FileFails(t) PROVE Disciplined'
    <2>1. mu = t BY <1>7, <1>h DEF StoreFails, FileFails, Holding
    <2>2. PICK c \in Calls : /\ op' = [op EXCEPT ![t] = c] /\ CallRight(c, t)
                              /\ c.at \notin Holding /\ mu' = "free"
      BY <1>7, <1>l DEF StoreFails, FileFails
    <2>3. /\ riot' = riot /\ disk' = disk /\ saved' = saved /\ crossed' = crossed
          /\ Fault /\ cut' \in BOOLEAN
      BY <1>7, <1>s DEF StoreFails, FileFails
    <2> QED BY <2>1, <2>2, <2>3, <1>1, <1>s, <1>t
  <1>8. ASSUME Load(t) PROVE Disciplined'
    <2>1. op[t].of \in Profiles BY <1>8, <1>c DEF Load, CallRight
    <2>2. Loadable(t) \subseteq Files
      BY <2>1, <1>t, FilesTypes DEF Loadable, Owners
    <2>3. PICK files \in Loadable(t) :
            op' = [op EXCEPT ![t].at = "clear", ![t].n = 1, ![t].got = files]
      BY <1>8 DEF Load
    <2> DEFINE c == [op[t] EXCEPT !.at = "clear", !.n = 1, !.got = files]
    <2>4. c \in Calls BY <1>t, <2>2, CallTypes, StepNames, Counting
    <2>5. CallRight(c, t) /\ c.at \in Holding
      BY <1>8, <1>c, <1>t DEF CallRight, Calls, Load, Holding
    <2>6. op' = [op EXCEPT ![t] = c] BY <2>3, <1>t
    <2> HIDE DEF c
    <2> QED BY <1>8, <2>4, <2>5, <2>6, <1>1, <1>s, <1>t DEF Load
  <1>9. ASSUME ClearFile(t) PROVE Disciplined'
    <2> DEFINE c == IF op[t].n < 3 THEN [op[t] EXCEPT !.n = @ + 1]
                    ELSE [op[t] EXCEPT !.n = 1, !.at = "write"]
    <2>1. op' = [op EXCEPT ![t] = c] BY <1>9, <1>t, PathLengths DEF ClearFile, Goto
    <2>2. c \in Calls BY <1>t, CallTypes, StepNames, Counting
    <2>3. CallRight(c, t) /\ c.at \in Holding
      BY <1>9, <1>c, <1>t DEF CallRight, Calls, ClearFile, Holding
    <2>4. mu = t /\ mu' = mu BY <1>9, <1>h DEF ClearFile, Holding
    <2>5. disk' \in Files BY <1>9, <1>t, FilesTypes DEF ClearFile
    <2> HIDE DEF c
    <2> QED BY <1>9, <2>1, <2>2, <2>3, <2>4, <2>5, <1>1, <1>s, <1>t DEF ClearFile
  <1>10. ASSUME WriteFile(t) PROVE Disciplined'
    <2>1. mu = t BY <1>10, <1>h DEF WriteFile, Holding
    <2>2. disk' \in Files BY <1>10, <1>t, FilesTypes DEF WriteFile, Calls
    <2>3. riot' = riot /\ saved' = saved /\ faults' = faults /\ crossed' = crossed
      BY <1>10 DEF WriteFile
    <2>4. CASE op[t].n < 3
      <3> DEFINE c == [op[t] EXCEPT !.n = @ + 1]
      <3>1. op' = [op EXCEPT ![t] = c] /\ mu' = mu /\ cut' = cut
        BY <1>10, <2>4, <1>t, PathLengths DEF WriteFile
      <3>2. c \in Calls BY <1>t, <2>4, Counting DEF Calls
      <3>3. CallRight(c, t) /\ c.at \in Holding
        BY <1>10, <1>c, <1>t DEF CallRight, Calls, WriteFile, Holding
      <3> HIDE DEF c
      <3> QED BY <2>1, <2>2, <2>3, <3>1, <3>2, <3>3, <1>1, <1>s, <1>t
    <2>5. CASE ~(op[t].n < 3)
      <3>1. Leave(t) /\ cut' = FALSE BY <1>10, <2>5, PathLengths DEF WriteFile
      <3>2. PICK c \in Calls : /\ op' = [op EXCEPT ![t] = c] /\ CallRight(c, t)
                                /\ c.at \notin Holding /\ mu' = "free"
        BY <3>1, <1>l
      <3> QED BY <2>1, <2>2, <2>3, <3>1, <3>2, <1>1, <1>s, <1>t
    <2> QED BY <2>4, <2>5
  <1>11. ASSUME SeesRiot(t) PROVE Disciplined'
    <2>1. AfterRefresh(t) /\ op[t].at = "lock" /\ mu' = mu BY <1>11 DEF SeesRiot
    <2>2. PICK c \in Calls : /\ op' = [op EXCEPT ![t] = c] /\ CallRight(c, t)
                              /\ c.at \notin Holding
      BY <2>1, <1>a
    <2>3. mu # t BY <2>1 DEF Locked, Holding
    <2> QED BY <1>11, <2>1, <2>2, <2>3, <1>1, <1>s, <1>t DEF SeesRiot
  <1> QED BY <1>2, <1>3, <1>4, <1>5, <1>6, <1>7, <1>8, <1>9, <1>10, <1>11 DEF Step

(* A step that is not one of a call.                                       *)
Outside ==
  \/ \E p \in Profiles : Delete(p) \/ Expire(p)
  \/ \E a \in Accounts : SignsIn(a)
  \/ RiotOpens \/ SignsOut \/ RiotWrites \/ RiotCloses \/ Crash
  \/ UNCHANGED vars

(* Riot's write marks a live capture, and does nothing else to the calls.  *)
LEMMA WriteMarks ==
  ASSUME NEW a, Write(a), op \in [Threads -> Calls]
  PROVE  /\ op' \in [Threads -> Calls]
         /\ \A t \in Threads :
              /\ op'[t].kind = op[t].kind /\ op'[t].at = op[t].at /\ op'[t].of = op[t].of
              /\ op'[t].n = op[t].n /\ op'[t].got = op[t].got
              /\ op'[t].foreign = (op[t].foreign \/ (Live(t) /\ a # op[t].of))
  <1> DEFINE f(t) == op[t].foreign \/ (Live(t) /\ a # op[t].of)
  <1>1. \A t \in Threads : f(t) \in BOOLEAN BY DEF Calls, Live
  <1>2. op' = [t \in Threads |-> [op[t] EXCEPT !.foreign = f(t)]] BY DEF Write
  <1> HIDE DEF f
  <1>3. \A t \in Threads : op'[t] = [op[t] EXCEPT !.foreign = f(t)] /\ op[t] \in Calls
    BY <1>2
  <1>4. ASSUME NEW t \in Threads
        PROVE  /\ op'[t] \in Calls
               /\ op'[t].kind = op[t].kind /\ op'[t].at = op[t].at /\ op'[t].of = op[t].of
               /\ op'[t].n = op[t].n /\ op'[t].got = op[t].got /\ op'[t].foreign = f(t)
    <2>1. PICK b \in BOOLEAN : b = f(t) BY <1>1
    <2>2. op'[t] = [op[t] EXCEPT !.foreign = b] /\ op[t] \in Calls BY <2>1, <1>3
    <2>3. /\ op'[t] \in Calls
          /\ op'[t].kind = op[t].kind /\ op'[t].at = op[t].at /\ op'[t].of = op[t].of
          /\ op'[t].n = op[t].n /\ op'[t].got = op[t].got /\ op'[t].foreign = b
      BY <2>2 DEF Calls
    <2> QED BY <2>1, <2>3
  <1>5. op' \in [Threads -> Calls] BY <1>2, <1>4
  <1> QED BY <1>4, <1>5 DEF f

(* Nor does any other step.                                                *)
LEMMA OutsideDisciplined ==
  ASSUME Disciplined, Outside PROVE Disciplined'
  <1> USE DEF Disciplined
  <1>t. /\ op \in [Threads -> Calls] /\ disk \in Files
        /\ saved \in [Profiles -> [files : Files, expired : BOOLEAN]]
        /\ riot \in [up : BOOLEAN, account : Owners]
        /\ faults \in 0 .. MaxFaults /\ cut \in BOOLEAN /\ crossed \in BOOLEAN
    BY DEF TypeOK
  <1>1. ASSUME NEW p \in Profiles, Delete(p) \/ Expire(p) PROVE Disciplined'
    <2>1. saved' \in [Profiles -> [files : Files, expired : BOOLEAN]]
      <3>1. saved[p] \in [files : Files, expired : BOOLEAN] BY <1>t
      <3>2. [files |-> NoFiles, expired |-> FALSE] \in [files : Files, expired : BOOLEAN]
        BY FilesTypes
      <3>3. [saved[p] EXCEPT !.expired = TRUE] \in [files : Files, expired : BOOLEAN] BY <3>1
      <3> QED BY <1>1, <1>t, <3>2, <3>3 DEF Delete, Expire
    <2>2. UNCHANGED <<riot, disk, mu, op, faults, cut, crossed>> BY <1>1 DEF Delete, Expire
    <2>3. TypeOK' BY <2>1, <2>2 DEF TypeOK
    <2> QED BY <2>2, <2>3 DEF Locked, CallsRight
  <1>2. ASSUME (\E a \in Accounts : SignsIn(a)) \/ RiotOpens \/ SignsOut PROVE Disciplined'
    <2>1. riot' \in [up : BOOLEAN, account : Owners]
      <3>1. CASE \E a \in Accounts : SignsIn(a) BY <3>1, <1>t DEF SignsIn, Owners
      <3>2. CASE SignsOut BY <3>2, <1>t DEF SignsOut, Owners
      <3>3. CASE RiotOpens
        <4>1. disk.private \in Owners BY <1>t DEF Files
        <4>2. PICK a \in Owners : riot' = [up |-> TRUE, account |-> a]
          BY <3>3, <4>1 DEF RiotOpens, Owners
        <4> QED BY <4>2
      <3> QED BY <1>2, <3>1, <3>2, <3>3
    <2>2. disk' \in Files BY <1>2, <1>t, FilesTypes DEF SignsIn, RiotOpens, SignsOut
    <2>3. crossed' \in BOOLEAN BY <1>2, <1>t DEF SignsIn, RiotOpens, SignsOut
    <2>4. UNCHANGED <<saved, mu, op, faults, cut>> BY <1>2 DEF SignsIn, RiotOpens, SignsOut
    <2>5. TypeOK' BY <2>1, <2>2, <2>3, <2>4 DEF TypeOK
    <2> QED BY <2>4, <2>5 DEF Locked, CallsRight
  <1>3. ASSUME RiotWrites \/ RiotCloses PROVE Disciplined'
    <2>1. CASE Write(riot.account)
      <3>1. /\ op' \in [Threads -> Calls]
            /\ \A t \in Threads :
                 /\ op'[t].kind = op[t].kind /\ op'[t].at = op[t].at /\ op'[t].of = op[t].of
                 /\ op'[t].n = op[t].n /\ op'[t].got = op[t].got
        BY <2>1, <1>t, WriteMarks
      <3>5. disk' \in Files
        <4>1. riot.account \in Owners BY <1>t
        <4> QED BY <4>1, <2>1, FilesTypes DEF Write
      <3>6. cut' \in BOOLEAN /\ crossed' \in BOOLEAN BY <2>1, <1>t DEF Write, Crosses
      <3>7. riot' \in [up : BOOLEAN, account : Owners]
        <4>1. CASE RiotWrites BY <4>1, <1>t DEF RiotWrites
        <4>2. CASE RiotCloses BY <4>2 DEF RiotCloses, Owners
        <4> QED BY <1>3, <4>1, <4>2
      <3>8. mu' = mu /\ saved' = saved /\ faults' = faults BY <1>3 DEF RiotWrites, RiotCloses
      <3>9. TypeOK' BY <3>1, <3>5, <3>6, <3>7, <3>8 DEF TypeOK
      <3>10. Locked' BY <3>1, <3>8 DEF Locked
      <3>11. \A t \in Threads : CallRight(op'[t], t)
        BY <3>1 DEF CallsRight, CallRight
      <3> QED BY <3>9, <3>10, <3>11 DEF CallsRight
    <2>2. CASE ~Write(riot.account)
      <3>1. riot' = [up |-> FALSE, account |-> Nobody] /\ UNCHANGED <<disk, op, cut, crossed>>
            /\ UNCHANGED <<saved, mu, faults>>
        BY <1>3, <2>2 DEF RiotWrites, RiotCloses
      <3>2. riot' \in [up : BOOLEAN, account : Owners] BY <3>1 DEF Owners
      <3>3. TypeOK' BY <3>1, <3>2 DEF TypeOK
      <3> QED BY <3>1, <3>3 DEF Locked, CallsRight
    <2> QED BY <2>1, <2>2
  <1>4. ASSUME Crash PROVE Disciplined'
    <2>1. op' \in [Threads -> Calls] /\ \A t \in Threads : op'[t] = Idle
      BY <1>4, IdleCall DEF Crash
    <2>2. faults' \in 0 .. MaxFaults BY <1>4, <1>t DEF Crash, Fault
    <2>3. cut' \in BOOLEAN
      <3>1. cut' = (cut \/ \E t \in Threads : Partway(t)) BY <1>4 DEF Crash
      <3> QED BY <3>1, <1>t
    <2>4. mu' = "free" /\ UNCHANGED <<riot, disk, saved, crossed>> BY <1>4 DEF Crash
    <2>5. TypeOK' BY <2>1, <2>2, <2>3, <2>4 DEF TypeOK
    <2>6. Locked' BY <2>1, <2>4 DEF Locked, Idle, Holding, Threads
    <2> QED BY <2>1, <2>5, <2>6, IdleCall DEF CallsRight
  <1>5. CASE UNCHANGED vars BY <1>5 DEF vars, TypeOK, Locked, CallsRight
  <1> QED BY <1>1, <1>2, <1>3, <1>4, <1>5 DEF Outside

(* The discipline is inductive.                                            *)
LEMMA NextDisciplined == Disciplined /\ [Next]_vars => Disciplined'
  BY StepDisciplined, OutsideDisciplined DEF Next, Outside

(* The vault's state, its calls and Riot's files keep their types.         *)
THEOREM TypeCorrect == Spec => []TypeOK
  <1>1. Disciplined => TypeOK BY DEF Disciplined
  <1> QED BY <1>1, InitDisciplined, NextDisciplined, PTL DEF Spec

------------------------------------------------------------------------------
(* One account: what the file that names the account says of the others.   *)

(* A read of files that name the account, with no other account's write so *)
(* far.                                                                    *)
Reads(c) == c.at \in {"read", "check"} /\ ~c.foreign /\ DiskPUUID(c.got) = c.of

(* What a call c holds, and of what it has left on the disk d.             *)
CallPure(c, d, account) ==
  /\ c.at \in {"clear", "write", "store"} => OnlyOf(c.got, c.of)
  /\ c.at = "clear" /\ c.n \in {2, 3} => ~d.auth /\ d.private = Nobody
  /\ c.at = "clear" /\ c.n = 3 => d.cookies = Nobody
  /\ c.at = "write" => OnlyOf(d, c.of)
  /\ c.at = "write" /\ c.n \in {1, 2} => ~d.auth
  /\ c.at = "write" /\ d.auth => d.private = c.of
  /\ Reads(c) => OnlyOf(c.got, c.of) /\ (c.at = "read" => OnlyOf(d, c.of))
  /\ c.foreign => c.kind \in {"capture", "refresh"} /\ account # c.of

(* Files with an authorization are of the account it is for.               *)
DiskPure == disk.auth => OnlyOf(disk, disk.private)

Clean ==
  /\ DiskPure /\ SavesOneAccount
  /\ \A t \in Threads : CallPure(op[t], disk, riot.account)

Pure == ~crossed => Clean

(* A copy of p's files over p's files makes p's files.                     *)
LEMMA CopyKeeps ==
  ASSUME NEW f \in Files, NEW g \in Files, NEW p, NEW part
  PROVE  /\ OnlyOf(f, p) /\ OnlyOf(g, p) => OnlyOf(Copy(f, g, part), p)
         /\ OnlyOf(NoFiles, p) /\ OnlyOf(TrustOnly(p), p)
         /\ \A a \in BOOLEAN : OnlyOf(Login(p, a), p)
  BY DEF Copy, OnlyOf, Files, NoFiles, TrustOnly, Login

(* No call holds nothing.                                                  *)
LEMMA IdlePure == \A d, a : CallPure(Idle, d, a)
  BY DEF CallPure, Idle, Reads

(* The files are pure at first.                                            *)
LEMMA InitPure == Init => Pure
  <1> SUFFICES ASSUME Init PROVE Pure OBVIOUS
  <1>1. DiskPure BY DEF Init, DiskPure, Login, OnlyOf
  <1>2. SavesOneAccount
    BY DEF Init, SavesOneAccount, OnlyOf, Login, NoFiles
  <1>3. \A t \in Threads : CallPure(op[t], disk, riot.account)
    BY IdlePure DEF Init
  <1> QED BY <1>1, <1>2, <1>3 DEF Pure, Clean

(* A call that does not hold the lock cares for no file.                   *)
LEMMA OthersPure ==
  ASSUME NEW c, NEW d, NEW e, NEW a, CallPure(c, d, a), c.at \notin Holding
  PROVE  CallPure(c, e, a)
  BY DEF CallPure, Reads, Holding

(* No step of a call mixes files, unless Riot crossed one.                 *)
LEMMA StepPure ==
  ASSUME Disciplined, Pure, NEW t \in Threads, Step(t) PROVE Pure'
  <1>t. /\ op \in [Threads -> Calls] /\ disk \in Files /\ op[t] \in Calls
        /\ saved \in [Profiles -> [files : Files, expired : BOOLEAN]]
        /\ op[t].got \in Files /\ op[t].n \in 1 .. 3
    BY DEF Disciplined, TypeOK, Calls
  <1>c. CallRight(op[t], t) BY DEF Disciplined, CallsRight
  <1>h. op[t].at \in Holding => \A s \in Threads \ {t} : op[s].at \notin Holding
    BY DEF Disciplined, Locked
  <1>f. crossed' = crossed /\ riot' = riot
    BY DEF Step, Begin, SeesRiot, Lock, CaptureFile, Check, StoreCapture, StoreFails, Load,
           ClearFile, WriteFile, FileFails
  <1> SUFFICES ASSUME ~crossed
               PROVE  Clean'
    BY <1>f DEF Pure
  <1>p. DiskPure /\ SavesOneAccount /\ \A s \in Threads : CallPure(op[s], disk, riot.account)
    BY DEF Pure, Clean
  <1>q. CallPure(op[t], disk, riot.account) BY <1>p
  <1>o. op[t].at # "idle" => op[t].of \in Profiles /\ op[t].of # Nobody
    BY <1>c DEF CallRight
  <1> HIDE DEF Pure
  <1>1. ASSUME NEW c, op' = [op EXCEPT ![t] = c], disk' = disk \/ op[t].at \in Holding,
               saved' = saved \/ SavesOneAccount', disk' = disk \/ DiskPure',
               CallPure(c, disk', riot.account)
        PROVE  Clean'
    <2>1. op'[t] = c /\ \A s \in Threads \ {t} : op'[s] = op[s] BY <1>1, <1>t
    <2>2. \A s \in Threads \ {t} : CallPure(op[s], disk', riot.account)
      BY <1>1, <1>p, <1>h, OthersPure
    <2>3. DiskPure' BY <1>1, <1>p DEF DiskPure
    <2>4. SavesOneAccount' BY <1>1, <1>p, <1>f DEF SavesOneAccount
    <2>5. \A s \in Threads : CallPure(op'[s], disk', riot'.account)
      BY <1>1, <1>f, <2>1, <2>2
    <2> QED BY <2>3, <2>4, <2>5 DEF Clean
  <1>l. ASSUME Leave(t) PROVE op' = [op EXCEPT ![t] = Idle] BY <1>l DEF Leave
  <1>a. ASSUME AfterRefresh(t), op[t].at # "idle"
        PROVE \E c : op' = [op EXCEPT ![t] = c] /\ CallPure(c, disk, riot.account)
    <2>1. CASE op[t].kind = "restore"
      <3> DEFINE c == [op[t] EXCEPT !.at = "load", !.n = 1]
      <3>1. op' = [op EXCEPT ![t] = c] BY <1>a, <2>1, <1>t DEF AfterRefresh, Goto
      <3>2. ~op[t].foreign BY <2>1, <1>q DEF CallPure
      <3>3. c.at = "load" /\ c.foreign = op[t].foreign BY <1>t DEF Calls
      <3> HIDE DEF c
      <3>4. CallPure(c, disk, riot.account) BY <3>2, <3>3 DEF CallPure, Reads
      <3> QED BY <3>1, <3>4
    <2>2. CASE op[t].kind # "restore" BY <1>a, <2>2, IdlePure DEF AfterRefresh
    <2> QED BY <2>1, <2>2
  <1>2. ASSUME NEW kind \in Kinds \ {"none"}, NEW p \in Profiles, Begin(t, kind, p)
        PROVE  Clean'
    <2> DEFINE c == [Idle EXCEPT !.kind = kind, !.of = p,
                                 !.at = IF kind = "fresh" THEN "load" ELSE "lock"]
    <2>1. op' = [op EXCEPT ![t] = c] /\ disk' = disk /\ saved' = saved BY <1>2 DEF Begin
    <2>2. CallPure(c, disk, riot.account) BY DEF CallPure, Reads, Idle
    <2> HIDE DEF c
    <2> QED BY <2>1, <2>2, <1>1
  <1>3. ASSUME Lock(t)
        PROVE  Clean'
    <2>1. disk' = disk /\ saved' = saved /\ op[t].at # "idle" BY <1>3 DEF Lock
    <2>2. CASE AfterRefresh(t) BY <2>1, <2>2, <1>a, <1>1
    <2>3. CASE Goto(t, "read")
      <3> DEFINE c == [op[t] EXCEPT !.at = "read", !.n = 1]
      <3>1. op' = [op EXCEPT ![t] = c] BY <2>3, <1>t DEF Goto
      <3>2. /\ c.at = "read" /\ c.got = op[t].got /\ c.of = op[t].of
            /\ c.foreign = op[t].foreign /\ c.kind = op[t].kind
        BY <1>t DEF Calls
      <3>3. op[t].got = NoFiles BY <1>3, <1>c DEF Lock, CallRight
      <3>4. DiskPUUID(c.got) # c.of BY <3>2, <3>3, <2>1, <1>o DEF DiskPUUID, NoFiles, Login
      <3> HIDE DEF c
      <3>5. CallPure(c, disk, riot.account) BY <1>q, <3>2, <3>4 DEF CallPure, Reads
      <3> QED BY <2>1, <3>1, <3>5, <1>1
    <2> QED BY <1>3, <2>2, <2>3 DEF Lock
  <1>4. ASSUME CaptureFile(t) PROVE Clean'
    <2> DEFINE part == SessionPaths[op[t].n]
               got == Copy(op[t].got, disk, part)
               c == IF op[t].n < 3 THEN [op[t] EXCEPT !.got = got, !.n = @ + 1]
                    ELSE [op[t] EXCEPT !.got = got, !.n = 1, !.at = "check"]
    <2>1. op' = [op EXCEPT ![t] = c] BY <1>4, <1>t, PathLengths DEF CaptureFile
    <2>2. /\ c.at \in {"read", "check"} /\ c.got = got /\ c.of = op[t].of
          /\ c.foreign = op[t].foreign /\ c.kind = op[t].kind
      BY <1>4, <1>t DEF CaptureFile, Calls
    <2>3. /\ disk' = disk /\ saved' = saved /\ op[t].at = "read" BY <1>4 DEF CaptureFile
    <2>4. Reads(c) => OnlyOf(got, c.of) /\ OnlyOf(disk, c.of)
      <3> SUFFICES ASSUME Reads(c) PROVE OnlyOf(got, c.of) /\ OnlyOf(disk, c.of) OBVIOUS
      <3>1. DiskPUUID(got) = op[t].of /\ op[t].of # Nobody /\ ~op[t].foreign
        BY <2>2, <2>3, <1>o DEF Reads
      <3>2. CASE op[t].n = 1
        <4>1. got = Copy(NoFiles, disk, "private")
          BY <1>4, <1>c, <3>2 DEF CallRight, CaptureFile, SessionPaths
        <4>2. disk.auth /\ disk.private = op[t].of
          BY <4>1, <3>1 DEF Copy, NoFiles, Login, DiskPUUID
        <4>3. OnlyOf(disk, op[t].of) BY <4>2, <1>p DEF DiskPure
        <4> HIDE DEF got
        <4> QED BY <4>1, <4>3, <2>2, <1>t, CopyKeeps, FilesTypes
      <3>3. CASE op[t].n # 1
        <4>1. part \in {"cookies", "sessions"} BY <3>3, <1>t DEF SessionPaths
        <4>2. got.auth = op[t].got.auth /\ got.private = op[t].got.private
          BY <4>1, <1>t DEF Copy, Files
        <4>3. Reads(op[t]) BY <4>2, <3>1, <2>3 DEF Reads, DiskPUUID
        <4>4. OnlyOf(op[t].got, op[t].of) /\ OnlyOf(disk, op[t].of)
          BY <4>3, <2>3, <1>q DEF CallPure
        <4> HIDE DEF part
        <4> QED BY <4>4, <2>2, <1>t, CopyKeeps
      <3> QED BY <3>2, <3>3
    <2> HIDE DEF c, got, part
    <2>5. CallPure(c, disk, riot.account) BY <2>2, <2>4, <1>q DEF CallPure
    <2> QED BY <2>1, <2>3, <2>5, <1>1
  <1>5. ASSUME Check(t) PROVE Clean'
    <2>1. disk' = disk /\ saved' = saved /\ op[t].at = "check" BY <1>5 DEF Check
    <2>2. CASE Leave(t) BY <2>1, <2>2, <1>l, <1>1, IdlePure
    <2>3. CASE AfterRefresh(t) BY <2>1, <2>3, <1>a, <1>1
    <2>4. CASE /\ Goto(t, "store") /\ RememberedLoginReady(op[t].got, op[t].of)
               /\ op[t].kind \in {"capture", "refresh"} => riot.account = op[t].of
      <3> DEFINE c == [op[t] EXCEPT !.at = "store", !.n = 1]
      <3>1. op' = [op EXCEPT ![t] = c] BY <2>4, <1>t DEF Goto
      <3>2. /\ c.at = "store" /\ c.got = op[t].got /\ c.of = op[t].of
            /\ c.foreign = op[t].foreign /\ c.kind = op[t].kind
        BY <1>t DEF Calls
      <3>3. ~op[t].foreign BY <2>4, <1>q DEF CallPure
      <3>4. OnlyOf(op[t].got, op[t].of)
        BY <2>1, <2>4, <3>3, <1>q DEF CallPure, Reads, RememberedLoginReady
      <3> HIDE DEF c
      <3>5. CallPure(c, disk, riot.account) BY <3>2, <3>3, <3>4 DEF CallPure, Reads
      <3> QED BY <2>1, <3>1, <3>5, <1>1
    <2> QED BY <1>5, <2>2, <2>3, <2>4 DEF Check, Verified
  <1>6. ASSUME StoreCapture(t) PROVE Clean'
    <2>1. disk' = disk /\ op[t].at # "idle" /\ AfterRefresh(t) BY <1>6 DEF StoreCapture
    <2>2. PICK c : op' = [op EXCEPT ![t] = c] /\ CallPure(c, disk, riot.account)
      BY <2>1, <1>a
    <2>3. OnlyOf(op[t].got, op[t].of) BY <1>6, <1>q DEF StoreCapture, CallPure
    <2>4. ASSUME NEW p \in Profiles PROVE OnlyOf(saved'[p].files, p)
      <3>1. CASE p = op[t].of BY <1>6, <1>t, <2>3, <3>1 DEF StoreCapture
      <3>2. CASE p # op[t].of
        BY <1>6, <1>t, <1>p, <3>2 DEF StoreCapture, SavesOneAccount
      <3> QED BY <3>1, <3>2
    <2>5. SavesOneAccount' BY <2>4 DEF SavesOneAccount
    <2> QED BY <2>1, <2>2, <2>5, <1>1
  <1>7. ASSUME StoreFails(t) \/ FileFails(t) PROVE Clean'
    <2>1. disk' = disk /\ saved' = saved /\ Leave(t) BY <1>7 DEF StoreFails, FileFails
    <2> QED BY <2>1, <1>l, <1>1, IdlePure
  <1>8. ASSUME Load(t) PROVE Clean'
    <2>1. PICK files \in Loadable(t) :
            op' = [op EXCEPT ![t].at = "clear", ![t].n = 1, ![t].got = files]
      BY <1>8 DEF Load
    <2> DEFINE c == [op[t] EXCEPT !.at = "clear", !.n = 1, !.got = files]
    <2>2. op' = [op EXCEPT ![t] = c] /\ disk' = disk /\ saved' = saved
      BY <2>1, <1>8, <1>t DEF Load
    <2>3. /\ c.at = "clear" /\ c.n = 1 /\ c.got = files /\ c.of = op[t].of
          /\ c.foreign = op[t].foreign
      BY <1>t DEF Calls
    <2>4. op[t].of \in Profiles BY <1>8, <1>o DEF Load
    <2>5. OnlyOf(files, op[t].of)
      <3>1. files \in {saved[op[t].of].files, NoFiles, TrustOnly(op[t].of)} BY DEF Loadable
      <3>2. OnlyOf(saved[op[t].of].files, op[t].of) BY <2>4, <1>p DEF SavesOneAccount
      <3>3. OnlyOf(NoFiles, op[t].of) /\ OnlyOf(TrustOnly(op[t].of), op[t].of)
        BY FilesTypes, CopyKeeps
      <3> QED BY <3>1, <3>2, <3>3
    <2>6. ~op[t].foreign BY <1>8, <1>c, <1>q DEF Load, CallRight, CallPure
    <2> HIDE DEF c
    <2>7. CallPure(c, disk, riot.account) BY <2>3, <2>5, <2>6 DEF CallPure, Reads
    <2> QED BY <2>2, <2>7, <1>1
  <1>9. ASSUME ClearFile(t) PROVE Clean'
    <2> DEFINE c == IF op[t].n < 3 THEN [op[t] EXCEPT !.n = @ + 1]
                    ELSE [op[t] EXCEPT !.n = 1, !.at = "write"]
    <2>1. op' = [op EXCEPT ![t] = c] BY <1>9, <1>t, PathLengths DEF ClearFile, Goto
    <2>2. /\ c.got = op[t].got /\ c.of = op[t].of /\ c.foreign = op[t].foreign
          /\ c.kind = op[t].kind
          /\ \/ op[t].n \in {1, 2} /\ c.at = "clear" /\ c.n = op[t].n + 1
             \/ op[t].n = 3 /\ c.at = "write" /\ c.n = 1
      BY <1>9, <1>t DEF ClearFile, Calls
    <2>3. saved' = saved /\ op[t].at = "clear" /\ disk' = Copy(disk, NoFiles, SessionPaths[op[t].n])
      BY <1>9 DEF ClearFile
    <2>4. ~disk'.auth /\ disk'.private = Nobody
      <3>1. CASE op[t].n = 1 BY <3>1, <2>3, <1>t DEF SessionPaths, Copy, NoFiles, Login, Files
      <3>2. CASE op[t].n # 1
        <4>1. ~disk.auth /\ disk.private = Nobody BY <3>2, <2>3, <1>t, <1>q DEF CallPure
        <4>2. SessionPaths[op[t].n] \in {"cookies", "sessions"}
          BY <3>2, <1>t DEF SessionPaths
        <4> QED BY <4>1, <4>2, <2>3, <1>t DEF Copy, Files
      <3> QED BY <3>1, <3>2
    <2>5. op[t].n \in {2, 3} => disk'.cookies = Nobody
      <3>1. CASE op[t].n = 2 BY <3>1, <2>3, <1>t DEF SessionPaths, Copy, NoFiles, Login, Files
      <3>2. CASE op[t].n = 3
        <4>1. disk.cookies = Nobody BY <3>2, <2>3, <1>q DEF CallPure
        <4>2. SessionPaths[op[t].n] = "sessions" BY <3>2 DEF SessionPaths
        <4> QED BY <4>1, <4>2, <2>3, <1>t DEF Copy, Files
      <3> QED BY <3>1, <3>2
    <2>6. op[t].n = 3 => disk'.sessions = Nobody
      BY <2>3, <1>t DEF SessionPaths, Copy, NoFiles, Login, Files
    <2>7. OnlyOf(op[t].got, op[t].of) /\ (op[t].foreign => riot.account # op[t].of)
          /\ (op[t].foreign => op[t].kind \in {"capture", "refresh"})
      BY <2>3, <1>q DEF CallPure
    <2>8. DiskPure' BY <2>4 DEF DiskPure
    <2> HIDE DEF c
    <2>9. CallPure(c, disk', riot.account)
      BY <2>2, <2>4, <2>5, <2>6, <2>7 DEF CallPure, Reads, OnlyOf
    <2> QED BY <2>1, <2>3, <2>8, <2>9, <1>1 DEF Holding
  <1>10. ASSUME WriteFile(t) PROVE Clean'
    <2> DEFINE part == SortedKeys[op[t].n]
    <2>1. saved' = saved /\ op[t].at = "write"
          /\ disk' = IF Held(op[t].got, part) = Nobody THEN disk ELSE Copy(disk, op[t].got, part)
      BY <1>10 DEF WriteFile
    <2>2. OnlyOf(disk, op[t].of) /\ OnlyOf(op[t].got, op[t].of)
          /\ (op[t].n \in {1, 2} => ~disk.auth) /\ (disk.auth => disk.private = op[t].of)
      BY <2>1, <1>q DEF CallPure
    <2>3. OnlyOf(disk', op[t].of) BY <2>1, <2>2, <1>t, CopyKeeps
    <2>4. disk'.auth => disk'.private = op[t].of
      <3>1. CASE op[t].n = 2
        BY <3>1, <2>1, <2>2, <1>t DEF SortedKeys, Copy, Held, Files, OnlyOf
      <3>2. CASE op[t].n # 2
        <4>1. part \in {"cookies", "sessions"} BY <3>2, <1>t DEF SortedKeys
        <4>2. disk'.auth = disk.auth /\ disk'.private = disk.private
          BY <4>1, <2>1, <1>t DEF Copy, Files
        <4> QED BY <4>2, <2>2
      <3> QED BY <3>1, <3>2
    <2>5. op[t].n = 1 => ~disk'.auth
      BY <2>1, <2>2, <1>t DEF SortedKeys, Copy, Held, Files
    <2>6. DiskPure' BY <2>3, <2>4 DEF DiskPure
    <2>7. op[t].at \in Holding BY <2>1 DEF Holding
    <2>8. CASE op[t].n < 3
      <3> DEFINE c == [op[t] EXCEPT !.n = @ + 1]
      <3>1. op' = [op EXCEPT ![t] = c] BY <1>10, <2>8, <1>t, PathLengths DEF WriteFile
      <3>2. /\ c.got = op[t].got /\ c.of = op[t].of /\ c.foreign = op[t].foreign
            /\ c.kind = op[t].kind /\ c.at = "write" /\ c.n = op[t].n + 1
        BY <2>1, <1>t DEF Calls
      <3> HIDE DEF c, part
      <3>3. c.n \in {1, 2} => op[t].n = 1 BY <3>2, <1>t
      <3>4. CallPure(c, disk', riot.account)
        BY <2>2, <2>3, <2>4, <2>5, <3>2, <3>3, <1>q DEF CallPure, Reads
      <3> QED BY <2>1, <2>6, <2>7, <3>1, <3>4, <1>1
    <2>9. CASE ~(op[t].n < 3)
      <3>1. Leave(t) BY <1>10, <2>9, PathLengths DEF WriteFile
      <3> QED BY <3>1, <2>1, <2>6, <2>7, <1>l, <1>1, IdlePure
    <2> QED BY <2>8, <2>9
  <1>11. ASSUME SeesRiot(t) PROVE Clean'
    <2>1. disk' = disk /\ saved' = saved /\ op[t].at # "idle" /\ AfterRefresh(t)
      BY <1>11 DEF SeesRiot
    <2> QED BY <2>1, <1>a, <1>1
  <1> QED BY <1>2, <1>3, <1>4, <1>5, <1>6, <1>7, <1>8, <1>9, <1>10, <1>11 DEF Step

(* Neither Riot, the user, the clock nor a crash does.                     *)
LEMMA OutsidePure ==
  ASSUME Disciplined, Pure, Outside PROVE Pure'
  <1>t. /\ op \in [Threads -> Calls] /\ disk \in Files
        /\ saved \in [Profiles -> [files : Files, expired : BOOLEAN]]
        /\ riot \in [up : BOOLEAN, account : Owners]
    BY DEF Disciplined, TypeOK
  <1> SUFFICES ASSUME ~crossed' PROVE Clean' BY DEF Pure
  <1>x. ~crossed
    BY DEF Outside, Delete, Expire, SignsIn, RiotOpens, SignsOut, RiotWrites, RiotCloses,
           Write, Crash, vars
  <1>p. DiskPure /\ SavesOneAccount /\ \A s \in Threads : CallPure(op[s], disk, riot.account)
    BY <1>x DEF Pure, Clean
  <1>o. \A s \in Threads : op[s].kind # "none" => op[s].of \in Profiles /\ op[s].of # Nobody
    BY DEF Disciplined, CallsRight, CallRight
  <1>s. saved' = saved => SavesOneAccount' BY <1>p, <1>x DEF SavesOneAccount
  <1>1. ASSUME NEW p \in Profiles, Delete(p) \/ Expire(p) PROVE Clean'
    <2>1. UNCHANGED <<riot, disk, op>> BY <1>1 DEF Delete, Expire
    <2>2. \A q \in Profiles : saved'[q].files \in {saved[q].files, NoFiles}
      BY <1>1, <1>t DEF Delete, Expire
    <2>3. \A q \in Profiles : OnlyOf(saved[q].files, q) /\ OnlyOf(NoFiles, q)
      BY <1>p, <1>x, CopyKeeps, FilesTypes DEF SavesOneAccount
    <2>4. SavesOneAccount' BY <2>2, <2>3 DEF SavesOneAccount
    <2> QED BY <2>1, <2>4, <1>p DEF Clean, DiskPure
  <1>2. ASSUME NEW a, UNCHANGED <<disk, saved, op>>, riot'.account = a,
               \A t \in Threads : ~(Live(t) /\ op[t].foreign /\ op[t].of = a)
        PROVE Clean'
    <2>1. \A t \in Threads : CallPure(op[t], disk, a) BY <1>2, <1>p DEF CallPure, Live
    <2> QED BY <1>2, <2>1, <1>p, <1>s DEF Clean, DiskPure
  <1>3. CASE \E a \in Accounts : SignsIn(a)
    <2>1. PICK a \in Accounts : SignsIn(a) BY <1>3
    <2>2. riot'.account = a BY <2>1, <1>t DEF SignsIn
    <2> QED BY <2>1, <2>2, <1>2 DEF SignsIn, Returns
  <1>4. CASE RiotOpens
    <2>1. PICK a : /\ riot' = [up |-> TRUE, account |-> a]
                   /\ crossed' = (crossed \/ Returns(a))
      BY <1>4 DEF RiotOpens
    <2>2. riot'.account = a BY <2>1
    <2> QED BY <1>4, <2>1, <2>2, <1>2 DEF RiotOpens, Returns
  <1>5. CASE SignsOut
    <2>1. /\ riot'.account = Nobody /\ disk' = [disk EXCEPT !.auth = FALSE]
          /\ op' = op /\ saved' = saved
      BY <1>5, <1>t DEF SignsOut
    <2>2. /\ ~disk'.auth /\ disk'.private = disk.private
          /\ disk'.cookies = disk.cookies /\ disk'.sessions = disk.sessions
      BY <2>1, <1>t DEF Files
    <2>3. ASSUME NEW t \in Threads PROVE CallPure(op[t], disk', Nobody)
      <3>1. CallPure(op[t], disk, riot.account) BY <1>p
      <3>2. op[t].foreign => Nobody # op[t].of BY <3>1, <1>o DEF CallPure
      <3> QED BY <3>1, <3>2, <2>2 DEF CallPure, OnlyOf
    <2> QED BY <2>1, <2>2, <2>3, <1>s DEF Clean, DiskPure
  <1>6. ASSUME RiotWrites \/ RiotCloses, Write(riot.account) PROVE Clean'
    <2> DEFINE a == riot.account
    <2>1. /\ op' \in [Threads -> Calls]
          /\ \A t \in Threads :
               /\ op'[t].kind = op[t].kind /\ op'[t].at = op[t].at /\ op'[t].of = op[t].of
               /\ op'[t].n = op[t].n /\ op'[t].got = op[t].got
               /\ op'[t].foreign = (op[t].foreign \/ (Live(t) /\ a # op[t].of))
      BY <1>6, <1>t, WriteMarks
    <2>2. PICK auth \in BOOLEAN : disk' = Login(a, auth) BY <1>6 DEF Write
    <2>3. ~Crosses(a) BY <1>6 DEF Write
    <2>4. OnlyOf(disk', a) /\ disk'.private = a /\ disk'.auth = auth
      BY <2>2, FilesTypes, CopyKeeps DEF Login
    <2>5. DiskPure' BY <2>4 DEF DiskPure
    <2>6. riot'.account \in {a, Nobody} /\ saved' = saved
      BY <1>6, <1>t DEF RiotWrites, RiotCloses
    <2>7. ASSUME NEW t \in Threads PROVE CallPure(op'[t], disk', riot'.account)
      <3>1. CallPure(op[t], disk, a) BY <1>p
      <3>2. op[t].at \notin {"clear", "write"} BY <2>3 DEF Crosses
      <3>3. op[t].at \in {"read", "check"} /\ ~Live(t) => a = op[t].of BY <2>3 DEF Crosses
      <3>4. Reads(op'[t]) => Reads(op[t]) /\ a = op[t].of
        BY <2>1, <3>3 DEF Reads
      <3>5. op'[t].foreign => Live(t) /\ a # op[t].of /\ Nobody # op[t].of
        BY <2>1, <3>1, <1>o DEF CallPure, Live
      <3> HIDE DEF a
      <3> QED BY <2>1, <2>4, <2>6, <3>1, <3>2, <3>4, <3>5 DEF CallPure, Live
    <2> QED BY <2>5, <2>6, <2>7, <1>s DEF Clean
  <1>7. CASE RiotCloses /\ ~Write(riot.account)
    <2>1. riot'.account = Nobody /\ UNCHANGED <<disk, op, saved>>
      BY <1>7 DEF RiotCloses
    <2>2. \A t \in Threads : ~(Live(t) /\ op[t].foreign /\ op[t].of = Nobody)
      BY <1>o DEF Live
    <2> QED BY <2>1, <2>2, <1>2
  <1>8. CASE Crash
    <2>1. \A t \in Threads : op'[t] = Idle BY <1>8 DEF Crash
    <2>2. UNCHANGED <<riot, disk, saved>> BY <1>8 DEF Crash
    <2> QED BY <2>1, <2>2, <1>p, <1>s, IdlePure DEF Clean, DiskPure
  <1>9. CASE UNCHANGED vars
    BY <1>9, <1>p, <1>s DEF vars, Clean, DiskPure
  <1> QED BY <1>1, <1>3, <1>4, <1>5, <1>6, <1>7, <1>8, <1>9 DEF Outside, RiotWrites

(* Purity is inductive.                                                    *)
LEMMA NextPure == Disciplined /\ Pure /\ [Next]_vars => Pure'
  BY StepPure, OutsidePure DEF Next, Outside

(* Unless Riot itself wrote into a restore or into a settled read, every   *)
(* save holds files of its profile's account alone, wherever calls were    *)
(* cut short (captureVerified, RefreshSettled, Restore).                   *)
THEOREM OneAccount == Spec => []SavesOneAccount
  <1>1. Pure => SavesOneAccount BY DEF Pure, Clean, SavesOneAccount
  <1> QED BY <1>1, InitDisciplined, NextDisciplined, InitPure, NextPure, PTL DEF Spec


------------------------------------------------------------------------------
(* Nothing is lost: files that carry a profile's name are all of its       *)
(* files, unless a write was cut short, as long as its save has them all.  *)

NamesWhole(d, s) ==
  \A p \in Profiles : d.private = p /\ Whole(s[p].files, p) => Whole(d, p)

(* The file that names the account is written, and not the last one.       *)
HalfWritten(c) == c.at = "write" /\ c.n = 3

DiskWhole ==
  ~cut /\ disk.auth /\ (\A t \in Threads : ~HalfWritten(op[t])) => NamesWhole(disk, saved)

(* What a call c holds, of the files d and the saves s, and k: cut.        *)
CallWhole(c, d, s, k) ==
  (* A read of a whole login finds the rest of it.                         *)
  /\ ~k /\ Reads(c) /\ Whole(s[c.of].files, c.of) =>
       /\ c.at = "read" => d.sessions = c.of
       /\ c.at = "read" /\ c.n = 2 => d.cookies = c.of
       /\ c.at = "read" /\ c.n = 3 => c.got.cookies = c.of
       /\ c.at = "check" => Whole(c.got, c.of)
  /\ ~k /\ c.at = "store" /\ Whole(s[c.of].files, c.of) => Whole(c.got, c.of)
  (* What was read of the account is still there, under its name.          *)
  /\ d.auth /\ d.private = c.of =>
       /\ (c.at = "read" /\ c.n = 3) \/ c.at \in {"check", "store"} =>
            (c.got.cookies = c.of => d.cookies = c.of)
       /\ c.at \in {"check", "store"} => (c.got.sessions = c.of => d.sessions = c.of)
  (* A login that is written is the saved one.                             *)
  /\ c.at \in {"clear", "write"} /\ c.got.auth => c.got = s[c.of].files /\ c.got.private = c.of
  /\ c.at = "write" /\ c.n \in {2, 3} /\ c.got.cookies # Nobody => d.cookies = c.got.cookies
  /\ c.at = "write" /\ c.n = 3 /\ d.auth => c.got.auth

AllWhole == DiskWhole /\ \A t \in Threads : CallWhole(op[t], disk, saved, cut)

Intact == ~crossed => AllWhole

(* Files of one account, all there, are its login.                         *)
LEMMA WholeLogin ==
  ASSUME NEW f \in Files, NEW p
  PROVE  Whole(f, p) <=> f.private = p /\ f.auth /\ f.cookies = p /\ f.sessions = p
  BY DEF Whole, Login, Files

(* A call that does not hold the lock cares for no file.                   *)
LEMMA OthersWhole ==
  ASSUME NEW c, c.at \notin Holding
  PROVE  ~HalfWritten(c) /\ \A d, s, k : CallWhole(c, d, s, k)
  BY DEF CallWhole, Reads, Holding, HalfWritten

LEMMA InitIntact == Init => Intact
  <1> SUFFICES ASSUME Init PROVE Intact OBVIOUS
  <1>1. PICK a \in Owners : disk = Login(a, a # Nobody) BY DEF Init
  <1>2. DiskWhole
    <2> SUFFICES ASSUME disk.auth, NEW p \in Profiles, disk.private = p PROVE Whole(disk, p)
      BY DEF DiskWhole, NamesWhole
    <2> QED BY <1>1 DEF Whole, Login
  <1>3. \A t \in Threads : CallWhole(op[t], disk, saved, cut)
    BY OthersWhole DEF Init, Idle, Holding
  <1> QED BY <1>2, <1>3 DEF Intact, AllWhole

LEMMA StepIntact ==
  ASSUME Disciplined, Pure, Intact, NEW t \in Threads, Step(t) PROVE Intact'
  <1>t. /\ op \in [Threads -> Calls] /\ disk \in Files /\ op[t] \in Calls
        /\ saved \in [Profiles -> [files : Files, expired : BOOLEAN]]
        /\ op[t].got \in Files /\ op[t].n \in 1 .. 3 /\ cut \in BOOLEAN
    BY DEF Disciplined, TypeOK, Calls
  <1>c. CallRight(op[t], t) BY DEF Disciplined, CallsRight
  <1>h. op[t].at \in Holding => \A s \in Threads \ {t} : op[s].at \notin Holding
    BY DEF Disciplined, Locked
  <1>f. crossed' = crossed
    BY DEF Step, Begin, SeesRiot, Lock, CaptureFile, Check, StoreCapture, StoreFails, Load,
           ClearFile, WriteFile, FileFails
  <1> SUFFICES ASSUME ~crossed PROVE AllWhole' BY <1>f DEF Intact
  <1>q. CallPure(op[t], disk, riot.account) BY DEF Pure, Clean
  <1>p. DiskWhole /\ \A s \in Threads : CallWhole(op[s], disk, saved, cut)
    BY DEF Intact, AllWhole
  <1>w. CallWhole(op[t], disk, saved, cut) BY <1>p
  <1>o. op[t].at # "idle" => op[t].of \in Profiles /\ op[t].of # Nobody
    BY <1>c DEF CallRight
  <1> HIDE DEF Pure, Intact
  <1>1. ASSUME NEW c, op' = [op EXCEPT ![t] = c],
               op[t].at \in Holding \/ UNCHANGED <<disk, saved, cut>>,
               CallWhole(c, disk', saved', cut'), DiskWhole'
        PROVE  AllWhole'
    <2>1. op'[t] = c /\ \A s \in Threads \ {t} : op'[s] = op[s] BY <1>1, <1>t
    <2>2. \A s \in Threads \ {t} : CallWhole(op[s], disk', saved', cut')
      <3>1. CASE op[t].at \in Holding BY <3>1, <1>h, OthersWhole
      <3>2. CASE UNCHANGED <<disk, saved, cut>> BY <3>2, <1>p
      <3> QED BY <1>1, <3>1, <3>2
    <2>3. \A s \in Threads : CallWhole(op'[s], disk', saved', cut')
      BY <1>1, <2>1, <2>2
    <2> QED BY <1>1, <2>3 DEF AllWhole
  (* A step that leaves the disk and the saves alone.                      *)
  <1>d. ASSUME NEW c, op' = [op EXCEPT ![t] = c], UNCHANGED <<disk, saved>>,
               ~HalfWritten(op[t]), cut' = cut
        PROVE  DiskWhole'
    <2>1. \A s \in Threads \ {t} : op'[s] = op[s] BY <1>d, <1>t
    <2>2. (\A s \in Threads : ~HalfWritten(op'[s])) => \A s \in Threads : ~HalfWritten(op[s])
      BY <2>1, <1>d
    <2> QED BY <1>d, <2>2, <1>p DEF DiskWhole
  <1>k. ASSUME NEW c, op' = [op EXCEPT ![t] = c], UNCHANGED <<disk, saved>>,
               ~HalfWritten(op[t]), cut' = cut, c.at \notin Holding
        PROVE  AllWhole'
    <2>1. CallWhole(c, disk', saved', cut') BY <1>k, OthersWhole
    <2>2. DiskWhole' BY <1>k, <1>d
    <2> QED BY <1>k, <2>1, <2>2, <1>1
  <1>l. ASSUME Leave(t) PROVE op' = [op EXCEPT ![t] = Idle] /\ Idle.at \notin Holding
    BY <1>l DEF Leave, Idle, Holding
  <1>a. ASSUME AfterRefresh(t)
        PROVE \E c : op' = [op EXCEPT ![t] = c] /\ c.at \notin Holding
    <2>1. CASE op[t].kind = "restore"
      <3> DEFINE c == [op[t] EXCEPT !.at = "load", !.n = 1]
      <3>1. op' = [op EXCEPT ![t] = c] BY <1>a, <2>1, <1>t DEF AfterRefresh, Goto
      <3>2. c.at \notin Holding BY <1>t DEF Calls, Holding
      <3> QED BY <3>1, <3>2
    <2>2. CASE op[t].kind # "restore"
      <3>1. op' = [op EXCEPT ![t] = Idle] BY <1>a, <2>2 DEF AfterRefresh
      <3>2. Idle.at \notin Holding BY DEF Idle, Holding
      <3> QED BY <3>1, <3>2
    <2> QED BY <2>1, <2>2
  <1>2. ASSUME NEW kind \in Kinds \ {"none"}, NEW p \in Profiles, Begin(t, kind, p)
        PROVE  AllWhole'
    <2> DEFINE c == [Idle EXCEPT !.kind = kind, !.of = p,
                                 !.at = IF kind = "fresh" THEN "load" ELSE "lock"]
    <2>1. /\ op' = [op EXCEPT ![t] = c] /\ UNCHANGED <<disk, saved, cut>>
          /\ ~HalfWritten(op[t])
      BY <1>2 DEF Begin, HalfWritten
    <2>2. c.at \notin Holding BY DEF Idle, Holding
    <2> HIDE DEF c
    <2> QED BY <2>1, <2>2, <1>k
  <1>3. ASSUME Lock(t) PROVE AllWhole'
    <2>1. UNCHANGED <<disk, saved, cut>> /\ op[t].at = "lock" /\ ~HalfWritten(op[t])
      BY <1>3 DEF Lock, HalfWritten
    <2>2. CASE AfterRefresh(t) BY <2>1, <2>2, <1>a, <1>k
    <2>3. CASE Goto(t, "read")
      <3> DEFINE c == [op[t] EXCEPT !.at = "read", !.n = 1]
      <3>1. op' = [op EXCEPT ![t] = c] BY <2>3, <1>t DEF Goto
      <3>2. c.at = "read" /\ c.got = op[t].got /\ c.of = op[t].of /\ c.n = 1
        BY <1>t DEF Calls
      <3>3. op[t].got = NoFiles BY <2>1, <1>c DEF CallRight
      <3>4. DiskPUUID(c.got) # c.of BY <3>2, <3>3, <2>1, <1>o DEF DiskPUUID, NoFiles, Login
      <3> HIDE DEF c
      <3>5. CallWhole(c, disk', saved', cut') BY <3>2, <3>4 DEF CallWhole, Reads
      <3>6. DiskWhole' BY <2>1, <3>1, <1>d
      <3> QED BY <2>1, <3>1, <3>5, <3>6, <1>1
    <2> QED BY <1>3, <2>2, <2>3 DEF Lock
  <1>4. ASSUME CaptureFile(t) PROVE AllWhole'
    <2> DEFINE part == SessionPaths[op[t].n]
               got == Copy(op[t].got, disk, part)
               c == IF op[t].n < 3 THEN [op[t] EXCEPT !.got = got, !.n = @ + 1]
                    ELSE [op[t] EXCEPT !.got = got, !.n = 1, !.at = "check"]
    <2>1. op' = [op EXCEPT ![t] = c] BY <1>4, <1>t, PathLengths DEF CaptureFile
    <2>2. /\ c.got = got /\ c.of = op[t].of /\ c.foreign = op[t].foreign
          /\ \/ op[t].n \in {1, 2} /\ c.at = "read" /\ c.n = op[t].n + 1
             \/ op[t].n = 3 /\ c.at = "check"
      BY <1>4, <1>t DEF CaptureFile, Calls
    <2>3. UNCHANGED <<disk, saved, cut>> /\ op[t].at = "read" /\ ~HalfWritten(op[t])
      BY <1>4 DEF CaptureFile, HalfWritten
    <2>4. /\ op[t].of # Nobody /\ op[t].of \in Profiles BY <2>3, <1>o
    <2>5. got \in Files BY <1>t, FilesTypes
    <2>6. /\ op[t].n = 1 => /\ got.private = disk.private /\ got.auth = disk.auth
          /\ op[t].n \in {2, 3} => /\ got.private = op[t].got.private /\ got.auth = op[t].got.auth
          /\ op[t].n = 2 => got.cookies = disk.cookies
          /\ op[t].n = 3 => got.cookies = op[t].got.cookies /\ got.sessions = disk.sessions
      BY <1>t DEF Copy, SessionPaths, Files
    <2> HIDE DEF c, got, part
    <2>7. CASE op[t].n = 1
      <3>1. c.at = "read" /\ c.n = 2 BY <2>2, <2>7
      <3>2. ASSUME ~cut, Reads(c), Whole(saved[c.of].files, c.of)
            PROVE  disk.cookies = c.of /\ disk.sessions = c.of
        <4>1. disk.auth /\ disk.private = op[t].of
          BY <2>2, <2>4, <2>6, <2>7, <3>2 DEF Reads, DiskPUUID
        <4>2. \A s \in Threads : ~HalfWritten(op[s])
          BY <2>3, <1>h, OthersWhole DEF Holding
        <4>3. Whole(disk, op[t].of)
          BY <4>1, <4>2, <2>2, <2>4, <3>2, <1>p DEF DiskWhole, NamesWhole
        <4> QED BY <4>3, <2>2, <1>t, WholeLogin
      <3>3. CallWhole(c, disk, saved, cut) BY <3>1, <3>2 DEF CallWhole
      <3> QED BY <2>1, <2>3, <3>3, <1>1, <1>d
    <2>8. CASE op[t].n = 2
      <3>1. c.at = "read" /\ c.n = 3 BY <2>2, <2>8
      <3>2. Reads(c) => Reads(op[t])
        BY <2>2, <2>3, <2>6, <2>8 DEF Reads, DiskPUUID
      <3>3. ASSUME ~cut, Reads(c), Whole(saved[c.of].files, c.of)
            PROVE  c.got.cookies = c.of /\ disk.sessions = c.of
        BY <2>2, <2>3, <2>6, <2>8, <3>2, <3>3, <1>w DEF CallWhole
      <3>4. CallWhole(c, disk, saved, cut) BY <2>2, <2>6, <2>8, <3>1, <3>3 DEF CallWhole
      <3> QED BY <2>1, <2>3, <3>4, <1>1, <1>d
    <2>9. CASE op[t].n = 3
      <3>1. c.at = "check" BY <2>2, <2>9
      <3>2. Reads(c) => Reads(op[t])
        BY <2>2, <2>3, <2>6, <2>9 DEF Reads, DiskPUUID
      <3>3. ASSUME ~cut, Reads(c), Whole(saved[c.of].files, c.of)
            PROVE  Whole(got, c.of)
        <4>1. op[t].got.cookies = c.of /\ disk.sessions = c.of
          BY <2>2, <2>3, <2>9, <3>2, <3>3, <1>w DEF CallWhole
        <4>2. got.private = c.of /\ got.auth
          BY <2>2, <2>4, <3>3 DEF Reads, DiskPUUID
        <4> QED BY <2>5, <2>6, <2>9, <4>1, <4>2, WholeLogin
      <3>4. disk.auth /\ disk.private = c.of => (got.cookies = c.of => disk.cookies = c.of)
        BY <2>2, <2>3, <2>6, <2>9, <1>w DEF CallWhole
      <3>5. CallWhole(c, disk, saved, cut)
        BY <2>2, <2>6, <2>9, <3>1, <3>3, <3>4 DEF CallWhole
      <3> QED BY <2>1, <2>3, <3>5, <1>1, <1>d
    <2> QED BY <1>t, <2>7, <2>8, <2>9
  <1>5. ASSUME Check(t) PROVE AllWhole'
    <2>1. UNCHANGED <<disk, saved, cut>> /\ op[t].at = "check" /\ ~HalfWritten(op[t])
      BY <1>5 DEF Check, HalfWritten
    <2>2. CASE Leave(t) BY <2>1, <2>2, <1>l, <1>k
    <2>3. CASE AfterRefresh(t) BY <2>1, <2>3, <1>a, <1>k
    <2>4. CASE /\ Goto(t, "store") /\ RememberedLoginReady(op[t].got, op[t].of)
               /\ op[t].kind \in {"capture", "refresh"} => riot.account = op[t].of
      <3> DEFINE c == [op[t] EXCEPT !.at = "store", !.n = 1]
      <3>1. op' = [op EXCEPT ![t] = c] BY <2>4, <1>t DEF Goto
      <3>2. c.at = "store" /\ c.got = op[t].got /\ c.of = op[t].of
        BY <1>t DEF Calls
      <3>3. Reads(op[t]) BY <2>1, <2>4, <1>q DEF CallPure, Reads, RememberedLoginReady
      <3> HIDE DEF c
      <3>4. CallWhole(c, disk, saved, cut)
        BY <2>1, <3>2, <3>3, <1>w DEF CallWhole
      <3> QED BY <2>1, <3>1, <3>4, <1>1, <1>d
    <2> QED BY <1>5, <2>2, <2>3, <2>4 DEF Check, Verified
  <1>6. ASSUME StoreCapture(t) PROVE AllWhole'
    <2>1. op[t].at = "store" /\ AfterRefresh(t) /\ UNCHANGED <<disk, cut>>
          /\ op[t].of \in Profiles
      BY <1>6, <1>o DEF StoreCapture
    <2>2. PICK c : op' = [op EXCEPT ![t] = c] /\ c.at \notin Holding
      BY <2>1, <1>a
    <2>3. CallWhole(c, disk', saved', cut') BY <2>2, OthersWhole
    <2>4. /\ saved'[op[t].of].files = op[t].got
          /\ \A p \in Profiles \ {op[t].of} : saved'[p] = saved[p]
      BY <1>6, <2>1, <1>t DEF StoreCapture
    <2>5. ASSUME ~cut, disk.auth, NEW p \in Profiles, disk.private = p,
                 Whole(saved'[p].files, p)
          PROVE  Whole(disk, p)
      <3>1. CASE p = op[t].of
        <4>1. op[t].got.cookies = p /\ op[t].got.sessions = p
          BY <2>4, <2>5, <3>1, <1>t, WholeLogin
        <4>2. disk.cookies = p /\ disk.sessions = p
          BY <2>1, <2>5, <3>1, <4>1, <1>w DEF CallWhole
        <4> QED BY <2>5, <4>2, <1>t, WholeLogin
      <3>2. CASE p # op[t].of
        <4>1. \A s \in Threads : ~HalfWritten(op[s])
          BY <2>1, <1>h, OthersWhole DEF Holding, HalfWritten
        <4> QED BY <2>4, <2>5, <3>2, <4>1, <1>p DEF DiskWhole, NamesWhole
      <3> QED BY <3>1, <3>2
    <2>6. DiskWhole' BY <2>1, <2>5 DEF DiskWhole, NamesWhole, Whole
    <2> QED BY <2>1, <2>2, <2>3, <2>6, <1>1 DEF Holding
  <1>7. ASSUME StoreFails(t) \/ FileFails(t) PROVE AllWhole'
    <2>1. /\ UNCHANGED <<disk, saved>> /\ op[t].at \in Holding
          /\ op' = [op EXCEPT ![t] = Idle] /\ Idle.at \notin Holding
      BY <1>7, <1>l DEF StoreFails, FileFails, Holding
    <2>2. cut' = (cut \/ HalfWritten(op[t]))
      <3>1. CASE StoreFails(t) BY <3>1, <1>t DEF StoreFails, HalfWritten
      <3>2. CASE FileFails(t)
        BY <3>2, <1>t, PathLengths DEF FileFails, Partway, HalfWritten
      <3> QED BY <1>7, <3>1, <3>2
    <2>3. DiskWhole'
      <3>1. CASE HalfWritten(op[t]) BY <3>1, <2>2 DEF DiskWhole
      <3>2. CASE ~HalfWritten(op[t])
        <4>1. DiskWhole => (~cut => (disk.auth /\ (\A s \in Threads : ~HalfWritten(op[s]))
                                       => NamesWhole(disk, saved)))
          BY DEF DiskWhole
        <4>2. \A s \in Threads : ~HalfWritten(op[s])
          BY <2>1, <3>2, <1>h, OthersWhole
        <4> QED BY <2>1, <2>2, <3>2, <4>1, <4>2, <1>p DEF DiskWhole
      <3> QED BY <3>1, <3>2
    <2>4. CallWhole(Idle, disk', saved', cut') BY <2>1, OthersWhole
    <2> QED BY <2>1, <2>3, <2>4, <1>1
  <1>8. ASSUME Load(t) PROVE AllWhole'
    <2>1. PICK files \in Loadable(t) :
            op' = [op EXCEPT ![t].at = "clear", ![t].n = 1, ![t].got = files]
      BY <1>8 DEF Load
    <2> DEFINE c == [op[t] EXCEPT !.at = "clear", !.n = 1, !.got = files]
    <2>2. /\ op' = [op EXCEPT ![t] = c] /\ UNCHANGED <<disk, saved, cut>>
          /\ ~HalfWritten(op[t]) /\ op[t].at = "load"
      BY <2>1, <1>8, <1>t DEF Load, HalfWritten
    <2>3. /\ c.at = "clear" /\ c.n = 1 /\ c.got = files /\ c.of = op[t].of
      BY <1>t DEF Calls
    <2>4. files.auth => files = saved[op[t].of].files /\ files.private = op[t].of
      <3>1. ~NoFiles.auth /\ ~TrustOnly(op[t].of).auth BY DEF NoFiles, TrustOnly, Login
      <3>2. op[t].of # Nobody BY <2>2, <1>o
      <3> QED BY <2>1, <3>1, <3>2
              DEF Loadable, LoginStatus, RememberedLoginReady, DiskPUUID
    <2> HIDE DEF c
    <2>5. CallWhole(c, disk, saved, cut) BY <2>3, <2>4 DEF CallWhole, Reads
    <2> QED BY <2>2, <2>5, <1>1, <1>d
  <1>9. ASSUME ClearFile(t) PROVE AllWhole'
    <2> DEFINE c == IF op[t].n < 3 THEN [op[t] EXCEPT !.n = @ + 1]
                    ELSE [op[t] EXCEPT !.n = 1, !.at = "write"]
    <2>1. op' = [op EXCEPT ![t] = c] BY <1>9, <1>t, PathLengths DEF ClearFile, Goto
    <2>2. /\ c.got = op[t].got /\ c.of = op[t].of
          /\ c.at = "clear" \/ (c.at = "write" /\ c.n = 1)
      BY <1>9, <1>t DEF ClearFile, Calls
    <2>3. /\ UNCHANGED <<saved, cut>> /\ op[t].at = "clear"
          /\ disk' = Copy(disk, NoFiles, SessionPaths[op[t].n])
      BY <1>9 DEF ClearFile
    <2>4. ~disk'.auth
      <3>1. CASE op[t].n = 1 BY <3>1, <2>3, <1>t DEF SessionPaths, Copy, NoFiles, Login, Files
      <3>2. CASE op[t].n # 1
        <4>1. ~disk.auth BY <3>2, <2>3, <1>t, <1>q DEF CallPure
        <4>2. SessionPaths[op[t].n] \in {"cookies", "sessions"}
          BY <3>2, <1>t DEF SessionPaths
        <4> QED BY <4>1, <4>2, <2>3, <1>t DEF Copy, Files
      <3> QED BY <3>1, <3>2
    <2>5. DiskWhole' BY <2>4 DEF DiskWhole
    <2> HIDE DEF c
    <2>6. CallWhole(c, disk', saved, cut)
      BY <2>2, <2>3, <2>4, <1>w DEF CallWhole, Reads
    <2> QED BY <2>1, <2>3, <2>5, <2>6, <1>1 DEF Holding
  <1>10. ASSUME WriteFile(t) PROVE AllWhole'
    <2> DEFINE part == SortedKeys[op[t].n]
    <2>1. saved' = saved /\ op[t].at = "write" /\ op[t].at \in Holding
          /\ disk' = IF Held(op[t].got, part) = Nobody THEN disk ELSE Copy(disk, op[t].got, part)
      BY <1>10 DEF WriteFile, Holding
    <2>2. (op[t].n \in {1, 2} => ~disk.auth) /\ (disk.auth => disk.private = op[t].of)
      BY <2>1, <1>q DEF CallPure
    <2>3. op[t].of \in Profiles /\ op[t].of # Nobody BY <2>1, <1>o
    <2>4. /\ op[t].n = 1 => /\ disk'.auth = disk.auth
                            /\ op[t].got.cookies # Nobody => disk'.cookies = op[t].got.cookies
          /\ op[t].n = 2 => /\ disk'.auth \in {disk.auth, op[t].got.auth}
                            /\ disk'.cookies = disk.cookies
          /\ op[t].n = 3 => /\ disk'.auth = disk.auth /\ disk'.private = disk.private
                            /\ disk'.cookies = disk.cookies
                            /\ op[t].got.sessions # Nobody => disk'.sessions = op[t].got.sessions
      BY <2>1, <1>t DEF SortedKeys, Copy, Held, Files
    <2>5. disk' \in Files BY <2>1, <1>t, FilesTypes
    <2>6. CASE op[t].n < 3
      <3> DEFINE c == [op[t] EXCEPT !.n = @ + 1]
      <3>1. op' = [op EXCEPT ![t] = c] /\ cut' = cut BY <1>10, <2>6, <1>t, PathLengths DEF WriteFile
      <3>2. /\ c.got = op[t].got /\ c.of = op[t].of
            /\ c.at = "write" /\ c.n = op[t].n + 1
        BY <2>1, <1>t DEF Calls
      <3> HIDE DEF c, part
      <3>3. (op[t].n = 1 /\ c.n = 2) \/ (op[t].n = 2 /\ c.n = 3) BY <2>6, <3>2, <1>t
      <3>4. CallWhole(c, disk', saved, cut)
        <4>1. c.got.auth => c.got = saved[c.of].files /\ c.got.private = c.of
          BY <2>1, <3>2, <1>w DEF CallWhole
        <4>2. c.got.cookies # Nobody => disk'.cookies = c.got.cookies
          BY <2>1, <2>4, <3>2, <3>3, <1>w DEF CallWhole
        <4>3. c.n = 3 /\ disk'.auth => c.got.auth
          BY <2>2, <2>4, <3>2, <3>3
        <4> QED BY <3>2, <4>1, <4>2, <4>3 DEF CallWhole, Reads
      <3>5. DiskWhole'
        <4>1. op'[t] = c BY <3>1, <1>t
        <4>2. CASE c.n = 3 BY <3>2, <4>1, <4>2 DEF DiskWhole, HalfWritten
        <4>3. CASE op[t].n = 1 BY <2>2, <2>4, <4>3 DEF DiskWhole
        <4> QED BY <3>3, <4>2, <4>3
      <3> QED BY <2>1, <3>1, <3>4, <3>5, <1>1
    <2>7. CASE ~(op[t].n < 3)
      <3>1. Leave(t) /\ cut' = FALSE /\ op[t].n = 3
        BY <1>10, <2>7, <1>t, PathLengths DEF WriteFile
      <3>2. ASSUME disk'.auth, NEW p \in Profiles, disk'.private = p,
                   Whole(saved[p].files, p)
            PROVE  Whole(disk', p)
        <4>1. p = op[t].of /\ disk.auth BY <2>2, <2>4, <3>1, <3>2
        <4>2. op[t].got = saved[p].files
          BY <2>1, <3>1, <4>1, <1>w DEF CallWhole
        <4>3. op[t].got.cookies = p /\ op[t].got.sessions = p
          BY <3>2, <4>2, <1>t, WholeLogin
        <4>4. disk'.cookies = p /\ disk'.sessions = p
          BY <2>1, <2>3, <2>4, <3>1, <4>1, <4>3, <1>w DEF CallWhole
        <4> QED BY <2>5, <3>2, <4>4, WholeLogin
      <3>3. DiskWhole' BY <2>1, <3>2 DEF DiskWhole, NamesWhole, Whole
      <3>4. CallWhole(Idle, disk', saved', cut') BY <3>1, <1>l, OthersWhole
      <3> QED BY <2>1, <3>1, <3>3, <3>4, <1>l, <1>1
    <2> QED BY <2>6, <2>7
  <1>11. ASSUME SeesRiot(t) PROVE AllWhole'
    <2>1. UNCHANGED <<disk, saved, cut>> /\ AfterRefresh(t) /\ ~HalfWritten(op[t])
      BY <1>11 DEF SeesRiot, HalfWritten
    <2> QED BY <2>1, <1>a, <1>k
  <1> QED BY <1>2, <1>3, <1>4, <1>5, <1>6, <1>7, <1>8, <1>9, <1>10, <1>11 DEF Step

(* Neither Riot, the user, the clock nor a crash loses a file.             *)
LEMMA OutsideIntact ==
  ASSUME Disciplined, Pure, Intact, Outside PROVE Intact'
  <1>t. /\ op \in [Threads -> Calls] /\ disk \in Files /\ cut \in BOOLEAN
        /\ saved \in [Profiles -> [files : Files, expired : BOOLEAN]]
    BY DEF Disciplined, TypeOK
  <1> SUFFICES ASSUME ~crossed' PROVE AllWhole' BY DEF Intact
  <1>x. ~crossed
    BY DEF Outside, Delete, Expire, SignsIn, RiotOpens, SignsOut, RiotWrites, RiotCloses,
           Write, Crash, vars
  <1>p. DiskWhole /\ \A s \in Threads : CallWhole(op[s], disk, saved, cut)
    BY <1>x DEF Intact, AllWhole
  <1>o. \A s \in Threads : op[s].at \in Holding => op[s].of \in Profiles
    BY DEF Disciplined, CallsRight, CallRight, Holding
  <1> HIDE DEF Pure, Intact
  <1>1. ASSUME UNCHANGED <<disk, op, cut>>,
               \A p \in Profiles : saved'[p].files = saved[p].files
        PROVE  AllWhole'
    <2>1. DiskWhole' BY <1>1, <1>p DEF DiskWhole, NamesWhole
    <2>2. ASSUME NEW s \in Threads PROVE CallWhole(op[s], disk, saved', cut)
      <3>1. CASE op[s].at \in Holding
        <4>1. saved'[op[s].of].files = saved[op[s].of].files BY <1>1, <1>o, <3>1
        <4>2. CallWhole(op[s], disk, saved, cut) BY <1>p
        <4> QED BY <4>1, <4>2 DEF CallWhole
      <3>2. CASE op[s].at \notin Holding BY <3>2, OthersWhole
      <3> QED BY <3>1, <3>2
    <2> QED BY <1>1, <2>1, <2>2 DEF AllWhole
  <1>2. ASSUME NEW p \in Profiles, Delete(p) PROVE AllWhole'
    <2>1. /\ UNCHANGED <<disk, op, cut>> /\ mu = "free"
          /\ saved' = [saved EXCEPT ![p] = [files |-> NoFiles, expired |-> FALSE]]
      BY <1>2 DEF Delete
    <2>2. \A s \in Threads : op[s].at \notin Holding
      BY <2>1 DEF Disciplined, Locked, Threads
    <2>3. \A q \in Profiles : saved'[q].files = saved[q].files \/ ~Whole(saved'[q].files, q)
      <3>1. ~Whole(NoFiles, p) BY DEF Whole, NoFiles, Login
      <3>2. \A q \in Profiles :
              saved'[q] = IF q = p THEN [files |-> NoFiles, expired |-> FALSE] ELSE saved[q]
        BY <2>1, <1>t
      <3> QED BY <3>1, <3>2
    <2>4. DiskWhole' BY <2>1, <2>3, <1>p DEF DiskWhole, NamesWhole
    <2> QED BY <2>1, <2>2, <2>4, OthersWhole DEF AllWhole
  <1>3. ASSUME NEW p \in Profiles, Expire(p) PROVE AllWhole'
    <2>1. UNCHANGED <<disk, op, cut>> BY <1>3 DEF Expire
    <2>2. \A q \in Profiles : saved'[q].files = saved[q].files BY <1>3, <1>t DEF Expire
    <2> QED BY <2>1, <2>2, <1>1
  <1>4. CASE (\E a \in Accounts : SignsIn(a)) \/ RiotOpens \/ UNCHANGED vars
             \/ (RiotCloses /\ ~Write(riot.account))
    BY <1>4, <1>1 DEF SignsIn, RiotOpens, vars, RiotCloses
  <1>5. CASE SignsOut
    <2>1. /\ disk' = [disk EXCEPT !.auth = FALSE] /\ UNCHANGED <<op, saved, cut>>
      BY <1>5 DEF SignsOut
    <2>2. /\ ~disk'.auth /\ disk'.cookies = disk.cookies /\ disk'.sessions = disk.sessions
      BY <2>1, <1>t DEF Files
    <2>3. \A s \in Threads : CallWhole(op[s], disk', saved, cut)
      BY <2>2, <1>p DEF CallWhole
    <2>4. DiskWhole' BY <2>2 DEF DiskWhole
    <2> QED BY <2>1, <2>3, <2>4 DEF AllWhole
  <1>6. ASSUME RiotWrites \/ RiotCloses, Write(riot.account) PROVE AllWhole'
    <2> DEFINE a == riot.account
    <2>1. /\ op' \in [Threads -> Calls]
          /\ \A t \in Threads :
               /\ op'[t].kind = op[t].kind /\ op'[t].at = op[t].at /\ op'[t].of = op[t].of
               /\ op'[t].n = op[t].n /\ op'[t].got = op[t].got
               /\ op'[t].foreign = (op[t].foreign \/ (Live(t) /\ a # op[t].of))
      BY <1>6, <1>t, WriteMarks
    <2>2. PICK auth \in BOOLEAN : disk' = Login(a, auth) BY <1>6 DEF Write
    <2>3. ~Crosses(a) /\ cut' = (cut /\ \E t \in Threads : op[t].at \in {"read", "check", "store"})
      BY <1>6 DEF Write
    <2>4. /\ disk'.private = a /\ disk'.auth = auth
          /\ disk'.cookies = a /\ disk'.sessions = a
      BY <2>2 DEF Login
    <2>5. saved' = saved BY <1>6 DEF RiotWrites, RiotCloses
    <2>6. DiskWhole'
      <3>1. disk'.auth => Whole(disk', a) BY <2>2, <2>4 DEF Whole
      <3> QED BY <2>4, <3>1 DEF DiskWhole, NamesWhole
    <2>7. ASSUME NEW t \in Threads PROVE CallWhole(op'[t], disk', saved, cut')
      <3>1. CallWhole(op[t], disk, saved, cut) BY <1>p
      <3>2. op[t].at \notin {"clear", "write"} BY <2>3 DEF Crosses
      <3>3. op[t].at \in {"read", "check"} /\ ~Live(t) => a = op[t].of BY <2>3 DEF Crosses
      <3>4. Reads(op'[t]) => Reads(op[t]) /\ a = op[t].of
        BY <2>1, <3>3 DEF Reads
      <3>5. op[t].at \in {"read", "check", "store"} => (cut <=> cut')
        BY <2>3, <1>t
      <3> HIDE DEF a
      <3>6. CASE op[t].at \in {"read", "check", "store"}
        BY <2>1, <2>4, <3>1, <3>4, <3>5, <3>6 DEF CallWhole
      <3>7. CASE op[t].at \notin {"read", "check", "store"}
        BY <2>1, <3>2, <3>7, OthersWhole DEF Holding
      <3> QED BY <3>6, <3>7
    <2> QED BY <2>5, <2>6, <2>7 DEF AllWhole
  <1>7. CASE Crash
    <2>1. /\ \A t \in Threads : op'[t] = Idle
          /\ UNCHANGED <<disk, saved>>
          /\ cut' = (cut \/ \E t \in Threads : HalfWritten(op[t]))
      BY <1>7, PathLengths DEF Crash, Partway, HalfWritten
    <2>2. DiskWhole'
      <3>1. CASE \E t \in Threads : HalfWritten(op[t]) BY <2>1, <3>1 DEF DiskWhole
      <3>2. CASE ~\E t \in Threads : HalfWritten(op[t])
        <4>1. cut' = cut BY <2>1, <3>2, <1>t
        <4> QED BY <2>1, <3>2, <4>1, <1>p DEF DiskWhole
      <3> QED BY <3>1, <3>2
    <2>3. \A t \in Threads : CallWhole(op'[t], disk', saved', cut')
      BY <2>1, OthersWhole DEF Idle, Holding
    <2> QED BY <2>2, <2>3 DEF AllWhole
  <1> QED BY <1>2, <1>3, <1>4, <1>5, <1>6, <1>7 DEF Outside, RiotWrites

(* Wholeness is inductive.                                                 *)
LEMMA NextIntact == Disciplined /\ Pure /\ Intact /\ [Next]_vars => Intact'
  BY StepIntact, OutsideIntact DEF Next, Outside

(* A save that was whole never loses a file to a refresh or a capture,     *)
(* wherever calls fail, crash or cross a running client, unless a restore  *)
(* was cut short before (remembered.go:103).                               *)
THEOREM LosesNoFile == Spec => LosesFilesOnlyToACut
  <1>1. Disciplined /\ Pure /\ Intact /\ [Next]_vars
          => [\A p \in Profiles :
                Whole(saved[p].files, p) /\ saved'[p].files # NoFiles
                  => Whole(saved'[p].files, p) \/ cut \/ crossed]_vars
    <2> SUFFICES ASSUME Disciplined, Intact, Next, NEW p \in Profiles,
                        Whole(saved[p].files, p), saved'[p].files # NoFiles, ~cut, ~crossed
                 PROVE  Whole(saved'[p].files, p)
      OBVIOUS
    <2>1. saved \in [Profiles -> [files : Files, expired : BOOLEAN]]
      BY DEF Disciplined, TypeOK
    <2>2. ASSUME NEW t \in Threads, StoreCapture(t) PROVE Whole(saved'[p].files, p)
      <3>1. CASE op[t].of = p
        <4>1. CallWhole(op[t], disk, saved, cut) /\ op[t].at = "store"
          BY <2>2 DEF Intact, AllWhole, StoreCapture
        <4>2. Whole(op[t].got, p) BY <3>1, <4>1 DEF CallWhole
        <4>3. saved'[p].files = op[t].got BY <2>1, <2>2, <3>1 DEF StoreCapture
        <4> QED BY <4>2, <4>3
      <3>2. CASE op[t].of # p
        <4>1. saved'[p] = saved[p] BY <2>1, <2>2, <3>2 DEF StoreCapture
        <4> QED BY <4>1
      <3> QED BY <3>1, <3>2
    <2>3. ASSUME NEW q \in Profiles, Delete(q) \/ Expire(q) PROVE Whole(saved'[p].files, p)
      <3>1. saved'[p].files \in {saved[p].files, NoFiles}
        BY <2>1, <2>3 DEF Delete, Expire
      <3> QED BY <3>1
    <2>4. CASE ~(\E t \in Threads : StoreCapture(t))
               /\ ~(\E q \in Profiles : Delete(q) \/ Expire(q))
      <3>1. saved' = saved
        BY <2>4 DEF Next, Step, Begin, SeesRiot, Lock, CaptureFile, Check, StoreFails, Load,
                    ClearFile, WriteFile, FileFails, SignsIn, RiotOpens, SignsOut, RiotWrites,
                    RiotCloses, Crash
      <3> QED BY <3>1
    <2> QED BY <2>2, <2>3, <2>4
  <1> QED
    BY <1>1, InitDisciplined, NextDisciplined, InitPure, NextPure, InitIntact, NextIntact, PTL
       DEF Spec, LosesFilesOnlyToACut

------------------------------------------------------------------------------
(* The refinement of SavedLogins.                                          *)

(* A refresh that went past the lock is of a profile that has a save.      *)
Refreshing(c) == c.at \in {"read", "check", "store"} /\ c.kind \notin Captures

KnowsSaves == \A t \in Threads : Refreshing(op[t]) => Stored(op[t].of)

RefInv == Disciplined /\ KnowsSaves

promised == <<promisedSaves, promisedStored, promisedAsked>>

(* Only the thread that holds lifecycleMu captures.                        *)
LEMMA AskedByMain ==
  Disciplined => promisedAsked = IF op["main"].kind \in Captures THEN {op["main"].of} ELSE {}
  <1> SUFFICES ASSUME Disciplined
               PROVE promisedAsked = IF op["main"].kind \in Captures THEN {op["main"].of} ELSE {}
    OBVIOUS
  <1>1. op["cleanup"].kind \notin Captures
    BY DEF Disciplined, CallsRight, CallRight, Threads, Captures
  <1>2. op["main"].kind \in Captures => op["main"].of \in Profiles
    BY DEF Disciplined, CallsRight, CallRight, Threads, Captures
  <1> QED BY <1>1, <1>2 DEF promisedAsked, Threads

(* What is saved decides what is promised of it.                           *)
LEMMA SameSaves ==
  saved' = saved => promisedSaves' = promisedSaves /\ promisedStored' = promisedStored
  BY DEF promisedSaves, promisedStored, Stored

(* What is promised of one save.                                           *)
Promised(save, p) ==
  [ready   |-> save.files # NoFiles /\ RememberedLoginReady(save.files, p),
   expired |-> save.files = NoFiles \/ save.expired]

(* A step that changes one save changes one promise.                       *)
LEMMA OneSave ==
  ASSUME NEW p \in Profiles, NEW save, \A q \in Profiles : saved'[q] = IF q = p THEN save ELSE saved[q]
  PROVE  /\ promisedSaves' = [promisedSaves EXCEPT ![p] = Promised(save, p)]
         /\ promisedSaves[p] = Promised(saved[p], p)
  <1>1. promisedSaves = [q \in Profiles |-> Promised(saved[q], q)]
    BY DEF promisedSaves, Promised, Stored
  <1>2. promisedSaves' = [q \in Profiles |-> Promised(saved'[q], q)]
    BY DEF promisedSaves, Promised, Stored
  <1>3. promisedSaves' = [q \in Profiles |-> IF q = p THEN Promised(save, p)
                                             ELSE Promised(saved[q], q)]
    BY <1>2
  <1> QED BY <1>1, <1>3

(* A field replaced in a record.                                           *)
LEMMA ExpiredRecord ==
  ASSUME NEW a, NEW b, NEW c
  PROVE  [[ready |-> a, expired |-> b] EXCEPT !.expired = c]
           = [ready |-> a, expired |-> c]
  OBVIOUS

(* A save that expires stays as usable as it was.                          *)
LEMMA ExpiredSave ==
  ASSUME NEW f, NEW g, NEW p, g.files = f.files, g.expired = TRUE
  PROVE  Promised(g, p) = [Promised(f, p) EXCEPT !.expired = TRUE]
  <1> DEFINE ready(s) == s.files # NoFiles /\ RememberedLoginReady(s.files, p)
             over(s) == s.files = NoFiles \/ s.expired
  <1>1. /\ Promised(g, p) = [ready |-> ready(g), expired |-> over(g)]
        /\ Promised(f, p) = [ready |-> ready(f), expired |-> over(f)]
    BY DEF Promised
  <1>2. ready(g) = ready(f) OBVIOUS
  <1>3. over(g) = TRUE
    <2>1. g.expired OBVIOUS
    <2>2. over(g) BY <2>1
    <2>3. over(g) \in BOOLEAN OBVIOUS
    <2> HIDE DEF over
    <2> QED BY <2>2, <2>3
  <1>4. [[ready |-> ready(f), expired |-> over(f)] EXCEPT !.expired = TRUE]
          = [ready |-> ready(f), expired |-> TRUE]
    <2> HIDE DEF ready, over
    <2> QED BY ExpiredRecord
  <1> HIDE DEF ready, over
  <1> QED BY <1>1, <1>2, <1>3, <1>4

(* The initial states map to initial states.                               *)
LEMMA InitPromised == Init => Store!Init
  <1> SUFFICES ASSUME Init PROVE Store!Init OBVIOUS
  <1>1. promisedAsked = {} BY DEF Init, promisedAsked, Idle, Captures
  <1>2. promisedStored \in SUBSET Profiles BY DEF promisedStored
  <1>3. promisedSaves \in [Profiles -> Store!SaveStates]
    <2>1. \A p \in Profiles : /\ (Stored(p) /\ RememberedLoginReady(saved[p].files, p)) \in BOOLEAN
                              /\ (~Stored(p) \/ saved[p].expired) \in BOOLEAN
      BY DEF Init, Stored, RememberedLoginReady
    <2> QED BY <2>1 DEF promisedSaves, Store!SaveStates
  <1>4. \A p \in Profiles \ promisedStored : promisedSaves[p] = Store!NoSave
    BY DEF promisedSaves, promisedStored, Store!NoSave
  <1> QED BY <1>1, <1>2, <1>3, <1>4 DEF Store!Init

(* The invariant of the refinement holds at first.                         *)
LEMMA InitRefInv == Init => RefInv
  <1> SUFFICES ASSUME Init PROVE RefInv OBVIOUS
  <1>1. \A t \in Threads : op[t] = Idle BY DEF Init
  <1>2. KnowsSaves BY <1>1 DEF KnowsSaves, Refreshing, Idle
  <1> QED BY <1>2, InitDisciplined DEF RefInv

(* A step of a call maps to a step of SavedLogins, or to none.             *)
LEMMA StepPromised ==
  ASSUME RefInv, Disciplined', NEW t \in Threads, Step(t)
  PROVE  KnowsSaves' /\ (Store!Next \/ UNCHANGED promised)
  <1>t. /\ op \in [Threads -> Calls] /\ op[t] \in Calls
        /\ saved \in [Profiles -> [files : Files, expired : BOOLEAN]]
    BY DEF RefInv, Disciplined, TypeOK
  <1>c. CallRight(op[t], t) BY DEF RefInv, Disciplined, CallsRight
  <1>o. op[t].at # "idle" => op[t].of \in Profiles /\ op[t].of # Nobody
    BY <1>c DEF CallRight
  <1>k. KnowsSaves BY DEF RefInv
  <1>m. /\ promisedAsked = IF op["main"].kind \in Captures THEN {op["main"].of} ELSE {}
        /\ promisedAsked' = IF op'["main"].kind \in Captures THEN {op'["main"].of} ELSE {}
    <2>1. promisedAsked = IF op["main"].kind \in Captures THEN {op["main"].of} ELSE {}
      BY AskedByMain DEF RefInv
    <2>2. Disciplined' => (promisedAsked = IF op["main"].kind \in Captures
                                           THEN {op["main"].of} ELSE {})'
      BY AskedByMain, PTL
    <2> QED BY <2>1, <2>2
  <1>n. t # "main" => op[t].kind \notin Captures
    BY <1>c DEF CallRight, Threads, Captures
  (* A call that goes on, and one that is over.                            *)
  <1>g. ASSUME NEW c, op' = [op EXCEPT ![t] = c],
               \/ c.kind = op[t].kind /\ c.of = op[t].of
               \/ op[t].kind \notin Captures /\ c.kind \notin Captures
        PROVE  promisedAsked' = promisedAsked
    BY <1>g, <1>t, <1>m DEF Threads
  <1>e. ASSUME op' = [op EXCEPT ![t] = Idle], op[t].kind \in Captures
        PROVE  op[t].of \in promisedAsked /\ promisedAsked' = promisedAsked \ {op[t].of}
    <2>1. t = "main" /\ op'["main"].kind \notin Captures
      BY <1>e, <1>n, <1>t DEF Idle, Captures
    <2> QED BY <2>1, <1>e, <1>m
  <1>s. ASSUME NEW c, op' = [op EXCEPT ![t] = c],
               \/ saved' = saved
               \/ \A p \in Profiles : saved[p].files # NoFiles => saved'[p].files # NoFiles,
               Refreshing(c) => c.of \in Profiles /\ saved'[c.of].files # NoFiles
        PROVE  KnowsSaves'
    <2>1. ASSUME NEW s \in Threads, Refreshing(op'[s])
          PROVE  saved'[op'[s].of].files # NoFiles
      <3>1. CASE s = t
        <4>1. op'[s] = c BY <3>1, <1>s, <1>t
        <4> QED BY <4>1, <2>1, <1>s
      <3>2. CASE s # t
        <4>1. op'[s] = op[s] BY <3>2, <1>s, <1>t
        <4>2. saved[op[s].of].files # NoFiles BY <4>1, <2>1, <1>k DEF KnowsSaves, Stored
        <4>3. op[s].of \in Profiles
          BY <4>1, <2>1 DEF RefInv, Disciplined, CallsRight, CallRight, Refreshing
        <4> QED BY <4>1, <4>2, <4>3, <1>s
      <3> QED BY <3>1, <3>2
    <2> QED BY <2>1 DEF KnowsSaves, Stored, Refreshing
  <1>u. ASSUME saved' = saved, promisedAsked' = promisedAsked PROVE UNCHANGED promised
    BY <1>u, SameSaves DEF promised
  (* A call that leaves, with nothing saved.                               *)
  <1>l. ASSUME Leave(t), saved' = saved, op[t].at # "idle"
        PROVE  KnowsSaves' /\ (Store!Next \/ UNCHANGED promised)
    <2>1. op' = [op EXCEPT ![t] = Idle] BY <1>l DEF Leave
    <2>2. KnowsSaves' BY <2>1, <1>l, <1>s DEF Refreshing, Idle
    <2>3. CASE op[t].kind \in Captures
      <3>1. Store!Withdraw(op[t].of)
        BY <2>1, <2>3, <1>e, <1>l, SameSaves DEF Store!Withdraw
      <3> QED BY <3>1, <2>2, <1>l, <1>o DEF Store!Next
    <2>4. CASE op[t].kind \notin Captures
      BY <2>1, <2>2, <2>4, <1>l, <1>g, <1>u DEF Idle, Captures
    <2> QED BY <2>3, <2>4
  <1>a. ASSUME AfterRefresh(t)
        PROVE  \E c : /\ op' = [op EXCEPT ![t] = c] /\ c.at \in {"load", "idle"}
                      /\ c = Idle \/ (op[t].kind \notin Captures /\ c.kind = op[t].kind)
    <2>1. CASE op[t].kind = "restore"
      <3> DEFINE c == [op[t] EXCEPT !.at = "load", !.n = 1]
      <3>1. op' = [op EXCEPT ![t] = c] BY <1>a, <2>1, <1>t DEF AfterRefresh, Goto
      <3>2. c.at = "load" /\ c.kind = op[t].kind /\ op[t].kind \notin Captures
        BY <2>1, <1>t DEF Calls, Captures
      <3> HIDE DEF c
      <3> QED BY <3>1, <3>2
    <2>2. CASE op[t].kind # "restore"
      <3>1. op' = [op EXCEPT ![t] = Idle] /\ Idle.at = "idle"
        BY <1>a, <2>2 DEF AfterRefresh, Idle
      <3> WITNESS Idle
      <3> QED BY <3>1
    <2> QED BY <2>1, <2>2
  <1>r. ASSUME AfterRefresh(t), saved' = saved, op[t].kind \notin Captures
        PROVE  KnowsSaves' /\ UNCHANGED promised
    <2>1. PICK c : /\ op' = [op EXCEPT ![t] = c] /\ c.at \in {"load", "idle"}
                   /\ c = Idle \/ (op[t].kind \notin Captures /\ c.kind = op[t].kind)
      BY <1>r, <1>a
    <2>2. c.kind \notin Captures BY <2>1, <1>r DEF Idle, Captures
    <2> QED BY <2>1, <2>2, <1>r, <1>g, <1>s, <1>u DEF Refreshing
  (* A call that goes on, with nothing saved.                              *)
  <1>w. ASSUME NEW c, op' = [op EXCEPT ![t] = c], c.kind = op[t].kind, c.of = op[t].of,
               saved' = saved, op[t].at # "idle",
               Refreshing(c) => Refreshing(op[t]) \/ Stored(op[t].of)
        PROVE  KnowsSaves' /\ UNCHANGED promised
    <2>1. Refreshing(c) => Stored(c.of) BY <1>w, <1>k DEF KnowsSaves
    <2>2. Refreshing(c) => saved'[c.of].files # NoFiles BY <2>1, <1>w DEF Stored
    <2> QED BY <2>2, <1>w, <1>o, <1>g, <1>s, <1>u
  <1>2. ASSUME NEW kind \in Kinds \ {"none"}, NEW p \in Profiles, Begin(t, kind, p)
        PROVE  KnowsSaves' /\ (Store!Next \/ UNCHANGED promised)
    <2> DEFINE c == [Idle EXCEPT !.kind = kind, !.of = p,
                                 !.at = IF kind = "fresh" THEN "load" ELSE "lock"]
    <2>1. op' = [op EXCEPT ![t] = c] /\ saved' = saved /\ op[t].at = "idle" BY <1>2 DEF Begin
    <2>2. c.kind = kind /\ c.of = p /\ c.at \in {"load", "lock"} BY DEF Idle
    <2> HIDE DEF c
    <2>3. KnowsSaves' BY <2>1, <2>2, <1>s DEF Refreshing
    <2>4. op[t].kind \notin Captures BY <2>1, <1>c DEF CallRight, Captures
    <2>5. CASE kind \in Captures
      <3>1. t = "main" BY <1>2, <2>5 DEF Begin, Threads, Captures
      <3>2. promisedAsked = {} /\ promisedAsked' = {p}
        BY <3>1, <2>1, <2>2, <2>4, <2>5, <1>m, <1>t
      <3>3. Store!Ask(p) BY <3>2, <2>1, SameSaves DEF Store!Ask
      <3> QED BY <3>3, <2>3 DEF Store!Next
    <2>6. CASE kind \notin Captures BY <2>1, <2>2, <2>3, <2>4, <2>6, <1>g, <1>u
    <2> QED BY <2>5, <2>6
  <1>3. ASSUME Lock(t) PROVE KnowsSaves' /\ (Store!Next \/ UNCHANGED promised)
    <2>1. saved' = saved /\ op[t].at # "idle" BY <1>3 DEF Lock
    <2>2. CASE op[t].kind \in Captures \/ Status(op[t].of)
      <3> DEFINE c == [op[t] EXCEPT !.at = "read", !.n = 1]
      <3>1. op' = [op EXCEPT ![t] = c] BY <1>3, <2>2, <1>t DEF Lock, Goto
      <3>2. c.kind = op[t].kind /\ c.of = op[t].of BY <1>t DEF Calls
      <3> HIDE DEF c
      <3>3. Refreshing(c) => Stored(op[t].of) BY <2>2, <3>2 DEF Refreshing, Status
      <3> QED BY <2>1, <3>1, <3>2, <3>3, <1>w
    <2>3. CASE ~(op[t].kind \in Captures \/ Status(op[t].of))
      <3>1. AfterRefresh(t) BY <1>3, <2>3 DEF Lock
      <3> QED BY <2>1, <2>3, <3>1, <1>r
    <2> QED BY <2>2, <2>3
  <1>4. ASSUME CaptureFile(t) PROVE KnowsSaves' /\ UNCHANGED promised
    <2> DEFINE got == Copy(op[t].got, disk, SessionPaths[op[t].n])
               c == IF op[t].n < 3 THEN [op[t] EXCEPT !.got = got, !.n = @ + 1]
                    ELSE [op[t] EXCEPT !.got = got, !.n = 1, !.at = "check"]
    <2>1. op' = [op EXCEPT ![t] = c] BY <1>4, <1>t, PathLengths DEF CaptureFile
    <2> HIDE DEF got
    <2>2. c.kind = op[t].kind /\ c.of = op[t].of BY <1>t DEF Calls
    <2>3. saved' = saved /\ op[t].at = "read" BY <1>4 DEF CaptureFile
    <2> HIDE DEF c
    <2>4. Refreshing(c) => Refreshing(op[t]) BY <2>2, <2>3 DEF Refreshing
    <2> QED BY <2>1, <2>2, <2>3, <2>4, <1>w
  <1>5. ASSUME Check(t) PROVE KnowsSaves' /\ (Store!Next \/ UNCHANGED promised)
    <2>1. saved' = saved /\ op[t].at = "check" BY <1>5 DEF Check
    <2>2. CASE Leave(t) BY <2>1, <2>2, <1>l
    <2>3. CASE AfterRefresh(t) /\ op[t].kind \in {"settle", "restore"}
      BY <2>1, <2>3, <1>r DEF Captures
    <2>4. CASE Goto(t, "store")
      <3> DEFINE c == [op[t] EXCEPT !.at = "store", !.n = 1]
      <3>1. op' = [op EXCEPT ![t] = c] BY <2>4, <1>t DEF Goto
      <3>2. c.kind = op[t].kind /\ c.of = op[t].of BY <1>t DEF Calls
      <3> HIDE DEF c
      <3>3. Refreshing(c) => Refreshing(op[t]) BY <2>1, <3>2 DEF Refreshing
      <3> QED BY <2>1, <3>1, <3>2, <3>3, <1>w
    <2> QED BY <1>5, <2>2, <2>3, <2>4 DEF Check
  <1>6. ASSUME StoreCapture(t) PROVE KnowsSaves' /\ Store!Next
    <2> DEFINE p == op[t].of
               new == [files |-> op[t].got,
                       expired |-> saved[p].expired /\ op[t].kind \notin Captures]
    <2>1. op[t].at = "store" /\ AfterRefresh(t) /\ p \in Profiles /\ p # Nobody
          /\ saved' = [saved EXCEPT ![p] = new]
      BY <1>6, <1>o DEF StoreCapture
    <2>2. RememberedLoginReady(op[t].got, p) BY <2>1, <1>c DEF CallRight
    <2>3. op[t].got # NoFiles
      BY <2>1, <2>2 DEF RememberedLoginReady, DiskPUUID, NoFiles, Login
    <2>4. \A q \in Profiles : saved'[q] = IF q = p THEN new ELSE saved[q]
      BY <2>1, <1>t
    <2>5. promisedStored' = promisedStored \cup {p}
      BY <2>1, <2>3, <2>4 DEF promisedStored, Stored
    <2>6. promisedSaves' =
            [promisedSaves EXCEPT ![p] =
              [ready |-> TRUE, expired |-> saved[p].expired /\ op[t].kind \notin Captures]]
      <3>1. Promised(new, p) =
              [ready |-> TRUE, expired |-> saved[p].expired /\ op[t].kind \notin Captures]
        <4>1. new.files = op[t].got /\ new.expired = (saved[p].expired /\ op[t].kind \notin Captures)
          OBVIOUS
        <4> HIDE DEF new
        <4> QED BY <4>1, <2>2, <2>3 DEF Promised
      <3> HIDE DEF new, p
      <3> QED BY <3>1, <2>1, <2>4, OneSave
    <2>7. PICK c : /\ op' = [op EXCEPT ![t] = c] /\ c.at \in {"load", "idle"}
                   /\ c = Idle \/ (op[t].kind \notin Captures /\ c.kind = op[t].kind)
      BY <2>1, <1>a
    <2>8. KnowsSaves'
      <3>1. new.files = op[t].got OBVIOUS
      <3> HIDE DEF new, p
      <3>2. \A q \in Profiles : saved[q].files # NoFiles => saved'[q].files # NoFiles
        BY <2>3, <2>4, <3>1
      <3>3. ~Refreshing(c) BY <2>7 DEF Refreshing
      <3> QED BY <2>7, <3>2, <3>3, <1>s
    <2>9. CASE op[t].kind \in Captures
      <3>1. p \in promisedAsked /\ promisedAsked' = promisedAsked \ {p}
        BY <2>7, <2>9, <1>e
      <3>2. Store!Save(p) BY <2>5, <2>6, <2>9, <3>1 DEF Store!Save
      <3> QED BY <2>1, <2>8, <3>2 DEF Store!Next
    <2>10. CASE op[t].kind \notin Captures
      <3>1. c.kind \notin Captures BY <2>7, <2>10 DEF Idle, Captures
      <3>2. promisedAsked' = promisedAsked BY <2>7, <2>10, <3>1, <1>g
      <3>3. Stored(p) BY <2>1, <2>10, <1>k DEF KnowsSaves, Refreshing
      <3>4. promisedStored' = promisedStored /\ p \in promisedStored
        BY <2>1, <2>5, <3>3 DEF promisedStored
      <3>5. promisedSaves' = [promisedSaves EXCEPT ![p].ready = TRUE]
        BY <2>1, <2>6, <2>10, <3>3 DEF promisedSaves
      <3>6. Store!Refresh(p) BY <3>2, <3>4, <3>5 DEF Store!Refresh
      <3> QED BY <2>1, <2>8, <3>6 DEF Store!Next
    <2> QED BY <2>9, <2>10
  <1>7. ASSUME StoreFails(t) \/ FileFails(t)
        PROVE  KnowsSaves' /\ (Store!Next \/ UNCHANGED promised)
    <2>1. saved' = saved /\ Leave(t) /\ op[t].at # "idle" BY <1>7 DEF StoreFails, FileFails
    <2> QED BY <2>1, <1>l
  <1>8. ASSUME Load(t) PROVE KnowsSaves' /\ UNCHANGED promised
    <2>1. PICK files :
            op' = [op EXCEPT ![t].at = "clear", ![t].n = 1, ![t].got = files]
      BY <1>8 DEF Load
    <2> DEFINE c == [op[t] EXCEPT !.at = "clear", !.n = 1, !.got = files]
    <2>2. op' = [op EXCEPT ![t] = c] /\ saved' = saved /\ op[t].at # "idle"
      BY <2>1, <1>8, <1>t DEF Load
    <2>3. c.at = "clear" /\ c.of = op[t].of /\ c.kind = op[t].kind BY <1>t DEF Calls
    <2> HIDE DEF c
    <2> QED BY <2>2, <2>3, <1>w DEF Refreshing
  <1>9. ASSUME ClearFile(t) PROVE KnowsSaves' /\ UNCHANGED promised
    <2> DEFINE c == IF op[t].n < 3 THEN [op[t] EXCEPT !.n = @ + 1]
                    ELSE [op[t] EXCEPT !.n = 1, !.at = "write"]
    <2>1. op' = [op EXCEPT ![t] = c] BY <1>9, <1>t, PathLengths DEF ClearFile, Goto
    <2>2. c.kind = op[t].kind /\ c.of = op[t].of /\ c.at \in {"clear", "write"}
      BY <1>9, <1>t DEF ClearFile, Calls
    <2>3. saved' = saved /\ op[t].at # "idle" BY <1>9 DEF ClearFile
    <2> HIDE DEF c
    <2> QED BY <2>1, <2>2, <2>3, <1>w DEF Refreshing
  <1>10. ASSUME WriteFile(t) PROVE KnowsSaves' /\ (Store!Next \/ UNCHANGED promised)
    <2>1. saved' = saved /\ op[t].at = "write" BY <1>10 DEF WriteFile
    <2>2. CASE op[t].n < 3
      <3> DEFINE c == [op[t] EXCEPT !.n = @ + 1]
      <3>1. op' = [op EXCEPT ![t] = c] BY <1>10, <2>2, <1>t, PathLengths DEF WriteFile
      <3>2. c.kind = op[t].kind /\ c.of = op[t].of /\ c.at = "write"
        BY <2>1, <1>t DEF Calls
      <3> HIDE DEF c
      <3> QED BY <2>1, <3>1, <3>2, <1>w DEF Refreshing
    <2>3. CASE ~(op[t].n < 3)
      <3>1. Leave(t) BY <1>10, <2>3, PathLengths DEF WriteFile
      <3> QED BY <2>1, <3>1, <1>l
    <2> QED BY <2>2, <2>3
  <1>11. ASSUME SeesRiot(t) PROVE KnowsSaves' /\ UNCHANGED promised
    <2>1. saved' = saved /\ AfterRefresh(t) /\ op[t].kind \notin Captures
      BY <1>11 DEF SeesRiot, Captures
    <2> QED BY <2>1, <1>r
  <1> QED BY <1>2, <1>3, <1>4, <1>5, <1>6, <1>7, <1>8, <1>9, <1>10, <1>11 DEF Step

(* So does any other step.                                                 *)
LEMMA OutsidePromised ==
  ASSUME RefInv, Disciplined', Outside
  PROVE  KnowsSaves' /\ (Store!Next \/ UNCHANGED promised)
  <1>t. /\ op \in [Threads -> Calls]
        /\ saved \in [Profiles -> [files : Files, expired : BOOLEAN]]
    BY DEF RefInv, Disciplined, TypeOK
  <1>k. KnowsSaves BY DEF RefInv
  <1>o. \A s \in Threads : op[s].at # "idle" => op[s].of \in Profiles
    BY DEF RefInv, Disciplined, CallsRight, CallRight
  <1>1. ASSUME NEW p \in Profiles, Delete(p)
        PROVE  KnowsSaves' /\ Store!Next
    <2>1. /\ saved' = [saved EXCEPT ![p] = [files |-> NoFiles, expired |-> FALSE]]
          /\ mu = "free" /\ Stored(p) /\ op' = op
      BY <1>1 DEF Delete
    <2>2. \A q \in Profiles :
            saved'[q] = IF q = p THEN [files |-> NoFiles, expired |-> FALSE] ELSE saved[q]
      BY <2>1, <1>t
    <2>3. \A t \in Threads : ~Refreshing(op[t])
      BY <2>1 DEF RefInv, Disciplined, Locked, Refreshing, Holding, Threads
    <2>4. KnowsSaves' BY <2>1, <2>3 DEF KnowsSaves, Refreshing
    <2>5. promisedAsked' = promisedAsked BY <2>1 DEF promisedAsked
    <2>6. promisedStored' = promisedStored \ {p} /\ p \in promisedStored
      BY <2>1, <2>2 DEF promisedStored, Stored
    <2>7. promisedSaves' = [promisedSaves EXCEPT ![p] = Store!NoSave]
      <3> DEFINE none == [files |-> NoFiles, expired |-> FALSE]
      <3>1. Promised(none, p) = Store!NoSave BY DEF Promised, Store!NoSave
      <3> HIDE DEF none
      <3> QED BY <3>1, <2>2, OneSave DEF none
    <2>8. Store!Forget(p) BY <2>5, <2>6, <2>7 DEF Store!Forget
    <2> QED BY <2>4, <2>8 DEF Store!Next
  <1>2. ASSUME NEW p \in Profiles, Expire(p)
        PROVE  KnowsSaves' /\ Store!Next
    <2>1. /\ saved' = [saved EXCEPT ![p].expired = TRUE]
          /\ Stored(p) /\ op' = op
      BY <1>2 DEF Expire, Status
    <2>2. /\ saved'[p].files = saved[p].files /\ saved'[p].expired = TRUE
          /\ \A q \in Profiles \ {p} : saved'[q] = saved[q]
      BY <2>1, <1>t
    <2>3. \A q \in Profiles : saved'[q].files = saved[q].files BY <2>2
    <2>4. KnowsSaves' BY <2>1, <2>3, <1>k, <1>o DEF KnowsSaves, Stored, Refreshing
    <2>5. promisedAsked' = promisedAsked BY <2>1 DEF promisedAsked
    <2>6. promisedStored' = promisedStored /\ p \in promisedStored
      BY <2>1, <2>3 DEF promisedStored, Stored
    <2>7. promisedSaves' = [promisedSaves EXCEPT ![p].expired = TRUE]
      <3>1. \A q \in Profiles : saved'[q] = IF q = p THEN saved'[p] ELSE saved[q] BY <2>2
      <3>2. Promised(saved'[p], p) = [Promised(saved[p], p) EXCEPT !.expired = TRUE]
        <4> DEFINE f == saved[p]
                   g == saved'[p]
        <4>1. g.files = f.files /\ g.expired = TRUE BY <2>2
        <4> HIDE DEF f, g
        <4>2. Promised(g, p) = [Promised(f, p) EXCEPT !.expired = TRUE] BY <4>1, ExpiredSave
        <4> QED BY <4>2 DEF f, g
      <3>3. /\ promisedSaves' = [promisedSaves EXCEPT ![p] = Promised(saved'[p], p)]
            /\ promisedSaves[p] = Promised(saved[p], p)
        BY <3>1, OneSave
      <3> QED BY <3>2, <3>3
    <2>8. Store!Expire(p) BY <2>5, <2>6, <2>7 DEF Store!Expire
    <2> QED BY <2>4, <2>8 DEF Store!Next
  <1>3. ASSUME saved' = saved,
               \A t \in Threads : op'[t].kind = op[t].kind /\ op'[t].of = op[t].of
                                  /\ op'[t].at = op[t].at
        PROVE  KnowsSaves' /\ UNCHANGED promised
    <2>1. promisedAsked' = promisedAsked BY <1>3 DEF promisedAsked
    <2>2. KnowsSaves' BY <1>3, <1>k DEF KnowsSaves, Stored, Refreshing
    <2> QED BY <2>1, <2>2, <1>3, SameSaves DEF promised
  <1>4. CASE (\E a \in Accounts : SignsIn(a)) \/ RiotOpens \/ SignsOut \/ UNCHANGED vars
    <2>1. op' = op /\ saved' = saved BY <1>4 DEF SignsIn, RiotOpens, SignsOut, vars
    <2> QED BY <2>1, <1>3
  <1>5. CASE RiotWrites \/ RiotCloses
    <2>1. CASE Write(riot.account)
      BY <1>5, <2>1, <1>3, <1>t, WriteMarks DEF RiotWrites, RiotCloses
    <2>2. CASE ~Write(riot.account) BY <1>5, <2>2, <1>3 DEF RiotWrites, RiotCloses
    <2> QED BY <2>1, <2>2
  <1>6. CASE Crash
    <2>1. saved' = saved /\ \A t \in Threads : op'[t] = Idle BY <1>6 DEF Crash
    <2>2. KnowsSaves' BY <2>1 DEF KnowsSaves, Refreshing, Idle
    <2>3. promisedAsked' = {} BY <2>1 DEF promisedAsked, Idle, Captures
    <2>4. CASE op["main"].kind \in Captures
      <3>1. promisedAsked = {op["main"].of} /\ op["main"].of \in Profiles
        BY <2>4, AskedByMain
           DEF RefInv, Disciplined, CallsRight, CallRight, Threads, Captures
      <3>2. Store!Withdraw(op["main"].of) BY <3>1, <2>1, <2>3, SameSaves DEF Store!Withdraw
      <3> QED BY <2>2, <3>1, <3>2 DEF Store!Next
    <2>5. CASE op["main"].kind \notin Captures
      <3>1. promisedAsked = {} BY <2>5, AskedByMain DEF RefInv
      <3> QED BY <2>1, <2>2, <2>3, <3>1, SameSaves DEF promised
    <2> QED BY <2>4, <2>5
  <1> QED BY <1>1, <1>2, <1>4, <1>5, <1>6 DEF Outside

(* The vault implements SavedLogins: whatever crashes, fails or runs       *)
(* beside it, saves come from a capture the user asked for, are replaced   *)
(* as one thing by a usable login, and are never revived or prolonged by a *)
(* refresh.                                                                *)
THEOREM SavesKept == Spec => KeepsSaves
  <1>1. RefInv /\ [Next]_vars => RefInv' /\ [Store!Next]_(Store!vars)
    <2> SUFFICES ASSUME RefInv, [Next]_vars
                 PROVE  RefInv' /\ (Store!Next \/ UNCHANGED promised)
      BY DEF promised, Store!vars
    <2>1. Disciplined' BY NextDisciplined DEF RefInv
    <2>2. KnowsSaves' /\ (Store!Next \/ UNCHANGED promised)
      BY <2>1, StepPromised, OutsidePromised DEF Next, Outside
    <2> QED BY <2>1, <2>2 DEF RefInv
  <1> QED BY <1>1, InitPromised, InitRefInv, PTL DEF Spec, KeepsSaves, Store!Spec
==============================================================================
