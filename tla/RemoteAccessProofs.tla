------------------------- MODULE RemoteAccessProofs -------------------------
(***************************************************************************)
(* Proofs about RemoteAccess for any number of handlers and any bounds.    *)
(*                                                                         *)
(* NoOrphanListener is inductive with the types: start only installs a     *)
(* listener where there is none.  EndedStaysEnded needs that sessions are  *)
(* numbered in the order they are made.  CodePairsOnce is not inductive:   *)
(* CodesFresh adds that the current code has paired nobody yet.            *)
(***************************************************************************)
EXTENDS RemoteAccess, TLAPS

USE BoundsAssumption DEF BoundsAssumption

CodesFresh ==
  /\ \A s \in 1 .. made : codeOf[s] \in 1 .. codes
  /\ code # 0 => \A s \in 1 .. made : codeOf[s] # code

IndInv == TypeOK /\ NoOrphanListener /\ CodePairsOnce /\ CodesFresh /\ EndedStaysEnded

LEMMA InitIndInv == Init => IndInv
<1> SUFFICES ASSUME Init PROVE IndInv
  OBVIOUS
<1>1. TypeOK
  <2>1. config \in BOOLEAN /\ disk \in BOOLEAN
    BY DEF Init
  <2>2. pc \in [Handlers -> {"idle", "save", "start", "bind", "stop"}]
    BY DEF Init
  <2>3. wants \in [Handlers -> BOOLEAN]
    BY <2>1, Zenon DEF Init
  <2>4. serving \in [Servers -> BOOLEAN] /\ codeFresh \in BOOLEAN
    BY DEF Init
  <2>5. QED
    BY <2>1, <2>2, <2>3, <2>4 DEF Init, TypeOK, Sessions
<1>2. NoOrphanListener /\ EndedStaysEnded
  BY DEF Init, NoOrphanListener, EndedStaysEnded
<1>3. CodePairsOnce /\ CodesFresh
  BY DEF Init, CodePairsOnce, CodesFresh
<1>4. QED
  BY <1>1, <1>2, <1>3 DEF IndInv

(* A handler's own bookkeeping touches none of the manager's state.        *)
LEMMA HandlerInv ==
  ASSUME IndInv, NEW h \in Handlers, NEW enabled \in BOOLEAN,
         SaveConfig(h, enabled) \/ SaveDisk(h) \/ StartCheck(h)
  PROVE  IndInv'
<1>1. UNCHANGED <<listenVars, pairVars, sessionVars>>
  BY DEF SaveConfig, SaveDisk, StartCheck
<1>2. TypeOK'
  BY <1>1 DEF IndInv, TypeOK, SaveConfig, SaveDisk, StartCheck, listenVars, pairVars,
              sessionVars, settingVars, handlerVars
<1>3. QED
  BY <1>1, <1>2 DEF IndInv, NoOrphanListener, CodePairsOnce, CodesFresh,
              EndedStaysEnded, listenVars, pairVars, sessionVars

(* start installs its listener only where none is.                         *)
LEMMA StartInstallInv ==
  ASSUME IndInv, NEW h \in Handlers, StartInstall(h)
  PROVE  IndInv'
<1>1. CASE UNCHANGED <<listenVars, pairVars, sessions, ended>>
  BY <1>1 DEF IndInv, TypeOK, NoOrphanListener, CodePairsOnce, CodesFresh,
              EndedStaysEnded, StartInstall, listenVars, pairVars, settingVars
<1>2. CASE /\ server = 0 /\ installed < MaxServers
           /\ installed' = installed + 1 /\ server' = installed'
           /\ serving' = [serving EXCEPT ![installed'] = TRUE]
           /\ IssuePair /\ sessions' = {} /\ ended' = ended \cup sessions
  <2>1. /\ codes' = codes + 1 /\ code' = codes' /\ codes < MaxCodes
        /\ codeFresh' = TRUE
        /\ UNCHANGED <<config, disk, wants, overdue, made, codeOf>>
        /\ pc' = [pc EXCEPT ![h] = "idle"]
    BY <1>2 DEF StartInstall, IssuePair, settingVars
  <2>2. TypeOK'
    BY <1>2, <2>1 DEF IndInv, TypeOK, Servers, Sessions
  <2>3. NoOrphanListener'
    BY <1>2, <2>1 DEF IndInv, TypeOK, NoOrphanListener, Servers
  <2>4. CodePairsOnce' /\ EndedStaysEnded'
    BY <1>2, <2>1 DEF IndInv, CodePairsOnce, EndedStaysEnded
  <2>5. CodesFresh'
    BY <1>2, <2>1 DEF IndInv, TypeOK, CodesFresh
  <2>6. QED
    BY <2>2, <2>3, <2>4, <2>5 DEF IndInv
<1>3. QED
  BY <1>1, <1>2 DEF StartInstall

(* A listener goes away, by itself or by shutdown, and its sessions with   *)
(* it.                                                                     *)
LEMMA ListenerGoesInv ==
  ASSUME IndInv,
         (\E g \in Servers : ListenerFails(g)) \/ (\E h \in Handlers : Shutdown(h))
  PROVE  IndInv'
<1>1. CASE \E g \in Servers : ListenerFails(g)
  <2> PICK g \in Servers : ListenerFails(g)
    BY <1>1
  <2>1. TypeOK'
    <3>1. serving' \in [Servers -> BOOLEAN]
      BY DEF IndInv, TypeOK, ListenerFails
    <3>2. server' \in {server, 0} /\ sessions' \subseteq sessions
          /\ ended' \subseteq ended \cup sessions
      BY DEF ListenerFails
    <3>3. UNCHANGED <<config, disk, pc, wants, installed, code, codeFresh, codes,
                      overdue, made, codeOf>>
      BY DEF ListenerFails, settingVars, handlerVars, pairVars
    <3>4. QED
      BY <3>1, <3>2, <3>3 DEF IndInv, TypeOK
  <2>2. NoOrphanListener'
    BY DEF IndInv, TypeOK, NoOrphanListener, ListenerFails, Servers
  <2>3. CodePairsOnce' /\ CodesFresh' /\ EndedStaysEnded'
    BY DEF IndInv, CodePairsOnce, CodesFresh, EndedStaysEnded, ListenerFails, pairVars
  <2>4. QED
    BY <2>1, <2>2, <2>3 DEF IndInv
<1>2. CASE \E h \in Handlers : Shutdown(h)
  <2> PICK h \in Handlers : Shutdown(h)
    BY <1>2
  <2>1. TypeOK'
    BY DEF IndInv, TypeOK, Shutdown, Servers, Sessions, settingVars
  <2>2. NoOrphanListener'
    BY DEF IndInv, TypeOK, NoOrphanListener, Shutdown, Servers
  <2>3. CodePairsOnce' /\ CodesFresh' /\ EndedStaysEnded'
    BY DEF IndInv, CodePairsOnce, CodesFresh, EndedStaysEnded, Shutdown
  <2>4. QED
    BY <2>1, <2>2, <2>3 DEF IndInv
<1>3. QED
  BY <1>1, <1>2

(* A rotation issues a code nobody was paired with.                        *)
LEMMA NewPairInv ==
  ASSUME IndInv, NewPair
  PROVE  IndInv'
<1>1. /\ codes' = codes + 1 /\ code' = codes' /\ codes < MaxCodes /\ codeFresh' = TRUE
      /\ UNCHANGED <<settingVars, handlerVars, listenVars, sessionVars>>
  BY DEF NewPair, IssuePair
<1>2. TypeOK'
  BY <1>1 DEF IndInv, TypeOK, settingVars, handlerVars, listenVars,
     sessionVars
<1>3. CodesFresh'
  BY <1>1 DEF IndInv, TypeOK, CodesFresh, sessionVars
<1>4. QED
  BY <1>1, <1>2, <1>3 DEF IndInv, NoOrphanListener, CodePairsOnce, EndedStaysEnded,
     listenVars, sessionVars

(* Pairing uses the code up.                                               *)
LEMMA ConsumePairInv ==
  ASSUME IndInv, NEW c \in Codes, ConsumePair(c)
  PROVE  IndInv'
<1>1. /\ c = code /\ c # 0 /\ made < MaxSessions /\ code' = 0 /\ codeFresh' = FALSE
      /\ made' = made + 1 /\ made + 1 \in Sessions
      /\ sessions' = sessions \cup {made + 1}
      /\ codeOf' = [codeOf EXCEPT ![made + 1] = c]
      /\ UNCHANGED <<config, disk, pc, wants, server, serving, installed, codes,
                     overdue, ended>>
  BY DEF ConsumePair, Codes, Sessions, IndInv, TypeOK, settingVars,
     handlerVars, listenVars
<1>2. codeOf'[made + 1] = c /\ \A s \in 1 .. made : codeOf'[s] = codeOf[s]
  BY <1>1 DEF IndInv, TypeOK, Sessions
<1>3. TypeOK'
  <2>1. codeOf' \in [Sessions -> 0 .. MaxCodes]
    BY <1>1 DEF IndInv, TypeOK, Codes
  <2>2. made' \in 0 .. MaxSessions /\ sessions' \subseteq 1 .. made'
        /\ overdue' \subseteq 1 .. made' /\ ended' \subseteq 1 .. made'
    BY <1>1 DEF IndInv, TypeOK, Sessions
  <2>3. code' \in 0 .. codes' /\ codes' \in 0 .. MaxCodes
    BY <1>1 DEF IndInv, TypeOK
  <2>4. config' \in BOOLEAN /\ disk' \in BOOLEAN
    BY <1>1, Zenon DEF IndInv, TypeOK
  <2>5. QED
    BY <1>1, <2>1, <2>2, <2>3, <2>4 DEF IndInv, TypeOK
<1>4. CodePairsOnce'
  BY <1>1, <1>2 DEF IndInv, TypeOK, CodePairsOnce, CodesFresh
<1>5. CodesFresh'
  BY <1>1, <1>2 DEF IndInv, TypeOK, CodesFresh, Codes
<1>6. EndedStaysEnded'
  BY <1>1 DEF IndInv, TypeOK, EndedStaysEnded
<1>7. NoOrphanListener'
  BY <1>1 DEF IndInv, NoOrphanListener
<1>8. QED
  BY <1>3, <1>4, <1>5, <1>6, <1>7 DEF IndInv

(* Sessions only leave the table, or grow old.                             *)
LEMMA SessionsInv ==
  ASSUME IndInv,
         \/ RevokeAll \/ Authenticate \/ StatusPrunes \/ CodeExpires
         \/ \E s \in Sessions : Revoke(s) \/ SessionExpires(s)
  PROVE  IndInv'
<1>1. /\ sessions' \subseteq sessions /\ ended \subseteq ended'
      /\ ended' \subseteq ended \cup (sessions \ sessions')
      /\ overdue \subseteq overdue' /\ overdue' \subseteq overdue \cup sessions
      /\ codeFresh' \in {codeFresh, FALSE}
      /\ UNCHANGED <<config, disk, pc, wants, server, serving, installed, code, codes,
                     made, codeOf>>
  BY DEF RevokeAll, Authenticate, StatusPrunes, Prune, CodeExpires, Revoke,
     SessionExpires, settingVars, handlerVars, listenVars, pairVars, sessionVars
<1>2. TypeOK'
  <2>1. codeFresh' \in BOOLEAN
    BY <1>1, Zenon DEF IndInv, TypeOK
  <2>2. sessions' \subseteq 1 .. made /\ overdue' \subseteq 1 .. made
        /\ ended' \subseteq 1 .. made
    BY <1>1 DEF IndInv, TypeOK
  <2>3. config' \in BOOLEAN /\ disk' \in BOOLEAN
    BY <1>1, Zenon DEF IndInv, TypeOK
  <2>4. QED
    BY <1>1, <2>1, <2>2, <2>3 DEF IndInv, TypeOK
<1>3. QED
  BY <1>1, <1>2 DEF IndInv, NoOrphanListener, CodePairsOnce, CodesFresh, EndedStaysEnded

LEMMA NextIndInv == IndInv /\ [Next]_vars => IndInv'
<1> SUFFICES ASSUME IndInv, [Next]_vars PROVE IndInv'
  OBVIOUS
<1>1. CASE UNCHANGED vars
  BY <1>1 DEF vars, IndInv, TypeOK, NoOrphanListener, CodePairsOnce, CodesFresh,
     EndedStaysEnded, settingVars, handlerVars, listenVars, pairVars, sessionVars
<1>2. CASE Next
  BY <1>2, HandlerInv, StartInstallInv, ListenerGoesInv, NewPairInv, ConsumePairInv,
     SessionsInv DEF Next
<1>3. QED
  BY <1>1, <1>2

(* The state always has its types.                                         *)
THEOREM TypeCorrect == Spec => []TypeOK
<1>1. IndInv => TypeOK
  BY DEF IndInv
<1>2. QED
  BY <1>1, InitIndInv, NextIndInv, PTL DEF Spec

(* However many enable requests overlap, no listener escapes the manager.  *)
THEOREM ListenersAreOwned == Spec => []NoOrphanListener
<1>1. IndInv => NoOrphanListener
  BY DEF IndInv
<1>2. QED
  BY <1>1, InitIndInv, NextIndInv, PTL DEF Spec

(* A pairing code makes at most one session.                               *)
THEOREM OneSessionPerCode == Spec => []CodePairsOnce
<1>1. IndInv => CodePairsOnce
  BY DEF IndInv
<1>2. QED
  BY <1>1, InitIndInv, NextIndInv, PTL DEF Spec

(* An ended session is never accepted again.                               *)
THEOREM NoSessionReturns == Spec => []EndedStaysEnded
<1>1. IndInv => EndedStaysEnded
  BY DEF IndInv
<1>2. QED
  BY <1>1, InitIndInv, NextIndInv, PTL DEF Spec

=============================================================================
