---------------------------- MODULE RemoteAccess ----------------------------
(***************************************************************************)
(* cmd/riftops-ui/remote_access.go: the optional phone listener, its       *)
(* one-time pairing code and the sessions of paired phones, with the       *)
(* PhoneAccess setting the engine keeps (internal/engine/engine.go).       *)
(*                                                                         *)
(* Handlers run concurrently.  start drops the manager's mutex while it    *)
(* binds a port and loads a certificate; a listener can fail by itself;    *)
(* requests already accepted go on after their listener is gone.           *)
(*                                                                         *)
(* Left out: route scope, cookies and headers, the QR image, device labels.*)
(***************************************************************************)
EXTENDS Naturals

CONSTANTS
  Handlers,     \* goroutines that serve enable requests
  Main,         \* the one that also starts the listener when RiftOps starts
  MaxServers,   \* bound on listeners ever installed
  MaxCodes,     \* bound on pairing codes ever issued
  MaxSessions   \* bound on sessions ever made

ASSUME MainAssumption == Main \in Handlers
ASSUME BoundsAssumption ==
  MaxServers \in Nat /\ MaxCodes \in Nat /\ MaxSessions \in Nat

Servers  == 1 .. MaxServers
Codes    == 1 .. MaxCodes
Sessions == 1 .. MaxSessions

VARIABLES
  config,    \* Engine.config.PhoneAccess
  disk,      \* the saved setting
  pc,        \* handler -> where it is
  wants,     \* handler -> the body's Enabled
  server,    \* remoteAccessManager.server: 0 is nil
  serving,   \* listener -> its goroutine is in ServeTLS
  code,      \* pairToken: 0 is the empty token
  codeFresh, \* pairExpiresAt is not over
  sessions,  \* keys of remoteAccessManager.sessions
  overdue,   \* sessions past their ExpiresAt
  installed, codes, made,  \* listeners installed, codes issued, sessions made
  codeOf,    \* history: session -> the code it was paired with
  ended      \* history: sessions a shutdown or a revoke has ended

settingVars == <<config, disk>>
handlerVars == <<pc, wants>>
listenVars  == <<server, serving, installed>>
pairVars    == <<code, codeFresh, codes>>
sessionVars == <<sessions, overdue, made, codeOf, ended>>
vars == <<settingVars, handlerVars, listenVars, pairVars, sessionVars>>

Init ==
  /\ config \in BOOLEAN
  /\ disk = config
  /\ pc = [h \in Handlers |-> IF h = Main /\ config THEN "start" ELSE "idle"]
  /\ wants = [h \in Handlers |-> config]
  /\ server = 0
  /\ serving = [g \in Servers |-> FALSE]
  /\ installed = 0
  /\ code = 0 /\ codeFresh = FALSE /\ codes = 0
  /\ sessions = {} /\ overdue = {} /\ made = 0
  /\ codeOf = [s \in Sessions |-> 0]
  /\ ended = {}

-----------------------------------------------------------------------------
(* remoteEnableHandler and the start and shutdown it calls.                *)

(* SavePhoneAccess, in memory.                                             *)
SaveConfig(h, enabled) ==
  /\ pc[h] = "idle"
  /\ config' = enabled
  /\ wants' = [wants EXCEPT ![h] = enabled]
  /\ pc' = [pc EXCEPT ![h] = "save"]
  /\ UNCHANGED <<disk, listenVars, pairVars, sessionVars>>

(* saveSettings writes what the configuration is by then.  When the write  *)
(* fails the handler answers with an error and does nothing more.          *)
SaveDisk(h) ==
  /\ pc[h] = "save"
  /\ \/ /\ disk' = config
        /\ pc' = [pc EXCEPT ![h] = IF wants[h] THEN "start" ELSE "stop"]
     \/ /\ pc' = [pc EXCEPT ![h] = "idle"]
        /\ UNCHANGED disk
  /\ UNCHANGED <<config, wants, listenVars, pairVars, sessionVars>>

(* start up to the first unlock.                                           *)
StartCheck(h) ==
  /\ pc[h] = "start"
  /\ pc' = [pc EXCEPT ![h] = IF server = 0 THEN "bind" ELSE "idle"]
  /\ UNCHANGED <<settingVars, wants, listenVars, pairVars, sessionVars>>

(* Faulty issuePairLocked: the next code will be the same one.             *)
IssuePairSame ==
  /\ codes < MaxCodes
  /\ code' = codes + 1
  /\ codeFresh' = TRUE
  /\ UNCHANGED codes

(* issuePairLocked.                                                        *)
IssuePair ==
  /\ codes < MaxCodes
  /\ codes' = codes + 1
  /\ code' = codes'
  /\ codeFresh' = TRUE

(* Faulty StartInstall: the server is not looked at again after the bind.  *)
StartInstallUnchecked(h) ==
  /\ pc[h] = "bind"
  /\ installed < MaxServers
  /\ installed' = installed + 1
  /\ server' = installed'
  /\ serving' = [serving EXCEPT ![installed'] = TRUE]
  /\ IssuePair
  /\ sessions' = {}
  /\ ended' = ended \cup sessions
  /\ pc' = [pc EXCEPT ![h] = "idle"]
  /\ UNCHANGED <<settingVars, wants, overdue, made, codeOf>>

(* The rest of start: no address, no port, no certificate or no token;     *)
(* another handler was first and this listener is closed; or it serves.    *)
StartInstall(h) ==
  /\ pc[h] = "bind"
  /\ pc' = [pc EXCEPT ![h] = "idle"]
  /\ \/ UNCHANGED <<listenVars, pairVars, sessions, ended>>
     \/ /\ server = 0
        /\ installed < MaxServers
        /\ installed' = installed + 1
        /\ server' = installed'
        /\ serving' = [serving EXCEPT ![installed'] = TRUE]
        /\ IssuePair
        /\ sessions' = {}
        /\ ended' = ended \cup sessions
  /\ UNCHANGED <<settingVars, wants, overdue, made, codeOf>>

(* The listener's goroutine ends on an error of its own.                   *)
ListenerFails(g) ==
  /\ serving[g]
  /\ serving' = [serving EXCEPT ![g] = FALSE]
  /\ \/ /\ server = g
        /\ server' = 0
        /\ sessions' = {}
        /\ ended' = ended \cup sessions
     \/ /\ server # g
        /\ UNCHANGED <<server, sessions, ended>>
  /\ UNCHANGED <<settingVars, handlerVars, installed, pairVars, overdue, made, codeOf>>

(* Faulty Shutdown: the paired phones stay in the table.                   *)
ShutdownKeepsSessions(h) ==
  /\ pc[h] = "stop"
  /\ pc' = [pc EXCEPT ![h] = "idle"]
  /\ server' = 0
  /\ serving' = [g \in Servers |-> serving[g] /\ g # server]
  /\ code' = 0
  /\ ended' = ended \cup sessions
  /\ UNCHANGED <<settingVars, wants, installed, codeFresh, codes, sessions, overdue,
                 made, codeOf>>

Shutdown(h) ==
  /\ pc[h] = "stop"
  /\ pc' = [pc EXCEPT ![h] = "idle"]
  /\ server' = 0
  /\ serving' = [g \in Servers |-> serving[g] /\ g # server]
  /\ code' = 0
  /\ sessions' = {}
  /\ ended' = ended \cup sessions
  /\ UNCHANGED <<settingVars, wants, installed, codeFresh, codes, overdue, made, codeOf>>

-----------------------------------------------------------------------------
(* Pairing and sessions.                                                   *)

(* newPair(FALSE), for a fresh code on the dashboard.                      *)
NewPair ==
  /\ server # 0
  /\ IssuePair
  /\ UNCHANGED <<settingVars, handlerVars, listenVars, sessionVars>>

(* Faulty ConsumePair: the code stays valid until it expires.              *)
ConsumePairKeepsCode(c) ==
  /\ c = code /\ codeFresh
  /\ made < MaxSessions
  /\ made' = made + 1
  /\ sessions' = sessions \cup {made'}
  /\ codeOf' = [codeOf EXCEPT ![made'] = c]
  /\ UNCHANGED <<settingVars, handlerVars, listenVars, pairVars, overdue, ended>>

(* consumePair for a request with code c, which may reach the manager      *)
(* after its listener is gone.                                             *)
ConsumePair(c) ==
  /\ c = code /\ codeFresh
  /\ made < MaxSessions
  /\ code' = 0 /\ codeFresh' = FALSE
  /\ made' = made + 1
  /\ sessions' = sessions \cup {made'}
  /\ codeOf' = [codeOf EXCEPT ![made'] = c]
  /\ UNCHANGED <<settingVars, handlerVars, listenVars, codes, overdue, ended>>

(* revokeSession.                                                          *)
Revoke(s) ==
  /\ s \in sessions
  /\ sessions' = sessions \ {s}
  /\ ended' = ended \cup {s}
  /\ UNCHANGED <<settingVars, handlerVars, listenVars, pairVars, overdue, made, codeOf>>

RevokeAll ==
  /\ sessions # {}
  /\ sessions' = {}
  /\ ended' = ended \cup sessions
  /\ UNCHANGED <<settingVars, handlerVars, listenVars, pairVars, overdue, made, codeOf>>

(* authenticateSession meets an overdue session, or status prunes them.    *)
Prune(gone) ==
  /\ gone # {}
  /\ sessions' = sessions \ gone
  /\ UNCHANGED <<settingVars, handlerVars, listenVars, pairVars, overdue, made,
                 codeOf, ended>>

Authenticate == \E s \in sessions \cap overdue : Prune({s})
StatusPrunes == Prune(sessions \cap overdue)

CodeExpires ==
  /\ codeFresh
  /\ codeFresh' = FALSE
  /\ UNCHANGED <<settingVars, handlerVars, listenVars, code, codes, sessionVars>>

SessionExpires(s) ==
  /\ s \in sessions \ overdue
  /\ overdue' = overdue \cup {s}
  /\ UNCHANGED <<settingVars, handlerVars, listenVars, pairVars, sessions, made,
                 codeOf, ended>>

Next ==
  \/ \E h \in Handlers :
       \/ \E enabled \in BOOLEAN : SaveConfig(h, enabled)
       \/ SaveDisk(h) \/ StartCheck(h) \/ StartInstall(h) \/ Shutdown(h)
  \/ \E g \in Servers : ListenerFails(g)
  \/ NewPair \/ RevokeAll \/ Authenticate \/ StatusPrunes \/ CodeExpires
  \/ \E c \in Codes : ConsumePair(c)
  \/ \E s \in Sessions : Revoke(s) \/ SessionExpires(s)

Spec == Init /\ [][Next]_vars

-----------------------------------------------------------------------------
(* Properties.                                                             *)

(* The types of the setting, the handlers and the manager.                 *)
TypeOK ==
  /\ config \in BOOLEAN /\ disk \in BOOLEAN
  /\ pc \in [Handlers -> {"idle", "save", "start", "bind", "stop"}]
  /\ wants \in [Handlers -> BOOLEAN]
  /\ server \in 0 .. MaxServers
  /\ serving \in [Servers -> BOOLEAN]
  /\ installed \in 0 .. MaxServers
  /\ codes \in 0 .. MaxCodes /\ code \in 0 .. codes
  /\ codeFresh \in BOOLEAN
  /\ made \in 0 .. MaxSessions
  /\ sessions \subseteq 1 .. made
  /\ overdue \subseteq 1 .. made
  /\ codeOf \in [Sessions -> 0 .. MaxCodes]
  /\ ended \subseteq 1 .. made

(* However enable requests overlap, every listener that still accepts is   *)
(* the manager's: none is left running that shutdown cannot reach.         *)
NoOrphanListener == \A g \in Servers : serving[g] => server = g

(* A pairing code makes at most one session, however many requests carry   *)
(* it and whatever starts, stops and rotations happen meanwhile.           *)
CodePairsOnce ==
  \A s1, s2 \in 1 .. made : codeOf[s1] = codeOf[s2] => s1 = s2

(* A session that a shutdown, a restart of the listener or a revoke ended  *)
(* is never accepted again.                                                *)
EndedStaysEnded == sessions \cap ended = {}

(* What main.go says of phone control, "the LAN listener only runs when    *)
(* the user has enabled it": with no request under way, a listener that    *)
(* serves is one the setting asks for.                                     *)
ListenerOnlyWhenEnabled ==
  (\A h \in Handlers : pc[h] = "idle") /\ server # 0 => config

=============================================================================
