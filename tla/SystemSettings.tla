---------------------------- MODULE SystemSettings ----------------------------
(***************************************************************************)
(* frontend/src/components/SettingsPage.tsx, the settings that others keep:*)
(* League's chat privacy, read while its card is on show and changed one   *)
(* switch at a time, and the trusted chat proxy, read once and set up or   *)
(* removed by requests that take a minute.                                 *)
(***************************************************************************)
EXTENDS Naturals, FiniteSets

CONSTANT Switches

VARIABLES
  page,           \* the tab App.tsx renders
  league,         \* League's chat settings
  lcuConnected, leagueTab,   \* the card of the chat settings is on show
  chatPrivacy,    \* [known, on]
  read,           \* the effect's request: "no", "asked" or its answer
  chatPrivacyBusy,
  toggles,        \* requests: [key, value, at, on]
  chatCrossed,    \* history: a switch was used beside another request, until the card
                  \* is read again beside none
  proxy,          \* RiftOps: a trusted hostname is configured
  proxySetup,     \* on show: "unknown", "configured" or "no"
  proxyRead,      \* the first read: "no", "asked" or its answer
  proxyBusy,      \* "", "setup" or "clear"
  proxyCrossed    \* history: setup or removal beside the first read, or failed, until
                  \* the next is done

vars == <<page, league, lcuConnected, leagueTab, chatPrivacy, read, chatPrivacyBusy, toggles,
          chatCrossed, proxy, proxySetup, proxyRead, proxyBusy, proxyCrossed>>
proxyVars == <<proxy, proxySetup, proxyRead, proxyBusy, proxyCrossed>>
chatVars == <<league, lcuConnected, leagueTab, chatPrivacy, read, chatPrivacyBusy, toggles, chatCrossed>>

Shown == page = "system"
Unknown == [known |-> FALSE, on |-> {}]
Known(on) == [known |-> TRUE, on |-> on]
No == [at |-> "no"]
Asked == [at |-> "asked"]

Init ==
  /\ league \in SUBSET Switches /\ lcuConnected = FALSE /\ leagueTab = FALSE
  /\ chatPrivacy = Unknown /\ read = No /\ chatPrivacyBusy = "" /\ toggles = {}
  /\ chatCrossed = FALSE
  /\ proxy \in BOOLEAN /\ proxySetup = "unknown" /\ proxyRead = Asked /\ proxyBusy = ""
  /\ proxyCrossed = FALSE

-----------------------------------------------------------------------------
(* Chat privacy.                                                           *)

(* The effect of the connection and of the category: another read, whose   *)
(* predecessor is cancelled; without League nothing is shown.              *)
PrivacyEffect ==
  /\ Shown
  /\ \/ lcuConnected' = ~lcuConnected /\ UNCHANGED leagueTab
     \/ leagueTab' = ~leagueTab /\ UNCHANGED lcuConnected
  /\ read' = IF lcuConnected' /\ leagueTab' THEN Asked ELSE No
  /\ chatPrivacy' = IF lcuConnected' THEN chatPrivacy ELSE Unknown
  /\ chatCrossed' = IF read' = Asked THEN toggles # {} ELSE chatCrossed
  /\ UNCHANGED <<page, league, chatPrivacyBusy, toggles, proxyVars>>

PrivacyRead ==
  /\ Shown /\ read = Asked /\ read' = [at |-> "read", on |-> league]
  /\ UNCHANGED <<page, league, lcuConnected, leagueTab, chatPrivacy, chatPrivacyBusy, toggles,
                 chatCrossed, proxyVars>>

PrivacyShown ==
  /\ Shown /\ read # No /\ read' = No
  /\ chatPrivacy' = IF read.at = "read" THEN Known(read.on) ELSE Unknown
  /\ UNCHANGED <<page, league, lcuConnected, leagueTab, chatPrivacyBusy, toggles, chatCrossed,
                 proxyVars>>

(* A switch is disabled while it is the last that was used and not         *)
(* answered.                                                               *)
Switch(key) == Shown /\ leagueTab /\ chatPrivacy.known /\ chatPrivacyBusy # key

updateChatPrivacy(key) ==
  /\ Switch(key) /\ Cardinality(toggles) < 2   \* bound
  /\ toggles' = toggles \cup {[key |-> key, value |-> key \notin chatPrivacy.on, at |-> "sent"]}
  /\ chatPrivacyBusy' = key
  /\ chatCrossed' = (chatCrossed \/ toggles # {} \/ read # No)
  /\ UNCHANGED <<page, league, lcuConnected, leagueTab, chatPrivacy, read, proxyVars>>

(* RiftOps writes the one setting, then reads them all for the answer.     *)
ToggleArrives(t) ==
  /\ Shown /\ t.at = "sent"
  /\ league' = IF t.value THEN league \cup {t.key} ELSE league \ {t.key}
  /\ toggles' = (toggles \ {t}) \cup {[key |-> t.key, value |-> t.value, at |-> "done", on |-> league']}
  /\ UNCHANGED <<page, lcuConnected, leagueTab, chatPrivacy, read, chatPrivacyBusy, chatCrossed,
                 proxyVars>>

(* While nothing is shown the answer is dropped.                           *)
ToggleAnswered(t) ==
  /\ Shown /\ t.at = "done" /\ toggles' = toggles \ {t} /\ chatPrivacyBusy' = ""
  /\ chatPrivacy' = IF chatPrivacy.known THEN Known(t.on) ELSE chatPrivacy
  /\ UNCHANGED <<page, league, lcuConnected, leagueTab, read, chatCrossed, proxyVars>>

(* Refused by League; or done, with the answer lost.                       *)
ToggleFails(t) ==
  /\ Shown /\ toggles' = toggles \ {t} /\ chatPrivacyBusy' = ""
  /\ chatCrossed' = (chatCrossed \/ t.at = "done")
  /\ UNCHANGED <<page, league, lcuConnected, leagueTab, chatPrivacy, read, proxyVars>>

-----------------------------------------------------------------------------
(* The proxy.                                                              *)

Status(configured) == IF configured THEN "configured" ELSE "no"

ProxyStatusRead ==
  /\ Shown /\ proxyRead = Asked /\ proxyRead' \in {No, [at |-> "read", is |-> Status(proxy)]}
  /\ UNCHANGED <<page, chatVars, proxy, proxySetup, proxyBusy, proxyCrossed>>
ProxyStatusShown ==
  /\ Shown /\ proxyRead.at = "read" /\ proxyRead' = No /\ proxySetup' = proxyRead.is
  /\ UNCHANGED <<page, chatVars, proxy, proxyBusy, proxyCrossed>>

(* Both buttons are disabled while either works; what is not known to be   *)
(* configured cannot be removed.                                           *)
ProxyButtons(kind) == Shown /\ proxyBusy = "" /\ (kind = "clear" => proxySetup = "configured")

ProxyRequest(kind) ==
  /\ ProxyButtons(kind) /\ proxyBusy' = kind /\ proxyCrossed' = (proxyCrossed \/ proxyRead # No)
  /\ UNCHANGED <<page, chatVars, proxy, proxySetup, proxyRead>>
ProxyEnds ==
  /\ Shown /\ proxyBusy # "" /\ proxyBusy' = ""
  /\ proxy' = (proxyBusy = "setup") /\ proxySetup' = Status(proxy')
  /\ proxyCrossed' = (proxyCrossed /\ proxyRead # No)
  /\ UNCHANGED <<page, chatVars, proxyRead>>
(* A step of it failed, before or after the setup was stored.              *)
ProxyFails ==
  /\ Shown /\ proxyBusy # "" /\ proxyBusy' = ""
  /\ proxy' \in {proxy, proxyBusy = "setup"} /\ proxyCrossed' = (proxyCrossed \/ proxy' # proxy)
  /\ UNCHANGED <<page, chatVars, proxySetup, proxyRead>>

Next ==
  \/ PrivacyEffect \/ PrivacyRead \/ PrivacyShown
  \/ \E key \in Switches : updateChatPrivacy(key)
  \/ \E t \in toggles : ToggleArrives(t) \/ ToggleAnswered(t) \/ ToggleFails(t)
  \/ ProxyStatusRead \/ ProxyStatusShown \/ ProxyEnds \/ ProxyFails
  \/ \E kind \in {"setup", "clear"} : ProxyRequest(kind)

Spec == Init /\ page = "system" /\ [][Next]_vars

-----------------------------------------------------------------------------
(* Properties.                                                             *)

(* When every request for the chat settings has been answered, the switches*)
(* on show say what League has, however often the card and the connection  *)
(* came and went.  Two requests that overlapped, or a change whose answer  *)
(* was lost, may leave them wrong, but not longer than until the card is   *)
(* opened again with no request under way.                                 *)
SwitchesShowLeague ==
  leagueTab /\ read = No /\ toggles = {} /\ ~chatCrossed /\ chatPrivacy.known =>
    chatPrivacy.on = league

(* The proxy on show is the one RiftOps has when nothing is on its way.  A *)
(* setup that overtook the first read, or failed half way, may leave it    *)
(* wrong, but not longer than until the next setup or removal is done.     *)
ProxyShownIsSetUp ==
  proxyRead = No /\ proxyBusy = "" /\ ~proxyCrossed =>
    proxySetup \in {"unknown", Status(proxy)}
=============================================================================
