---------------------------- MODULE ProfileStudio ----------------------------
(***************************************************************************)
(* frontend/src/components/ProfileStudio.tsx: the skins of a champion for  *)
(* the background, the icons of the account, and the presets that keep a   *)
(* whole identity.  Icons are loaded again whenever the poll of            *)
(* LCUProvider.tsx reports another icon, so that loads may overlap; titles,*)
(* banners, crests and the status are edited and sent like the icon.       *)
(***************************************************************************)
EXTENDS Naturals, Sequences, FiniteSets

CONSTANTS Champions, Icons, Tokens, MaxSaved

VARIABLES
  page,            \* the tab App.tsx renders
  tool,            \* the category on show
  selectedChampion, skins, selectedSkin,   \* skins: the champion they are of
  catalogueLoading, catalogueError,
  skinRead,        \* the effect's request: [at, champion]
  league,          \* League: the icon the account wears
  inventory,       \* League: the icons it owns
  qol,             \* profileIconId of the last poll
  ownedIconIds, selectedIcon,
  iconLoads,       \* loads in flight: [icon, owned, at]
  selectedTokenIds,
  busy,            \* apply's request: [at, icon], 0 for the background, or No
  store,           \* RiftOps: the presets kept
  presets,         \* profilePresets
  presetRead,      \* the effect's load: No, Asked or its answer
  presetBusy,      \* [op, preset] or No
  studioCrossed    \* history: a preset was saved or deleted beside that load, or an answer lost

skinVars == <<selectedChampion, skins, selectedSkin, catalogueLoading, catalogueError, skinRead>>
iconVars == <<league, inventory, qol, ownedIconIds, selectedIcon, iconLoads, busy>>
presetVars == <<store, presets, presetRead, presetBusy, studioCrossed>>
vars == <<page, tool, skinVars, iconVars, selectedTokenIds, presetVars>>

No == [at |-> "no"]
Asked == [at |-> "asked"]
Shown == page = "profile"
On(t) == Shown /\ tool = t
Tools == {"background", "icon", "regalia", "presets"}

(* What each tool offers.                                                  *)
BackgroundTab == On("background") /\ ~catalogueLoading
IconLibrary(i) == On("icon") /\ i \in ownedIconIds
TokenSlot(slot, t) == On("regalia") /\ (t = 0 => slot \in DOMAIN selectedTokenIds)
PresetsTab == On("presets") /\ presetBusy = No
ApplyButton ==
  Shown /\ busy = No /\ IF tool = "background" THEN selectedSkin # 0 ELSE selectedIcon \in ownedIconIds

Init ==
  /\ tool = "background" /\ selectedChampion = 0 /\ skins = 0 /\ selectedSkin = 0
  /\ catalogueLoading = FALSE /\ catalogueError = FALSE /\ skinRead = No
  /\ league \in Icons /\ inventory \in {s \in SUBSET Icons : league \in s} /\ qol = 0
  /\ ownedIconIds = {} /\ selectedIcon = 0
  /\ iconLoads = {[icon |-> 0, owned |-> {}, at |-> "asked"]}
  /\ selectedTokenIds = <<>> /\ busy = No
  /\ store = {} /\ presets = {} /\ presetRead = Asked /\ presetBusy = No /\ studioCrossed = FALSE

setTool(t) ==
  /\ Shown /\ tool' = t
  /\ UNCHANGED <<page, skinVars, iconVars, selectedTokenIds, presetVars>>

-----------------------------------------------------------------------------
(* The background.                                                         *)

(* The effect sends a request nobody cancels.                              *)
ChooseChampion(c) ==
  /\ BackgroundTab /\ c # selectedChampion
  /\ selectedChampion' = c /\ selectedSkin' = 0
  /\ catalogueLoading' = TRUE /\ catalogueError' = FALSE
  /\ skinRead' = [at |-> "asked", champion |-> c]
  /\ UNCHANGED <<page, tool, skins, iconVars, selectedTokenIds, presetVars>>

(* After an error the skins of another champion stay on show.              *)
SkinsAnswered ==
  /\ Shown /\ skinRead # No /\ skinRead' = No /\ catalogueLoading' = FALSE
  /\ \/ skins' = skinRead.champion /\ UNCHANGED catalogueError
     \/ catalogueError' = TRUE /\ UNCHANGED skins
  /\ UNCHANGED <<page, tool, selectedChampion, selectedSkin, iconVars, selectedTokenIds, presetVars>>

(* A skin is named by its champion.                                        *)
ChooseSkin ==
  /\ BackgroundTab /\ selectedChampion # 0 /\ skins # 0
  /\ selectedSkin' = skins
  /\ UNCHANGED <<page, tool, selectedChampion, skins, catalogueLoading, catalogueError, skinRead,
                 iconVars, selectedTokenIds, presetVars>>

(* The button works while skins are loaded, too: their answer is shown     *)
(* without a champion, until one is chosen.                                *)
Reset ==
  /\ Shown /\ busy = No
  /\ IF tool = "background"
     THEN /\ selectedChampion' = 0 /\ selectedSkin' = 0 /\ skins' = 0
          /\ UNCHANGED <<selectedIcon, catalogueLoading, catalogueError, skinRead>>
     ELSE /\ tool = "icon" /\ selectedIcon' = qol /\ UNCHANGED skinVars
  /\ UNCHANGED <<page, tool, league, inventory, qol, ownedIconIds, iconLoads, busy, selectedTokenIds,
                 presetVars>>

-----------------------------------------------------------------------------
(* The icons.                                                              *)

(* The account changes its icon in the client.                             *)
WearIcon(i) ==
  /\ Shown /\ i \in inventory /\ i # league /\ league' = i
  /\ UNCHANGED <<page, tool, skinVars, inventory, qol, ownedIconIds, selectedIcon, iconLoads, busy,
                 selectedTokenIds, presetVars>>

(* The poll reports it, and the icons are loaded again for it.             *)
QolPolled ==
  /\ Shown /\ qol # league /\ Cardinality(iconLoads) < 2   \* bound
  /\ qol' = league /\ iconLoads' = iconLoads \cup {[icon |-> league, owned |-> {}, at |-> "asked"]}
  /\ UNCHANGED <<page, tool, skinVars, league, inventory, ownedIconIds, selectedIcon, busy,
                 selectedTokenIds, presetVars>>

(* The inventory may be unavailable: then only the icon worn is known.     *)
IconsRead(l) ==
  /\ Shown /\ l.at = "asked"
  /\ \E owned \in {{}, inventory} :
       iconLoads' = (iconLoads \ {l}) \cup
                    {[icon |-> l.icon, owned |-> owned \cup ({l.icon} \ {0}), at |-> "read"]}
  /\ UNCHANGED <<page, tool, skinVars, league, inventory, qol, ownedIconIds, selectedIcon, busy,
                 selectedTokenIds, presetVars>>

IconsShown(l) ==
  /\ Shown /\ l.at = "read" /\ iconLoads' = iconLoads \ {l}
  /\ ownedIconIds' = l.owned /\ selectedIcon' = l.icon
  /\ UNCHANGED <<page, tool, skinVars, league, inventory, qol, busy, selectedTokenIds, presetVars>>

ChooseIcon(i) ==
  /\ IconLibrary(i) /\ selectedIcon' = i
  /\ UNCHANGED <<page, tool, skinVars, league, inventory, qol, ownedIconIds, iconLoads, busy,
                 selectedTokenIds, presetVars>>

(* apply: the background on its own page, the icon on every other.         *)
Apply ==
  /\ ApplyButton
  /\ busy' = [at |-> "sent", icon |-> IF tool = "background" THEN 0 ELSE selectedIcon]
  /\ UNCHANGED <<page, tool, skinVars, league, inventory, qol, ownedIconIds, selectedIcon, iconLoads,
                 selectedTokenIds, presetVars>>
Applied ==
  /\ Shown /\ busy # No /\ busy' = No
  /\ league' \in {league} \cup ({busy.icon} \cap inventory)
  /\ UNCHANGED <<page, tool, skinVars, inventory, qol, ownedIconIds, selectedIcon, iconLoads,
                 selectedTokenIds, presetVars>>

-----------------------------------------------------------------------------
(* The tokens: three slots without gaps.                                   *)

handleAssignToken(slot, t) ==
  /\ TokenSlot(slot, t)
  /\ selectedTokenIds' =
       IF t = 0 THEN SubSeq(selectedTokenIds, 1, slot - 1)
                        \o SubSeq(selectedTokenIds, slot + 1, Len(selectedTokenIds))
       ELSE IF slot \in DOMAIN selectedTokenIds THEN [selectedTokenIds EXCEPT ![slot] = t]
       ELSE Append(selectedTokenIds, t)
  /\ UNCHANGED <<page, tool, skinVars, iconVars, presetVars>>

-----------------------------------------------------------------------------
(* The presets.                                                            *)

loadPresets ==
  /\ Shown /\ presetRead = Asked /\ presetRead' = [at |-> "read", presets |-> store]
  /\ UNCHANGED <<page, tool, skinVars, iconVars, selectedTokenIds, store, presets, presetBusy, studioCrossed>>
PresetsShown ==
  /\ Shown /\ presetRead # No /\ presetRead' = No
  /\ presets' = IF presetRead.at = "read" THEN presetRead.presets ELSE presets
  /\ UNCHANGED <<page, tool, skinVars, iconVars, selectedTokenIds, store, presetBusy, studioCrossed>>

(* One request about presets at a time: but a confirmed preset is applied  *)
(* with every button enabled.                                              *)
savePreset ==
  /\ PresetsTab /\ Cardinality(store) < MaxSaved   \* bound
  /\ presetBusy' = [at |-> "sent", op |-> "save",
                    preset |-> CHOOSE n \in 1..MaxSaved : n \notin store]
  /\ studioCrossed' = (studioCrossed \/ presetRead # No)
  /\ UNCHANGED <<page, tool, skinVars, iconVars, selectedTokenIds, store, presets, presetRead>>

requestDeletePreset(p) ==
  /\ PresetsTab /\ p \in presets
  /\ presetBusy' = [at |-> "sent", op |-> "delete", preset |-> p]
  /\ studioCrossed' = (studioCrossed \/ presetRead # No)
  /\ UNCHANGED <<page, tool, skinVars, iconVars, selectedTokenIds, store, presets, presetRead>>

PresetArrives ==
  /\ Shown /\ presetBusy.at = "sent" /\ presetBusy' = [presetBusy EXCEPT !.at = "done"]
  /\ store' = IF presetBusy.op = "save" THEN store \cup {presetBusy.preset} ELSE store \ {presetBusy.preset}
  /\ UNCHANGED <<page, tool, skinVars, iconVars, selectedTokenIds, presets, presetRead, studioCrossed>>

(* The list is changed in the same way, not loaded again.                  *)
PresetAnswered ==
  /\ Shown /\ presetBusy.at = "done" /\ presetBusy' = No
  /\ presets' = IF presetBusy.op = "save" THEN presets \cup {presetBusy.preset} ELSE presets \ {presetBusy.preset}
  /\ UNCHANGED <<page, tool, skinVars, iconVars, selectedTokenIds, store, presetRead, studioCrossed>>

(* Refused, or done with the answer lost.                                  *)
PresetFails ==
  /\ Shown /\ presetBusy # No /\ presetBusy' = No
  /\ studioCrossed' = (studioCrossed \/ presetBusy.at = "done")
  /\ UNCHANGED <<page, tool, skinVars, iconVars, selectedTokenIds, store, presets, presetRead>>

Next ==
  \/ \E t \in Tools \ {tool} : setTool(t)
  \/ \E c \in Champions : ChooseChampion(c)
  \/ SkinsAnswered \/ ChooseSkin \/ Reset \/ QolPolled \/ Apply \/ Applied
  \/ \E i \in Icons : WearIcon(i) \/ ChooseIcon(i)
  \/ \E l \in iconLoads : IconsRead(l) \/ IconsShown(l)
  \/ \E slot \in 1..3, t \in Tokens \cup {0} : handleAssignToken(slot, t)
  \/ loadPresets \/ PresetsShown \/ savePreset \/ PresetArrives \/ PresetAnswered \/ PresetFails
  \/ \E p \in presets : requestDeletePreset(p)

Spec == Init /\ page = "profile" /\ [][Next]_vars

-----------------------------------------------------------------------------
(* Properties.                                                             *)

(* The skins offered once the loading ended are those of the chosen        *)
(* champion, and so is the chosen skin, unless the page says that they     *)
(* could not be loaded, or nothing is chosen (the effect of                *)
(* selectedChampion, whose requests are never cancelled).                  *)
SkinsOfChampion ==
  ~catalogueLoading /\ ~catalogueError /\ selectedChampion # 0 =>
    skins = selectedChampion /\ selectedSkin \in {0, selectedChampion}

(* What the page would send to League as the icon is one the account is    *)
(* known to own or the one it wears, once the icons are loaded, however    *)
(* those loads overlapped (loadIcons).                                     *)
SelectedIsOwned == iconLoads = {} => selectedIcon \in ownedIconIds \cup {0, qol}

(* The presets on show are those kept when nothing is on its way.          *)
PresetsAreKept ==
  presetRead = No /\ presetBusy = No /\ ~studioCrossed => presets = store
=============================================================================
