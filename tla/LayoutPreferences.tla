------------------------- MODULE LayoutPreferences -------------------------
(***************************************************************************)
(* The workspace preferences (store/useWorkspaceStore.ts): grid, density,  *)
(* open panels and their sizes, kept in every tab, in one localStorage     *)
(* entry for all tabs, and passed between tabs in broadcasts.  A broadcast *)
(* is heard after any delay, in the order of its sender; the entry may be  *)
(* edited or damaged from outside, and writing it may fail.                *)
(***************************************************************************)
EXTENDS Integers, Sequences

CONSTANTS
    Tabs,
    Local,          \* preferences that are not broadcast: showGrid and the like
    Options,        \* their values, and those of bottomPanel
    Heights,        \* heights that a resize may ask for
    MinHeight, MaxHeight,   \* 140 and 360 in the source
    Damaged,        \* an unusable value in the stored entry
    MaxSets         \* bound: preferences set, tabs reloaded, entries damaged

VARIABLES
    prefs,      \* per tab: the store
    entry,      \* the stored entry
    mail,       \* from tab to tab: the updates posted and not heard yet
    latest,     \* ghost: the last value set in any tab
    unsure,     \* ghost: preferences that were damaged, not stored, or set again before all tabs knew
    sets

prefVars == <<prefs, entry, mail, latest, unsure, sets>>

Shared == {"bottomPanel", "bottomCollapsed", "bottomHeight"}
Preferences == Local \cup Shared
Clamp(h) == IF h < MinHeight THEN MinHeight ELSE IF h > MaxHeight THEN MaxHeight ELSE h
Range == MinHeight..MaxHeight

Fallback(name) ==
    IF name = "bottomCollapsed" THEN FALSE
    ELSE IF name = "bottomHeight" THEN Clamp(224)
    ELSE CHOOSE c \in Options : TRUE

Readable(name, value) == IF name = "bottomHeight" THEN Clamp(value) ELSE value

\* readPreferences: what is missing or unusable has its default
readPreferences == [name \in Preferences |-> IF entry[name] = Damaged THEN Fallback(name) ELSE Readable(name, entry[name])]

With(p, update) == [name \in Preferences |-> IF name \in DOMAIN update THEN update[name] ELSE p[name]]

Persist_OwnState(tab, update) == entry' = With(prefs[tab], update)

\* persist: over what is stored now, whatever this tab shows
Persist(tab, update) == entry' = With(readPreferences, update)

\* preferences that some update on its way to a tab, or to any tab, sets
Undelivered(tab) == {name \in Preferences : \E from \in Tabs : \E n \in DOMAIN mail[<<from, tab>>] : name \in DOMAIN mail[<<from, tab>>][n]}
InFlight == UNION {Undelivered(tab) : tab \in Tabs}

Set(tab, update) ==
    /\ prefs' = [prefs EXCEPT ![tab] = With(@, update)]
    /\ latest' = With(latest, update)
    /\ \/ Persist(tab, update) /\ unsure' = unsure \cup (DOMAIN update \cap InFlight)
       \/ UNCHANGED entry /\ unsure' = unsure \cup DOMAIN update      \* setItem throws: caught

Post_Kept(tab, update) == UNCHANGED mail
Post(tab, update) ==
    mail' = [ch \in Tabs \X Tabs |-> IF ch[1] = tab /\ ch[2] # tab THEN Append(mail[ch], update) ELSE mail[ch]]

SetLocal(tab, name, value) ==
    /\ name \in Local
    /\ Set(tab, [n \in {name} |-> value]) /\ UNCHANGED mail

\* choosing a panel opens the dock
SetBottomPanel(tab, panel) ==
    LET update == [n \in {"bottomPanel", "bottomCollapsed"} |-> IF n = "bottomPanel" THEN panel ELSE FALSE]
    IN  Set(tab, update) /\ Post(tab, update)

SetBottomCollapsed(tab, collapsed) ==
    LET update == [n \in {"bottomCollapsed"} |-> collapsed] IN Set(tab, update) /\ Post(tab, update)

SetBottomHeight(tab, height) ==
    LET update == [n \in {"bottomHeight"} |-> Clamp(height)] IN Set(tab, update) /\ Post(tab, update)

Hear(from, tab) ==
    /\ mail[<<from, tab>>] # <<>>
    /\ prefs' = [prefs EXCEPT ![tab] = With(@, Head(mail[<<from, tab>>]))]
    /\ mail' = [mail EXCEPT ![<<from, tab>>] = Tail(@)]
    /\ UNCHANGED <<entry, latest, unsure, sets>>

\* a new page reads the entry, and hears only what is posted from now on
Reload(tab) ==
    /\ prefs' = [prefs EXCEPT ![tab] = readPreferences]
    /\ mail' = [ch \in Tabs \X Tabs |-> IF ch[2] = tab THEN <<>> ELSE mail[ch]]
    /\ UNCHANGED <<entry, latest, unsure>>

Damage(name) ==
    /\ \E value \in {Damaged} \cup (IF name = "bottomHeight" THEN Heights ELSE {}) : entry' = [entry EXCEPT ![name] = value]
    /\ unsure' = unsure \cup {name}
    /\ UNCHANGED <<prefs, mail, latest>>

PrefsInit ==
    /\ entry = [name \in Preferences |-> Fallback(name)]
    /\ prefs = [tab \in Tabs |-> readPreferences] /\ latest = readPreferences
    /\ mail = [ch \in Tabs \X Tabs |-> <<>>]
    /\ unsure = {} /\ sets = 0

Change ==
    \/ \E tab \in Tabs :
        \/ \E name \in Local, value \in Options : SetLocal(tab, name, value)
        \/ \E panel \in Options : SetBottomPanel(tab, panel)
        \/ \E collapsed \in BOOLEAN : SetBottomCollapsed(tab, collapsed)
        \/ \E height \in Heights : SetBottomHeight(tab, height)
        \/ Reload(tab)
    \/ \E name \in Preferences : Damage(name)

PrefsNext ==
    \/ sets < MaxSets /\ sets' = sets + 1 /\ Change
    \/ \E from, tab \in Tabs : Hear(from, tab)

PrefsSpec == PrefsInit /\ [][PrefsNext]_prefVars

-----------------------------------------------------------------------------
\* No tab ever lays the dock out beyond its limits, whatever is stored.
HeightsInRange == \A tab \in Tabs : prefs[tab]["bottomHeight"] \in Range

\* What was set last is what the next page will find: no tab, however old the
\* state it shows, takes a preference back by storing another one.
LatestIsStored == \A name \in Preferences \ unsure : entry[name] = latest[name]

\* Tabs that were not used at the same time end with one layout: a tab that has
\* heard all news of a broadcast preference shows its last value.
TabsAgree ==
    \A tab \in Tabs, name \in Shared \ unsure : name \notin Undelivered(tab) => prefs[tab][name] = latest[name]
=============================================================================
