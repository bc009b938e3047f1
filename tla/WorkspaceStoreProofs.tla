------------------------ MODULE WorkspaceStoreProofs ------------------------
(***************************************************************************)
(* Proofs about parts of MCWorkspace.  First what the tabs, the loads and  *)
(* the commands of a page share: the cache of toolchain assets             *)
(* (AssetCache), the layout preferences (LayoutPreferences) and Behavior   *)
(* Preview (PreviewCommands), for any number of loads, tabs, preferences   *)
(* and commands.  Then the project store (ProjectStore) and what is built  *)
(* over it (DesignTools, PlanCommands): whatever a room's projects were    *)
(* made of, their documents claim only links that hold, and what a command *)
(* answers as durable or linked is.                                        *)
(***************************************************************************)
EXTENDS MCWorkspace, SequenceTheorems, TLAPS


(***************************************************************************)
(* The asset cache.  A load that is about to store has checked its bytes   *)
(* against its own release, and nothing moves a load that has ended.       *)
(***************************************************************************)
Checked(l) ==
    /\ load[l].at # "idle" => load[l].asset \in Assets
    /\ load[l].at \in {"check", "discard", "put"} => load[l].fetched
    /\ load[l].at \in {"hash", "evict"} => ~load[l].fetched
    /\ load[l].at \in {"match", "fetch"} => ~load[l].fetched
    /\ load[l].at \in {"hash", "check", "discard", "put", "loaded"} => load[l].bytes \in Contents
    /\ load[l].at = "put" => load[l].bytes = load[l].asset.sha256 /\ load[l].asset.sized

CacheInv ==
    /\ Cache!AssetTypeOK /\ Cache!LoadsAreVerified /\ Cache!CacheIsVerified
    /\ \A l \in Loads : Checked(l)

LEMMA CacheStarts == Cache!CacheInit => CacheInv
BY AssetAssumption DEF Cache!CacheInit, CacheInv, Checked, Cache!AssetTypeOK, Cache!LoadsAreVerified, Cache!CacheIsVerified,
   Cache!Loading, Cache!Awaiting, Cache!Ended, Cache!At

LEMMA CacheSteps == CacheInv /\ Cache!CacheNext => CacheInv'
<1> SUFFICES ASSUME CacheInv, Cache!CacheNext PROVE CacheInv'
  OBVIOUS
<1> USE AssetAssumption DEF CacheInv, Checked, Cache!AssetTypeOK, Cache!LoadsAreVerified, Cache!CacheIsVerified,
                            Cache!Awaiting, Cache!Ended, Cache!At, Cache!Goes, Cache!Loading
<1>1. CASE Cache!DamageEntry
  BY <1>1 DEF Cache!DamageEntry
<1>2. ASSUME UNCHANGED damage, NEW l \in Loads, Cache!LoadStep(l) PROVE CacheInv'
  <2>1. CASE Cache!StartLoad(l)
    BY <1>2, <2>1 DEF Cache!StartLoad
  <2>2. CASE Cache!ReadCache(l)
    BY <1>2, <2>2 DEF Cache!ReadCache
  <2>3. CASE Cache!HashCached(l)
    BY <1>2, <2>3 DEF Cache!HashCached, Cache!Matches
  <2>4. CASE Cache!Evict(l)
    BY <1>2, <2>4 DEF Cache!Evict
  <2>5. CASE Cache!Cancel(l)
    BY <1>2, <2>5 DEF Cache!Cancel
  <2>6. CASE Cache!FetchAsset(l)
    <3>1. CASE Cache!Goes(l, "failed")
      BY <1>2, <2>6, <3>1 DEF Cache!FetchAsset
    <3>2. CASE \E bytes \in Contents :
                  load' = [load EXCEPT ![l] = [at |-> "check", asset |-> @.asset, bytes |-> bytes, fetched |-> TRUE]]
      BY <1>2, <2>6, <3>2 DEF Cache!FetchAsset
    <3> QED
      BY <2>6, <3>1, <3>2 DEF Cache!FetchAsset
  <2>7. CASE Cache!CheckFetched(l)
    BY <1>2, <2>7 DEF Cache!CheckFetched, Cache!Matches
  <2>8. CASE Cache!Discard(l)
    BY <1>2, <2>8 DEF Cache!Discard
  <2>9. CASE Cache!StoreAsset(l)
    BY <1>2, <2>9 DEF Cache!StoreAsset
  <2>10. CASE Cache!CacheFails(l)
    BY <1>2, <2>10 DEF Cache!CacheFails
  <2> QED
    BY <1>2, <2>1, <2>2, <2>3, <2>4, <2>5, <2>6, <2>7, <2>8, <2>9, <2>10 DEF Cache!LoadStep
<1> QED
  BY <1>1, <1>2 DEF Cache!CacheNext

\* In every reachable state of the page a load that succeeded has the bytes of its
\* own release, and an undamaged cache holds what some load has verified.
THEOREM AssetsSound == MCSpec => [](part = "assets" => CacheInv)
<1>1. MCInit => (part = "assets" => CacheInv)
  BY CacheStarts DEF MCInit
<1>2. (part = "assets" => CacheInv) /\ [MCNext]_mcVars => (part = "assets" => CacheInv)'
  <2>1. CASE MCNext
    BY <2>1, CacheSteps DEF MCNext
  <2>2. CASE UNCHANGED mcVars
    BY <2>2 DEF mcVars, assetsOnly, CacheInv, Checked, Cache!AssetTypeOK, Cache!LoadsAreVerified, Cache!CacheIsVerified, Cache!At
  <2> QED
    BY <2>1, <2>2
<1> QED
  BY <1>1, <1>2, PTL DEF MCSpec

(***************************************************************************)
(* The layout preferences.  Whatever is on its way to a tab carries the    *)
(* value set last, unless the preference was set again before all knew.    *)
(***************************************************************************)
PrefValue == Options \cup Int \cup BOOLEAN
Prefs == [Layout!Preferences -> PrefValue]
Update == UNION {[S -> PrefValue] : S \in SUBSET Layout!Preferences}
HeightFits(p) == "bottomHeight" \in DOMAIN p => p["bottomHeight"] \in Layout!Range

LayoutTypes ==
    /\ prefs \in [Tabs -> Prefs] /\ latest \in Prefs
    /\ entry \in [Layout!Preferences -> PrefValue \cup {Damaged}]
    /\ entry["bottomHeight"] \in Int \cup {Damaged}
    /\ mail \in [Tabs \X Tabs -> Seq(Update)]
    /\ unsure \subseteq Layout!Preferences

HeightsFit ==
    /\ HeightFits(latest) /\ \A tab \in Tabs : HeightFits(prefs[tab])
    /\ \A ch \in Tabs \X Tabs : \A n \in DOMAIN mail[ch] : HeightFits(mail[ch][n])

MailIsLatest ==
    \A name \in Layout!Preferences \ unsure : \A ch \in Tabs \X Tabs : \A n \in DOMAIN mail[ch] :
        name \in DOMAIN mail[ch][n] => mail[ch][n][name] = latest[name]

LayoutInv == LayoutTypes /\ HeightsFit /\ MailIsLatest /\ Layout!LatestIsStored /\ Layout!TabsAgree

LEMMA NamesOfUpdate ==
    ASSUME NEW u \in Update
    PROVE  DOMAIN u \subseteq Layout!Preferences /\ \A name \in DOMAIN u : u[name] \in PrefValue
BY DEF Update

LEMMA WithTyped ==
    ASSUME NEW p \in Prefs, NEW u \in Update
    PROVE  /\ Layout!With(p, u) \in Prefs
           /\ \A name \in Layout!Preferences : Layout!With(p, u)[name] = IF name \in DOMAIN u THEN u[name] ELSE p[name]
           /\ HeightFits(p) /\ HeightFits(u) => HeightFits(Layout!With(p, u))
BY NamesOfUpdate DEF Layout!With, Prefs, HeightFits

LEMMA ClampIsInRange ==
    /\ \A h \in Int : Layout!Clamp(h) \in Layout!Range
    /\ \A h \in Layout!Range : Layout!Clamp(h) = h
    /\ Layout!Range \subseteq Int
BY PreferencesAssumption DEF Layout!Clamp, Layout!Range

LEMMA HeightIsAName == "bottomHeight" \in Layout!Preferences
BY DEF Layout!Preferences, Layout!Shared

\* What a page reads is usable, whatever is stored, and the last value of every
\* preference that is not in doubt.
LEMMA ReadTyped ==
    ASSUME LayoutInv
    PROVE  /\ Layout!readPreferences \in Prefs /\ HeightFits(Layout!readPreferences)
           /\ \A name \in Layout!Preferences \ unsure : Layout!readPreferences[name] = latest[name]
<1>1. ASSUME NEW name \in Layout!Preferences PROVE Layout!Fallback(name) \in PrefValue
  <2>1. (CHOOSE c \in Options : TRUE) \in Options
    <3>1. \E c \in Options : TRUE
      BY PreferencesAssumption
    <3> QED
      BY <3>1, Zenon
  <2>2. Layout!Clamp(224) \in Int
    <3>1. 224 \in Int
      OBVIOUS
    <3> QED
      BY <3>1, ClampIsInRange, Zenon
  <2> QED
    BY <2>1, <2>2, Zenon DEF Layout!Fallback, PrefValue
<1>2. ASSUME NEW name \in Layout!Preferences, entry[name] # Damaged PROVE Layout!Readable(name, entry[name]) \in PrefValue
  BY <1>2, ClampIsInRange DEF LayoutInv, LayoutTypes, Layout!Readable, PrefValue
<1>3. Layout!readPreferences \in Prefs
  BY <1>1, <1>2 DEF Layout!readPreferences, Prefs
<1>4. HeightFits(Layout!readPreferences)
  <2>1. Layout!readPreferences["bottomHeight"]
            = IF entry["bottomHeight"] = Damaged THEN Layout!Clamp(224) ELSE Layout!Clamp(entry["bottomHeight"])
    BY HeightIsAName DEF Layout!readPreferences, Layout!Fallback, Layout!Readable
  <2>2. Layout!Clamp(224) \in Layout!Range
    BY ClampIsInRange
  <2>3. entry["bottomHeight"] # Damaged => Layout!Clamp(entry["bottomHeight"]) \in Layout!Range
    BY ClampIsInRange DEF LayoutInv, LayoutTypes
  <2> QED
    BY <2>1, <2>2, <2>3 DEF HeightFits
<1>5. ASSUME NEW name \in Layout!Preferences \ unsure PROVE Layout!readPreferences[name] = latest[name]
  <2>1. entry[name] = latest[name] /\ latest[name] \in PrefValue
    BY DEF LayoutInv, LayoutTypes, Layout!LatestIsStored, Prefs
  <2>2. entry[name] # Damaged
    BY <2>1, PreferencesAssumption DEF PrefValue
  <2>3. name = "bottomHeight" => latest[name] \in Layout!Range
    BY HeightIsAName DEF LayoutInv, LayoutTypes, HeightsFit, HeightFits, Prefs
  <2> QED
    BY <2>1, <2>2, <2>3, ClampIsInRange DEF Layout!readPreferences, Layout!Readable
<1> QED
  BY <1>3, <1>4, <1>5
\* Setting a preference, stored or not.
LEMMA SetSound ==
    ASSUME LayoutInv, NEW tab \in Tabs, NEW u \in Update, HeightFits(u), Layout!Set(tab, u)
    PROVE  /\ prefs' \in [Tabs -> Prefs] /\ latest' \in Prefs
           /\ entry' \in [Layout!Preferences -> PrefValue \cup {Damaged}]
           /\ entry'["bottomHeight"] \in Int \cup {Damaged}
           /\ unsure \subseteq unsure' /\ unsure' \subseteq Layout!Preferences
           /\ HeightFits(latest') /\ \A t \in Tabs : HeightFits(prefs'[t])
           /\ Layout!LatestIsStored'
           /\ \A name \in Layout!Preferences : latest'[name] = IF name \in DOMAIN u THEN u[name] ELSE latest[name]
           /\ \A name \in DOMAIN u \ unsure' : name \notin Layout!InFlight
           /\ \A t \in Tabs : t # tab => prefs'[t] = prefs[t]
           /\ \A name \in Layout!Preferences : prefs'[tab][name] = IF name \in DOMAIN u THEN u[name] ELSE prefs[tab][name]
<1>1. latest' = Layout!With(latest, u) /\ latest \in Prefs /\ HeightFits(latest)
  BY DEF LayoutInv, LayoutTypes, HeightsFit, Layout!Set
<1>2. /\ latest' \in Prefs /\ HeightFits(latest')
      /\ \A name \in Layout!Preferences : latest'[name] = IF name \in DOMAIN u THEN u[name] ELSE latest[name]
  BY <1>1, WithTyped
<1>3. prefs' = [prefs EXCEPT ![tab] = Layout!With(prefs[tab], u)] /\ prefs \in [Tabs -> Prefs]
  BY DEF LayoutInv, LayoutTypes, Layout!Set
<1>4. /\ Layout!With(prefs[tab], u) \in Prefs /\ HeightFits(Layout!With(prefs[tab], u))
      /\ \A name \in Layout!Preferences : Layout!With(prefs[tab], u)[name] = IF name \in DOMAIN u THEN u[name] ELSE prefs[tab][name]
  BY <1>3, WithTyped DEF LayoutInv, HeightsFit
<1>5. /\ prefs' \in [Tabs -> Prefs] /\ \A t \in Tabs : t # tab => prefs'[t] = prefs[t]
      /\ prefs'[tab] = Layout!With(prefs[tab], u)
  BY <1>3, <1>4
<1>6. \A t \in Tabs : HeightFits(prefs'[t])
  BY <1>4, <1>5 DEF LayoutInv, HeightsFit
<1>7. DOMAIN u \subseteq Layout!Preferences
  BY NamesOfUpdate
<1>8. CASE Layout!Persist(tab, u) /\ unsure' = unsure \cup (DOMAIN u \cap Layout!InFlight)
  <2>1. /\ Layout!readPreferences \in Prefs /\ HeightFits(Layout!readPreferences)
        /\ \A name \in Layout!Preferences \ unsure : Layout!readPreferences[name] = latest[name]
    BY ReadTyped
  <2>2. /\ entry' \in Prefs /\ HeightFits(entry')
        /\ \A name \in Layout!Preferences : entry'[name] = IF name \in DOMAIN u THEN u[name] ELSE Layout!readPreferences[name]
    BY <1>8, <2>1, WithTyped DEF Layout!Persist
  <2>3. Layout!LatestIsStored'
    BY <1>2, <1>8, <2>1, <2>2 DEF Layout!LatestIsStored
  <2>4. entry' \in [Layout!Preferences -> PrefValue \cup {Damaged}] /\ entry'["bottomHeight"] \in Int
    BY <2>2, HeightIsAName, ClampIsInRange DEF Prefs, HeightFits
  <2> QED
    BY <1>2, <1>4, <1>5, <1>6, <1>7, <1>8, <2>3, <2>4 DEF LayoutInv, LayoutTypes
<1>9. CASE UNCHANGED entry /\ unsure' = unsure \cup DOMAIN u
  <2>1. Layout!LatestIsStored'
    BY <1>2, <1>9 DEF LayoutInv, Layout!LatestIsStored
  <2> QED
    BY <1>2, <1>4, <1>5, <1>6, <1>7, <1>9, <2>1 DEF LayoutInv, LayoutTypes
<1> QED
  BY <1>8, <1>9 DEF Layout!Set

LEMMA Appended ==
    ASSUME NEW S, NEW q \in Seq(S), NEW u \in S
    PROVE  /\ Append(q, u) \in Seq(S)
           /\ \A n \in DOMAIN Append(q, u) : Append(q, u)[n] = u \/ \E k \in DOMAIN q : Append(q, u)[n] = q[k]
           /\ \A n \in DOMAIN q : n \in DOMAIN Append(q, u) /\ Append(q, u)[n] = q[n]
           /\ \E n \in DOMAIN Append(q, u) : Append(q, u)[n] = u
<1>1. /\ Append(q, u) \in Seq(S) /\ Len(Append(q, u)) = Len(q) + 1
      /\ \A i \in 1..Len(q) : Append(q, u)[i] = q[i]
      /\ Append(q, u)[Len(q) + 1] = u
  BY AppendProperties
<1>2. /\ DOMAIN q = 1..Len(q) /\ Len(q) \in Nat
      /\ DOMAIN Append(q, u) = 1..(Len(q) + 1)
  BY <1>1, LenProperties
<1>3. /\ \A i \in 1..(Len(q) + 1) : i = Len(q) + 1 \/ i \in 1..Len(q)
      /\ Len(q) + 1 \in 1..(Len(q) + 1) /\ 1..Len(q) \subseteq 1..(Len(q) + 1)
  BY <1>2
<1> QED
  BY <1>1, <1>2, <1>3

LEMMA Heard ==
    ASSUME NEW S, NEW q \in Seq(S), q # <<>>
    PROVE  /\ Tail(q) \in Seq(S) /\ Head(q) \in S /\ 1 \in DOMAIN q /\ Head(q) = q[1]
           /\ \A n \in DOMAIN Tail(q) : \E k \in DOMAIN q : Tail(q)[n] = q[k]
           /\ \A k \in DOMAIN q : k = 1 \/ \E n \in DOMAIN Tail(q) : Tail(q)[n] = q[k]
<1>1. /\ Head(q) \in S /\ Tail(q) \in Seq(S) /\ Len(Tail(q)) = Len(q) - 1
      /\ \A i \in 1..Len(Tail(q)) : Tail(q)[i] = q[i + 1]
  BY HeadTailProperties
<1>2. /\ DOMAIN q = 1..Len(q) /\ Len(q) \in Nat /\ Len(q) # 0
      /\ DOMAIN Tail(q) = 1..(Len(q) - 1)
  BY <1>1, LenProperties, EmptySeq
<1>3. Head(q) = q[1]
  OBVIOUS
<1>4. /\ \A i \in 1..(Len(q) - 1) : i + 1 \in 1..Len(q)
      /\ \A k \in 1..Len(q) : k = 1 \/ (k - 1 \in 1..(Len(q) - 1) /\ (k - 1) + 1 = k)
      /\ 1 \in 1..Len(q)
  BY <1>2
<1> QED
  BY <1>1, <1>2, <1>3, <1>4
\* Setting a shared preference: every other tab will hear of it.
LEMMA SharedSetSound ==
    ASSUME LayoutInv, NEW tab \in Tabs, NEW u \in Update, HeightFits(u),
           Layout!Set(tab, u), Layout!Post(tab, u)
    PROVE  LayoutInv'
<1>1. /\ prefs' \in [Tabs -> Prefs] /\ latest' \in Prefs
      /\ entry' \in [Layout!Preferences -> PrefValue \cup {Damaged}]
      /\ entry'["bottomHeight"] \in Int \cup {Damaged}
      /\ unsure \subseteq unsure' /\ unsure' \subseteq Layout!Preferences
      /\ HeightFits(latest') /\ \A t \in Tabs : HeightFits(prefs'[t])
      /\ Layout!LatestIsStored'
  BY SetSound
<1>2. /\ \A name \in Layout!Preferences : latest'[name] = IF name \in DOMAIN u THEN u[name] ELSE latest[name]
      /\ \A name \in DOMAIN u \ unsure' : name \notin Layout!InFlight
      /\ \A t \in Tabs : t # tab => prefs'[t] = prefs[t]
      /\ \A name \in Layout!Preferences : prefs'[tab][name] = IF name \in DOMAIN u THEN u[name] ELSE prefs[tab][name]
  BY SetSound
<1>3. ASSUME NEW ch \in Tabs \X Tabs
      PROVE  /\ mail'[ch] \in Seq(Update)
             /\ \A n \in DOMAIN mail'[ch] : mail'[ch][n] = u \/ \E k \in DOMAIN mail[ch] : mail'[ch][n] = mail[ch][k]
             /\ \A k \in DOMAIN mail[ch] : k \in DOMAIN mail'[ch] /\ mail'[ch][k] = mail[ch][k]
             /\ ch[1] = tab /\ ch[2] # tab => \E n \in DOMAIN mail'[ch] : mail'[ch][n] = u
  <2>1. mail[ch] \in Seq(Update)
    BY DEF LayoutInv, LayoutTypes
  <2>2. mail'[ch] = IF ch[1] = tab /\ ch[2] # tab THEN Append(mail[ch], u) ELSE mail[ch]
    BY DEF Layout!Post
  <2> QED
    BY <2>1, <2>2, Appended
<1>4. mail' \in [Tabs \X Tabs -> Seq(Update)]
  BY <1>3 DEF Layout!Post
<1>5. LayoutTypes'
  BY <1>1, <1>4 DEF LayoutTypes
<1>6. HeightsFit'
  BY <1>1, <1>3 DEF LayoutInv, HeightsFit
<1>7. MailIsLatest'
  <2> SUFFICES ASSUME NEW name \in Layout!Preferences \ unsure', NEW ch \in Tabs \X Tabs, NEW n \in DOMAIN mail'[ch],
                      name \in DOMAIN mail'[ch][n]
               PROVE  mail'[ch][n][name] = latest'[name]
    BY DEF MailIsLatest
  <2>1. CASE mail'[ch][n] = u
    BY <1>2, <2>1
  <2>2. CASE \E k \in DOMAIN mail[ch] : mail'[ch][n] = mail[ch][k]
    <3>1. PICK k \in DOMAIN mail[ch] : mail'[ch][n] = mail[ch][k]
      BY <2>2
    <3>2. name \notin unsure /\ mail[ch][k][name] = latest[name]
      BY <1>1, <3>1 DEF LayoutInv, MailIsLatest
    <3>3. name \in Layout!InFlight
      BY <3>1 DEF Layout!InFlight, Layout!Undelivered
    <3> QED
      BY <1>2, <3>1, <3>2, <3>3
  <2> QED
    BY <1>3, <2>1, <2>2
<1>8. Layout!TabsAgree'
  <2> SUFFICES ASSUME NEW t \in Tabs, NEW name \in Layout!Shared \ unsure', name \notin Layout!Undelivered(t)'
               PROVE  prefs'[t][name] = latest'[name]
    BY DEF Layout!TabsAgree
  <2>0. name \in Layout!Preferences
    BY DEF Layout!Preferences
  <2>1. ASSUME name \in Layout!Undelivered(t) PROVE FALSE
    <3>1. PICK from \in Tabs : \E n \in DOMAIN mail[<<from, t>>] : name \in DOMAIN mail[<<from, t>>][n]
      BY <2>1 DEF Layout!Undelivered
    <3>2. PICK n \in DOMAIN mail[<<from, t>>] : name \in DOMAIN mail[<<from, t>>][n]
      BY <3>1
    <3>3. n \in DOMAIN mail'[<<from, t>>] /\ mail'[<<from, t>>][n] = mail[<<from, t>>][n]
      BY <1>3
    <3> QED
      BY <2>0, <3>2, <3>3 DEF Layout!Undelivered
  <2>2. prefs[t][name] = latest[name]
    BY <1>1, <2>1 DEF LayoutInv, Layout!TabsAgree
  <2>3. CASE t = tab
    BY <1>2, <2>0, <2>2, <2>3
  <2>4. CASE t # tab
    <3>1. PICK n \in DOMAIN mail'[<<tab, t>>] : mail'[<<tab, t>>][n] = u
      BY <1>3, <2>4
    <3>2. name \notin DOMAIN u
      BY <2>0, <3>1 DEF Layout!Undelivered
    <3> QED
      BY <1>2, <2>0, <2>2, <2>4, <3>2
  <2> QED
    BY <2>3, <2>4
<1> QED
  BY <1>1, <1>5, <1>6, <1>7, <1>8 DEF LayoutInv

\* Setting a preference that every tab has for itself.
LEMMA LocalSetSound ==
    ASSUME LayoutInv, NEW tab \in Tabs, NEW u \in Update, DOMAIN u \subseteq Local,
           Layout!Set(tab, u), UNCHANGED mail
    PROVE  LayoutInv'
<1>0. DOMAIN u \cap Layout!Shared = {} /\ HeightFits(u)
  BY PreferencesAssumption DEF Layout!Shared, HeightFits
<1>1. /\ prefs' \in [Tabs -> Prefs] /\ latest' \in Prefs
      /\ entry' \in [Layout!Preferences -> PrefValue \cup {Damaged}]
      /\ entry'["bottomHeight"] \in Int \cup {Damaged}
      /\ unsure \subseteq unsure' /\ unsure' \subseteq Layout!Preferences
      /\ HeightFits(latest') /\ \A t \in Tabs : HeightFits(prefs'[t])
      /\ Layout!LatestIsStored'
  BY <1>0, SetSound
<1>2. /\ \A name \in Layout!Preferences : latest'[name] = IF name \in DOMAIN u THEN u[name] ELSE latest[name]
      /\ \A name \in DOMAIN u \ unsure' : name \notin Layout!InFlight
      /\ \A t \in Tabs : t # tab => prefs'[t] = prefs[t]
      /\ \A name \in Layout!Preferences : prefs'[tab][name] = IF name \in DOMAIN u THEN u[name] ELSE prefs[tab][name]
  BY <1>0, SetSound
<1>3. LayoutTypes' /\ HeightsFit'
  BY <1>1 DEF LayoutInv, LayoutTypes, HeightsFit
<1>4. MailIsLatest'
  <2> SUFFICES ASSUME NEW name \in Layout!Preferences \ unsure', NEW ch \in Tabs \X Tabs, NEW n \in DOMAIN mail[ch],
                      name \in DOMAIN mail[ch][n]
               PROVE  mail[ch][n][name] = latest'[name]
    BY DEF MailIsLatest
  <2>1. name \notin unsure /\ mail[ch][n][name] = latest[name]
    BY <1>1 DEF LayoutInv, MailIsLatest
  <2>2. name \in Layout!InFlight
    BY DEF Layout!InFlight, Layout!Undelivered
  <2> QED
    BY <1>2, <2>1, <2>2
<1>5. Layout!TabsAgree'
  <2> SUFFICES ASSUME NEW t \in Tabs, NEW name \in Layout!Shared \ unsure', name \notin Layout!Undelivered(t)
               PROVE  prefs'[t][name] = latest'[name]
    BY DEF Layout!TabsAgree, Layout!Undelivered
  <2>1. name \in Layout!Preferences /\ name \notin DOMAIN u
    BY <1>0 DEF Layout!Preferences
  <2>2. prefs[t][name] = latest[name]
    BY <1>1 DEF LayoutInv, Layout!TabsAgree
  <2> QED
    BY <1>2, <2>1, <2>2
<1> QED
  BY <1>1, <1>3, <1>4, <1>5 DEF LayoutInv

\* Hearing a broadcast: in the order of its sender.
LEMMA HearSound ==
    ASSUME LayoutInv, NEW from \in Tabs, NEW tab \in Tabs, Layout!Hear(from, tab)
    PROVE  LayoutInv'
<1> DEFINE q == mail[<<from, tab>>]
           u == Head(q)
<1>0. q \in Seq(Update) /\ q # <<>> /\ mail \in [Tabs \X Tabs -> Seq(Update)] /\ prefs \in [Tabs -> Prefs]
  BY DEF LayoutInv, LayoutTypes, Layout!Hear
<1>1. /\ Tail(q) \in Seq(Update) /\ u \in Update /\ 1 \in DOMAIN q /\ u = q[1]
      /\ \A n \in DOMAIN Tail(q) : \E k \in DOMAIN q : Tail(q)[n] = q[k]
      /\ \A k \in DOMAIN q : k = 1 \/ \E n \in DOMAIN Tail(q) : Tail(q)[n] = q[k]
  BY <1>0, Heard
<1>2. /\ mail' \in [Tabs \X Tabs -> Seq(Update)] /\ mail'[<<from, tab>>] = Tail(q)
      /\ \A ch \in Tabs \X Tabs : ch # <<from, tab>> => mail'[ch] = mail[ch]
  BY <1>0, <1>1 DEF Layout!Hear
<1> HIDE DEF u
<1>3. ASSUME NEW ch \in Tabs \X Tabs, NEW n \in DOMAIN mail'[ch]
      PROVE  \E k \in DOMAIN mail[ch] : mail'[ch][n] = mail[ch][k]
  <2>1. CASE ch = <<from, tab>>
    <3>1. mail'[ch] = Tail(q) /\ mail[ch] = q
      BY <1>2, <2>1
    <3> HIDE DEF q
    <3> QED
      BY <1>1, <3>1
  <2>2. CASE ch # <<from, tab>>
    BY <1>2, <2>2
  <2> QED
    BY <2>1, <2>2
<1>4. /\ Layout!With(prefs[tab], u) \in Prefs /\ HeightFits(Layout!With(prefs[tab], u))
      /\ \A name \in Layout!Preferences : Layout!With(prefs[tab], u)[name] = IF name \in DOMAIN u THEN u[name] ELSE prefs[tab][name]
  <2>1. HeightFits(u) /\ HeightFits(prefs[tab])
    BY <1>1 DEF LayoutInv, HeightsFit
  <2>2. u \in Update /\ prefs[tab] \in Prefs
    BY <1>0, <1>1
  <2> QED
    BY <2>1, <2>2, WithTyped
<1>5. /\ prefs' \in [Tabs -> Prefs] /\ prefs'[tab] = Layout!With(prefs[tab], u)
      /\ \A t \in Tabs : t # tab => prefs'[t] = prefs[t]
  BY <1>0, <1>4 DEF Layout!Hear, u
<1>6. UNCHANGED <<entry, latest, unsure>>
  BY DEF Layout!Hear
<1>7. LayoutTypes'
  BY <1>2, <1>5, <1>6 DEF LayoutInv, LayoutTypes
<1>8. HeightsFit'
  <2>1. HeightFits(latest') /\ \A t \in Tabs : HeightFits(prefs'[t])
    BY <1>4, <1>5, <1>6 DEF LayoutInv, HeightsFit
  <2>2. \A ch \in Tabs \X Tabs : \A n \in DOMAIN mail'[ch] : HeightFits(mail'[ch][n])
    BY <1>3 DEF LayoutInv, HeightsFit
  <2> QED
    BY <2>1, <2>2 DEF HeightsFit
<1>9. MailIsLatest'
  BY <1>3, <1>6 DEF LayoutInv, MailIsLatest
<1>10. Layout!LatestIsStored'
  BY <1>6 DEF LayoutInv, Layout!LatestIsStored
<1>11. Layout!TabsAgree'
  <2> SUFFICES ASSUME NEW t \in Tabs, NEW name \in Layout!Shared \ unsure, name \notin Layout!Undelivered(t)'
               PROVE  prefs'[t][name] = latest[name]
    BY <1>6 DEF Layout!TabsAgree
  <2>0. name \in Layout!Preferences
    BY DEF Layout!Preferences
  <2>1. CASE t = tab /\ name \in DOMAIN u
    BY <1>1, <1>4, <1>5, <2>0, <2>1 DEF LayoutInv, MailIsLatest
  <2>2. CASE t # tab \/ name \notin DOMAIN u
    <3>1. ASSUME name \in Layout!Undelivered(t) PROVE FALSE
      <4>0. PICK f \in Tabs : \E k \in DOMAIN mail[<<f, t>>] : name \in DOMAIN mail[<<f, t>>][k]
        BY <3>1 DEF Layout!Undelivered
      <4>1. PICK k \in DOMAIN mail[<<f, t>>] : name \in DOMAIN mail[<<f, t>>][k]
        BY <4>0
      <4>2. \E n \in DOMAIN mail'[<<f, t>>] : mail'[<<f, t>>][n] = mail[<<f, t>>][k]
        <5>1. CASE f = from /\ t = tab
          <6>1. mail'[<<f, t>>] = Tail(q) /\ mail[<<f, t>>] = q
            BY <1>2, <5>1
          <6>2. k # 1
            BY <1>1, <2>2, <4>1, <5>1, <6>1
          <6> HIDE DEF q
          <6> QED
            BY <1>1, <4>1, <6>1, <6>2
        <5>2. CASE ~(f = from /\ t = tab)
          BY <1>2, <4>1, <5>2
        <5> QED
          BY <5>1, <5>2
      <4> QED
        BY <2>0, <4>1, <4>2 DEF Layout!Undelivered
    <3>2. prefs[t][name] = latest[name]
      BY <3>1 DEF LayoutInv, Layout!TabsAgree
    <3> QED
      BY <1>4, <1>5, <2>0, <2>2, <3>2
  <2> QED
    BY <2>1, <2>2
<1> QED
  BY <1>7, <1>8, <1>9, <1>10, <1>11 DEF LayoutInv

LEMMA ReloadSound ==
    ASSUME LayoutInv, NEW tab \in Tabs, Layout!Reload(tab)
    PROVE  LayoutInv'
<1>1. /\ Layout!readPreferences \in Prefs /\ HeightFits(Layout!readPreferences)
      /\ \A name \in Layout!Preferences \ unsure : Layout!readPreferences[name] = latest[name]
  BY ReadTyped
<1>2. /\ prefs' \in [Tabs -> Prefs] /\ prefs'[tab] = Layout!readPreferences
      /\ \A t \in Tabs : t # tab => prefs'[t] = prefs[t]
  BY <1>1 DEF LayoutInv, LayoutTypes, Layout!Reload
<1>3. ASSUME NEW ch \in Tabs \X Tabs
      PROVE  mail'[ch] = (IF ch[2] = tab THEN <<>> ELSE mail[ch]) /\ mail'[ch] \in Seq(Update)
  BY DEF LayoutInv, LayoutTypes, Layout!Reload
<1>4. \A ch \in Tabs \X Tabs : \A n \in DOMAIN mail'[ch] : mail'[ch] = mail[ch]
  <2>1. DOMAIN <<>> = {}
    OBVIOUS
  <2> QED
    BY <1>3, <2>1
<1>5. mail' \in [Tabs \X Tabs -> Seq(Update)]
  BY <1>3 DEF Layout!Reload
<1>6. UNCHANGED <<entry, latest, unsure>>
  BY DEF Layout!Reload
<1>7. LayoutTypes'
  BY <1>2, <1>5, <1>6 DEF LayoutInv, LayoutTypes
<1>8. HeightsFit'
  <2>1. HeightFits(latest') /\ \A t \in Tabs : HeightFits(prefs'[t])
    BY <1>1, <1>2, <1>6 DEF LayoutInv, HeightsFit
  <2>2. \A ch \in Tabs \X Tabs : \A n \in DOMAIN mail'[ch] : HeightFits(mail'[ch][n])
    BY <1>4 DEF LayoutInv, HeightsFit
  <2> QED
    BY <2>1, <2>2 DEF HeightsFit
<1>9. MailIsLatest'
  BY <1>4, <1>6 DEF LayoutInv, MailIsLatest
<1>10. Layout!LatestIsStored'
  BY <1>6 DEF LayoutInv, Layout!LatestIsStored
<1>11. Layout!TabsAgree'
  <2> SUFFICES ASSUME NEW t \in Tabs, NEW name \in Layout!Shared \ unsure, name \notin Layout!Undelivered(t)'
               PROVE  prefs'[t][name] = latest[name]
    BY <1>6 DEF Layout!TabsAgree
  <2>0. name \in Layout!Preferences
    BY DEF Layout!Preferences
  <2>1. CASE t = tab
    BY <1>1, <1>2, <2>0, <2>1
  <2>2. CASE t # tab
    <3>1. \A f \in Tabs : mail'[<<f, t>>] = mail[<<f, t>>]
      BY <1>3, <2>2
    <3>2. name \notin Layout!Undelivered(t)
      BY <3>1 DEF Layout!Undelivered
    <3> QED
      BY <1>2, <2>2, <3>2 DEF LayoutInv, Layout!TabsAgree
  <2> QED
    BY <2>1, <2>2
<1> QED
  BY <1>7, <1>8, <1>9, <1>10, <1>11 DEF LayoutInv

LEMMA DamageSound ==
    ASSUME LayoutInv, NEW name \in Layout!Preferences, Layout!Damage(name)
    PROVE  LayoutInv'
<1>1. PICK value \in {Damaged} \cup (IF name = "bottomHeight" THEN Heights ELSE {}) : entry' = [entry EXCEPT ![name] = value]
  BY DEF Layout!Damage
<1>2. unsure' = unsure \cup {name} /\ UNCHANGED <<prefs, mail, latest>>
  BY DEF Layout!Damage
<1>3. value \in Int \cup {Damaged}
  BY PreferencesAssumption
<1>4. entry' \in [Layout!Preferences -> PrefValue \cup {Damaged}]
  BY <1>1, <1>3 DEF LayoutInv, LayoutTypes, PrefValue
<1>5. entry'["bottomHeight"] \in Int \cup {Damaged}
  BY <1>1, <1>3, HeightIsAName DEF LayoutInv, LayoutTypes
<1>6. LayoutTypes' /\ HeightsFit'
  BY <1>2, <1>4, <1>5 DEF LayoutInv, LayoutTypes, HeightsFit
<1>7. MailIsLatest'
  BY <1>2 DEF LayoutInv, MailIsLatest
<1>8. Layout!LatestIsStored'
  BY <1>1, <1>2 DEF LayoutInv, LayoutTypes, Layout!LatestIsStored
<1>9. Layout!TabsAgree'
  BY <1>2 DEF LayoutInv, Layout!TabsAgree, Layout!Undelivered
<1> QED
  BY <1>6, <1>7, <1>8, <1>9 DEF LayoutInv

\* The updates that the page's buttons make.
LEMMA UpdatesTyped ==
    /\ \A name \in Local, value \in Options : [n \in {name} |-> value] \in Update
    /\ \A panel \in Options :
            [n \in {"bottomPanel", "bottomCollapsed"} |-> IF n = "bottomPanel" THEN panel ELSE FALSE] \in Update
    /\ \A collapsed \in BOOLEAN : [n \in {"bottomCollapsed"} |-> collapsed] \in Update
    /\ \A height \in Heights : [n \in {"bottomHeight"} |-> Layout!Clamp(height)] \in Update
<1>1. \A S \in SUBSET Layout!Preferences : \A u \in [S -> PrefValue] : u \in Update
  BY DEF Update
<1>2. /\ {"bottomPanel", "bottomCollapsed"} \subseteq Layout!Preferences /\ {"bottomCollapsed"} \subseteq Layout!Preferences
      /\ {"bottomHeight"} \subseteq Layout!Preferences /\ Local \subseteq Layout!Preferences
  BY DEF Layout!Preferences, Layout!Shared
<1>3. Options \subseteq PrefValue /\ BOOLEAN \subseteq PrefValue /\ Int \subseteq PrefValue
  BY DEF PrefValue
<1>4. ASSUME NEW name \in Local, NEW value \in Options PROVE [n \in {name} |-> value] \in Update
  <2>1. [n \in {name} |-> value] \in [{name} -> PrefValue]
    BY <1>3
  <2> QED
    BY <1>1, <1>2, <2>1
<1>5. ASSUME NEW panel \in Options
      PROVE  [n \in {"bottomPanel", "bottomCollapsed"} |-> IF n = "bottomPanel" THEN panel ELSE FALSE] \in Update
  <2>1. FALSE \in PrefValue /\ panel \in PrefValue
    BY <1>3
  <2>2. [n \in {"bottomPanel", "bottomCollapsed"} |-> IF n = "bottomPanel" THEN panel ELSE FALSE]
            \in [{"bottomPanel", "bottomCollapsed"} -> PrefValue]
    BY <2>1, Zenon
  <2> QED
    BY <1>1, <1>2, <2>2
<1>6. ASSUME NEW collapsed \in BOOLEAN PROVE [n \in {"bottomCollapsed"} |-> collapsed] \in Update
  <2>1. [n \in {"bottomCollapsed"} |-> collapsed] \in [{"bottomCollapsed"} -> PrefValue]
    BY <1>3, Zenon
  <2> QED
    BY <1>1, <1>2, <2>1
<1>7. ASSUME NEW height \in Heights PROVE [n \in {"bottomHeight"} |-> Layout!Clamp(height)] \in Update
  <2>1. Layout!Clamp(height) \in PrefValue
    BY <1>3, ClampIsInRange, PreferencesAssumption
  <2>2. [n \in {"bottomHeight"} |-> Layout!Clamp(height)] \in [{"bottomHeight"} -> PrefValue]
    BY <2>1
  <2> QED
    BY <1>1, <1>2, <2>2
<1> QED
  BY <1>4, <1>5, <1>6, <1>7

\* The first page shows what is stored, and nothing is on its way.
LEMMA PrefsStart == ASSUME Layout!PrefsInit PROVE LayoutInv
<1>1. ASSUME NEW name \in Layout!Preferences PROVE Layout!Fallback(name) \in PrefValue
  <2>1. (CHOOSE c \in Options : TRUE) \in Options
    <3>1. \E c \in Options : TRUE
      BY PreferencesAssumption
    <3> QED
      BY <3>1, Zenon
  <2>2. Layout!Clamp(224) \in Int
    <3>1. 224 \in Int
      OBVIOUS
    <3> QED
      BY <3>1, ClampIsInRange, Zenon
  <2> QED
    BY <2>1, <2>2, Zenon DEF Layout!Fallback, PrefValue
<1>2. Layout!Fallback("bottomHeight") \in Layout!Range
  BY ClampIsInRange DEF Layout!Fallback
<1>3. ASSUME NEW name \in Layout!Preferences PROVE entry[name] = Layout!Fallback(name) /\ entry[name] # Damaged
  BY <1>1, PreferencesAssumption DEF Layout!PrefsInit, PrefValue
<1>4. ASSUME NEW name \in Layout!Preferences PROVE Layout!readPreferences[name] = Layout!Fallback(name)
  BY <1>2, <1>3, ClampIsInRange DEF Layout!readPreferences, Layout!Readable
<1>5. Layout!readPreferences \in Prefs /\ HeightFits(Layout!readPreferences)
  <2>1. Layout!readPreferences \in Prefs
    BY <1>1, <1>4 DEF Layout!readPreferences, Prefs
  <2>2. HeightFits(Layout!readPreferences)
    BY <1>2, <1>4, HeightIsAName DEF HeightFits
  <2> QED
    BY <2>1, <2>2
<1>6. \A ch \in Tabs \X Tabs : mail[ch] = <<>> /\ mail[ch] \in Seq(Update) /\ DOMAIN mail[ch] = {}
  BY DEF Layout!PrefsInit
<1>7. LayoutTypes
  <2>1. entry["bottomHeight"] \in Int
    BY <1>2, <1>3, HeightIsAName, ClampIsInRange
  <2>2. entry \in [Layout!Preferences -> PrefValue \cup {Damaged}]
    BY <1>1 DEF Layout!PrefsInit
  <2>3. prefs \in [Tabs -> Prefs] /\ latest \in Prefs
    BY <1>5 DEF Layout!PrefsInit
  <2>4. mail \in [Tabs \X Tabs -> Seq(Update)] /\ unsure \subseteq Layout!Preferences
    BY <1>6 DEF Layout!PrefsInit
  <2> QED
    BY <2>1, <2>2, <2>3, <2>4 DEF LayoutTypes
<1>8. HeightsFit
  BY <1>5, <1>6 DEF HeightsFit, Layout!PrefsInit
<1>9. MailIsLatest
  BY <1>6 DEF MailIsLatest
<1>10. latest = Layout!readPreferences /\ \A t \in Tabs : prefs[t] = latest
  BY DEF Layout!PrefsInit
<1>11. Layout!LatestIsStored /\ Layout!TabsAgree
  BY <1>3, <1>4, <1>10 DEF Layout!LatestIsStored, Layout!TabsAgree
<1> QED
  BY <1>7, <1>8, <1>9, <1>11 DEF LayoutInv

LEMMA PrefsStep == ASSUME LayoutInv, Layout!PrefsNext PROVE LayoutInv'
<1>1. ASSUME NEW tab \in Tabs, NEW name \in Local, NEW value \in Options, Layout!SetLocal(tab, name, value)
      PROVE  LayoutInv'
  <2> DEFINE u == [n \in {name} |-> value]
  <2>1. u \in Update /\ DOMAIN u \subseteq Local
    BY UpdatesTyped
  <2>2. Layout!Set(tab, u) /\ UNCHANGED mail
    BY <1>1 DEF Layout!SetLocal
  <2> HIDE DEF u
  <2> QED
    BY <2>1, <2>2, LocalSetSound
<1>2. ASSUME NEW tab \in Tabs, NEW panel \in Options, Layout!SetBottomPanel(tab, panel) PROVE LayoutInv'
  <2> DEFINE u == [n \in {"bottomPanel", "bottomCollapsed"} |-> IF n = "bottomPanel" THEN panel ELSE FALSE]
  <2>1. u \in Update /\ HeightFits(u)
    BY UpdatesTyped DEF HeightFits
  <2>2. Layout!Set(tab, u) /\ Layout!Post(tab, u)
    BY <1>2 DEF Layout!SetBottomPanel
  <2> HIDE DEF u
  <2> QED
    BY <2>1, <2>2, SharedSetSound
<1>3. ASSUME NEW tab \in Tabs, NEW collapsed \in BOOLEAN, Layout!SetBottomCollapsed(tab, collapsed) PROVE LayoutInv'
  <2> DEFINE u == [n \in {"bottomCollapsed"} |-> collapsed]
  <2>1. u \in Update /\ HeightFits(u)
    BY UpdatesTyped DEF HeightFits
  <2>2. Layout!Set(tab, u) /\ Layout!Post(tab, u)
    BY <1>3 DEF Layout!SetBottomCollapsed
  <2> HIDE DEF u
  <2> QED
    BY <2>1, <2>2, SharedSetSound
<1>4. ASSUME NEW tab \in Tabs, NEW height \in Heights, Layout!SetBottomHeight(tab, height) PROVE LayoutInv'
  <2> DEFINE u == [n \in {"bottomHeight"} |-> Layout!Clamp(height)]
  <2>1. u \in Update /\ HeightFits(u)
    BY UpdatesTyped, ClampIsInRange, PreferencesAssumption DEF HeightFits
  <2>2. Layout!Set(tab, u) /\ Layout!Post(tab, u)
    BY <1>4 DEF Layout!SetBottomHeight
  <2> HIDE DEF u
  <2> QED
    BY <2>1, <2>2, SharedSetSound
<1>5. CASE Layout!Change
  BY <1>1, <1>2, <1>3, <1>4, <1>5, ReloadSound, DamageSound DEF Layout!Change
<1> QED
  BY <1>5, HearSound DEF Layout!PrefsNext

\* In every reachable state of the page, whatever is stored or damaged outside and
\* however late the broadcasts are heard: heights are within their limits, the
\* entry has the last value of every preference, and tabs that have heard the
\* news agree (useWorkspaceStore.ts, persist and applyRemotePreferences).
THEOREM PreferencesSound == MCSpec => [](part = "layout" => LayoutInv)
<1>1. MCInit => (part = "layout" => LayoutInv)
  BY PrefsStart DEF MCInit
<1>2. (part = "layout" => LayoutInv) /\ [MCNext]_mcVars => (part = "layout" => LayoutInv)'
  <2>1. CASE MCNext
    BY <2>1, PrefsStep DEF MCNext
  <2>2. CASE UNCHANGED mcVars
    <3>1. UNCHANGED part /\ UNCHANGED <<prefs, entry, mail, latest, unsure>>
      BY <2>2 DEF mcVars, layoutOnly
    <3>2. LayoutInv => LayoutTypes' /\ HeightsFit' /\ MailIsLatest'
      BY <3>1 DEF LayoutInv, LayoutTypes, HeightsFit, MailIsLatest
    <3>3. LayoutInv => Layout!LatestIsStored' /\ Layout!TabsAgree'
      BY <3>1 DEF LayoutInv, Layout!LatestIsStored, Layout!TabsAgree, Layout!Undelivered
    <3> QED
      BY <3>1, <3>2, <3>3 DEF LayoutInv
  <2> QED
    BY <2>1, <2>2
<1> QED
  BY <1>1, <1>2, PTL DEF MCSpec

LEMMA LayoutIsAgreed ==
    ASSUME LayoutInv
    PROVE  Layout!HeightsInRange /\ Layout!TabsAgree /\ Layout!LatestIsStored
BY HeightIsAName DEF LayoutInv, LayoutTypes, HeightsFit, HeightFits, Prefs, Layout!HeightsInRange

(***************************************************************************)
(* Behavior Preview (PreviewCommands).  The session is the newest          *)
(* request's, and the page shows no snapshot of a project, plan or room    *)
(* that was replaced, for any number of commands, edits and rooms, and of  *)
(* answers under way.                                                      *)
(***************************************************************************)
Snap == [req : Nat, world : Nat, lease : Nat]
Statuses == {"idle", "playing", "partial", "paused", "ready", "blocked"}
Actors == {"ui", "tool"}
Res == [ok : BOOLEAN, status : Statuses, snap : Snap \cup {None}, keep : BOOLEAN, drop : BOOLEAN]
Ans == [by : Actors, gen : Nat, res : Res]
Prep == [op : Nat, req : Nat, world : Nat, lease : Nat, by : Actors, gen : Nat]
Ui == [status : Statuses, shown : Snap \cup {None}, gen : Nat, by : Actors]

PreviewTypes ==
    /\ world \in Nat /\ previewLease \in Nat /\ hydrated \in BOOLEAN
    /\ session \in Snap \cup {None} /\ status \in Statuses /\ opGen \in Nat /\ issued \in Nat
    /\ prepares \in SUBSET Prep /\ answers \in Seq(Ans) /\ ui \in Ui

\* The later of two prepares is that of the later request.
Ops ==
    /\ \A p \in prepares : p.op <= opGen /\ p.req <= issued /\ p.gen <= ui.gen
    /\ \A p, q \in prepares : p.op <= q.op => p = q \/ (p.op < q.op /\ p.req < q.req)

\* While there is a session no prepare may install another.
SessionOwn ==
    session # None =>
        /\ hydrated /\ session.world = world /\ session.lease = previewLease
        /\ \A p \in prepares : p.req < session.req /\ p.op # opGen

Waiting == {answers[n] : n \in DOMAIN answers}
Mine(a) == a.by = "ui" /\ a.gen = ui.gen

\* An answer that the page will show is of what is current.
AnswersCurrent ==
    \A a \in Waiting :
        /\ a.by = "ui" => a.gen <= ui.gen
        /\ Mine(a) /\ a.res.snap # None => hydrated /\ a.res.snap.world = world /\ a.res.snap.lease = previewLease
        /\ a.res.keep => a.res.snap = None /\ a.res.status # "paused"

ToolAnswers == \E a \in Waiting : a.by = "tool" /\ ~a.res.drop
ToolPrepares == \E p \in prepares : p.by = "tool" /\ p.op = opGen /\ p.world = world /\ p.lease = previewLease
Renewed == \E a \in Waiting : Mine(a) /\ ~a.res.keep
Matches(snap) == session # None /\ session.req = snap.req
Own == ui.shown # None /\ ui.by = "ui"

\* Unless a tool is about to take the page over, what it shows, or is about to
\* show, is of the session.
AnswersMatch ==
    ToolAnswers \/ ToolPrepares \/ \A a \in Waiting : Mine(a) /\ a.res.snap # None => Matches(a.res.snap)
ShownMatches == ToolAnswers \/ ToolPrepares \/ Renewed \/ (Own => Matches(ui.shown))

\* A page that says paused resumes the session; it does not open another over the snapshot it shows.
PausedIsPaused ==
    /\ Own /\ ui.status = "paused" => ToolAnswers \/ Renewed \/ status = "paused"
    /\ \A a \in Waiting : Mine(a) /\ a.res.snap # None /\ a.res.status = "paused" => ToolAnswers \/ status = "paused"
ClosedShowsNone == ~hydrated => ~Own

ShownSound == AnswersCurrent /\ Preview!UiShowsCurrent /\ AnswersMatch /\ ShownMatches /\ PausedIsPaused /\ ClosedShowsNone
PreviewInv == PreviewTypes /\ Ops /\ SessionOwn /\ ShownSound

-----------------------------------------------------------------------------
LEMMA Answered ==
    ASSUME answers \in Seq(Ans), NEW a \in Ans, answers' = Append(answers, a)
    PROVE  answers' \in Seq(Ans) /\ Waiting' = Waiting \cup {a}
BY Appended DEF Waiting

LEMMA Resumed ==
    ASSUME answers \in Seq(Ans), answers # <<>>, answers' = Tail(answers)
    PROVE  /\ answers' \in Seq(Ans) /\ Head(answers) \in Ans /\ Head(answers) \in Waiting
           /\ Waiting' \subseteq Waiting /\ Waiting \subseteq Waiting' \cup {Head(answers)}
BY Heard DEF Waiting

LEMMA NoneWaiting == ASSUME answers = <<>> PROVE Waiting = {}
BY DEF Waiting

LEMMA Waiters == ASSUME answers \in Seq(Ans) PROVE Waiting \subseteq Ans
BY DEF Waiting

\* The answers of the commands.
LEMMA Results ==
    /\ \A st \in Statuses, snap \in Snap \cup {None} :
            /\ Preview!Ok(st, snap) \in Res /\ Preview!Ok(st, snap).status = st /\ Preview!Ok(st, snap).snap = snap
            /\ ~Preview!Ok(st, snap).keep /\ ~Preview!Ok(st, snap).drop
    /\ Preview!Closed \in Res /\ Preview!Closed.snap = None /\ ~Preview!Closed.keep /\ ~Preview!Closed.drop
    /\ Preview!Refused \in Res /\ Preview!Refused.snap = None /\ Preview!Refused.status = "blocked" /\ Preview!Refused.keep /\ ~Preview!Refused.drop
    /\ Preview!Superseded \in Res /\ Preview!Superseded.snap = None /\ ~Preview!Superseded.keep /\ Preview!Superseded.drop
BY DEF Preview!Ok, Preview!Closed, Preview!Refused, Preview!Superseded, Res, Statuses

\* A tool's answer under way takes the page over.
LEMMA ToolAnswered ==
    ASSUME PreviewInv, NEW a \in Ans, a.by = "tool", ~a.res.drop, answers' = Append(answers, a),
           UNCHANGED <<world, previewLease, hydrated, ui>>, a.res.keep => a.res.snap = None /\ a.res.status # "paused"
    PROVE  ShownSound' /\ answers' \in Seq(Ans)
<1>1. answers' \in Seq(Ans) /\ Waiting' = Waiting \cup {a} /\ Waiting \subseteq Ans
  BY Answered, Waiters DEF PreviewInv, PreviewTypes
<1>2. ToolAnswers'
  BY <1>1 DEF ToolAnswers
<1>3. AnswersMatch' /\ ShownMatches' /\ PausedIsPaused'
  BY <1>2 DEF AnswersMatch, ShownMatches, PausedIsPaused
<1>4. AnswersCurrent'
  BY <1>1 DEF PreviewInv, ShownSound, AnswersCurrent, Mine
<1>5. Preview!UiShowsCurrent' /\ ClosedShowsNone'
  BY DEF PreviewInv, ShownSound, Preview!UiShowsCurrent, ClosedShowsNone, Own
<1> QED
  BY <1>1, <1>3, <1>4, <1>5 DEF ShownSound

LEMMA ToolResultSound ==
    ASSUME PreviewInv, NEW r \in Res, ~r.drop, r.keep => r.snap = None /\ r.status # "paused", NEW gen \in Nat, Preview!Answer("tool", gen, r),
           UNCHANGED <<world, previewLease, hydrated, ui>>
    PROVE  ShownSound' /\ answers' \in Seq(Ans)
<1> DEFINE a == [by |-> "tool", gen |-> gen, res |-> r]
<1>1. a \in Ans /\ a.by = "tool" /\ a.res = r /\ answers' = Append(answers, a)
  BY DEF Preview!Answer, Ans, Actors
<1> HIDE DEF a
<1> QED
  BY <1>1, ToolAnswered

\* A control of the page that leaves the session open, or that there was none.
LEMMA Controlled ==
    ASSUME PreviewInv, answers = <<>>, NEW a \in Ans, answers' = Append(answers, a), a.by = "ui", a.gen = ui'.gen,
           ui' \in Ui, ui'.by = ui.by, ui'.shown = ui.shown \/ ui'.shown = None,
           UNCHANGED <<world, previewLease, hydrated, session, prepares>>, status' \in Statuses,
           a.res.snap = None \/ (session # None /\ a.res.snap = Preview!Snapshot(session)),
           a.res.snap # None /\ a.res.status = "paused" => status' = "paused",
           a.res.keep => a.res.snap = None /\ a.res.status # "paused" /\ opGen' = opGen /\ status' = status /\ (ui'.status = ui.status \/ ~hydrated)
    PROVE  ShownSound' /\ answers' \in Seq(Ans)
<1>1. answers' \in Seq(Ans) /\ Waiting' = {a} /\ Waiting = {}
  BY Answered, NoneWaiting DEF PreviewInv, PreviewTypes
<1>2. a.res.snap # None => hydrated /\ session # None /\ a.res.snap.req = session.req /\ a.res.snap.world = world
                           /\ a.res.snap.lease = previewLease
  BY DEF Preview!Snapshot, PreviewInv, SessionOwn
<1>3. AnswersCurrent'
  BY <1>1, <1>2 DEF AnswersCurrent, Mine, Ui
<1>4. AnswersMatch'
  BY <1>1, <1>2 DEF AnswersMatch, Matches
<1>5. Own' => Own /\ ui'.shown = ui.shown
  BY DEF Own
<1>6. Preview!UiShowsCurrent' /\ ClosedShowsNone'
  BY <1>5 DEF PreviewInv, ShownSound, Preview!UiShowsCurrent, ClosedShowsNone, Own
<1>7. ~a.res.keep => Renewed'
  BY <1>1 DEF Renewed, Mine
<1>8. ShownMatches'
  <2>1. CASE a.res.keep
    <3>1. ToolPrepares \/ (Own => Matches(ui.shown))
      BY <1>1 DEF PreviewInv, ShownSound, ShownMatches, ToolAnswers, Renewed
    <3>2. ToolPrepares => ToolPrepares'
      BY <2>1 DEF ToolPrepares
    <3>3. (Own => Matches(ui.shown)) => (Own => Matches(ui.shown))'
      BY <1>5 DEF Matches
    <3> QED
      BY <3>1, <3>2, <3>3 DEF ShownMatches
  <2> QED
    BY <1>7, <2>1 DEF ShownMatches
<1>9. PausedIsPaused'
  <2>1. ASSUME Own', ui'.status = "paused", a.res.keep PROVE status' = "paused"
    BY <1>1, <1>5, <2>1 DEF PreviewInv, ShownSound, PausedIsPaused, ClosedShowsNone, ToolAnswers, Renewed
  <2> QED
    BY <1>1, <1>7, <2>1 DEF PausedIsPaused
<1> QED
  BY <1>1, <1>3, <1>4, <1>6, <1>8, <1>9 DEF ShownSound

\* Requests and operations are only ever counted on.
LEMMA OpsKept ==
    ASSUME PreviewInv, prepares' \subseteq prepares, opGen' \in Nat, opGen <= opGen', issued' \in Nat, issued <= issued',
           ui' \in Ui, ui.gen <= ui'.gen, UNCHANGED <<world, previewLease, hydrated>>,
           session' = session \/ session' = None
    PROVE  Ops' /\ SessionOwn'
<1>1. prepares \subseteq Prep /\ opGen \in Nat /\ issued \in Nat /\ ui \in Ui
  BY DEF PreviewInv, PreviewTypes
<1>2. Ops'
  BY <1>1 DEF PreviewInv, Ops, Prep, Ui
<1>3. ASSUME session' # None PROVE /\ hydrated' /\ session'.world = world' /\ session'.lease = previewLease'
                                    /\ \A p \in prepares' : p.req < session'.req /\ p.op # opGen'
  BY <1>1, <1>3 DEF PreviewInv, Ops, SessionOwn, Prep
<1> QED
  BY <1>2, <1>3 DEF SessionOwn

LEMMA SnapshotTyped ==
    ASSUME NEW s \in Snap
    PROVE  Preview!Snapshot(s) \in Snap /\ Preview!Snapshot(s) # None /\ Preview!Snapshot(s).req = s.req
BY PreviewAssumption DEF Preview!Snapshot, Snap

LEMMA ControlSound ==
    ASSUME PreviewInv, answers = <<>>, NEW r \in Res, Preview!Answer("ui", ui'.gen, r),
           ui' \in Ui, ui.gen <= ui'.gen, ui'.by = ui.by, ui'.shown = ui.shown \/ ui'.shown = None,
           UNCHANGED <<world, previewLease, hydrated, session, prepares>>,
           issued' = issued + 1, opGen' \in {opGen, opGen + 1}, status' \in Statuses,
           r.snap = None \/ (session # None /\ r.snap = Preview!Snapshot(session)),
           r.snap # None /\ r.status = "paused" => status' = "paused",
           r.keep => r.snap = None /\ r.status # "paused" /\ opGen' = opGen /\ status' = status /\ (ui'.status = ui.status \/ ~hydrated)
    PROVE  PreviewInv'
<1> DEFINE a == [by |-> "ui", gen |-> ui'.gen, res |-> r]
<1>1. a \in Ans /\ a.by = "ui" /\ a.gen = ui'.gen /\ a.res = r /\ answers' = Append(answers, a)
  BY DEF Preview!Answer, Ans, Actors, Ui
<1> HIDE DEF a
<1>2. ShownSound' /\ answers' \in Seq(Ans)
  BY <1>1, Controlled
<1>3. issued' \in Nat /\ issued <= issued' /\ opGen' \in Nat /\ opGen <= opGen'
  BY DEF PreviewInv, PreviewTypes
<1>4. Ops' /\ SessionOwn'
  BY <1>3, OpsKept
<1> QED
  BY <1>2, <1>3, <1>4 DEF PreviewInv, PreviewTypes

\* A request that begins overtakes those before it, and closes the session.
LEMMA BeginSound ==
    ASSUME PreviewInv, NEW by \in Actors, NEW gen \in Nat, Preview!BeginPreview(by, gen), issued' = issued + 1,
           ui' \in Ui, ui.gen <= ui'.gen, gen <= ui'.gen
    PROVE  /\ opGen' \in Nat /\ issued' \in Nat /\ status' \in Statuses /\ session' = None
           /\ prepares' \in SUBSET Prep /\ Ops' /\ SessionOwn'
<1>1. /\ prepares \subseteq Prep /\ opGen \in Nat /\ issued \in Nat /\ status \in Statuses /\ ui \in Ui
      /\ world \in Nat /\ previewLease \in Nat
  BY DEF PreviewInv, PreviewTypes
<1>2. opGen' = opGen + 1 /\ session' = None /\ (status' = status \/ status' = "blocked")
  BY DEF Preview!BeginPreview
<1> DEFINE n == [op |-> opGen + 1, req |-> issued', world |-> world, lease |-> previewLease, by |-> by, gen |-> gen]
<1>3. n \in Prep /\ n.op = opGen + 1 /\ n.req = issued + 1 /\ n.gen = gen
  BY <1>1 DEF Prep
<1>4. prepares' = prepares \/ prepares' = prepares \cup {n}
  BY DEF Preview!BeginPreview
<1> HIDE DEF n
<1>5. \A p \in prepares : p.op <= opGen /\ p.req <= issued /\ p.op \in Nat /\ p.req \in Nat /\ p.gen \in Nat /\ p.gen <= ui.gen
  BY <1>1 DEF PreviewInv, Ops, Prep
<1>6. \A p \in prepares' : p.op <= opGen' /\ p.req <= issued' /\ p.gen <= ui'.gen
  BY <1>1, <1>2, <1>3, <1>4, <1>5 DEF Ui
<1>7. \A p, q \in prepares' : p.op <= q.op => p = q \/ (p.op < q.op /\ p.req < q.req)
  BY <1>1, <1>2, <1>3, <1>4, <1>5 DEF PreviewInv, Ops
<1>8. SessionOwn'
  BY <1>2 DEF SessionOwn
<1> QED
  BY <1>1, <1>2, <1>3, <1>4, <1>6, <1>7, <1>8 DEF Ops, Statuses

LEMMA StartSound == ASSUME PreviewInv, Preview!StartPreview PROVE PreviewInv'
<1>0. /\ answers = <<>> /\ issued' = issued + 1 /\ ui \in Ui /\ issued \in Nat
      /\ ui' = [ui EXCEPT !.status = "playing", !.gen = Preview!UiGen, !.shown = IF ui.status = "paused" THEN @ ELSE None]
      /\ session \in Snap \cup {None} /\ opGen \in Nat /\ status \in Statuses /\ prepares \subseteq Prep
  BY DEF Preview!StartPreview, Preview!Event, Preview!Issue, PreviewInv, PreviewTypes
<1>1. /\ ui' \in Ui /\ ui'.gen = ui.gen + 1 /\ ui'.by = ui.by /\ ui'.status = "playing" /\ Preview!UiGen = ui.gen + 1
      /\ ui'.shown = IF ui.status = "paused" THEN ui.shown ELSE None
  <2> DEFINE shown == IF ui.status = "paused" THEN ui.shown ELSE None
  <2>1. ui' = [ui EXCEPT !.status = "playing", !.gen = ui.gen + 1, !.shown = shown]
    BY <1>0 DEF Preview!UiGen
  <2>2. shown \in Snap \cup {None} /\ ui.gen + 1 \in Nat /\ "playing" \in Statuses
    BY <1>0 DEF Ui, Statuses
  <2> HIDE DEF shown
  <2>3. ui' \in Ui /\ ui'.gen = ui.gen + 1 /\ ui'.by = ui.by /\ ui'.status = "playing" /\ ui'.shown = shown
    BY <1>0, <2>1, <2>2 DEF Ui
  <2> QED
    BY <2>3 DEF shown, Preview!UiGen
<1>2. ASSUME NEW ended \in BOOLEAN, status = "paused", Preview!Resume(Preview!UiGen, ended) PROVE PreviewInv'
  <2>1. UNCHANGED <<world, previewLease, hydrated, session, opGen, prepares>> /\ ui.gen <= ui'.gen
    BY <1>1, <1>2 DEF Preview!Resume, Preview!room, PreviewInv, PreviewTypes, Ui
  <2>2. CASE hydrated /\ session # None
    <3>1. /\ status' = (IF ended THEN "ready" ELSE "playing")
          /\ Preview!Answer("ui", ui'.gen, Preview!Ok(status', Preview!Snapshot(session)))
      BY <1>1, <1>2, <2>2 DEF Preview!Resume
    <3>2. status' \in Statuses /\ status' # "paused" /\ Preview!Snapshot(session) \in Snap
      BY <1>0, <2>2, <3>1, SnapshotTyped DEF Statuses
    <3> DEFINE r == Preview!Ok(status', Preview!Snapshot(session))
    <3>3. r \in Res /\ r.status = status' /\ r.snap = Preview!Snapshot(session) /\ ~r.keep
      BY <3>2, Results
    <3> HIDE DEF r
    <3> QED
      BY <1>0, <1>1, <2>1, <2>2, <3>1, <3>2, <3>3, ControlSound DEF r
  <2>3. CASE ~(hydrated /\ session # None)
    <3>1. status' = status /\ Preview!Answer("ui", ui'.gen, Preview!Closed)
      BY <1>1, <1>2, <2>3 DEF Preview!Resume
    <3> QED
      BY <1>0, <1>1, <2>1, <3>1, Results, ControlSound
  <2> QED
    BY <2>2, <2>3
<1>3. ASSUME status # "paused", Preview!BeginPreview("ui", Preview!UiGen) PROVE PreviewInv'
  <2>1. /\ opGen' \in Nat /\ issued' \in Nat /\ status' \in Statuses /\ session' = None
        /\ prepares' \in SUBSET Prep /\ Ops' /\ SessionOwn'
    BY <1>0, <1>1, <1>3, BeginSound DEF Actors, Ui
  <2>2. UNCHANGED <<world, previewLease, hydrated>>
    BY <1>3 DEF Preview!BeginPreview, Preview!room
  <2>3. ~Own'
    <3>1. Own /\ ui.status = "paused" => status = "paused"
      BY <1>0, NoneWaiting DEF PreviewInv, ShownSound, PausedIsPaused, ToolAnswers, Renewed
    <3> QED
      BY <1>1, <1>3, <3>1 DEF Own
  <2>4. answers' \in Seq(Ans) /\ \A a \in Waiting' : a.by = "ui" /\ a.gen = ui'.gen /\ a.res.snap = None /\ ~a.res.keep
    <3> DEFINE a == [by |-> "ui", gen |-> Preview!UiGen, res |-> Preview!Closed]
    <3>1. answers' = answers \/ answers' = Append(answers, a)
      BY <1>3 DEF Preview!BeginPreview, Preview!Answer
    <3>2. a \in Ans /\ a.by = "ui" /\ a.gen = ui'.gen /\ a.res.snap = None /\ ~a.res.keep
      BY <1>1, Results DEF Ans, Actors, Ui
    <3> HIDE DEF a
    <3>3. CASE answers' = answers
      BY <1>0, <3>3, NoneWaiting DEF Waiting, PreviewInv, PreviewTypes
    <3>4. CASE answers' = Append(answers, a)
      BY <1>0, <3>2, <3>4, NoneWaiting, Answered DEF PreviewInv, PreviewTypes
    <3> QED
      BY <3>1, <3>3, <3>4
  <2>5. AnswersCurrent' /\ AnswersMatch' /\ PausedIsPaused'
    BY <1>1, <2>3, <2>4 DEF AnswersCurrent, AnswersMatch, PausedIsPaused, Ui
  <2>6. Preview!UiShowsCurrent' /\ ShownMatches' /\ ClosedShowsNone'
    BY <2>3 DEF Preview!UiShowsCurrent, ShownMatches, ClosedShowsNone, Own
  <2> QED
    BY <1>1, <2>1, <2>2, <2>4, <2>5, <2>6 DEF PreviewInv, PreviewTypes, ShownSound
<1> QED
  BY <1>2, <1>3 DEF Preview!StartPreview

LEMMA PauseSound == ASSUME PreviewInv, Preview!PausePreview PROVE PreviewInv'
<1>0. /\ answers = <<>> /\ issued' = issued + 1 /\ ui \in Ui /\ ui' = [ui EXCEPT !.status = "paused", !.gen = ui.gen + 1]
      /\ Preview!UiGen = ui.gen + 1 /\ Preview!Pause(ui.gen + 1) /\ session \in Snap \cup {None} /\ opGen \in Nat /\ status \in Statuses
  BY DEF Preview!PausePreview, Preview!Event, Preview!Issue, Preview!UiGen, PreviewInv, PreviewTypes
<1>1. /\ ui' \in Ui /\ ui'.gen = ui.gen + 1 /\ ui'.by = ui.by /\ ui'.shown = ui.shown /\ ui.gen <= ui'.gen
      /\ UNCHANGED <<world, previewLease, hydrated, session, prepares>>
  <2>1. ui.gen + 1 \in Nat /\ ui.gen <= ui.gen + 1 /\ "paused" \in Statuses
    BY <1>0 DEF Ui, Statuses
  <2>2. ui' \in Ui /\ ui'.gen = ui.gen + 1 /\ ui'.by = ui.by /\ ui'.shown = ui.shown
    BY <1>0, <2>1 DEF Ui
  <2>3. UNCHANGED <<world, previewLease, hydrated, session, prepares>>
    BY <1>0 DEF Preview!Pause, Preview!room
  <2> QED
    BY <2>1, <2>2, <2>3
<1>2. CASE ~hydrated
  <2>1. UNCHANGED <<status, opGen>> /\ Preview!Answer("ui", ui'.gen, Preview!Refused)
    BY <1>0, <1>1, <1>2 DEF Preview!Pause
  <2> QED
    BY <1>0, <1>1, <1>2, <2>1, Results, ControlSound
<1>3. CASE hydrated /\ session = None
  <2>1. status' = status /\ opGen' = opGen + 1 /\ Preview!Answer("ui", ui'.gen, Preview!Ok("idle", None))
    BY <1>0, <1>1, <1>3 DEF Preview!Pause
  <2> DEFINE r == Preview!Ok("idle", None)
  <2>2. r \in Res /\ r.snap = None /\ ~r.keep
    BY Results DEF Statuses
  <2> HIDE DEF r
  <2> QED
    BY <1>0, <1>1, <2>1, <2>2, ControlSound DEF r
<1>4. CASE hydrated /\ session # None
  <2>1. status' = "paused" /\ opGen' = opGen + 1 /\ Preview!Answer("ui", ui'.gen, Preview!Ok("paused", Preview!Snapshot(session)))
    BY <1>0, <1>1, <1>4 DEF Preview!Pause
  <2> DEFINE r == Preview!Ok("paused", Preview!Snapshot(session))
  <2>2. status' \in Statuses /\ r \in Res /\ r.snap = Preview!Snapshot(session) /\ ~r.keep
    BY <1>0, <1>4, <2>1, SnapshotTyped, Results DEF Statuses
  <2> HIDE DEF r
  <2> QED
    BY <1>0, <1>1, <1>4, <2>1, <2>2, ControlSound DEF r
<1> QED
  BY <1>2, <1>3, <1>4, <1>0 DEF PreviewInv, PreviewTypes

LEMMA ResetSound == ASSUME PreviewInv, Preview!ResetPreview PROVE PreviewInv'
<1>0. /\ answers = <<>> /\ issued' = issued + 1 /\ ui \in Ui
      /\ ui' = [ui EXCEPT !.status = "idle", !.gen = ui.gen + 1, !.shown = None]
      /\ Preview!UiGen = ui.gen + 1 /\ Preview!Reset(ui.gen + 1) /\ session \in Snap \cup {None} /\ opGen \in Nat
  BY DEF Preview!ResetPreview, Preview!Event, Preview!Issue, Preview!UiGen, PreviewInv, PreviewTypes
<1>1. /\ ui' \in Ui /\ ui'.gen = ui.gen + 1 /\ ui'.by = ui.by /\ ui'.shown = None /\ ui.gen <= ui'.gen
      /\ UNCHANGED <<world, previewLease, hydrated, session, prepares>>
      /\ opGen' = opGen + 1 /\ status' = IF session = None THEN "idle" ELSE "ready"
  <2>1. ui.gen + 1 \in Nat /\ ui.gen <= ui.gen + 1 /\ "idle" \in Statuses
    BY <1>0 DEF Ui, Statuses
  <2>2. ui' \in Ui /\ ui'.gen = ui.gen + 1 /\ ui'.by = ui.by /\ ui'.shown = None
    BY <1>0, <2>1 DEF Ui
  <2>3. /\ UNCHANGED <<world, previewLease, hydrated, session, prepares>>
        /\ opGen' = opGen + 1 /\ status' = IF session = None THEN "idle" ELSE "ready"
    BY <1>0 DEF Preview!Reset, Preview!room
  <2> QED
    BY <2>1, <2>2, <2>3
<1> DEFINE r == Preview!Ok(status', IF session = None THEN None ELSE Preview!Snapshot(session))
<1>2. status' \in Statuses /\ status' # "paused"
  BY <1>1 DEF Statuses
<1>3. CASE session = None
  <2>1. r \in Res /\ r.snap = None /\ ~r.keep
    BY <1>2, <1>3, Results
  <2>2. Preview!Answer("ui", ui'.gen, r)
    BY <1>0, <1>1 DEF Preview!Reset
  <2> HIDE DEF r
  <2> QED
    BY <1>0, <1>1, <1>2, <2>1, <2>2, ControlSound
<1>4. CASE session # None
  <2>1. r \in Res /\ r.snap = Preview!Snapshot(session) /\ ~r.keep /\ r.status = status'
    BY <1>0, <1>2, <1>4, SnapshotTyped, Results
  <2>2. Preview!Answer("ui", ui'.gen, r)
    BY <1>0, <1>1 DEF Preview!Reset
  <2> HIDE DEF r
  <2> QED
    BY <1>0, <1>1, <1>2, <1>4, <2>1, <2>2, ControlSound
<1> QED
  BY <1>3, <1>4

LEMMA SeekSound == ASSUME PreviewInv, Preview!SeekPreview PROVE PreviewInv'
<1>0. /\ answers = <<>> /\ issued' = issued + 1 /\ ui \in Ui /\ ui' = [ui EXCEPT !.gen = ui.gen + 1]
      /\ Preview!UiGen = ui.gen + 1 /\ session \in Snap \cup {None} /\ opGen \in Nat /\ status \in Statuses
  BY DEF Preview!SeekPreview, Preview!Event, Preview!Issue, Preview!UiGen, PreviewInv, PreviewTypes
<1>1. PICK ended \in BOOLEAN : Preview!Seek(ui.gen + 1, ended)
  BY DEF Preview!SeekPreview, Preview!UiGen
<1>2. /\ ui' \in Ui /\ ui'.gen = ui.gen + 1 /\ ui'.by = ui.by /\ ui'.shown = ui.shown /\ ui'.status = ui.status /\ ui.gen <= ui'.gen
      /\ UNCHANGED <<world, previewLease, hydrated, session, prepares, opGen>>
  BY <1>0, <1>1 DEF Ui, Preview!Seek, Preview!room
<1>3. CASE hydrated /\ session # None
  <2>1. /\ status' = IF Preview!Running(status) /\ ended THEN "ready" ELSE status
        /\ Preview!Answer("ui", ui'.gen, Preview!Ok(status', Preview!Snapshot(session)))
    BY <1>1, <1>2, <1>3 DEF Preview!Seek
  <2> DEFINE r == Preview!Ok(status', Preview!Snapshot(session))
  <2>2. status' \in Statuses
    BY <1>0, <2>1 DEF Statuses
  <2>3. r \in Res /\ r.snap = Preview!Snapshot(session) /\ r.status = status' /\ ~r.keep
    BY <1>0, <1>3, <2>2, SnapshotTyped, Results
  <2> HIDE DEF r
  <2> QED
    BY <1>0, <1>2, <1>3, <2>1, <2>2, <2>3, ControlSound DEF r
<1>4. CASE ~(hydrated /\ session # None)
  <2>1. status' = status /\ Preview!Answer("ui", ui'.gen, Preview!Refused)
    BY <1>1, <1>2, <1>4 DEF Preview!Seek
  <2> QED
    BY <1>0, <1>2, <2>1, Results, ControlSound
<1> QED
  BY <1>3, <1>4

LEMMA DispatchSound == ASSUME PreviewInv, Preview!DispatchEvent PROVE PreviewInv'
<1>1. /\ answers = <<>> /\ issued' = issued + 1 /\ ui \in Ui /\ ui' = ui /\ Preview!Invoke("ui", ui'.gen)
      /\ session \in Snap \cup {None} /\ status \in Statuses /\ ui.gen <= ui'.gen
      /\ UNCHANGED <<world, previewLease, hydrated, session, prepares, opGen>>
  BY DEF Preview!DispatchEvent, Preview!Event, Preview!Issue, Preview!Invoke, Preview!room, PreviewInv, PreviewTypes, Ui
<1>2. CASE hydrated /\ session # None
  <2>1. /\ status' = IF status = "idle" THEN "ready" ELSE status
        /\ Preview!Answer("ui", ui'.gen, Preview!Ok(status', Preview!Snapshot(session)))
    BY <1>1, <1>2 DEF Preview!Invoke
  <2> DEFINE r == Preview!Ok(status', Preview!Snapshot(session))
  <2>2. status' \in Statuses
    BY <1>1, <2>1 DEF Statuses
  <2>3. r \in Res /\ r.snap = Preview!Snapshot(session) /\ r.status = status' /\ ~r.keep
    BY <1>1, <1>2, <2>2, SnapshotTyped, Results
  <2> HIDE DEF r
  <2> QED
    BY <1>1, <1>2, <2>1, <2>2, <2>3, ControlSound DEF r
<1>3. CASE ~(hydrated /\ session # None)
  <2>1. status' = status /\ Preview!Answer("ui", ui'.gen, Preview!Refused)
    BY <1>1, <1>3 DEF Preview!Invoke
  <2> QED
    BY <1>1, <2>1, Results, ControlSound
<1> QED
  BY <1>2, <1>3

-----------------------------------------------------------------------------
LEMMA InvokeToolSound == ASSUME PreviewInv, Preview!InvokeTool PROVE PreviewInv'
<1>1. /\ issued' = issued + 1 /\ ui' = ui /\ ui \in Ui /\ Preview!Invoke("tool", 0)
      /\ session \in Snap \cup {None} /\ status \in Statuses /\ issued \in Nat /\ opGen \in Nat
      /\ UNCHANGED <<world, previewLease, hydrated, session, prepares, opGen>>
  BY DEF Preview!InvokeTool, Preview!Issue, Preview!Invoke, Preview!room, PreviewInv, PreviewTypes
<1>2. issued' \in Nat /\ issued <= issued' /\ opGen <= opGen' /\ ui.gen <= ui'.gen
  BY <1>1 DEF Ui
<1>3. Ops' /\ SessionOwn'
  BY <1>1, <1>2, OpsKept
<1>4. status' \in Statuses /\ \E r \in Res : Preview!Answer("tool", 0, r) /\ ~r.drop /\ (r.keep => r.snap = None /\ r.status # "paused")
  <2>1. CASE hydrated /\ session # None
    <3>1. /\ status' = IF status = "idle" THEN "ready" ELSE status
          /\ Preview!Answer("tool", 0, Preview!Ok(status', Preview!Snapshot(session)))
      BY <1>1, <2>1 DEF Preview!Invoke
    <3>2. status' \in Statuses
      BY <1>1, <3>1 DEF Statuses
    <3> DEFINE r == Preview!Ok(status', Preview!Snapshot(session))
    <3>3. r \in Res /\ ~r.drop /\ ~r.keep
      BY <1>1, <2>1, <3>2, SnapshotTyped, Results
    <3> HIDE DEF r
    <3> QED
      BY <3>1, <3>2, <3>3 DEF r
  <2>2. CASE ~(hydrated /\ session # None)
    <3>1. status' = status /\ Preview!Answer("tool", 0, Preview!Refused)
      BY <1>1, <2>2 DEF Preview!Invoke
    <3> QED
      BY <1>1, <3>1, Results
  <2> QED
    BY <2>1, <2>2
<1>5. PICK r \in Res : Preview!Answer("tool", 0, r) /\ ~r.drop /\ (r.keep => r.snap = None /\ r.status # "paused")
  BY <1>4
<1>6. ShownSound' /\ answers' \in Seq(Ans)
  BY <1>1, <1>5, ToolResultSound
<1> QED
  BY <1>1, <1>2, <1>3, <1>4, <1>6 DEF PreviewInv, PreviewTypes

LEMMA PreviewToolSound == ASSUME PreviewInv, Preview!PreviewTool PROVE PreviewInv'
<1>1. /\ issued' = issued + 1 /\ ui' = ui /\ ui \in Ui /\ Preview!BeginPreview("tool", 0) /\ 0 <= ui'.gen /\ ui.gen <= ui'.gen
      /\ UNCHANGED <<world, previewLease, hydrated>> /\ world \in Nat /\ previewLease \in Nat /\ answers \in Seq(Ans)
  BY DEF Preview!PreviewTool, Preview!Issue, Preview!BeginPreview, Preview!room, PreviewInv, PreviewTypes, Ui
<1>2. /\ opGen' \in Nat /\ issued' \in Nat /\ status' \in Statuses /\ session' = None
      /\ prepares' \in SUBSET Prep /\ Ops' /\ SessionOwn'
  BY <1>1, BeginSound DEF Actors
<1>3. CASE Preview!Answer("tool", 0, Preview!Closed)
  <2>1. ShownSound' /\ answers' \in Seq(Ans)
    BY <1>1, <1>3, Results, ToolResultSound
  <2> QED
    BY <1>1, <1>2, <2>1 DEF PreviewInv, PreviewTypes
<1>4. CASE answers' = answers /\ status' = status
           /\ prepares' = prepares \cup {[op |-> opGen + 1, req |-> issued', world |-> world,
                                          lease |-> previewLease, by |-> "tool", gen |-> 0]}
  <2>1. ToolPrepares'
    <3> DEFINE n == [op |-> opGen + 1, req |-> issued', world |-> world, lease |-> previewLease, by |-> "tool", gen |-> 0]
    <3>1. n \in prepares' /\ opGen' = opGen + 1
      BY <1>1, <1>4 DEF Preview!BeginPreview
    <3>2. n.by = "tool" /\ n.op = opGen' /\ n.world = world' /\ n.lease = previewLease'
      BY <1>1, <3>1
    <3> HIDE DEF n
    <3> QED
      BY <3>1, <3>2 DEF ToolPrepares
  <2>2. AnswersMatch' /\ ShownMatches'
    BY <2>1 DEF AnswersMatch, ShownMatches
  <2>3. Waiting' = Waiting /\ UNCHANGED <<ui, status, world, previewLease, hydrated>>
    BY <1>1, <1>4 DEF Waiting
  <2>4. AnswersCurrent' /\ PausedIsPaused' /\ ClosedShowsNone' /\ Preview!UiShowsCurrent'
    BY <2>3 DEF PreviewInv, ShownSound, AnswersCurrent, PausedIsPaused, ClosedShowsNone, Preview!UiShowsCurrent, Own, Mine,
                ToolAnswers, Renewed
  <2> QED
    BY <1>1, <1>2, <1>4, <2>2, <2>4 DEF PreviewInv, PreviewTypes, ShownSound
<1> QED
  BY <1>1, <1>3, <1>4 DEF Preview!BeginPreview

-----------------------------------------------------------------------------
\* A prepare that may install, or block, is the newest; there is no session, and
\* the page, if it shows a snapshot of its own, waits for an answer.
LEMMA Newest ==
    ASSUME PreviewInv, NEW p \in prepares, Preview!MayInstall(p)
    PROVE  /\ session = None /\ p.op = opGen /\ p \in Prep
           /\ \A q \in prepares \ {p} : q.op # opGen /\ q.req < p.req
           /\ p.by = "ui" => ~ToolPrepares
BY DEF PreviewInv, PreviewTypes, Ops, SessionOwn, Preview!MayInstall, ToolPrepares, Prep, Actors

\* An answer to the page of a prepare that was the newest: the session is its own, or still none.
LEMMA UiSettled ==
    ASSUME PreviewInv, NEW p \in prepares, p.by = "ui", ~ToolPrepares, session = None, NEW r \in Res, ~r.keep,
           Preview!Answer("ui", p.gen, r),
           UNCHANGED <<world, previewLease, hydrated, ui>>, status' = "paused" => status = "paused",
           r.snap # None => /\ session' # None /\ session'.req = r.snap.req /\ r.snap.world = world
                            /\ r.snap.lease = previewLease /\ r.status # "paused" /\ hydrated
    PROVE  ShownSound' /\ answers' \in Seq(Ans)
<1> DEFINE a == [by |-> "ui", gen |-> p.gen, res |-> r]
<1>0. p \in Prep /\ p.gen <= ui.gen /\ ui \in Ui
  BY DEF PreviewInv, PreviewTypes, Ops
<1>1. a \in Ans /\ a.by = "ui" /\ a.gen = p.gen /\ a.res = r /\ answers' = Append(answers, a)
  BY <1>0 DEF Preview!Answer, Ans, Actors, Prep
<1> HIDE DEF a
<1>2. answers' \in Seq(Ans) /\ Waiting' = Waiting \cup {a} /\ Waiting \subseteq Ans
  BY <1>1, Answered, Waiters DEF PreviewInv, PreviewTypes
<1>3. AnswersCurrent'
  BY <1>0, <1>1, <1>2 DEF PreviewInv, ShownSound, AnswersCurrent, Mine
<1>4. ToolAnswers => ToolAnswers'
  BY <1>2 DEF ToolAnswers
<1>5. ~ToolAnswers => \A b \in Waiting : ~(Mine(b) /\ b.res.snap # None)
  BY DEF PreviewInv, ShownSound, AnswersMatch, Matches
<1>6. AnswersMatch'
  BY <1>1, <1>2, <1>4, <1>5 DEF AnswersMatch, Matches, Mine
<1>7. Renewed => Renewed'
  BY <1>2 DEF Renewed, Mine
<1>8. ~ToolAnswers /\ ~Renewed => ~Own
  BY DEF PreviewInv, ShownSound, ShownMatches, Matches
<1>9. ShownMatches'
  BY <1>4, <1>7, <1>8 DEF ShownMatches, Own
<1>10. PausedIsPaused'
  BY <1>1, <1>2, <1>4, <1>5, <1>7, <1>8 DEF PausedIsPaused, Own, Mine
<1>11. Preview!UiShowsCurrent' /\ ClosedShowsNone'
  BY DEF PreviewInv, ShownSound, Preview!UiShowsCurrent, ClosedShowsNone, Own
<1> QED
  BY <1>2, <1>3, <1>6, <1>9, <1>10, <1>11 DEF ShownSound

LEMMA InstallSound ==
    ASSUME PreviewInv, NEW p \in prepares, NEW st \in {"playing", "partial"}, Preview!InstallPreview(p, st)
    PROVE  PreviewInv'
<1> DEFINE s == [req |-> p.req, world |-> p.world, lease |-> p.lease]
           r == Preview!Ok(st, Preview!Snapshot(session'))
<1>0. /\ hydrated /\ p.lease = previewLease /\ Preview!MayInstall(p) /\ p.world = world
      /\ session' = s /\ status' = st /\ prepares' = prepares \ {p} /\ Preview!Answer(p.by, p.gen, r)
      /\ UNCHANGED <<world, previewLease, hydrated, opGen, ui, issued>>
  BY DEF Preview!InstallPreview, Preview!MayInstall, Preview!room
<1>1. /\ session = None /\ p.op = opGen /\ p \in Prep
      /\ \A q \in prepares \ {p} : q.op # opGen /\ q.req < p.req
      /\ p.by = "ui" => ~ToolPrepares
  BY <1>0, Newest
<1>2. s \in Snap /\ s # None /\ s.req = p.req /\ s.world = world /\ s.lease = previewLease
  BY <1>0, <1>1, PreviewAssumption DEF Snap, Prep
<1>3. /\ Preview!Snapshot(session') \in Snap /\ Preview!Snapshot(session') # None
      /\ Preview!Snapshot(session').req = session'.req
      /\ Preview!Snapshot(session').world = session'.world /\ Preview!Snapshot(session').lease = session'.lease
  BY <1>0, <1>2, SnapshotTyped DEF Preview!Snapshot
<1>4. r \in Res /\ r.snap = Preview!Snapshot(session') /\ ~r.keep /\ ~r.drop /\ r.status = st /\ st \in Statuses
  BY <1>3, Results DEF Statuses
<1> HIDE DEF s, r
<1>5. Ops' /\ SessionOwn'
  BY <1>0, <1>1, <1>2 DEF PreviewInv, Ops, SessionOwn
<1>6. ShownSound' /\ answers' \in Seq(Ans)
  <2>1. CASE p.by = "tool"
    BY <1>0, <1>1, <1>4, <2>1, ToolResultSound DEF Prep
  <2>2. CASE p.by = "ui"
    BY <1>0, <1>1, <1>2, <1>3, <1>4, <2>2, UiSettled
  <2> QED
    BY <1>1, <2>1, <2>2 DEF Prep, Actors
<1> QED
  BY <1>0, <1>2, <1>4, <1>5, <1>6 DEF PreviewInv, PreviewTypes

LEMMA BlockSound == ASSUME PreviewInv, NEW p \in prepares, Preview!BlockPreview(p) PROVE PreviewInv'
<1>0. /\ Preview!MayInstall(p) /\ status' = "blocked" /\ prepares' = prepares \ {p} /\ Preview!Answer(p.by, p.gen, Preview!Closed)
      /\ UNCHANGED <<world, previewLease, hydrated, session, opGen, ui, issued>>
  BY DEF Preview!BlockPreview, Preview!room
<1>1. session = None /\ p \in Prep /\ (p.by = "ui" => ~ToolPrepares)
  BY <1>0, Newest
<1>2. Ops' /\ SessionOwn'
  BY <1>0 DEF PreviewInv, Ops, SessionOwn
<1>3. ShownSound' /\ answers' \in Seq(Ans)
  <2>1. CASE p.by = "tool"
    BY <1>0, <1>1, <2>1, Results, ToolResultSound DEF Prep
  <2>2. CASE p.by = "ui"
    BY <1>0, <1>1, <2>2, Results, UiSettled
  <2> QED
    BY <1>1, <2>1, <2>2 DEF Prep, Actors
<1> QED
  BY <1>0, <1>2, <1>3 DEF PreviewInv, PreviewTypes, Statuses

LEMMA DropSound == ASSUME PreviewInv, NEW p \in prepares, Preview!DropPreview(p) PROVE PreviewInv'
<1> DEFINE r == IF hydrated /\ p.lease = previewLease THEN Preview!Superseded ELSE Preview!Closed
           a == [by |-> p.by, gen |-> p.gen, res |-> r]
<1>0. /\ ~(hydrated /\ p.lease = previewLease /\ Preview!MayInstall(p))
      /\ prepares' = prepares \ {p} /\ Preview!Answer(p.by, p.gen, r) /\ answers' = Append(answers, a)
      /\ UNCHANGED <<world, previewLease, hydrated, session, status, opGen, ui, issued>>
  BY DEF Preview!DropPreview, Preview!room, Preview!Answer
<1>1. p \in Prep /\ p.gen <= ui.gen /\ ui \in Ui
  BY DEF PreviewInv, PreviewTypes, Ops
<1>2. r \in Res /\ r.snap = None /\ ~r.keep /\ (r.drop => hydrated /\ p.lease = previewLease)
  BY Results
<1> HIDE DEF r
<1>3. a \in Ans /\ a.by = p.by /\ a.gen = p.gen /\ a.res = r
  BY <1>1, <1>2 DEF Ans, Prep
<1> HIDE DEF a
<1>4. Ops' /\ SessionOwn'
  BY <1>0 DEF PreviewInv, Ops, SessionOwn
<1>5. CASE p.by = "tool" /\ ~r.drop
  <2>1. ShownSound' /\ answers' \in Seq(Ans)
    BY <1>0, <1>1, <1>2, <1>5, ToolResultSound DEF Prep
  <2> QED
    BY <1>0, <1>4, <2>1 DEF PreviewInv, PreviewTypes
<1>6. CASE ~(p.by = "tool" /\ ~r.drop)
  <2>1. answers' \in Seq(Ans) /\ Waiting' = Waiting \cup {a} /\ Waiting \subseteq Ans
    BY <1>0, <1>3, Answered, Waiters DEF PreviewInv, PreviewTypes
  <2>2. ToolPrepares => ToolPrepares'
    BY <1>0, <1>2, <1>6 DEF ToolPrepares, Preview!MayInstall
  <2>3. (ToolAnswers => ToolAnswers') /\ (Renewed => Renewed')
    BY <1>0, <2>1 DEF ToolAnswers, Renewed, Mine
  <2>4. AnswersCurrent'
    BY <1>0, <1>1, <1>2, <1>3, <2>1 DEF PreviewInv, ShownSound, AnswersCurrent, Mine
  <2>5. AnswersMatch'
    BY <1>0, <1>2, <1>3, <2>1, <2>2, <2>3 DEF PreviewInv, ShownSound, AnswersMatch, Mine, Matches
  <2>6. ShownMatches'
    BY <1>0, <2>2, <2>3 DEF PreviewInv, ShownSound, ShownMatches, Own, Matches
  <2>7. PausedIsPaused'
    BY <1>0, <1>2, <1>3, <2>1, <2>3 DEF PreviewInv, ShownSound, PausedIsPaused, Own, Mine
  <2>8. Preview!UiShowsCurrent' /\ ClosedShowsNone'
    BY <1>0 DEF PreviewInv, ShownSound, Preview!UiShowsCurrent, ClosedShowsNone, Own
  <2> QED
    BY <1>0, <1>4, <2>1, <2>4, <2>5, <2>6, <2>7, <2>8 DEF PreviewInv, PreviewTypes, ShownSound
<1> QED
  BY <1>5, <1>6

\* The caller of the first answer resumes: what the page shows next was current
\* when it was answered, and nothing has replaced it since.
LEMMA CallerSound == ASSUME PreviewInv, Preview!CallerResumes PROVE PreviewInv'
<1> DEFINE a == Head(answers)
<1>0. /\ answers # <<>> /\ answers' = Tail(answers) /\ answers \in Seq(Ans) /\ ui \in Ui
      /\ UNCHANGED <<world, previewLease, hydrated, session, status, opGen, prepares, issued>>
  BY DEF Preview!CallerResumes, Preview!room, PreviewInv, PreviewTypes
<1>1. /\ answers' \in Seq(Ans) /\ a \in Ans /\ a \in Waiting /\ Waiting' \subseteq Waiting
      /\ Waiting \subseteq Waiting' \cup {a} /\ Waiting \subseteq Ans
  BY <1>0, Resumed, Waiters
<1>2. (a.by = "ui" => Preview!UiResumes(a)) /\ (a.by = "tool" => Preview!ToolResumes(a))
  BY <1>0 DEF Preview!CallerResumes
<1> HIDE DEF a
<1>3. ToolPrepares' = ToolPrepares /\ \A snap : Matches(snap)' = Matches(snap)
  BY <1>0 DEF ToolPrepares, Matches
<1>4. ASSUME ui' \in Ui, ui.gen <= ui'.gen PROVE Ops' /\ SessionOwn'
  <2>1. issued \in Nat /\ opGen \in Nat
    BY DEF PreviewInv, PreviewTypes
  <2> QED
    BY <1>0, <1>4, <2>1, OpsKept
<1>5. CASE ui' = ui /\ ~(a.by = "tool" /\ ~a.res.drop) /\ ~Mine(a)
  <2>1. (ToolAnswers => ToolAnswers') /\ (Renewed => Renewed')
    BY <1>1, <1>5 DEF ToolAnswers, Renewed, Mine
  <2>2. AnswersCurrent' /\ AnswersMatch'
    BY <1>0, <1>1, <1>3, <1>5, <2>1 DEF PreviewInv, ShownSound, AnswersCurrent, AnswersMatch, Mine
  <2>3. ShownMatches' /\ PausedIsPaused'
    BY <1>0, <1>1, <1>3, <1>5, <2>1 DEF PreviewInv, ShownSound, ShownMatches, PausedIsPaused, Mine, Own
  <2>4. Preview!UiShowsCurrent' /\ ClosedShowsNone'
    BY <1>0, <1>5 DEF PreviewInv, ShownSound, Preview!UiShowsCurrent, ClosedShowsNone, Own
  <2>5. Ops' /\ SessionOwn'
    BY <1>0, <1>4, <1>5 DEF Ui
  <2> QED
    BY <1>0, <1>1, <1>5, <2>2, <2>3, <2>4, <2>5 DEF PreviewInv, PreviewTypes, ShownSound
<1>6. CASE Mine(a)
  <2> DEFINE sh == IF a.res.keep THEN ui.shown ELSE a.res.snap
             by == IF a.res.keep THEN ui.by ELSE "ui"
  <2>1. ui' = [ui EXCEPT !.status = a.res.status, !.shown = sh, !.by = by]
    BY <1>2, <1>6 DEF Mine, Preview!UiResumes, Preview!Shown
  <2>2. a.res.status \in Statuses /\ sh \in Snap \cup {None} /\ by \in Actors
    BY <1>0, <1>1 DEF Ans, Res, Ui, Actors
  <2>3. (a.res.keep => sh = ui.shown /\ by = ui.by) /\ (~a.res.keep => sh = a.res.snap /\ by = "ui")
    OBVIOUS
  <2> HIDE DEF sh, by
  <2>4. ui' \in Ui /\ ui'.status = a.res.status /\ ui'.shown = sh /\ ui'.by = by /\ ui'.gen = ui.gen
    BY <1>0, <2>1, <2>2 DEF Ui
  <2>5. /\ a.res.snap # None => hydrated /\ a.res.snap.world = world /\ a.res.snap.lease = previewLease
        /\ a.res.keep => a.res.snap = None /\ a.res.status # "paused"
        /\ ToolAnswers \/ ToolPrepares \/ (a.res.snap # None => Matches(a.res.snap))
        /\ a.res.snap # None /\ a.res.status = "paused" => ToolAnswers \/ status = "paused"
    BY <1>1, <1>6 DEF PreviewInv, ShownSound, AnswersCurrent, AnswersMatch, PausedIsPaused
  <2>6. (ToolAnswers => ToolAnswers') /\ (a.res.keep /\ Renewed => Renewed')
    BY <1>1, <1>6, <2>4 DEF ToolAnswers, Renewed, Mine
  <2>7. AnswersCurrent' /\ AnswersMatch'
    BY <1>0, <1>1, <1>3, <2>4, <2>6 DEF PreviewInv, ShownSound, AnswersCurrent, AnswersMatch, Mine
  <2>8. Preview!UiShowsCurrent' /\ ClosedShowsNone'
    BY <1>0, <2>3, <2>4, <2>5 DEF PreviewInv, ShownSound, Preview!UiShowsCurrent, ClosedShowsNone, Own
  <2>9. ShownMatches'
    BY <1>3, <2>3, <2>4, <2>5, <2>6 DEF PreviewInv, ShownSound, ShownMatches, Own
  <2>10. PausedIsPaused'
    BY <1>0, <1>1, <2>3, <2>4, <2>5, <2>6 DEF PreviewInv, ShownSound, PausedIsPaused, Own, Mine
  <2>11. Ops' /\ SessionOwn'
    BY <1>0, <1>4, <2>4 DEF Ui
  <2> QED
    BY <1>0, <1>1, <2>4, <2>7, <2>8, <2>9, <2>10, <2>11 DEF PreviewInv, PreviewTypes, ShownSound
<1>7. CASE a.by = "tool" /\ ~a.res.drop
  <2> DEFINE sh == IF a.res.ok THEN a.res.snap ELSE None
  <2>1. ui' = [gen |-> ui.gen + 1, status |-> a.res.status, by |-> "tool", shown |-> sh]
    BY <1>2, <1>7 DEF Preview!ToolResumes, Preview!UiGen
  <2>2. a.res.status \in Statuses /\ sh \in Snap \cup {None} /\ ui.gen \in Nat /\ ui.gen + 1 \in Nat
    BY <1>0, <1>1 DEF Ans, Res, Ui
  <2> HIDE DEF sh
  <2>3. ui' \in Ui /\ ui'.by = "tool" /\ ui'.gen = ui.gen + 1 /\ ui.gen <= ui'.gen
    BY <2>1, <2>2 DEF Ui, Actors
  <2>4. ~Own' /\ \A b \in Waiting' : (b.by = "ui" => b.gen <= ui'.gen) /\ ~(b.by = "ui" /\ b.gen = ui'.gen)
    BY <1>1, <2>2, <2>3 DEF Own, PreviewInv, ShownSound, AnswersCurrent, Ans
  <2>5. AnswersCurrent' /\ AnswersMatch'
    BY <1>1, <2>4 DEF PreviewInv, ShownSound, AnswersCurrent, AnswersMatch, Mine
  <2>6. Preview!UiShowsCurrent' /\ ClosedShowsNone' /\ ShownMatches' /\ PausedIsPaused'
    BY <2>4 DEF Preview!UiShowsCurrent, ClosedShowsNone, ShownMatches, PausedIsPaused, Own, Mine
  <2>7. Ops' /\ SessionOwn'
    BY <1>4, <2>3
  <2> QED
    BY <1>0, <1>1, <2>3, <2>5, <2>6, <2>7 DEF PreviewInv, PreviewTypes, ShownSound
<1>8. CASE ~Mine(a) /\ ~(a.by = "tool" /\ ~a.res.drop)
  BY <1>1, <1>2, <1>5, <1>8 DEF Mine, Preview!UiResumes, Preview!ToolResumes, Ans, Actors
<1> QED
  BY <1>6, <1>7, <1>8

\* A change of project, plans or room: nothing that is under way will be shown.
LEMMA Cleared ==
    ASSUME PreviewInv, Preview!ClearPreview, UNCHANGED <<prepares, answers, issued>>,
           world' \in Nat, previewLease' \in Nat, hydrated' \in BOOLEAN
    PROVE  PreviewInv'
<1>1. /\ opGen' = opGen + 1 /\ session' = None /\ status' = "idle" /\ opGen \in Nat /\ prepares \subseteq Prep /\ ui \in Ui
      /\ ui' = [status |-> "idle", shown |-> None, gen |-> ui.gen + 1, by |-> "ui"] /\ answers \in Seq(Ans)
  BY DEF Preview!ClearPreview, Preview!UiGen, PreviewInv, PreviewTypes
<1>2. ui' \in Ui /\ ui'.gen = ui.gen + 1 /\ ui.gen \in Nat /\ ~Own'
  BY <1>1 DEF Ui, Statuses, Actors, Own
<1>3. Ops' /\ SessionOwn'
  BY <1>1, <1>2 DEF PreviewInv, Ops, SessionOwn, Prep
<1>4. Waiting' = Waiting /\ Waiting \subseteq Ans
  BY <1>1, Waiters DEF Waiting
<1>5. \A b \in Waiting' : (b.by = "ui" => b.gen <= ui'.gen) /\ ~(b.by = "ui" /\ b.gen = ui'.gen)
  BY <1>2, <1>4 DEF PreviewInv, ShownSound, AnswersCurrent, Ans
<1>6. AnswersCurrent' /\ AnswersMatch' /\ PausedIsPaused'
  BY <1>2, <1>4, <1>5 DEF PreviewInv, ShownSound, AnswersCurrent, AnswersMatch, PausedIsPaused, Mine
<1>7. Preview!UiShowsCurrent' /\ ClosedShowsNone' /\ ShownMatches'
  BY <1>2 DEF Preview!UiShowsCurrent, ClosedShowsNone, ShownMatches, Own
<1> QED
  BY <1>1, <1>2, <1>3, <1>6, <1>7 DEF PreviewInv, PreviewTypes, ShownSound, Statuses

LEMMA RoomSound ==
    ASSUME PreviewInv, Preview!ProjectChanges \/ Preview!ClearStalePreview \/ Preview!RoomHydrated
    PROVE  PreviewInv'
<1>0. world \in Nat /\ previewLease \in Nat /\ hydrated \in BOOLEAN
  BY DEF PreviewInv, PreviewTypes
<1>1. CASE Preview!ProjectChanges
  BY <1>0, <1>1, Cleared DEF Preview!ProjectChanges
<1>2. CASE Preview!ClearStalePreview
  <2>1. /\ previewLease' = previewLease + 1 /\ hydrated' = FALSE /\ world' = world
        /\ Preview!ClearPreview /\ UNCHANGED <<prepares, answers, issued>>
    BY <1>2 DEF Preview!ClearStalePreview
  <2>2. world' \in Nat /\ previewLease' \in Nat
    BY <1>0, <2>1
  <2>3. hydrated' \in BOOLEAN
    BY <2>1, Zenon
  <2> QED
    BY <2>1, <2>2, <2>3, Cleared
<1>3. CASE Preview!RoomHydrated
  <2>1. hydrated' = TRUE /\ UNCHANGED <<world, previewLease, session, status, opGen, prepares, answers, ui, issued>>
    BY <1>3 DEF Preview!RoomHydrated
  <2>2. Waiting' = Waiting
    BY <2>1 DEF Waiting
  <2>3. AnswersCurrent' /\ AnswersMatch' /\ ShownMatches' /\ PausedIsPaused'
    BY <2>1, <2>2 DEF PreviewInv, ShownSound, AnswersCurrent, AnswersMatch, ShownMatches, PausedIsPaused, Own, Mine, Matches,
                      ToolAnswers, ToolPrepares, Renewed
  <2>4. Ops' /\ SessionOwn' /\ Preview!UiShowsCurrent' /\ ClosedShowsNone'
    BY <2>1 DEF PreviewInv, ShownSound, Ops, SessionOwn, Preview!UiShowsCurrent, ClosedShowsNone
  <2> QED
    BY <2>1, <2>3, <2>4 DEF PreviewInv, PreviewTypes, ShownSound
<1> QED
  BY <1>1, <1>2, <1>3

LEMMA PreviewStarts == ASSUME Preview!PreviewInit PROVE PreviewInv
<1>1. PreviewTypes
  BY DEF Preview!PreviewInit, PreviewTypes, Statuses, Ui, Actors
<1>2. Waiting = {} /\ ~Own /\ session = None /\ prepares = {} /\ hydrated
  BY NoneWaiting DEF Preview!PreviewInit, Own
<1>3. Ops /\ SessionOwn
  BY <1>2 DEF Ops, SessionOwn
<1>4. AnswersCurrent /\ AnswersMatch /\ ShownMatches /\ PausedIsPaused /\ ClosedShowsNone /\ Preview!UiShowsCurrent
  BY <1>2 DEF AnswersCurrent, AnswersMatch, ShownMatches, PausedIsPaused, ClosedShowsNone, Preview!UiShowsCurrent, Own
<1> QED
  BY <1>1, <1>3, <1>4 DEF PreviewInv, ShownSound

LEMMA PreviewSteps == ASSUME PreviewInv, Preview!PreviewNext PROVE PreviewInv'
BY StartSound, PauseSound, ResetSound, SeekSound, DispatchSound, PreviewToolSound, InvokeToolSound, InstallSound, BlockSound,
   DropSound, CallerSound, RoomSound DEF Preview!PreviewNext

\* In every reachable state of the preview part the inductive invariant holds.
THEOREM PreviewSound == MCSpec => [](part = "preview" => PreviewInv)
<1>1. MCInit => (part = "preview" => PreviewInv)
  BY PreviewStarts DEF MCInit
<1>2. (part = "preview" => PreviewInv) /\ [MCNext]_mcVars => (part = "preview" => PreviewInv)'
  <2>1. CASE MCNext
    BY <2>1, PreviewSteps DEF MCNext
  <2>2. CASE UNCHANGED mcVars
    <3>1. UNCHANGED part /\ UNCHANGED <<world, previewLease, hydrated, session, status, opGen, prepares, answers, ui, issued>>
      BY <2>2 DEF mcVars, previewOnly
    <3>2. Waiting' = Waiting /\ (Preview!UiShowsCurrent => Preview!UiShowsCurrent')
      BY <3>1 DEF Waiting, Preview!UiShowsCurrent
    <3>3. PreviewInv => PreviewTypes' /\ Ops' /\ SessionOwn'
      BY <3>1 DEF PreviewInv, PreviewTypes, Ops, SessionOwn
    <3>4. PreviewInv => ShownSound'
      BY <3>1, <3>2 DEF PreviewInv, ShownSound, AnswersCurrent, AnswersMatch, ShownMatches, PausedIsPaused, ClosedShowsNone,
                        Own, Mine, Matches, ToolAnswers, ToolPrepares, Renewed
    <3> QED
      BY <3>1, <3>3, <3>4 DEF PreviewInv
  <2> QED
    BY <2>1, <2>2
<1> QED
  BY <1>1, <1>2, PTL DEF MCSpec

\* The reducer session is the newest request's, and of the current project, plans
\* and room (behaviorCommands.ts, previewBehavior after the await).
THEOREM SessionStaysCurrent == MCSpec => []SessionIsCurrent
<1>1. (part = "preview" => PreviewInv) => SessionIsCurrent
  BY DEF PreviewInv, SessionOwn, SessionIsCurrent, Preview!SessionIsCurrent
<1> QED
  BY <1>1, PreviewSound, PTL

LEMMA ShownIsOwned == ASSUME PreviewInv PROVE Preview!UiShowsCurrent /\ Preview!ShownHasSession
BY NoneWaiting DEF PreviewInv, ShownSound, ShownMatches, ToolAnswers, ToolPrepares, Renewed, Matches, Own, Preview!ShownHasSession

\* The page shows nothing that was replaced, its controls have the session that it
\* shows, and its tabs agree on the layout (useBehaviorPreviewStore.ts, runCommand;
\* useWorkspaceStore.ts, persist and applyRemotePreferences).
THEOREM PageStaysCurrent == MCSpec => []PageShowsCurrent
<1>1. (part = "preview" => PreviewInv) /\ (part = "layout" => LayoutInv) => PageShowsCurrent
  BY ShownIsOwned, LayoutIsAgreed DEF PageShowsCurrent
<1> QED
  BY <1>1, PreviewSound, PreferencesSound, PTL

(***************************************************************************)
(* The project store: its documents, and the links that they claim.        *)
(***************************************************************************)
Entries(ps) == {ps[i] : i \in DOMAIN ps}
IsList(ps) == ps \in Seq(Entries(ps))

Fields == {"id", "name", "comps", "props", "wires", "plans", "docs"}
ShapedDoc(doc) == DOMAIN doc = {"rev", "body", "link"} /\ "status" \in DOMAIN doc.link
Shaped(p) == DOMAIN p = Fields /\ \A b \in DOMAIN p.docs : ShapedDoc(p.docs[b])

\* what LinksTruthful says of each project
TruthfulDoc(p, doc) ==
    doc.link.status = "linked" =>
        /\ doc.link.content = doc.body
        /\ doc.link.graph = Fingerprint(p)
        /\ doc.link.plan \in DOMAIN p.plans
        /\ doc.link.planHash = PlanHash(p, doc.link.plan)
Truthful(p) == \A b \in DOMAIN p.docs : TruthfulDoc(p, p.docs[b])

StoreShape == IsList(projects) /\ Shaped(project) /\ \A p \in Entries(projects) : Shaped(p)
StoreTruth == Truthful(project) /\ \A p \in Entries(projects) : Truthful(p)

LEMMA TruthOfAll == StoreTruth => LinksTruthful
BY DEF StoreTruth, Truthful, TruthfulDoc, LinksTruthful, Entries

(***************************************************************************)
(* Lists.                                                                  *)
(***************************************************************************)
LEMMA ListLength ==
    ASSUME NEW ps, IsList(ps)
    PROVE  Len(ps) \in Nat /\ DOMAIN ps = 1..Len(ps)
BY LenProperties DEF IsList

LEMMA FunctionIsList ==
    ASSUME NEW n \in Nat, NEW f, f = [i \in 1..n |-> f[i]]
    PROVE  IsList(f) /\ DOMAIN f = 1..n
<1>1. f \in [1..n -> Entries(f)]
  BY DEF Entries
<1>2. [1..n -> Entries(f)] \in {[1..k -> Entries(f)] : k \in Nat}
  OBVIOUS
<1>3. f \in Seq(Entries(f))
  BY <1>1, <1>2, SeqDef
<1> QED
  BY <1>3 DEF IsList

LEMMA ListAppend ==
    ASSUME NEW ps, NEW p, IsList(ps)
    PROVE  /\ IsList(Append(ps, p)) /\ p \in Entries(Append(ps, p))
           /\ Entries(Append(ps, p)) = Entries(ps) \cup {p}
           /\ Len(Append(ps, p)) = Len(ps) + 1
<1> DEFINE S == Entries(ps) \cup {p}
<1>1. ps \in Seq(S)
  BY SeqMonotonic DEF IsList
<1>2. p \in S
  OBVIOUS
<1>3. /\ Append(ps, p) \in Seq(S)
      /\ \A n \in DOMAIN Append(ps, p) : Append(ps, p)[n] = p \/ \E k \in DOMAIN ps : Append(ps, p)[n] = ps[k]
      /\ \A n \in DOMAIN ps : n \in DOMAIN Append(ps, p) /\ Append(ps, p)[n] = ps[n]
      /\ \E n \in DOMAIN Append(ps, p) : Append(ps, p)[n] = p
  <2> HIDE DEF S
  <2> QED
    BY <1>1, <1>2, Appended
<1>4. Entries(Append(ps, p)) = S
  BY <1>3 DEF Entries
<1>5. Len(Append(ps, p)) = Len(ps) + 1
  BY <1>1, <1>2, AppendProperties
<1> QED
  BY <1>3, <1>4, <1>5 DEF IsList

LEMMA ListRemoveAt ==
    ASSUME NEW ps, NEW i \in DOMAIN ps, IsList(ps)
    PROVE  /\ IsList(RemoveAt(ps, i)) /\ Len(RemoveAt(ps, i)) = Len(ps) - 1
           /\ Entries(RemoveAt(ps, i)) \subseteq Entries(ps)
           /\ \A j \in DOMAIN ps : j # i => ps[j] \in Entries(RemoveAt(ps, i))
           /\ \A k \in DOMAIN RemoveAt(ps, i) : RemoveAt(ps, i)[k] = ps[IF k < i THEN k ELSE k + 1]
<1> DEFINE S == Entries(ps)
           a == SubSeq(ps, 1, i - 1)
           b == SubSeq(ps, i + 1, Len(ps))
           n == Len(ps)
<1>1. n \in Nat /\ DOMAIN ps = 1..n /\ i \in 1..n
  BY ListLength
<1>2. \A k \in 1..n : ps[k] \in S
  BY <1>1 DEF Entries
<1>3. /\ a \in Seq(S) /\ Len(a) = i - 1 /\ \A k \in 1..(i - 1) : a[k] = ps[k]
  <2>1. 1 \in Int /\ i - 1 \in Int /\ \A k \in 1..(i - 1) : ps[k] \in S
    BY <1>1, <1>2
  <2> HIDE DEF S
  <2>2. /\ a \in Seq(S) /\ Len(a) = IF 1 <= i - 1 THEN (i - 1) - 1 + 1 ELSE 0
        /\ \A k \in 1..((i - 1) - 1 + 1) : a[k] = ps[1 + k - 1]
    BY <2>1, SubSeqProperties
  <2> HIDE DEF a
  <2> QED
    BY <1>1, <2>2
<1>4. /\ b \in Seq(S) /\ Len(b) = n - i /\ \A k \in 1..(n - i) : b[k] = ps[i + k]
  <2>1. i + 1 \in Int /\ n \in Int /\ \A k \in (i + 1)..n : ps[k] \in S
    BY <1>1, <1>2
  <2> HIDE DEF S
  <2>2. /\ b \in Seq(S) /\ Len(b) = IF i + 1 <= n THEN n - (i + 1) + 1 ELSE 0
        /\ \A k \in 1..(n - (i + 1) + 1) : b[k] = ps[(i + 1) + k - 1]
    BY <2>1, SubSeqProperties
  <2> HIDE DEF b
  <2> QED
    BY <1>1, <2>2
<1> DEFINE c == a \o b
<1>5. RemoveAt(ps, i) = c
  BY DEF RemoveAt
<1>6. /\ c \in Seq(S) /\ Len(c) = n - 1
      /\ \A k \in 1..(n - 1) : c[k] = IF k <= i - 1 THEN a[k] ELSE b[k - (i - 1)]
  <2> HIDE DEF S, a, b
  <2>1. /\ c \in Seq(S) /\ Len(c) = Len(a) + Len(b)
        /\ \A k \in 1..(Len(a) + Len(b)) : c[k] = IF k <= Len(a) THEN a[k] ELSE b[k - Len(a)]
    BY <1>3, <1>4, ConcatProperties
  <2> HIDE DEF c, n
  <2> QED
    BY <1>1, <1>3, <1>4, <2>1
<1>7. DOMAIN c = 1..(n - 1)
  BY <1>6, LenProperties
<1>8. Entries(c) \subseteq S
  <2> SUFFICES ASSUME NEW k \in 1..(n - 1) PROVE c[k] \in S
    BY <1>7 DEF Entries
  <2> HIDE DEF S, a, b, c, n
  <2> QED
    BY <1>1, <1>2, <1>3, <1>4, <1>6
<1>9. ASSUME NEW j \in 1..n, j # i PROVE ps[j] \in Entries(c)
  <2>1. CASE j < i
    <3>1. j \in 1..(n - 1) /\ c[j] = ps[j]
      <4> HIDE DEF a, b, c, n
      <4> QED
        BY <1>1, <1>3, <1>6, <1>9, <2>1
    <3> QED
      BY <3>1, <1>7 DEF Entries
  <2>2. CASE j > i
    <3>1. j - 1 \in 1..(n - 1) /\ c[j - 1] = ps[j]
      <4> HIDE DEF a, b, c, n
      <4>1. j - 1 \in 1..(n - 1) /\ ~(j - 1 <= i - 1) /\ (j - 1) - (i - 1) = j - i /\ j - i \in 1..(n - i) /\ i + (j - i) = j
        BY <1>1, <1>9, <2>2
      <4> QED
        BY <4>1, <1>4, <1>6
    <3> QED
      BY <3>1, <1>7 DEF Entries
  <2> QED
    BY <1>1, <1>9, <2>1, <2>2
<1>10. c \in Seq(Entries(c))
  <2>1. c \in [1..(n - 1) -> Entries(c)] /\ n - 1 \in Nat
    BY <1>1, <1>6, <1>7, LenProperties DEF Entries
  <2> QED
    BY <2>1, SeqDef
<1>11. ASSUME NEW k \in 1..(n - 1) PROVE c[k] = ps[IF k < i THEN k ELSE k + 1]
  <2> HIDE DEF a, b, c, n
  <2>1. CASE k < i
    BY <1>1, <1>3, <1>6, <2>1
  <2>2. CASE ~(k < i)
    <3>1. ~(k <= i - 1) /\ k - (i - 1) \in 1..(n - i) /\ i + (k - (i - 1)) = k + 1
      BY <1>1, <2>2
    <3>2. c[k] = b[k - (i - 1)]
      BY <1>6, <3>1
    <3> QED
      BY <1>4, <2>2, <3>1, <3>2
  <2> QED
    BY <2>1, <2>2
<1> QED
  BY <1>1, <1>5, <1>6, <1>7, <1>8, <1>9, <1>10, <1>11 DEF IsList

(***************************************************************************)
(* Documents and their links.                                              *)
(***************************************************************************)
LEMMA Marked ==
    ASSUME NEW doc, NEW why, ShapedDoc(doc)
    PROVE  ShapedDoc(MarkStale(doc, why)) /\ MarkStale(doc, why).link.status # "linked"
BY DEF ShapedDoc, MarkStale

\* a document that is not linked claims nothing
Unclaimed(docs) == \A b \in DOMAIN docs : ShapedDoc(docs[b]) /\ docs[b].link.status # "linked"

LEMMA DocsMarked ==
    ASSUME NEW docs, NEW why, \A b \in DOMAIN docs : ShapedDoc(docs[b])
    PROVE  DOMAIN MarkDocsStale(docs, why) = DOMAIN docs /\ Unclaimed(MarkDocsStale(docs, why))
BY Marked DEF MarkDocsStale, Unclaimed

LEMMA UnclaimedIsTruthful ==
    ASSUME NEW p, Unclaimed(p.docs)
    PROVE  Truthful(p) /\ (DOMAIN p = Fields => Shaped(p))
BY DEF Unclaimed, Truthful, TruthfulDoc, Shaped

LEMMA EmptyIsSound ==
    ASSUME NEW id, NEW name
    PROVE  Shaped(EmptyProject(id, name)) /\ Truthful(EmptyProject(id, name)) /\ EmptyProject(id, name).id = id
BY DEF EmptyProject, Shaped, Truthful, Fields

(***************************************************************************)
(* What every mutation of the store keeps.                                 *)
(***************************************************************************)
StoreKept == StoreShape' /\ (StoreTruth => StoreTruth') /\ (ProjectIsListed => ProjectIsListed')

LEMMA WithProjectSound ==
    ASSUME IsList(projects), NEW p
    PROVE  /\ IsList(WithProject(p)) /\ DOMAIN WithProject(p) = DOMAIN projects
           /\ \A q \in Entries(WithProject(p)) : q = p \/ q \in Entries(projects)
           /\ \A q \in Entries(projects) : q.id = p.id => p \in Entries(WithProject(p))
<1>1. Len(projects) \in Nat /\ DOMAIN projects = 1..Len(projects)
  BY ListLength
<1>2. WithProject(p) = [i \in 1..Len(projects) |-> WithProject(p)[i]]
  BY <1>1 DEF WithProject
<1>3. IsList(WithProject(p)) /\ DOMAIN WithProject(p) = DOMAIN projects
  BY <1>1, <1>2, FunctionIsList
<1> QED
  BY <1>3 DEF WithProject, Entries

LEMMA CommitSound ==
    ASSUME StoreShape, NEW p, Shaped(p), Commit(p), p.id = project.id, StoreTruth => Truthful(p)
    PROVE  StoreKept
<1>1. projects' = WithProject(p) /\ project' = p /\ active' = active
  BY DEF Commit
<1>2. StoreShape'
  BY <1>1, WithProjectSound DEF StoreShape
<1>3. StoreTruth => StoreTruth'
  BY <1>1, WithProjectSound DEF StoreShape, StoreTruth
<1>4. ProjectIsListed => ProjectIsListed'
  BY <1>1, WithProjectSound DEF StoreShape, ProjectIsListed, Entries
<1> QED
  BY <1>2, <1>3, <1>4 DEF StoreKept

\* a graph edit, whatever it does to the graph
LEMMA CommitGraphSound ==
    ASSUME StoreShape, NEW p, Shaped(p), CommitGraph(p), p.id = project.id
    PROVE  StoreKept
<1> DEFINE q == [p EXCEPT !.docs = MarkDocsStale(@, "project")]
<1>1. DOMAIN q = Fields /\ q.id = p.id /\ Unclaimed(q.docs)
  BY DocsMarked DEF Shaped, Fields
<1>2. Commit(q)
  BY DEF CommitGraph
<1> HIDE DEF q
<1> QED
  BY <1>1, <1>2, UnclaimedIsTruthful, CommitSound

LEMMA AddComponentSound ==
    ASSUME StoreShape, NEW c, AddComponent(c)
    PROVE  StoreKept
<1> DEFINE p == [project EXCEPT !.comps = @ \cup {c}]
<1>1. Shaped(p) /\ p.id = project.id
  BY DEF StoreShape, Shaped, Fields
<1>2. CommitGraph(p)
  BY DEF AddComponent
<1> HIDE DEF p
<1> QED
  BY <1>1, <1>2, CommitGraphSound

LEMMA RemoveComponentSound ==
    ASSUME StoreShape, NEW c, RemoveComponent(c)
    PROVE  StoreKept
<1> DEFINE p == [project EXCEPT !.comps = @ \ {c}, !.wires = {w \in @ : c \notin w},
                                !.docs = RestrictDomain(@, LAMBDA b : b # c)]
<1>1. Shaped(p) /\ p.id = project.id
  BY DEF StoreShape, Shaped, Fields, RestrictDomain, Restrict
<1>2. CommitGraph(p)
  BY DEF RemoveComponent
<1> HIDE DEF p
<1> QED
  BY <1>1, <1>2, CommitGraphSound

LEMMA WiringSound ==
    ASSUME StoreShape, NEW w, ConnectPorts(w) \/ DisconnectPorts(w)
    PROVE  StoreKept
<1> DEFINE p == [project EXCEPT !.wires = @ \cup {w}]
           q == [project EXCEPT !.wires = @ \ {w}]
<1>1. Shaped(p) /\ p.id = project.id /\ Shaped(q) /\ q.id = project.id
  BY DEF StoreShape, Shaped, Fields
<1>2. CommitGraph(p) \/ CommitGraph(q)
  BY DEF ConnectPorts, DisconnectPorts
<1> HIDE DEF p, q
<1> QED
  BY <1>1, <1>2, CommitGraphSound

LEMMA UpdatePropsSound ==
    ASSUME StoreShape, UpdateComponentProps
    PROVE  StoreKept
<1> DEFINE p == [project EXCEPT !.props = 1 - @]
<1>1. Shaped(p) /\ p.id = project.id
  BY DEF StoreShape, Shaped, Fields
<1>2. CommitGraph(p)
  BY DEF UpdateComponentProps
<1> HIDE DEF p
<1> QED
  BY <1>1, <1>2, CommitGraphSound

LEMMA AutoLayoutSound ==
    ASSUME StoreShape, AutoLayout
    PROVE  StoreKept
BY CommitGraphSound DEF AutoLayout, StoreShape

LEMMA ClearSound ==
    ASSUME StoreShape, Clear
    PROVE  StoreKept
<1> DEFINE p == EmptyProject(project.id, project.name)
<1>1. Shaped(p) /\ Truthful(p) /\ p.id = project.id
  BY EmptyIsSound
<1>2. projects' = WithProject(p) /\ project' = p /\ active' = active
  BY DEF Clear
<1> HIDE DEF p
<1>3. StoreShape' /\ (StoreTruth => StoreTruth')
  BY <1>1, <1>2, WithProjectSound DEF StoreShape, StoreTruth
<1>4. ProjectIsListed => ProjectIsListed'
  BY <1>1, <1>2, WithProjectSound DEF StoreShape, ProjectIsListed, Entries
<1> QED
  BY <1>3, <1>4 DEF StoreKept

LEMMA LoadProjectSound ==
    ASSUME StoreShape, NEW comps, NEW name, LoadProject(comps, name)
    PROVE  StoreKept
<1> DEFINE e == EmptyProject(project.id, UniqueName(name, active))
           p == [e EXCEPT !.comps = comps]
<1>1. Shaped(p) /\ Truthful(p) /\ p.id = project.id
  BY DEF EmptyProject, Shaped, Truthful, Fields
<1>2. Commit(p)
  BY DEF LoadProject
<1> HIDE DEF p
<1> QED
  BY <1>1, <1>2, CommitSound

LEMMA RenameProjectSound ==
    ASSUME StoreShape, NEW i \in DOMAIN projects, NEW name, RenameProject(i, name)
    PROVE  StoreKept
<1> DEFINE p == [projects[i] EXCEPT !.name = UniqueName(name, projects[i].id)]
<1>1. Shaped(p) /\ p.id = projects[i].id
  BY DEF StoreShape, Shaped, Fields, Entries
<1>2. StoreTruth => Truthful(p)
  BY DEF StoreShape, StoreTruth, Shaped, Fields, Entries, Truthful, TruthfulDoc, Fingerprint, PlanHash
<1>3. /\ projects' = WithProject(p) /\ project' = (IF active = p.id THEN p ELSE project) /\ active' = active
  BY DEF RenameProject
<1>4. ProjectIsListed => ProjectIsListed'
  <2> SUFFICES ASSUME ProjectIsListed PROVE ProjectIsListed'
    OBVIOUS
  <2>1. PICK k \in DOMAIN projects : projects[k] = project /\ project.id = active
    BY DEF ProjectIsListed
  <2>2. WithProject(p)[k] = (IF active = p.id THEN p ELSE project) /\ k \in DOMAIN WithProject(p)
    BY <2>1 DEF WithProject
  <2> HIDE DEF p
  <2> QED
    BY <1>3, <2>1, <2>2 DEF ProjectIsListed
<1> HIDE DEF p
<1>5. StoreShape' /\ (StoreTruth => StoreTruth')
  BY <1>1, <1>2, <1>3, WithProjectSound DEF StoreShape, StoreTruth
<1> QED
  BY <1>4, <1>5 DEF StoreKept

LEMMA WriteBehaviorPlanSound ==
    ASSUME StoreShape, NEW q, NEW body, NEW expected, WriteBehaviorPlan(q, body, expected)
    PROVE  StoreKept
<1> DEFINE plan == [rev |-> IF expected = None THEN 1 ELSE expected + 1, body |-> body]
           plans == [x0 \in DOMAIN project.plans \cup {q} |-> IF x0 = q THEN plan ELSE project.plans[x0]]
           docs == [b \in DOMAIN project.docs |-> StaleIfLinked(project.docs[b], q)]
           p == [project EXCEPT !.plans = plans, !.docs = docs]
<1>1. Commit(p)
  BY DEF WriteBehaviorPlan
<1>2. ASSUME NEW b \in DOMAIN project.docs PROVE ShapedDoc(docs[b])
  BY Marked DEF StoreShape, Shaped, StaleIfLinked
<1>3. /\ DOMAIN p = Fields /\ p.id = project.id /\ p.docs = docs /\ p.plans = plans
      /\ Fingerprint(p) = Fingerprint(project)
  BY DEF StoreShape, Shaped, Fields, Fingerprint
<1>4. Shaped(p)
  BY <1>2, <1>3 DEF Shaped
<1>5. StoreTruth => Truthful(p)
  <2> SUFFICES ASSUME StoreTruth, NEW b \in DOMAIN project.docs, docs[b].link.status = "linked"
               PROVE  TruthfulDoc(p, docs[b])
    BY <1>3 DEF Truthful, TruthfulDoc
  <2>1. docs[b] = project.docs[b] /\ docs[b].link.plan # q
    BY Marked DEF StoreShape, Shaped, StaleIfLinked
  <2>2. TruthfulDoc(project, docs[b])
    BY <2>1 DEF StoreTruth, Truthful
  <2>3. \A k \in DOMAIN project.plans : k # q => k \in DOMAIN plans /\ plans[k] = project.plans[k]
    OBVIOUS
  <2> HIDE DEF p, plans, docs
  <2> QED
    BY <1>3, <2>1, <2>2, <2>3 DEF TruthfulDoc, PlanHash
<1> HIDE DEF p
<1> QED
  BY <1>1, <1>3, <1>4, <1>5, CommitSound

LEMMA WriteCodeDocumentSound ==
    ASSUME StoreShape, NEW b, NEW body, NEW link, WriteCodeDocument(b, body, link)
    PROVE  StoreKept
<1> DEFINE current == project.docs[b]
           known == b \in DOMAIN project.docs
           previewLink ==
               IF link # None THEN Link(project, link, body)
               ELSE IF ~known \/ current.link.status = "unlinked" THEN Unlinked
               ELSE IF current.link.content = body THEN current.link
               ELSE MarkStale(current, "code").link
           doc == [rev |-> IF known THEN current.rev + 1 ELSE 1, body |-> body, link |-> previewLink]
           docs == [x0 \in DOMAIN project.docs \cup {b} |-> IF x0 = b THEN doc ELSE project.docs[x0]]
           p == [project EXCEPT !.docs = docs]
<1>1. Commit(p) /\ link \in DOMAIN project.plans \cup {None}
  BY DEF WriteCodeDocument
<1>2. /\ DOMAIN p = Fields /\ p.id = project.id /\ p.docs = docs /\ p.plans = project.plans
      /\ Fingerprint(p) = Fingerprint(project)
  BY DEF StoreShape, Shaped, Fields, Fingerprint
<1>3. known => ShapedDoc(current)
  BY DEF StoreShape, Shaped
<1>4. ASSUME link # None PROVE "status" \in DOMAIN previewLink /\ TruthfulDoc(p, doc)
  <2>1. previewLink = Link(project, link, body) /\ link \in DOMAIN project.plans
    BY <1>1, <1>4
  <2>2. TruthfulDoc(project, doc)
    BY <2>1 DEF TruthfulDoc, Link
  <2> HIDE DEF p, docs
  <2>3. TruthfulDoc(p, doc)
    BY <1>2, <2>2 DEF TruthfulDoc, PlanHash
  <2> QED
    BY <2>1, <2>3 DEF Link
<1>5. ASSUME link = None PROVE "status" \in DOMAIN previewLink /\ (StoreTruth => TruthfulDoc(p, doc))
  <2>1. CASE ~known \/ current.link.status = "unlinked"
    <3>1. previewLink = Unlinked
      BY <1>5, <2>1
    <3> QED
      BY <3>1 DEF Unlinked, TruthfulDoc
  <2>2. CASE known /\ current.link.status # "unlinked" /\ current.link.content = body
    <3>1. previewLink = current.link
      BY <1>5, <2>2
    <3>2. StoreTruth => TruthfulDoc(project, doc)
      BY <2>2, <3>1 DEF StoreTruth, Truthful, TruthfulDoc
    <3>3. TruthfulDoc(project, doc) => TruthfulDoc(p, doc)
      <4> HIDE DEF p, docs, doc
      <4> QED
        BY <1>2 DEF TruthfulDoc, PlanHash
    <3> QED
      BY <1>3, <2>2, <3>1, <3>2, <3>3 DEF ShapedDoc
  <2>3. CASE known /\ current.link.status # "unlinked" /\ current.link.content # body
    <3>1. previewLink = MarkStale(current, "code").link
      BY <1>5, <2>3
    <3>2. "status" \in DOMAIN previewLink /\ previewLink.status # "linked"
      BY <1>3, <2>3, <3>1, Marked DEF ShapedDoc
    <3> QED
      BY <3>2 DEF TruthfulDoc
  <2> QED
    BY <2>1, <2>2, <2>3
<1>6. ShapedDoc(doc) /\ (StoreTruth => TruthfulDoc(p, doc))
  BY <1>4, <1>5 DEF ShapedDoc
<1>7. \A x0 \in DOMAIN docs : docs[x0] = IF x0 = b THEN doc ELSE project.docs[x0]
  OBVIOUS
<1>8. \A x0 \in DOMAIN docs : x0 # b => x0 \in DOMAIN project.docs
  OBVIOUS
<1> HIDE DEF doc, docs, p
<1>9. Shaped(p)
  BY <1>2, <1>6, <1>7, <1>8 DEF Shaped, StoreShape
<1>10. StoreTruth => Truthful(p)
  <2> SUFFICES ASSUME StoreTruth, NEW x0 \in DOMAIN docs PROVE TruthfulDoc(p, docs[x0])
    BY <1>2 DEF Truthful
  <2>1. x0 # b => TruthfulDoc(project, docs[x0])
    BY <1>7, <1>8 DEF StoreTruth, Truthful
  <2> QED
    BY <1>2, <1>6, <1>7, <2>1 DEF TruthfulDoc, PlanHash
<1> QED
  BY <1>1, <1>2, <1>9, <1>10, CommitSound

(***************************************************************************)
(* Projects.                                                               *)
(***************************************************************************)
LEMMA Append1Sound ==
    ASSUME StoreShape, NEW p, Shaped(p), Append1(p), StoreTruth => Truthful(p)
    PROVE  StoreKept
<1>1. projects' = Append(projects, p) /\ active' = p.id /\ project' = p
  BY DEF Append1
<1>2. /\ IsList(projects') /\ p \in Entries(projects')
      /\ Entries(projects') = Entries(projects) \cup {p}
  BY <1>1, ListAppend DEF StoreShape
<1>3. StoreShape' /\ (StoreTruth => StoreTruth')
  BY <1>1, <1>2 DEF StoreShape, StoreTruth
<1>4. ProjectIsListed'
  BY <1>1, <1>2 DEF ProjectIsListed, Entries
<1> QED
  BY <1>3, <1>4 DEF StoreKept

LEMMA CreateProjectSound ==
    ASSUME StoreShape, NEW name, CreateProject(name)
    PROVE  StoreKept
BY EmptyIsSound, Append1Sound DEF CreateProject

LEMMA DuplicateProjectSound ==
    ASSUME StoreShape, NEW i \in DOMAIN projects, DuplicateProject(i)
    PROVE  StoreKept
<1> DEFINE p == [projects[i] EXCEPT !.id = NewId,
                                    !.name = UniqueName(@ \o <<Copy>>, None),
                                    !.docs = MarkDocsStale(MarkDocsStale(@, "plan"), "project")]
<1>1. Shaped(projects[i])
  BY DEF StoreShape, Entries
<1>2. Unclaimed(MarkDocsStale(MarkDocsStale(projects[i].docs, "plan"), "project"))
  BY <1>1, DocsMarked DEF Shaped, Unclaimed
<1>3. DOMAIN p = Fields /\ Unclaimed(p.docs)
  BY <1>1, <1>2 DEF Shaped, Fields
<1>4. Append1(p)
  BY DEF DuplicateProject
<1> HIDE DEF p
<1> QED
  BY <1>3, <1>4, UnclaimedIsTruthful, Append1Sound

LEMMA ImportProjectSound ==
    ASSUME StoreShape, NEW i \in DOMAIN projects, NEW name, ImportProject(i, name)
    PROVE  StoreKept
<1> DEFINE p == [projects[i] EXCEPT !.id = NewId, !.name = UniqueName(name, None),
                                    !.docs = MarkDocsStale(@, "project")]
<1>1. Shaped(projects[i])
  BY DEF StoreShape, Entries
<1>2. Unclaimed(MarkDocsStale(projects[i].docs, "project"))
  BY <1>1, DocsMarked DEF Shaped
<1>3. DOMAIN p = Fields /\ Unclaimed(p.docs)
  BY <1>1, <1>2 DEF Shaped, Fields
<1>4. Append1(p)
  BY DEF ImportProject
<1> HIDE DEF p
<1> QED
  BY <1>3, <1>4, UnclaimedIsTruthful, Append1Sound

LEMMA SwitchProjectSound ==
    ASSUME StoreShape, NEW i \in DOMAIN projects, SwitchProject(i)
    PROVE  StoreKept
BY DEF SwitchProject, StoreKept, StoreShape, StoreTruth, ProjectIsListed, Entries

LEMMA ShownIsListed ==
    ASSUME NEW ps, IsList(ps), Len(ps) # 0, NEW id
    PROVE  /\ Shown(ps, id) \in Entries(ps)
           /\ (\E p \in Entries(ps) : p.id = id) => Shown(ps, id).id = id
<1>1. 1 \in DOMAIN ps
  BY ListLength
<1>2. CASE \E i \in DOMAIN ps : ps[i].id = id
  <2> DEFINE k == CHOOSE i \in DOMAIN ps : ps[i].id = id
  <2>1. k \in DOMAIN ps /\ ps[k].id = id
    BY <1>2
  <2>2. Shown(ps, id) = ps[k]
    BY <1>2 DEF Shown
  <2> QED
    BY <2>1, <2>2 DEF Entries
<1>3. CASE ~ \E i \in DOMAIN ps : ps[i].id = id
  BY <1>1, <1>3 DEF Shown, Entries
<1> QED
  BY <1>2, <1>3

LEMMA DeleteProjectSound ==
    ASSUME StoreShape, NEW i \in DOMAIN projects, DeleteProject(i)
    PROVE  StoreKept
<1> DEFINE ps == RemoveAt(projects, i)
           next == IF active = projects[i].id THEN ps[1].id ELSE active
<1>1. projects' = ps /\ active' = next /\ project' = Shown(ps, next) /\ Len(projects) > 1
  BY DEF DeleteProject
<1>2. /\ IsList(ps) /\ Len(ps) = Len(projects) - 1
      /\ Entries(ps) \subseteq Entries(projects)
      /\ \A j \in DOMAIN projects : j # i => projects[j] \in Entries(ps)
  BY ListRemoveAt DEF StoreShape
<1>3. Len(ps) # 0 /\ 1 \in DOMAIN ps
  <2> HIDE DEF ps
  <2> QED
    BY <1>1, <1>2, ListLength DEF StoreShape
<1> HIDE DEF ps
<1>4. project' \in Entries(ps)
  BY <1>1, <1>2, <1>3, ShownIsListed
<1>5. StoreShape' /\ (StoreTruth => StoreTruth')
  BY <1>1, <1>2, <1>4 DEF StoreShape, StoreTruth
<1>6. ProjectIsListed => ProjectIsListed'
  <2> SUFFICES ASSUME ProjectIsListed PROVE \E p \in Entries(ps) : p.id = next
    BY <1>1, <1>2, <1>3, <1>4, ShownIsListed DEF ProjectIsListed, Entries
  <2>1. CASE active = projects[i].id
    BY <1>3, <2>1 DEF Entries
  <2>2. CASE active # projects[i].id
    BY <1>2, <2>2 DEF ProjectIsListed
  <2> QED
    BY <2>1, <2>2
<1> QED
  BY <1>5, <1>6 DEF StoreKept

\* what another tab broadcasts is made of projects that this one has, or empty
LEMMA ApplyRemoteStateSound ==
    ASSUME StoreShape, NEW ps, NEW id, ApplyRemoteState(ps, id), IsList(ps), Len(ps) # 0,
           \A p \in Entries(ps) : p \in Entries(projects) \/ (Shaped(p) /\ Truthful(p))
    PROVE  StoreKept
<1>1. projects' = ps /\ project' = Shown(ps, id) /\ active' = Shown(ps, id).id
  BY DEF ApplyRemoteState
<1>2. project' \in Entries(ps)
  BY <1>1, ShownIsListed
<1>3. StoreShape' /\ (StoreTruth => StoreTruth')
  BY <1>1, <1>2 DEF StoreShape, StoreTruth
<1>4. ProjectIsListed'
  BY <1>1, <1>2 DEF ProjectIsListed, Entries
<1> QED
  BY <1>3, <1>4 DEF StoreKept

LEMMA RemoteUpdateSound ==
    ASSUME StoreShape, RemoteUpdate
    PROVE  StoreKept
<1>1. PICK i \in DOMAIN projects :
        \/ ApplyRemoteState(projects, projects[i].id)
        \/ Len(projects) > 1 /\ \E j \in 1..(Len(projects) - 1) :
               LET ps == RemoveAt(projects, i) IN ApplyRemoteState(ps, ps[j].id)
        \/ ApplyRemoteState([projects EXCEPT ![i] = EmptyProject(@.id, @.name)], projects[i].id)
  BY DEF RemoteUpdate
<1>2. IsList(projects) /\ Len(projects) \in Nat /\ DOMAIN projects = 1..Len(projects) /\ Len(projects) # 0
  BY ListLength DEF StoreShape
<1>3. CASE ApplyRemoteState(projects, projects[i].id)
  BY <1>2, <1>3, ApplyRemoteStateSound
<1>4. ASSUME Len(projects) > 1, NEW j, ApplyRemoteState(RemoveAt(projects, i), RemoveAt(projects, i)[j].id)
      PROVE  StoreKept
  <2> DEFINE ps == RemoveAt(projects, i)
  <2>1. IsList(ps) /\ Len(ps) = Len(projects) - 1 /\ Entries(ps) \subseteq Entries(projects)
    BY <1>2, ListRemoveAt
  <2> HIDE DEF ps
  <2>2. Len(ps) # 0
    BY <1>2, <1>4, <2>1
  <2> QED
    BY <1>4, <2>1, <2>2, ApplyRemoteStateSound DEF ps
<1>5. CASE ApplyRemoteState([projects EXCEPT ![i] = EmptyProject(@.id, @.name)], projects[i].id)
  <2> DEFINE ps == [projects EXCEPT ![i] = EmptyProject(@.id, @.name)]
  <2>1. ps = [k \in 1..Len(projects) |-> ps[k]]
    BY <1>2
  <2>2. IsList(ps) /\ DOMAIN ps = 1..Len(projects)
    BY <1>2, <2>1, FunctionIsList
  <2>3. \A p \in Entries(ps) : p \in Entries(projects) \/ p = EmptyProject(projects[i].id, projects[i].name)
    BY DEF Entries
  <2>4. Len(ps) # 0
    <3> HIDE DEF ps
    <3>1. i \in DOMAIN ps
      BY <1>2, <2>2
    <3> QED
      BY <2>2, <3>1, ListLength
  <2>5. ApplyRemoteState(ps, projects[i].id)
    BY <1>5
  <2> HIDE DEF ps
  <2> QED
    BY <2>2, <2>3, <2>4, <2>5, EmptyIsSound, ApplyRemoteStateSound
<1> QED
  BY <1>1, <1>3, <1>4, <1>5

\* what a tab begins with
LEMMA FreshSound ==
    ASSUME NEW n \in Nat \ {0}, projects = Fresh(n), project = projects[1], active = 1
    PROVE  StoreShape /\ StoreTruth /\ ProjectIsListed
<1> DEFINE name(i) == IF i = 1 THEN <<Untitled>> ELSE <<Untitled, i>>
<1>1. projects = [i \in 1..n |-> EmptyProject(i, name(i))]
  BY DEF Fresh
<1>2. IsList(projects) /\ DOMAIN projects = 1..n /\ 1 \in 1..n
  BY <1>1, FunctionIsList
<1>3. \A p \in Entries(projects) : \E i \in 1..n : p = EmptyProject(i, name(i))
  BY <1>1 DEF Entries
<1>4. project = EmptyProject(1, name(1)) /\ project \in Entries(projects)
  BY <1>1, <1>2 DEF Entries
<1> HIDE DEF name
<1>5. StoreShape /\ StoreTruth
  BY <1>2, <1>3, <1>4, EmptyIsSound DEF StoreShape, StoreTruth
<1>6. ProjectIsListed
  BY <1>2, <1>4, EmptyIsSound DEF ProjectIsListed
<1> QED
  BY <1>5, <1>6

LEMMA InitSound == Init => StoreShape /\ StoreTruth /\ ProjectIsListed
BY FreshSound, StoreAssumption DEF Init

LEMMA MutationSound == StoreShape /\ Mutation => StoreKept
BY AddComponentSound, RemoveComponentSound, WiringSound, UpdatePropsSound, ClearSound, LoadProjectSound, AutoLayoutSound,
   WriteBehaviorPlanSound, WriteCodeDocumentSound, CreateProjectSound, DuplicateProjectSound, ImportProjectSound,
   SwitchProjectSound, DeleteProjectSound, RenameProjectSound, RemoteUpdateSound
   DEF Mutation

(***************************************************************************)
(* The design tools: every snapshot that may come back was a project of    *)
(* the store when it was taken.                                            *)
(***************************************************************************)
Snapshot(p) == Shaped(p) /\ Truthful(p)
Snapshots(ps) == IsList(ps) /\ \A p \in Entries(ps) : Snapshot(p)

\* an apply that has still to write its plan knows the graph it proposed
Proposed(a) == a.phase = "prepare" => a.hash = <<a.before.id, Comps, a.before.props, Wires>>
ApplyShape(a) ==
    /\ DOMAIN a = {"phase", "before", "hash", "lease", "alone"} /\ a.phase \in {"prepare", "flush", "artifacts"}
    /\ Snapshot(a.before) /\ Proposed(a)

\* nobody else changed the store since the plan of the apply was written
Undisturbed(a) == a.phase # "prepare" /\ a.alone

DesignInv ==
    /\ StoreShape /\ StoreTruth
    /\ Snapshots(undo) /\ Snapshots(redo) /\ HistoryBounded
    /\ apply # Idle => ApplyShape(apply) /\ (Undisturbed(apply) => Designed(project))

LEMMA ListTail ==
    ASSUME NEW ps, IsList(ps), Len(ps) # 0
    PROVE  IsList(Tail(ps)) /\ Entries(Tail(ps)) \subseteq Entries(ps) /\ Len(Tail(ps)) = Len(ps) - 1
<1> DEFINE S == Entries(ps)
           t == Tail(ps)
<1>1. ps \in Seq(S) /\ ps # <<>>
  BY EmptySeq DEF IsList
<1>2. t \in Seq(S) /\ Len(t) = Len(ps) - 1
  <2> HIDE DEF S
  <2> QED
    BY <1>1, HeadTailProperties
<1>3. DOMAIN t = 1..Len(t) /\ Len(t) \in Nat /\ \A n \in DOMAIN t : t[n] \in S
  <2> HIDE DEF S, t
  <2> QED
    BY <1>2, LenProperties
<1> HIDE DEF t
<1>4. t = [n \in 1..Len(t) |-> t[n]]
  <2> HIDE DEF S
  <2> QED
    BY <1>2, LenProperties
<1>5. IsList(t)
  BY <1>3, <1>4, FunctionIsList
<1> QED
  BY <1>2, <1>3, <1>5 DEF t, Entries

LEMMA RecordSound ==
    ASSUME Snapshots(undo), Snapshots(redo), HistoryBounded, NEW before, Snapshot(before), Record(before)
    PROVE  (Snapshots(undo) /\ Snapshots(redo) /\ HistoryBounded)'
<1> DEFINE all == Append(undo, before)
<1>1. IsList(all) /\ Entries(all) = Entries(undo) \cup {before} /\ Len(all) # 0
  BY ListAppend, ListLength DEF Snapshots
<1>2. /\ undo' = all \/ undo' = Tail(all)
      /\ undo' = IF Len(all) > MaxHistory THEN Tail(all) ELSE all
      /\ redo' = <<>>
  BY DEF Record
<1>5. /\ Len(all) = Len(undo) + 1 /\ Len(undo) \in Nat /\ Len(redo) \in Nat
  BY ListAppend, ListLength DEF Snapshots
<1> HIDE DEF all
<1>6. HistoryBounded'
  <2>1. Len(Tail(all)) = Len(all) - 1 /\ Len(redo') = 0
    BY <1>1, <1>2, ListTail, EmptySeq
  <2> QED
    BY <1>2, <1>5, <2>1, DesignAssumption DEF HistoryBounded
<1>3. IsList(undo') /\ Entries(undo') \subseteq Entries(undo) \cup {before}
  BY <1>1, <1>2, ListTail
<1>4. Snapshots(redo')
  <2>1. <<>> \in Seq(Entries(<<>>)) /\ Entries(<<>>) = {}
    BY EmptySeq DEF Entries
  <2> QED
    BY <1>2, <2>1 DEF Snapshots, IsList
<1> QED
  BY <1>3, <1>4, <1>6 DEF Snapshots

LEMMA RestoreSound ==
    ASSUME StoreShape, StoreTruth, NEW p, Snapshot(p), RestoreSnapshot(p)
    PROVE  (StoreShape /\ StoreTruth)'
BY WithProjectSound DEF RestoreSnapshot, Snapshot, StoreShape, StoreTruth

LEMMA ProjectIsSnapshot == StoreShape /\ StoreTruth => Snapshot(project)
BY DEF StoreShape, StoreTruth, Snapshot

\* a snapshot comes back, and the project it replaces is kept on the other stack
LEMMA MoveSound ==
    ASSUME NEW from, NEW to, Snapshots(from), Snapshots(to), NEW k \in DOMAIN from, NEW p, Snapshot(p)
    PROVE  /\ Snapshot(from[k]) /\ Snapshots(RemoveAt(from, k)) /\ Snapshots(Append(to, p))
           /\ Len(RemoveAt(from, k)) + Len(Append(to, p)) = Len(from) + Len(to)
<1>1. Snapshot(from[k])
  BY DEF Snapshots, Entries
<1>2. Snapshots(RemoveAt(from, k))
  BY ListRemoveAt DEF Snapshots
<1>3. Snapshots(Append(to, p))
  BY ListAppend DEF Snapshots
<1>4. Len(RemoveAt(from, k)) + Len(Append(to, p)) = Len(from) + Len(to)
  <2>1. Len(RemoveAt(from, k)) = Len(from) - 1 /\ Len(Append(to, p)) = Len(to) + 1 /\ Len(from) \in Nat /\ Len(to) \in Nat
    BY ListRemoveAt, ListAppend, ListLength DEF Snapshots
  <2> QED
    BY <2>1
<1> QED
  BY <1>1, <1>2, <1>3, <1>4

\* whatever another actor does to the store, the apply is no longer alone
LEMMA MeanwhileSound ==
    ASSUME DesignInv, Meanwhile
    PROVE  apply' # Idle => ApplyShape(apply') /\ ~Undisturbed(apply')
<1>1. CASE apply.phase \notin {"flush", "artifacts"}
  BY <1>1 DEF Meanwhile, DesignInv, ApplyShape, Undisturbed
<1>2. CASE apply.phase \in {"flush", "artifacts"}
  <2>1. apply' = [apply EXCEPT !.alone = FALSE]
    BY <1>2 DEF Meanwhile
  <2>2. DOMAIN apply' = DOMAIN apply /\ apply'.before = apply.before /\ apply'.phase = apply.phase /\ apply'.alone = FALSE
    BY <1>2, <2>1 DEF DesignInv, ApplyShape, Idle
  <2> QED
    BY <1>2, <2>2 DEF DesignInv, ApplyShape, Proposed, Undisturbed, Idle
<1> QED
  BY <1>1, <1>2

\* a plan, or the documents, of the active project are written
LEMMA WriteKeepsDesign ==
    ASSUME StoreShape, apply # Idle, NEW q \in PlanIds, NEW body, NEW expected, WriteBehaviorPlan(q, body, expected)
    PROVE  /\ project'.id = project.id /\ project'.comps = project.comps /\ project'.wires = project.wires
           /\ DOMAIN project'.plans = DOMAIN project.plans \cup {q}
<1>1. PICK plan, docs : project' = [project EXCEPT
          !.plans = [r \in DOMAIN project.plans \cup {q} |-> IF r = q THEN plan ELSE project.plans[r]], !.docs = docs]
  BY Zenon DEF WriteBehaviorPlan, Commit
<1> QED
  BY <1>1 DEF StoreShape, Shaped, Fields

LEMMA SourceKeepsDesign ==
    ASSUME StoreShape, NEW b, NEW body, NEW q, WriteCodeDocument(b, body, q)
    PROVE  /\ project'.id = project.id /\ project'.comps = project.comps /\ project'.wires = project.wires
           /\ project'.plans = project.plans
<1>1. PICK docs : project' = [project EXCEPT !.docs = docs]
  BY Zenon DEF WriteCodeDocument, Commit
<1> QED
  BY <1>1 DEF StoreShape, Shaped, Fields

LEMMA DesignStarts == DesignInit => DesignInv
<1> SUFFICES ASSUME DesignInit PROVE DesignInv
  OBVIOUS
<1>1. Snapshots(<<>>)
  <2>1. <<>> \in Seq(Entries(<<>>)) /\ Entries(<<>>) = {}
    BY EmptySeq DEF Entries
  <2> QED
    BY <2>1 DEF Snapshots, IsList
<1>2. Len(<<>>) = 0
  BY EmptySeq
<1> QED
  BY <1>1, <1>2, InitSound, DesignAssumption DEF DesignInit, DesignInv, HistoryBounded

LEMMA EditSound ==
    ASSUME DesignInv, Edit
    PROVE  DesignInv'
<1> USE DEF DesignInv
<1>1. Snapshot(project)
  BY ProjectIsSnapshot
<1>2. CASE UserEdit
  BY <1>2, MutationSound, MeanwhileSound DEF UserEdit, StoreKept, HistoryBounded
<1>3. CASE Undo
  <2>1. PICK k \in DOMAIN undo :
            redo' = Append(redo, project) /\ undo' = RemoveAt(undo, k) /\ RestoreSnapshot(undo[k])
    BY <1>3 DEF Undo
  <2>2. /\ Snapshot(undo[k]) /\ Snapshots(RemoveAt(undo, k)) /\ Snapshots(Append(redo, project))
        /\ Len(RemoveAt(undo, k)) + Len(Append(redo, project)) = Len(undo) + Len(redo)
    BY <1>1, MoveSound
  <2>3. (StoreShape /\ StoreTruth)'
    BY <2>1, <2>2, RestoreSound
  <2> QED
    BY <1>3, <2>1, <2>2, <2>3, ListLength, MeanwhileSound DEF Undo, HistoryBounded, Snapshots
<1>4. CASE Redo
  <2>1. PICK k \in DOMAIN redo :
            undo' = Append(undo, project) /\ redo' = RemoveAt(redo, k) /\ RestoreSnapshot(redo[k])
    BY <1>4 DEF Redo
  <2>2. /\ Snapshot(redo[k]) /\ Snapshots(RemoveAt(redo, k)) /\ Snapshots(Append(undo, project))
        /\ Len(RemoveAt(redo, k)) + Len(Append(undo, project)) = Len(redo) + Len(undo)
    BY <1>1, MoveSound
  <2>3. (StoreShape /\ StoreTruth)'
    BY <2>1, <2>2, RestoreSound
  <2> QED
    BY <1>4, <2>1, <2>2, <2>3, ListLength, MeanwhileSound DEF Redo, HistoryBounded, Snapshots
<1>5. CASE GraphTool
  <2>1. StoreKept
    BY <1>5, AddComponentSound, RemoveComponentSound, WiringSound, LoadProjectSound DEF GraphTool
  <2>2. (Snapshots(undo) /\ Snapshots(redo) /\ HistoryBounded)'
    BY <1>1, <1>5, RecordSound DEF GraphTool
  <2> QED
    BY <1>5, <2>1, <2>2, MeanwhileSound DEF GraphTool, StoreKept
<1>6. CASE LayoutTool
  <2>1. StoreKept
    BY <1>6, AutoLayoutSound DEF LayoutTool
  <2>2. (Snapshots(undo) /\ Snapshots(redo) /\ HistoryBounded)'
    BY <1>1, <1>6, RecordSound DEF LayoutTool
  <2> QED
    BY <1>6, <2>1, <2>2, MeanwhileSound DEF LayoutTool, StoreKept
<1>7. CASE ArtifactWrite
  <2>1. StoreKept
    BY <1>7, WriteBehaviorPlanSound, WriteCodeDocumentSound DEF ArtifactWrite, StarterWrite, SourceWrite
  <2>2. apply # Idle /\ Designed(project) => Designed(project)'
    <3> SUFFICES ASSUME apply # Idle, Designed(project) PROVE Designed(project)'
      OBVIOUS
    <3>1. apply' = apply
      BY <1>7 DEF ArtifactWrite
    <3>2. CASE StarterWrite
      <4>1. WriteBehaviorPlan(Starter, Scaffold, Revision(Starter)) /\ Starter \in PlanIds
        BY <3>2, DesignAssumption DEF StarterWrite
      <4> QED
        BY <3>1, <4>1, WriteKeepsDesign DEF Designed
    <3>3. CASE \E b \in Boards \cap project.comps : SourceWrite(b)
      BY <3>1, <3>3, SourceKeepsDesign DEF SourceWrite, Designed
    <3> QED
      BY <1>7, <3>2, <3>3 DEF ArtifactWrite
  <2> QED
    BY <1>7, <2>1, <2>2 DEF ArtifactWrite, StoreKept, HistoryBounded, Designed
<1>8. CASE Apply
  <2> DEFINE built == [project EXCEPT !.comps = Comps, !.wires = Wires]
  <2>1. /\ DOMAIN built = Fields /\ built.id = project.id /\ built.docs = project.docs /\ built.plans = project.plans
        /\ built.comps = Comps /\ built.wires = Wires /\ built.props = project.props
    BY DEF StoreShape, Shaped, Fields
  <2>2. /\ CommitGraph(built)
        /\ apply' = [phase |-> "prepare", before |-> project, hash |-> Fingerprint(built), lease |-> lease,
                     alone |-> TRUE]
    BY <1>8 DEF Apply
  <2>3. Shaped(built)
    BY <2>1 DEF StoreShape, Shaped
  <2> HIDE DEF built
  <2>4. StoreKept
    BY <2>1, <2>2, <2>3, CommitGraphSound
  <2> QED
    BY <1>1, <1>8, <2>1, <2>2, <2>4 DEF Apply, StoreKept, HistoryBounded, ApplyShape, Proposed, Undisturbed, Fingerprint
<1>9. CASE ApplyPlan
  <2>1. StoreKept
    BY <1>9, WriteBehaviorPlanSound DEF ApplyPlan
  <2>2. apply # Idle /\ apply' = [apply EXCEPT !.phase = "flush"]
    BY <1>9 DEF ApplyPlan, Idle
  <2>3. DOMAIN apply' = DOMAIN apply /\ apply'.before = apply.before /\ apply'.phase = "flush"
    BY <2>2 DEF ApplyShape
  <2>4. project'.id = apply.before.id /\ project'.comps = Comps /\ project'.wires = Wires /\ Calculator \in DOMAIN project'.plans
    <3>1. apply.phase = "prepare" /\ Fingerprint(project) = apply.hash
      BY <1>9 DEF ApplyPlan, PlanMayBeWritten
    <3>2. project.id = apply.before.id /\ project.comps = Comps /\ project.wires = Wires
      BY <2>2, <3>1 DEF ApplyShape, Proposed, Fingerprint
    <3>3. WriteBehaviorPlan(Calculator, Scaffold, None) /\ Calculator \in PlanIds
      BY <1>9, DesignAssumption DEF ApplyPlan
    <3> QED
      BY <2>2, <3>2, <3>3, WriteKeepsDesign
  <2>5. ApplyShape(apply') /\ Designed(project)'
    BY <2>2, <2>3, <2>4 DEF ApplyShape, Proposed, Designed
  <2> QED
    BY <1>9, <2>1, <2>2, <2>5 DEF ApplyPlan, StoreKept, HistoryBounded
<1>10. CASE ReloadForCurrentUser
  <2> DEFINE p == EmptyProject(NewId, <<Untitled>>)
  <2>1. projects' = <<p>> /\ project' = p
    BY <1>10 DEF ReloadForCurrentUser
  <2> HIDE DEF p
  <2>2. IsList(<<p>>) /\ Entries(<<p>>) = {p}
    <3>1. Entries(<<p>>) = {p}
      BY DEF Entries
    <3>2. <<p>> \in Seq({p})
      OBVIOUS
    <3> QED
      BY <3>1, <3>2 DEF IsList
  <2>3. (StoreShape /\ StoreTruth)'
    BY <2>1, <2>2, EmptyIsSound DEF StoreShape, StoreTruth, p
  <2> QED
    BY <1>10, <2>3, MeanwhileSound DEF ReloadForCurrentUser, HistoryBounded
<1> QED
  BY <1>2, <1>3, <1>4, <1>5, <1>6, <1>7, <1>8, <1>9, <1>10 DEF Edit

LEMMA DesignSteps == DesignInv /\ DesignNext => DesignInv'
<1> SUFFICES ASSUME DesignInv, DesignNext PROVE DesignInv'
  OBVIOUS
<1> USE DEF DesignInv, StoreShape, StoreTruth
<1>1. CASE Edit
  BY <1>1, EditSound
<1>2. CASE Propose \/ Discard \/ ArtifactsDone
  BY <1>2 DEF Propose, Discard, ArtifactsDone, store, HistoryBounded, Designed
<1>3. CASE ApplyDone
  BY <1>3, RecordSound DEF ApplyDone, store, ApplyShape, Idle
<1>4. CASE ApplyFlushed
  <2>1. apply # Idle /\ apply' = [apply EXCEPT !.phase = "artifacts"] /\ UNCHANGED <<store, undo, redo>>
    BY <1>4 DEF ApplyFlushed, Idle
  <2>2. /\ DOMAIN apply' = DOMAIN apply /\ apply'.before = apply.before /\ apply'.phase = "artifacts"
        /\ apply'.alone = apply.alone /\ apply.phase = "flush"
    BY <1>4, <2>1 DEF ApplyFlushed, ApplyShape
  <2>3. ApplyShape(apply') /\ (Undisturbed(apply') => Designed(project)')
    BY <2>1, <2>2 DEF store, ApplyShape, Proposed, Undisturbed, Designed
  <2> QED
    BY <2>1, <2>3 DEF store, HistoryBounded
<1>5. CASE ApplyRollback
  <2>1. (StoreShape /\ StoreTruth)'
    BY <1>5, RestoreSound DEF ApplyRollback, ApplyFails, ApplyShape, Idle
  <2> QED
    BY <1>5, <2>1 DEF ApplyRollback, HistoryBounded
<1> QED
  BY <1>1, <1>2, <1>3, <1>4, <1>5 DEF DesignNext

(***************************************************************************)
(* The same store under the constants of the other parts of MCWorkspace.   *)
(***************************************************************************)
LEMMA LinksOperators ==
    /\ \A p : Links!Commit(p) <=> Commit(p)
    /\ \A p : Links!CommitGraph(p) <=> CommitGraph(p)
    /\ \A p : Links!Append1(p) <=> Append1(p)
    /\ \A name, except : Links!UniqueName(name, except) = UniqueName(name, except)
    /\ \A ps : Links!PersistReduction(ps) <=> PersistReduction(ps)
    /\ \A ps : Links!Persists(ps) <=> Persists(ps)
    /\ \A p : Links!WithProject(p) = WithProject(p)
    /\ \A ps, i : Links!RemoveAt(ps, i) = RemoveAt(ps, i)
    /\ \A ps, id : Links!Shown(ps, id) = Shown(ps, id)
    /\ \A ps, id : Links!ApplyRemoteState(ps, id) <=> ApplyRemoteState(ps, id)
    /\ \A doc, why : Links!MarkStale(doc, why) = MarkStale(doc, why)
    /\ \A docs, why : Links!MarkDocsStale(docs, why) = MarkDocsStale(docs, why)
    /\ \A doc, q : Links!StaleIfLinked(doc, q) = StaleIfLinked(doc, q)
    /\ \A id, name : Links!EmptyProject(id, name) = EmptyProject(id, name)
<1>1. \A p : Links!Parts(p) = Parts(p)
  BY Zenon DEF Links!Parts, Parts
<1>2. \A S : Links!Cardinality(S) = Cardinality(S)
  BY DEF Links!Cardinality, Cardinality
<1>3. ASSUME NEW ps PROVE Links!Bytes(ps) = Bytes(ps)
  <2>1. {{i} \X Links!Parts(ps[i]) : i \in DOMAIN ps} = {{i} \X Parts(ps[i]) : i \in DOMAIN ps}
    BY <1>1
  <2> QED
    BY <1>2, <2>1, Zenon DEF Links!Bytes, Bytes
<1>4. \A ps : Links!Fits(ps) <=> Fits(ps)
  BY <1>3 DEF Links!Fits, Fits
<1>5. \A ps : Links!Persists(ps) <=> Persists(ps)
  BY <1>4 DEF Links!Persists, Persists
<1>6. \A ps : Links!PersistReduction(ps) <=> PersistReduction(ps)
  BY <1>3, <1>4, <1>5 DEF Links!PersistReduction, PersistReduction, Links!Reduced, Reduced, Links!Normal, Normal,
     Links!Baseline, Baseline
<1>7. \A p : Links!WithProject(p) = WithProject(p)
  BY DEF Links!WithProject, WithProject
<1>8. \A doc, why : Links!MarkStale(doc, why) = MarkStale(doc, why)
  BY DEF Links!MarkStale, MarkStale
<1>9. \A docs, why : Links!MarkDocsStale(docs, why) = MarkDocsStale(docs, why)
  BY <1>8 DEF Links!MarkDocsStale, MarkDocsStale
<1>10. \A p : Links!Commit(p) <=> Commit(p)
  BY <1>5, <1>7 DEF Links!Commit, Commit
<1>11. \A p : Links!CommitGraph(p) <=> CommitGraph(p)
  BY <1>9, <1>10 DEF Links!CommitGraph, CommitGraph
<1>12. \A p : Links!Append1(p) <=> Append1(p)
  BY <1>5 DEF Links!Append1, Append1
<1>13. \A name, except : Links!UniqueName(name, except) = UniqueName(name, except)
  BY DEF Links!UniqueName, UniqueName, Links!NamesUsed, NamesUsed
<1>14. \A ps, i : Links!RemoveAt(ps, i) = RemoveAt(ps, i)
  BY DEF Links!RemoveAt, RemoveAt
<1>15. \A ps, id : Links!Shown(ps, id) = Shown(ps, id)
  BY DEF Links!Shown, Shown
<1>16. \A ps, id : Links!ApplyRemoteState(ps, id) <=> ApplyRemoteState(ps, id)
  BY <1>4, <1>15 DEF Links!ApplyRemoteState, ApplyRemoteState
<1>17. \A id, name : Links!EmptyProject(id, name) = EmptyProject(id, name)
  BY DEF Links!EmptyProject, EmptyProject
<1>18. \A doc, q : Links!StaleIfLinked(doc, q) = StaleIfLinked(doc, q)
  BY <1>8 DEF Links!StaleIfLinked, StaleIfLinked
<1> QED
  BY <1>5, <1>6, <1>7, <1>8, <1>9, <1>10, <1>11, <1>12, <1>13, <1>14, <1>15, <1>16, <1>17, <1>18

LEMMA LinksInitSound == Links!Init => StoreShape /\ StoreTruth /\ ProjectIsListed
<1> SUFFICES ASSUME Links!Init PROVE StoreShape /\ StoreTruth /\ ProjectIsListed
  OBVIOUS
<1>1. PICK n \in Nat \ {0} : projects = Links!Fresh(n)
  BY StoreAssumption DEF Links!Init
<1>2. projects = Fresh(n) /\ project = projects[1] /\ active = 1
  BY <1>1, LinksOperators DEF Links!Init, Links!Fresh, Fresh, Links!Untitled, Untitled
<1> QED
  BY <1>2, FreshSound

LEMMA LinksMutationSound ==
    ASSUME StoreShape, Links!Mutation
    PROVE  StoreKept
<1>1. ASSUME NEW c, Links!AddComponent(c) PROVE StoreKept
  BY <1>1, LinksOperators, AddComponentSound DEF Links!AddComponent, AddComponent
<1>2. ASSUME NEW c, Links!RemoveComponent(c) PROVE StoreKept
  BY <1>2, LinksOperators, RemoveComponentSound
     DEF Links!RemoveComponent, RemoveComponent, Links!RestrictDomain, RestrictDomain, Links!Restrict, Restrict
<1>3. ASSUME NEW w, Links!ConnectPorts(w) \/ Links!DisconnectPorts(w) PROVE StoreKept
  BY <1>3, LinksOperators, WiringSound DEF Links!ConnectPorts, ConnectPorts, Links!DisconnectPorts, DisconnectPorts
<1>4. ASSUME Links!UpdateComponentProps \/ Links!AutoLayout PROVE StoreKept
  BY <1>4, LinksOperators, UpdatePropsSound, AutoLayoutSound
     DEF Links!UpdateComponentProps, UpdateComponentProps, Links!AutoLayout, AutoLayout
<1>5. ASSUME Links!Clear PROVE StoreKept
  BY <1>5, LinksOperators, ClearSound DEF Links!Clear, Clear
<1>6. ASSUME NEW comps, NEW name, Links!LoadProject(comps, name) PROVE StoreKept
  BY <1>6, LinksOperators, LoadProjectSound DEF Links!LoadProject, LoadProject
<1>7. ASSUME NEW q, NEW body, NEW expected, Links!WriteBehaviorPlan(q, body, expected) PROVE StoreKept
  <2> DEFINE plan == [rev |-> IF expected = None THEN 1 ELSE expected + 1, body |-> body]
             p(docs) == [project EXCEPT
                            !.plans = [x0 \in DOMAIN @ \cup {q} |-> IF x0 = q THEN plan ELSE @[x0]],
                            !.docs = docs]
  <2>1. [b \in DOMAIN project.docs |-> Links!StaleIfLinked(project.docs[b], q)]
            = [b \in DOMAIN project.docs |-> StaleIfLinked(project.docs[b], q)]
    BY LinksOperators
  <2>2. Links!Commit(p([b \in DOMAIN project.docs |-> Links!StaleIfLinked(project.docs[b], q)])) /\ expected = Revision(q)
    BY <1>7 DEF Links!WriteBehaviorPlan, Links!Revision, Revision
  <2>3. WriteBehaviorPlan(q, body, expected)
    BY <2>1, <2>2, LinksOperators DEF WriteBehaviorPlan
  <2> QED
    BY <2>3, WriteBehaviorPlanSound
<1>8. ASSUME NEW b, NEW body, NEW link, Links!WriteCodeDocument(b, body, link) PROVE StoreKept
  BY <1>8, LinksOperators, WriteCodeDocumentSound
     DEF Links!WriteCodeDocument, WriteCodeDocument, Links!Link, Link, Links!PlanHash, PlanHash,
         Links!Fingerprint, Fingerprint, Links!Unlinked, Unlinked
<1>9. ASSUME NEW name, Links!CreateProject(name) PROVE StoreKept
  BY <1>9, LinksOperators, CreateProjectSound DEF Links!CreateProject, CreateProject, Links!NewId, NewId
<1>10. ASSUME NEW i \in DOMAIN projects, Links!DuplicateProject(i) PROVE StoreKept
  BY <1>10, LinksOperators, DuplicateProjectSound
     DEF Links!DuplicateProject, DuplicateProject, Links!NewId, NewId, Links!Copy, Copy
<1>11. ASSUME NEW i \in DOMAIN projects, NEW name, Links!ImportProject(i, name) PROVE StoreKept
  BY <1>11, LinksOperators, ImportProjectSound DEF Links!ImportProject, ImportProject, Links!NewId, NewId
<1>12. ASSUME NEW i \in DOMAIN projects, Links!SwitchProject(i) PROVE StoreKept
  BY <1>12, LinksOperators, SwitchProjectSound DEF Links!SwitchProject, SwitchProject
<1>13. ASSUME NEW i \in DOMAIN projects, Links!DeleteProject(i) PROVE StoreKept
  BY <1>13, LinksOperators, DeleteProjectSound DEF Links!DeleteProject, DeleteProject
<1>14. ASSUME NEW i \in DOMAIN projects, NEW name, Links!RenameProject(i, name) PROVE StoreKept
  BY <1>14, LinksOperators, RenameProjectSound DEF Links!RenameProject, RenameProject
<1>15. ASSUME Links!RemoteUpdate PROVE StoreKept
  BY <1>15, LinksOperators, RemoteUpdateSound DEF Links!RemoteUpdate, RemoteUpdate
<1> QED
  BY <1>1, <1>2, <1>3, <1>4, <1>5, <1>6, <1>7, <1>8, <1>9, <1>10, <1>11, <1>12, <1>13, <1>14, <1>15 DEF Links!Mutation

\* In every reachable state of the store under the user's edits and other tabs'
\* broadcasts, its projects have their shape, no document of them claims a link
\* that does not hold, and the active project is the entry of the list.
THEOREM LinksSound == MCSpec => [](part = "links" => StoreShape /\ StoreTruth /\ ProjectIsListed)
<1> DEFINE I == part = "links" => StoreShape /\ StoreTruth /\ ProjectIsListed
<1>1. MCInit => I
  BY LinksInitSound DEF MCInit
<1>2. I /\ [MCNext]_mcVars => I'
  <2>1. CASE MCNext
    BY <2>1, LinksMutationSound DEF MCNext, Links!Next, StoreKept
  <2>2. CASE UNCHANGED mcVars
    BY <2>2 DEF mcVars, vars, store, StoreShape, StoreTruth, ProjectIsListed
  <2> QED
    BY <2>1, <2>2
<1> QED
  BY <1>1, <1>2, PTL DEF MCSpec

\* The same of the design tools and the user together: no list, undo or redo stack
\* or apply under way (designTools.ts) holds a project with a link that is untrue,
\* and an apply whose plan is still to be written remembers the graph it has built.
THEOREM DesignSound == MCSpec => [](part = "design" => DesignInv)
<1> DEFINE I == part = "design" => DesignInv
<1>1. MCInit => I
  BY DesignStarts DEF MCInit
<1>2. I /\ [MCNext]_mcVars => I'
  <2>1. CASE MCNext
    BY <2>1, DesignSteps DEF MCNext
  <2>2. CASE UNCHANGED mcVars
    BY <2>2 DEF mcVars, vars, store, designOnly, DesignInv, StoreShape, StoreTruth, HistoryBounded, Designed
  <2> QED
    BY <2>1, <2>2
<1> QED
  BY <1>1, <1>2, PTL DEF MCSpec

\* The history ends with the snapshot just recorded.
LEMMA RecordIsLast ==
    ASSUME Snapshots(undo), NEW before, Record(before)
    PROVE  undo' # <<>> /\ undo'[Len(undo')] = before /\ redo' = <<>>
<1> DEFINE S == Entries(undo) \cup {before}
           all == Append(undo, before)
<1>1. undo \in Seq(S) /\ before \in S /\ Len(undo) \in Nat
  BY ListLength DEF Snapshots, IsList, Entries
<1>2. all \in Seq(S) /\ Len(all) = Len(undo) + 1 /\ all[Len(all)] = before
  <2> HIDE DEF S
  <2> QED
    BY <1>1, AppendProperties
<1>3. Len(undo) > 0 => Tail(all) \in Seq(S) /\ Len(Tail(all)) = Len(undo) /\ Tail(all)[Len(undo)] = before
  <2> HIDE DEF S, all
  <2> QED
    BY <1>1, <1>2
<1>4. undo' = IF Len(all) > MaxHistory THEN Tail(all) ELSE all
  BY DEF Record
<1>5. Len(all) > MaxHistory => Len(undo) > 0
  BY <1>1, <1>2, DesignAssumption
<1> HIDE DEF all
<1>6. undo' # <<>> /\ undo'[Len(undo')] = before
  BY <1>1, <1>2, <1>3, <1>4, <1>5, EmptySeq
<1> QED
  BY <1>6 DEF Record

\* design.apply is one transaction, whatever the user and other tools do at its awaits
\* and whichever of its steps fails: it leaves the project as it was, or all of the
\* design with one undo to before it (designTools.ts, design.apply).
THEOREM ProposalsApplyWhole == MCSpec => ProposalAppliesWhole
<1> DEFINE Ends == apply # Idle /\ apply' = Idle
           Restored == project' = apply.before /\ projects' = WithProject(apply.before) /\ UNCHANGED <<undo, redo>>
           Completed == /\ undo' # <<>> /\ undo'[Len(undo')] = apply.before /\ redo' = <<>>
                        /\ apply.alone => Designed(project')
<1>1. (part = "design" => DesignInv) /\ [MCNext]_mcVars => [Ends => Restored \/ Completed]_allVars
  <2> SUFFICES ASSUME part = "design" => DesignInv, MCNext, Ends PROVE Restored \/ Completed
    BY DEF mcVars, designOnly, allVars, tools
  <2>1. CASE part # "design"
    BY <2>1 DEF MCNext, designOnly
  <2>2. CASE part = "design"
    <3>1. DesignNext /\ DesignInv
      BY <2>2 DEF MCNext
    <3>2. CASE ApplyRollback
      BY <3>2 DEF ApplyRollback, RestoreSnapshot
    <3>3. CASE ApplyDone
      <4>1. undo' # <<>> /\ undo'[Len(undo')] = apply.before /\ redo' = <<>>
        BY <3>1, <3>3, RecordIsLast DEF ApplyDone, DesignInv
      <4>2. apply.alone => Designed(project')
        BY <3>1, <3>3 DEF ApplyDone, DesignInv, Undisturbed, Designed, store
      <4> QED
        BY <4>1, <4>2
    <3>4. CASE ~ApplyRollback /\ ~ApplyDone
      <4>1. Meanwhile => apply' # Idle
        BY <3>1 DEF Meanwhile, DesignInv, ApplyShape, Idle
      <4> QED
        BY <3>1, <3>4, <4>1
           DEF DesignNext, Edit, UserEdit, Undo, Redo, GraphTool, LayoutTool, ArtifactWrite, Apply, ApplyPlan,
               ReloadForCurrentUser, Propose, Discard, ArtifactsDone, ApplyFlushed, DesignInv, ApplyShape, Idle
    <3> QED
      BY <3>2, <3>3, <3>4
  <2> QED
    BY <2>1, <2>2
<1> QED
  BY <1>1, DesignSound, PTL DEF MCSpec, ProposalAppliesWhole, AppliesWhole

\* A document that says "linked" is, after any edits of the user and of the tools,
\* undone, redone and rolled back in any order.
THEOREM LinksStayTrue == MCSpec => []LinksStayTruthful
<1>1. (part = "links" => StoreShape /\ StoreTruth /\ ProjectIsListed) /\ (part = "design" => DesignInv) => LinksStayTruthful
  BY TruthOfAll DEF LinksStayTruthful, DesignInv
<1> QED
  BY <1>1, LinksSound, DesignSound, PTL

(***************************************************************************)
(* The commands that write plans and sources (PlanCommands).  What the     *)
(* room's disk lacks of a hydrated store is waiting in the saver or being  *)
(* saved, unless the last save failed.                                     *)
(***************************************************************************)
SaverInv ==
    /\ DOMAIN gate = {"lease", "hydrated"}
    /\ ~gate.hydrated => unsaved = {} /\ saving = {}
    /\ gate.hydrated =>
           /\ unsaved \in {{}, {projects}}
           /\ unsaved = {} => saving \in {{}, {projects}}
           /\ unsaved = {} /\ saving = {} /\ ~saveError => disk = projects

PlansInv ==
    /\ StoreShape /\ ProjectIsListed /\ SaverInv
    /\ Plans!DurableIsOnDisk /\ Plans!ReadIsTruthful /\ Plans!NoLostPlan

LEMMA PlansOperators ==
    /\ \A p : Plans!Commit(p) <=> Commit(p)
    /\ \A p : Plans!CommitGraph(p) <=> CommitGraph(p)
    /\ \A p : Plans!Append1(p) <=> Append1(p)
    /\ \A name, except : Plans!UniqueName(name, except) = UniqueName(name, except)
    /\ \A ps : Plans!PersistReduction(ps) <=> PersistReduction(ps)
    /\ \A ps : Plans!Persists(ps) <=> Persists(ps)
    /\ \A p : Plans!WithProject(p) = WithProject(p)
    /\ \A doc, why : Plans!MarkStale(doc, why) = MarkStale(doc, why)
    /\ \A doc, q : Plans!StaleIfLinked(doc, q) = StaleIfLinked(doc, q)
    /\ \A id, name : Plans!EmptyProject(id, name) = EmptyProject(id, name)
<1>1. \A p : Plans!Parts(p) = Parts(p)
  BY Zenon DEF Plans!Parts, Parts
<1>2. \A S : Plans!Cardinality(S) = Cardinality(S)
  BY DEF Plans!Cardinality, Cardinality
<1>3. ASSUME NEW ps PROVE Plans!Bytes(ps) = Bytes(ps)
  <2>1. {{i} \X Plans!Parts(ps[i]) : i \in DOMAIN ps} = {{i} \X Parts(ps[i]) : i \in DOMAIN ps}
    BY <1>1
  <2> QED
    BY <1>2, <2>1, Zenon DEF Plans!Bytes, Bytes
<1>4. \A ps : Plans!Fits(ps) <=> Fits(ps)
  BY <1>3 DEF Plans!Fits, Fits
<1>5. \A ps : Plans!Persists(ps) <=> Persists(ps)
  BY <1>4 DEF Plans!Persists, Persists
<1>6. \A ps : Plans!PersistReduction(ps) <=> PersistReduction(ps)
  BY <1>3, <1>4, <1>5 DEF Plans!PersistReduction, PersistReduction, Plans!Reduced, Reduced, Plans!Normal, Normal,
     Plans!Baseline, Baseline
<1>7. \A p : Plans!WithProject(p) = WithProject(p)
  BY DEF Plans!WithProject, WithProject
<1>8. \A doc, why : Plans!MarkStale(doc, why) = MarkStale(doc, why)
  BY DEF Plans!MarkStale, MarkStale
<1>9. \A docs, why : Plans!MarkDocsStale(docs, why) = MarkDocsStale(docs, why)
  BY <1>8 DEF Plans!MarkDocsStale, MarkDocsStale
<1>10. \A p : Plans!Commit(p) <=> Commit(p)
  BY <1>5, <1>7 DEF Plans!Commit, Commit
<1>11. \A p : Plans!CommitGraph(p) <=> CommitGraph(p)
  BY <1>9, <1>10 DEF Plans!CommitGraph, CommitGraph
<1>12. \A p : Plans!Append1(p) <=> Append1(p)
  BY <1>5 DEF Plans!Append1, Append1
<1>13. \A name, except : Plans!UniqueName(name, except) = UniqueName(name, except)
  BY DEF Plans!UniqueName, UniqueName, Plans!NamesUsed, NamesUsed
<1>14. \A doc, q : Plans!StaleIfLinked(doc, q) = StaleIfLinked(doc, q)
  BY <1>8 DEF Plans!StaleIfLinked, StaleIfLinked
<1>15. \A id, name : Plans!EmptyProject(id, name) = EmptyProject(id, name)
  BY DEF Plans!EmptyProject, EmptyProject
<1> QED
  BY <1>5, <1>6, <1>7, <1>8, <1>10, <1>11, <1>12, <1>13, <1>14, <1>15

LEMMA PlansWriteIsWrite ==
    ASSUME NEW q, NEW body, NEW expected, Plans!WriteBehaviorPlan(q, body, expected)
    PROVE  WriteBehaviorPlan(q, body, expected)
<1> DEFINE plan == [rev |-> IF expected = None THEN 1 ELSE expected + 1, body |-> body]
           p(docs) == [project EXCEPT
                          !.plans = [x0 \in DOMAIN @ \cup {q} |-> IF x0 = q THEN plan ELSE @[x0]],
                          !.docs = docs]
<1>1. [b \in DOMAIN project.docs |-> Plans!StaleIfLinked(project.docs[b], q)]
          = [b \in DOMAIN project.docs |-> StaleIfLinked(project.docs[b], q)]
  BY PlansOperators
<1>2. Plans!Commit(p([b \in DOMAIN project.docs |-> Plans!StaleIfLinked(project.docs[b], q)])) /\ expected = Revision(q)
  BY DEF Plans!WriteBehaviorPlan, Plans!Revision, Revision
<1> QED
  BY <1>1, <1>2, PlansOperators DEF WriteBehaviorPlan

LEMMA PlanStarts == Plans!PlanInit => PlansInv
<1> SUFFICES ASSUME Plans!PlanInit PROVE PlansInv
  OBVIOUS
<1>1. SaverInv
  BY DEF Plans!PlanInit, SaverInv
<1>2. Plans!DurableIsOnDisk /\ Plans!ReadIsTruthful /\ Plans!NoLostPlan
  BY DEF Plans!PlanInit, Plans!DurableIsOnDisk, Plans!ReadIsTruthful, Plans!NoLostPlan
<1>3. CASE Plans!Init
  <2>1. PICK n \in Nat \ {0} : projects = Plans!Fresh(n)
    BY <1>3, StoreAssumption DEF Plans!Init
  <2>2. projects = Fresh(n) /\ project = projects[1] /\ active = 1
    BY <1>3, <2>1, PlansOperators DEF Plans!Init, Plans!Fresh, Fresh, Plans!Untitled, Untitled
  <2> QED
    BY <1>1, <1>2, <2>2, FreshSound DEF PlansInv
<1>4. ASSUME NEW b, NEW q, NEW body, projects \in {<<Plans!ClaimsLink(b, q, body)>>, <<Plans!HasPlan(q, body)>>},
             project = projects[1], active = 1
      PROVE  PlansInv
  <2> DEFINE h == Plans!HasPlan(q, body)
             c == Plans!ClaimsLink(b, q, body)
  <2>1. DOMAIN h = Fields /\ h.id = 1 /\ DOMAIN h.docs = {}
    BY DEF Plans!HasPlan, Plans!EmptyProject, Fields
  <2>2. DOMAIN c = Fields /\ c.id = 1 /\ c.docs = [k \in {b} |-> [rev |-> 1, body |-> body, link |-> Plans!Link(h, q, body)]]
    BY <2>1 DEF Plans!ClaimsLink, Fields
  <2> HIDE DEF h, c
  <2>3. Shaped(h)
    BY <2>1 DEF Shaped
  <2>4. Shaped(c)
    BY <2>2 DEF Shaped, ShapedDoc, Plans!Link
  <2>5. ASSUME NEW p, projects = <<p>>, Shaped(p), p.id = 1 PROVE StoreShape /\ ProjectIsListed
    <3>1. Entries(<<p>>) = {p} /\ <<p>> \in Seq({p}) /\ project = p
      BY <1>4, <2>5 DEF Entries
    <3> QED
      BY <1>4, <2>5, <3>1 DEF StoreShape, ProjectIsListed, IsList
  <2>6. StoreShape /\ ProjectIsListed
    BY <1>4, <2>1, <2>2, <2>3, <2>4, <2>5 DEF h, c
  <2> QED
    BY <1>1, <1>2, <2>6 DEF PlansInv
<1> QED
  BY <1>3, <1>4 DEF Plans!PlanInit

\* an edit of a hydrated store, with or without a change
LEMMA EditIsScheduled ==
    ASSUME SaverInv, gate.hydrated, Plans!ScheduleSave, UNCHANGED <<gate, saving, saveError, disk>>
    PROVE  SaverInv'
BY DEF SaverInv, Plans!ScheduleSave

LEMMA NothingAnswered ==
    ASSUME answered' = None
    PROVE  (Plans!DurableIsOnDisk /\ Plans!ReadIsTruthful /\ Plans!NoLostPlan)'
BY DEF Plans!DurableIsOnDisk, Plans!ReadIsTruthful, Plans!NoLostPlan

LEMMA UserMutationSound ==
    ASSUME PlansInv, Plans!UserMutation
    PROVE  PlansInv'
<1> USE DEF PlansInv
<1>1. StoreKept
  <2>1. ASSUME NEW c, Plans!AddComponent(c) PROVE StoreKept
    BY <2>1, PlansOperators, AddComponentSound DEF Plans!AddComponent, AddComponent
  <2>2. ASSUME Plans!UpdateComponentProps PROVE StoreKept
    BY <2>2, PlansOperators, UpdatePropsSound DEF Plans!UpdateComponentProps, UpdateComponentProps
  <2>3. ASSUME Plans!Clear PROVE StoreKept
    BY <2>3, PlansOperators, ClearSound DEF Plans!Clear, Clear
  <2>4. ASSUME NEW i \in DOMAIN projects, Plans!SwitchProject(i) PROVE StoreKept
    BY <2>4, PlansOperators, SwitchProjectSound DEF Plans!SwitchProject, SwitchProject
  <2>5. ASSUME NEW name, Plans!CreateProject(name) PROVE StoreKept
    BY <2>5, PlansOperators, CreateProjectSound DEF Plans!CreateProject, CreateProject, Plans!NewId, NewId
  <2> QED
    BY <2>1, <2>2, <2>3, <2>4, <2>5 DEF Plans!UserMutation
<1>2. SaverInv'
  BY EditIsScheduled DEF Plans!UserMutation
<1>3. answered' = None
  BY DEF Plans!UserMutation
<1> QED
  BY <1>1, <1>2, <1>3, NothingAnswered DEF StoreKept

LEMMA WritePlanSound ==
    ASSUME PlansInv, NEW s, Plans!WritePlan(s)
    PROVE  PlansInv'
<1> USE DEF PlansInv
<1> DEFINE c == cmds[s]
<1>1. StoreKept
  BY PlansWriteIsWrite, WriteBehaviorPlanSound DEF Plans!WritePlan
<1>2. gate.hydrated /\ Plans!PlanOf(project, c.plan) = c.seen
  BY DEF Plans!WritePlan, Plans!WriteAllowed, Plans!LeaseHolds
<1>3. SaverInv'
  BY <1>2, EditIsScheduled DEF Plans!WritePlan
<1>4. /\ answered' # None => answered'.status = "replaced" /\ answered'.was = answered'.seen
  BY <1>2 DEF Plans!WritePlan
<1>5. (Plans!DurableIsOnDisk /\ Plans!ReadIsTruthful /\ Plans!NoLostPlan)'
  BY <1>4 DEF Plans!DurableIsOnDisk, Plans!ReadIsTruthful, Plans!NoLostPlan
<1> QED
  BY <1>1, <1>3, <1>5 DEF StoreKept

LEMMA WriteCodeSound ==
    ASSUME PlansInv, NEW s, NEW b, NEW body, NEW expected, NEW link, Plans!WriteCode(s, b, body, expected, link)
    PROVE  PlansInv'
<1> USE DEF PlansInv
<1>1. WriteCodeDocument(b, body, link)
  BY PlansOperators DEF Plans!WriteCode, Plans!WriteCodeDocument, WriteCodeDocument, Plans!Link, Link, Plans!PlanHash, PlanHash,
     Plans!Fingerprint, Fingerprint, Plans!Unlinked, Unlinked
<1>2. StoreKept
  BY <1>1, WriteCodeDocumentSound
<1>3. SaverInv' /\ answered' = None
  BY EditIsScheduled DEF Plans!WriteCode
<1> QED
  BY <1>2, <1>3, NothingAnswered DEF StoreKept

LEMMA ChangeAccountSound ==
    ASSUME PlansInv, NEW same, Plans!ChangeAccount(same)
    PROVE  PlansInv'
<1> USE DEF PlansInv
<1>1. /\ gate' = [lease |-> gate.lease + 1, hydrated |-> FALSE]
      /\ unsaved' = {} /\ saving' = {} /\ answered' = None
  BY DEF Plans!ChangeAccount
<1>2. SaverInv'
  BY <1>1 DEF SaverInv
<1>3. (StoreShape /\ ProjectIsListed)'
  <2>1. CASE same
    BY <2>1 DEF Plans!ChangeAccount, Plans!store, StoreShape, ProjectIsListed
  <2>2. CASE ~same
    <3> DEFINE p == EmptyProject(NewId, <<Untitled>>)
    <3>1. projects' = <<p>> /\ project' = p /\ active' = NewId
      BY <2>2, PlansOperators DEF Plans!ChangeAccount, Plans!NewId, NewId, Plans!Untitled, Untitled
    <3>2. Shaped(p) /\ p.id = NewId
      BY EmptyIsSound
    <3> HIDE DEF p
    <3>3. Entries(<<p>>) = {p} /\ <<p>> \in Seq({p})
      BY DEF Entries
    <3> QED
      BY <3>1, <3>2, <3>3 DEF StoreShape, ProjectIsListed, IsList
  <2> QED
    BY <2>1, <2>2
<1> QED
  BY <1>1, <1>2, <1>3, NothingAnswered

LEMMA SaverSound ==
    ASSUME PlansInv, Plans!StartSave \/ Plans!Hydrate \/ \E ok \in BOOLEAN : Plans!EndSave(ok)
    PROVE  PlansInv'
<1> USE DEF PlansInv
<1>1. UNCHANGED store /\ answered' = None
  BY DEF Plans!StartSave, Plans!Hydrate, Plans!EndSave, Plans!store, store
<1>2. (StoreShape /\ ProjectIsListed)'
  BY <1>1 DEF store, StoreShape, ProjectIsListed
<1>3. SaverInv'
  <2>1. CASE Plans!StartSave
    BY <1>1, <2>1 DEF Plans!StartSave, SaverInv, store
  <2>2. CASE Plans!Hydrate
    <3>1. gate' = [gate EXCEPT !.hydrated = TRUE] /\ ~gate.hydrated /\ saving' = saving
      BY <2>2 DEF Plans!Hydrate
    <3>2. DOMAIN gate' = {"lease", "hydrated"} /\ gate'.hydrated
      BY <3>1 DEF SaverInv
    <3> QED
      BY <1>1, <2>2, <3>1, <3>2 DEF Plans!Hydrate, SaverInv, store
  <2>3. ASSUME NEW ok \in BOOLEAN, Plans!EndSave(ok) PROVE SaverInv'
    BY <1>1, <2>3 DEF Plans!EndSave, SaverInv, store
  <2> QED
    BY <2>1, <2>2, <2>3
<1> QED
  BY <1>1, <1>2, <1>3, NothingAnswered

\* the commands' own steps change neither the store nor the saver
LEMMA CommandSound ==
    ASSUME PlansInv, UNCHANGED <<store, gate, unsaved, saving, saveError, disk>>,
           (Plans!DurableIsOnDisk /\ Plans!ReadIsTruthful /\ Plans!NoLostPlan)'
    PROVE  PlansInv'
BY DEF PlansInv, StoreShape, ProjectIsListed, SaverInv, store

\* the answer of a write: what is settled is on disk
LEMMA AnswerIsDurable ==
    ASSUME PlansInv, NEW s, Plans!AnswerWrite(s)
    PROVE  (Plans!DurableIsOnDisk /\ Plans!ReadIsTruthful /\ Plans!NoLostPlan)'
<1> DEFINE c == cmds[s]
<1>1. /\ answered' = [status |-> Plans!DurableStatus(c), cmd |-> c]
      /\ gate.lease = c.lease => unsaved = {} /\ saving = {}
      /\ gate' = gate /\ disk' = disk
  BY DEF Plans!AnswerWrite
<1>2. Plans!DurableStatus(c) \in {"flushed", "failed", "superseded"}
  BY DEF Plans!DurableStatus
<1>3. ASSUME Plans!DurableStatus(c) = "flushed" PROVE Plans!Holds(disk, c) /\ c.lease = gate.lease
  <2>1. gate.hydrated /\ gate.lease = c.lease /\ Plans!Holds(<<project>>, c) /\ ~saveError
    BY <1>3 DEF Plans!DurableStatus, Plans!LeaseHolds
  <2>2. disk = projects
    BY <1>1, <2>1 DEF PlansInv, SaverInv
  <2>3. PICK i \in DOMAIN projects : projects[i] = project
    BY DEF PlansInv, ProjectIsListed
  <2>4. Plans!Holds(projects, c)
    BY <2>1, <2>3 DEF Plans!Holds
  <2> QED
    BY <2>1, <2>2, <2>4
<1> HIDE DEF c
<1>4. Plans!DurableIsOnDisk'
  <2> SUFFICES ASSUME Plans!DurableStatus(c) = "flushed" PROVE Plans!Holds(disk', c) /\ c.lease = gate'.lease
    BY <1>1 DEF Plans!DurableIsOnDisk, Plans!Holds
  <2> QED
    BY <1>1, <1>3
<1>5. (Plans!ReadIsTruthful /\ Plans!NoLostPlan)'
  BY <1>1, <1>2 DEF Plans!ReadIsTruthful, Plans!NoLostPlan
<1> QED
  BY <1>4, <1>5

LEMMA ReadIsTrue ==
    ASSUME PlansInv, NEW b, Plans!ReadCode(b)
    PROVE  (Plans!DurableIsOnDisk /\ Plans!ReadIsTruthful /\ Plans!NoLostPlan)'
<1> DEFINE doc == project.docs[b]
           link == Plans!ReconciledLink(doc, project)
<1>1. answered' = [status |-> "read", doc |-> doc, link |-> link] /\ project' = project /\ b \in DOMAIN project.docs
  BY DEF Plans!ReadCode, Plans!store
<1>2. ShapedDoc(doc)
  BY <1>1 DEF PlansInv, StoreShape, Shaped
<1>3. ASSUME link.status = "linked"
      PROVE  /\ link.content = doc.body /\ link.graph = Plans!Fingerprint(project)
             /\ link.plan \in DOMAIN project.plans
             /\ link.planHash = Plans!PlanHash(project, link.plan)
  BY <1>2, <1>3 DEF Plans!ReconciledLink, ShapedDoc
<1> HIDE DEF doc, link
<1>4. Plans!ReadIsTruthful'
  BY <1>1, <1>3 DEF Plans!ReadIsTruthful, Plans!Fingerprint, Plans!PlanHash
<1>5. (Plans!DurableIsOnDisk /\ Plans!NoLostPlan)'
  BY <1>1 DEF Plans!DurableIsOnDisk, Plans!NoLostPlan
<1> QED
  BY <1>4, <1>5

LEMMA PlanSteps == PlansInv /\ Plans!PlanNext => PlansInv'
<1> SUFFICES ASSUME PlansInv, Plans!PlanNext PROVE PlansInv'
  OBVIOUS
<1>1. CASE Plans!PlanStep
  BY <1>1, UserMutationSound, WritePlanSound, WriteCodeSound, ChangeAccountSound DEF Plans!PlanStep
<1>2. CASE Plans!StartSave \/ Plans!Hydrate \/ \E ok \in BOOLEAN : Plans!EndSave(ok)
  BY <1>2, SaverSound
<1>3. ASSUME NEW s, Plans!RefuseWrite(s) PROVE PlansInv'
  <2>1. UNCHANGED <<store, gate, unsaved, saving, saveError, disk>> /\ answered' = [status |-> "refused"]
    BY <1>3 DEF Plans!RefuseWrite, Plans!store, store
  <2>2. (Plans!DurableIsOnDisk /\ Plans!ReadIsTruthful /\ Plans!NoLostPlan)'
    BY <2>1 DEF Plans!DurableIsOnDisk, Plans!ReadIsTruthful, Plans!NoLostPlan
  <2> QED
    BY <2>1, <2>2, CommandSound
<1>4. ASSUME NEW s, Plans!AnswerWrite(s) PROVE PlansInv'
  <2>1. UNCHANGED <<store, gate, unsaved, saving, saveError, disk>>
    BY <1>4 DEF Plans!AnswerWrite, Plans!store, store
  <2> QED
    BY <1>4, <2>1, AnswerIsDurable, CommandSound
<1>5. ASSUME NEW s, NEW q, NEW body, NEW expected, Plans!PrepareWrite(s, q, body, expected) PROVE PlansInv'
  <2>1. UNCHANGED <<store, gate, unsaved, saving, saveError, disk>> /\ answered' = None
    BY <1>5 DEF Plans!PrepareWrite, Plans!store, store
  <2> QED
    BY <2>1, NothingAnswered, CommandSound
<1>6. ASSUME NEW b, Plans!ReadCode(b) PROVE PlansInv'
  <2>1. UNCHANGED <<store, gate, unsaved, saving, saveError, disk>>
    BY <1>6 DEF Plans!ReadCode, Plans!store, store
  <2> QED
    BY <1>6, <2>1, ReadIsTrue, CommandSound
<1> QED
  BY <1>1, <1>2, <1>3, <1>4, <1>5, <1>6 DEF Plans!PlanNext

\* In every reachable state of the commands, whatever the saver, the account and the
\* user do between their steps.
THEOREM PlansSound == MCSpec => [](part = "plans" => PlansInv)
<1> DEFINE I == part = "plans" => PlansInv
<1>1. MCInit => I
  BY PlanStarts DEF MCInit
<1>2. I /\ [MCNext]_mcVars => I'
  <2>1. CASE MCNext
    BY <2>1, PlanSteps DEF MCNext
  <2>2. CASE UNCHANGED mcVars
    <3>1. UNCHANGED <<part, store, cmds, gate, unsaved, saving, saveError, disk, answered>>
      BY <2>2 DEF mcVars, planOnly, vars, store
    <3>2. PlansInv => (Plans!DurableIsOnDisk /\ Plans!ReadIsTruthful /\ Plans!NoLostPlan)'
      BY <3>1 DEF PlansInv, Plans!DurableIsOnDisk, Plans!Holds, Plans!PlanOf, Plans!ReadIsTruthful, Plans!Fingerprint,
                  Plans!PlanHash, Plans!NoLostPlan, store
    <3>3. PlansInv => PlansInv'
      BY <3>1, <3>2, CommandSound
    <3> QED
      BY <3>1, <3>3
  <2> QED
    BY <2>1, <2>2
<1> QED
  BY <1>1, <1>2, PTL DEF MCSpec

\* A write takes back no other: a plan is replaced only by a caller who had read it,
\* and a layout preference only by one that sets it (behaviorCommands.ts,
\* writeBehaviorPlan; useWorkspaceStore.ts, persist).
THEOREM NoUpdateIsLost == MCSpec => []NoLostUpdate
<1>1. (part = "plans" => PlansInv) /\ (part = "layout" => LayoutInv) => NoLostUpdate
  BY LayoutIsAgreed DEF NoLostUpdate, PlansInv
<1> QED
  BY <1>1, PlansSound, PreferencesSound, PTL

\* What a command, or a load of a compiler's asset, answers is true (behaviorCommands.ts,
\* durableWriteData and reconciledCodeDocument; browser-toolchain, cache.ts).
THEOREM AnswersStayTrue == MCSpec => []AnswersAreTrue
<1>1. (part = "plans" => PlansInv) /\ (part = "assets" => CacheInv) => AnswersAreTrue
  BY DEF AnswersAreTrue, PlansInv, CacheInv
<1> QED
  BY <1>1, PlansSound, AssetsSound, PTL
=============================================================================
