------------------------------- MODULE PageProofs -------------------------------
(***************************************************************************)
(* Proofs about the parts of MCPage, for any number of accounts, projects, *)
(* parts, listings, calls and tabs.                                        *)
(***************************************************************************)
EXTENDS MCPage, SequenceTheorems, FiniteSetTheorems, TLAPS

(***************************************************************************)
(* The studio.  An armed button is mounted for what it was armed for, in   *)
(* the account that armed it; and in the project that was open then,       *)
(* unless a blueprint moved it.                                            *)
(***************************************************************************)
Fits(b, r) ==
    /\ Studio!Shown /\ r.account = account
    /\ b \in Studio!Confirming =>
          Studio!TargetKey(b) # None /\ r.key = Studio!TargetKey(b) /\ (r.project = current \/ r.moved)
    /\ b \notin Studio!Confirming => r.key = r.project
AllFit(a) == \A b \in Studio!Buttons : a[b] # None => Fits(b, a[b])
StudioInv == DOMAIN primed = Studio!Buttons /\ AllFit(primed) /\ Studio!ConfirmedAsShown

\* a render keeps of the armed buttons a those that are still for the same
LEMMA RendersSound ==
    ASSUME NEW f, NEW p, NEW m, NEW a, AllFit(a), Studio!Renders(f, p, m, a),
           account' = account \/ ~ready',
           \/ current' = current \/ selected' = None \/ ~ready
           \/ \A b \in Studio!Buttons : a[b] # None => a[b].moved
    PROVE  AllFit(primed)'
<1> SUFFICES ASSUME NEW b \in Studio!Buttons, primed'[b] # None PROVE Fits(b, primed[b])'
  BY DEF AllFit
<1>1. primed'[b] = a[b] /\ a[b] # None /\ Studio!Kept(b)
  BY DEF Studio!Renders
<1>2. Fits(b, a[b])
  BY <1>1 DEF AllFit
<1>3. ready /\ account' = account /\ Studio!Shown'
  BY <1>1 DEF Studio!Kept, Studio!Shown
<1>4. CASE b \notin Studio!Confirming
  BY <1>1, <1>2, <1>3, <1>4 DEF Fits
<1>5. CASE b \in Studio!Confirming
  <2>1. Studio!TargetKey(b)' = Studio!TargetKey(b)
    BY <1>1, <1>5 DEF Studio!Kept
  <2>2. a[b].project = current' \/ a[b].moved
    <3>1. CASE current' = current
      BY <1>2, <1>5, <3>1 DEF Fits
    <3>2. CASE \A c \in Studio!Buttons : a[c] # None => a[c].moved
      BY <1>1, <3>2
    <3>3. CASE current' # current /\ selected' = None
      <4>1. b \in {"part", "panel"}
        BY <1>1, <1>5, <3>3 DEF Studio!Kept, Studio!Confirming
      <4>2. Studio!TargetKey("part")' = None
        BY <3>3 DEF Studio!TargetKey
      <4>3. b = "panel"
        BY <1>1, <1>5, <2>1, <4>1, <4>2 DEF Studio!Kept
      <4>4. Studio!TargetKey("panel") \in {None, current} /\ Studio!TargetKey("panel")' \in {None, current'}
        BY DEF Studio!TargetKey
      <4> QED
        BY <1>1, <1>5, <2>1, <3>3, <4>3, <4>4 DEF Studio!Kept
    <3> QED
      BY <1>3, <3>1, <3>2, <3>3
  <2> QED
    BY <1>1, <1>2, <1>3, <1>5, <2>1, <2>2 DEF Fits
<1> QED
  BY <1>4, <1>5

\* and so does a step that writes nothing but the stores
LEMMA PassesSound ==
    ASSUME NEW f, StudioInv, Studio!Passes(f), account' = account \/ ~ready',
           current' = current \/ selected' = None \/ ~ready
    PROVE  StudioInv'
BY RendersSound DEF StudioInv, Studio!Passes, Studio!Renders, Studio!ConfirmedAsShown

LEMMA IdleSound ==
    ASSUME NEW f, NEW p, NEW m, NEW a, AllFit(a), Studio!Idle, Studio!Renders(f, p, m, a), current' = current \/ selected' = None
    PROVE  StudioInv'
BY RendersSound DEF StudioInv, Studio!Renders, Studio!Idle, Studio!Stays, Studio!session, Studio!place, Studio!ConfirmedAsShown

LEMMA Disarmed ==
    ASSUME StudioInv, NEW b \in Studio!Buttons
    PROVE  AllFit([primed EXCEPT ![b] = None])
BY DEF StudioInv, AllFit, Fits

LEMMA Armed ==
    ASSUME StudioInv, NEW b \in Studio!Buttons, NEW k, NEW p, Fits(b, Studio!Target(k, p))
    PROVE  AllFit([primed EXCEPT ![b] = Studio!Target(k, p)])
BY DEF StudioInv, AllFit, Fits

\* A click that confirms nothing leaves the account as it is.
LEMMA ClicksSound == ASSUME StudioInv, Studio!Clicks PROVE StudioInv'
<1> USE DEF Studio!Idle
<1>0. AllFit(primed)
  BY DEF StudioInv
<1>1. ASSUME NEW e \in StudioParts, Studio!OnNodeClick(e) PROVE StudioInv'
  BY <1>0, <1>1, IdleSound DEF Studio!OnNodeClick, Studio!room
<1>2. ASSUME NEW e \in StudioParts, Studio!ComponentRow(e) PROVE StudioInv'
  BY <1>0, <1>2, IdleSound DEF Studio!ComponentRow, Studio!room
<1>3. ASSUME NEW w \in Studio!Wires, Studio!OnEdgeClick(w) PROVE StudioInv'
  BY <1>0, <1>3, IdleSound DEF Studio!OnEdgeClick, Studio!room
<1>4. ASSUME NEW w \in Studio!Wires, Studio!WireRow(w) PROVE StudioInv'
  BY <1>0, <1>4, IdleSound DEF Studio!WireRow, Studio!room
<1>5. ASSUME NEW w, NEW e, Studio!FocusIssue(w, e) PROVE StudioInv'
  BY <1>0, <1>5, IdleSound DEF Studio!FocusIssue, Studio!room
<1>6. CASE Studio!OnPaneClick
  BY <1>0, <1>6, IdleSound DEF Studio!OnPaneClick, Studio!room
<1>7. CASE Studio!Escape
  BY <1>0, <1>7, IdleSound DEF Studio!Escape, Studio!room
<1>8. ASSUME NEW t, Studio!SetTab(t) PROVE StudioInv'
  <2>1. Studio!Renders(focus, picked, {}, primed) /\ done' = None /\ account' = account /\ current' = current
    BY <1>8 DEF Studio!SetTab, Studio!session, Studio!room
  <2>2. AllFit(primed)'
    BY <1>0, <2>1, RendersSound
  <2> QED
    BY <2>1, <2>2 DEF StudioInv, Studio!Renders, Studio!ConfirmedAsShown
<1>9. ASSUME NEW b \in Studio!Confirming, Studio!Arms(b) PROVE StudioInv'
  <2>0. Studio!TargetKey(b) # None => Studio!Shown
    BY DEF Studio!TargetKey
  <2>1. Fits(b, Studio!Target(Studio!TargetKey(b), current)) /\ b \in Studio!Buttons
    BY <1>9, <2>0 DEF Studio!Arms, Fits, Studio!Target, Studio!Buttons
  <2>2. AllFit([primed EXCEPT ![b] = Studio!Target(Studio!TargetKey(b), current)])
    BY <2>1, Armed
  <2> QED
    BY <1>9, <2>2, IdleSound DEF Studio!Arms, Studio!room
<1>10. ASSUME NEW b \in Studio!Confirming, Studio!Fails(b) PROVE StudioInv'
  <2>1. AllFit([primed EXCEPT ![b] = None])
    BY Disarmed DEF Studio!Buttons
  <2> QED
    BY <1>10, <2>1, IdleSound DEF Studio!Fails, Studio!room
<1>11. ASSUME NEW b \in Studio!Confirming, Studio!DeletesPart(b) PROVE StudioInv'
  <2>1. AllFit([primed EXCEPT ![b] = None]) /\ b \in Studio!Buttons
    BY Disarmed DEF Studio!Buttons
  <2>2. Fits(b, primed[b])
    BY <1>0, <1>11, <2>1 DEF AllFit, Studio!DeletesPart
  <2>3. account' = account /\ current' = current
    BY <1>11 DEF Studio!DeletesPart, Studio!RemoveComponent, Studio!Sets, Studio!Stays, Studio!session
  <2>4. AllFit(primed)' /\ DOMAIN primed' = Studio!Buttons
    BY <1>11, <2>1, <2>3, RendersSound DEF Studio!DeletesPart, Studio!Renders
  <2>5. Studio!ConfirmedAsShown'
    BY <1>9, <1>11, <2>2, <2>3 DEF Studio!DeletesPart, Studio!Confirmed, Studio!Target, Studio!ConfirmedAsShown, Fits
  <2> QED
    BY <2>4, <2>5 DEF StudioInv
<1>12. CASE Studio!DeletesWire
  <2>1. AllFit([primed EXCEPT !["wire"] = None]) /\ "wire" \in Studio!Buttons /\ "wire" \in Studio!Confirming
    BY Disarmed DEF Studio!Buttons, Studio!Confirming
  <2>2. Fits("wire", primed["wire"])
    BY <1>0, <1>12, <2>1 DEF AllFit, Studio!DeletesWire
  <2>3. account' = account /\ current' = current
    BY <1>12 DEF Studio!DeletesWire, Studio!DisconnectPorts, Studio!Sets, Studio!Stays, Studio!session
  <2>4. AllFit(primed)' /\ DOMAIN primed' = Studio!Buttons
    BY <1>12, <2>1, <2>3, RendersSound DEF Studio!DeletesWire, Studio!Renders
  <2>5. Studio!ConfirmedAsShown'
    BY <1>12, <2>1, <2>2, <2>3 DEF Studio!DeletesWire, Studio!Confirmed, Studio!Target, Studio!ConfirmedAsShown, Fits
  <2> QED
    BY <2>4, <2>5 DEF StudioInv
<1>13. CASE Studio!ClearsPanel
  <2>1. AllFit([primed EXCEPT !["panel"] = None]) /\ "panel" \in Studio!Buttons /\ "panel" \in Studio!Confirming
    BY Disarmed DEF Studio!Buttons, Studio!Confirming
  <2>2. Fits("panel", primed["panel"]) /\ Studio!TargetKey("panel") = current
    BY <1>0, <1>13, <2>1 DEF AllFit, Studio!ClearsPanel, Studio!TargetKey
  <2>3. account' = account /\ current' = current
    BY <1>13 DEF Studio!ClearsPanel, Studio!ClearProject, Studio!Sets, Studio!Stays, Studio!session
  <2>4. AllFit(primed)' /\ DOMAIN primed' = Studio!Buttons
    BY <1>13, <2>1, <2>3, RendersSound DEF Studio!ClearsPanel, Studio!Resets, Studio!Renders
  <2>5. Studio!ConfirmedAsShown'
    BY <1>13, <2>1, <2>2, <2>3 DEF Studio!ClearsPanel, Studio!Confirmed, Studio!Target, Studio!ConfirmedAsShown, Fits
  <2> QED
    BY <2>4, <2>5 DEF StudioInv
<1> QED
  BY <1>1, <1>2, <1>3, <1>4, <1>5, <1>6, <1>7, <1>8, <1>9, <1>10, <1>11, <1>12, <1>13 DEF Studio!Clicks

LEMMA MenusSound == ASSUME StudioInv, Studio!Menus PROVE StudioInv'
<1>0. AllFit(primed)
  BY DEF StudioInv
<1>d. AllFit([primed EXCEPT !["delete"] = None]) /\ "delete" \in Studio!Buttons /\ "delete" \notin Studio!Confirming
  BY Disarmed DEF Studio!Buttons, Studio!Confirming, Studio!MenuOf
<1>c. AllFit([primed EXCEPT !["clear"] = None]) /\ "clear" \in Studio!Buttons /\ "clear" \notin Studio!Confirming
  BY Disarmed DEF Studio!Buttons, Studio!Confirming, Studio!MenuOf
<1>1. ASSUME NEW m, Studio!ToggleMenu(m) PROVE StudioInv'
  BY <1>0, <1>1, IdleSound DEF Studio!ToggleMenu, Studio!room
<1>2. ASSUME NEW q \in StudioProjects, Studio!ArmsDelete(q) PROVE StudioInv'
  <2>1. Fits("delete", Studio!Target(q, q))
    BY <1>2, <1>d DEF Studio!ArmsDelete, Studio!InMenu, Fits, Studio!Target
  <2>2. AllFit([primed EXCEPT !["delete"] = Studio!Target(q, q)])
    BY <1>d, <2>1, Armed
  <2> QED
    BY <1>2, <2>2, IdleSound DEF Studio!ArmsDelete, Studio!room
<1>3. ASSUME NEW q \in StudioProjects, Studio!DeletesProject(q) PROVE StudioInv'
  <2>1. Fits("delete", primed["delete"]) /\ primed["delete"].key = q
    BY <1>0, <1>3, <1>d DEF AllFit, Studio!DeletesProject, Studio!ArmedFor
  <2>2. account' = account /\ selected' = None
    BY <1>3 DEF Studio!DeletesProject, Studio!Stays, Studio!session, Studio!Resets
  <2>3. AllFit(primed)' /\ DOMAIN primed' = Studio!Buttons
    BY <1>3, <1>d, <2>2, RendersSound DEF Studio!DeletesProject, Studio!Resets, Studio!Renders
  <2>4. Studio!ConfirmedAsShown'
    BY <1>3, <1>d, <2>1, <2>2 DEF Studio!DeletesProject, Studio!Confirmed, Studio!Target, Studio!ConfirmedAsShown, Fits
  <2> QED
    BY <2>3, <2>4 DEF StudioInv
<1>4. ASSUME NEW q \in StudioProjects, Studio!SwitchProjectFromMenu(q) PROVE StudioInv'
  BY <1>4, <1>d, IdleSound DEF Studio!SwitchProjectFromMenu, Studio!Resets
<1>5. CASE Studio!CreateProjectFromMenu
  BY <1>5, <1>d, IdleSound DEF Studio!CreateProjectFromMenu, Studio!Resets
<1>6. CASE Studio!DuplicateProjectFromMenu
  BY <1>0, <1>6, IdleSound DEF Studio!DuplicateProjectFromMenu, Studio!Resets
<1>7. CASE Studio!ArmsClear
  <2>1. Fits("clear", Studio!Target(current, current))
    BY <1>7, <1>c DEF Studio!ArmsClear, Studio!InMenu, Fits, Studio!Target
  <2>2. AllFit([primed EXCEPT !["clear"] = Studio!Target(current, current)])
    BY <1>c, <2>1, Armed
  <2> QED
    BY <1>7, <2>2, IdleSound DEF Studio!ArmsClear, Studio!room
<1>8. CASE Studio!ClearsFromMenu
  <2>1. Fits("clear", primed["clear"]) /\ primed["clear"].key = current
    BY <1>0, <1>8, <1>c DEF AllFit, Studio!ClearsFromMenu, Studio!ArmedFor
  <2>2. account' = account /\ selected' = None
    BY <1>8 DEF Studio!ClearsFromMenu, Studio!Stays, Studio!session, Studio!Resets
  <2>3. AllFit(primed)' /\ DOMAIN primed' = Studio!Buttons
    BY <1>8, <1>c, <2>2, RendersSound DEF Studio!ClearsFromMenu, Studio!Resets, Studio!Renders
  <2>4. Studio!ConfirmedAsShown'
    BY <1>8, <1>c, <2>1, <2>2 DEF Studio!ClearsFromMenu, Studio!Confirmed, Studio!Target, Studio!ConfirmedAsShown, Fits
  <2> QED
    BY <2>3, <2>4 DEF StudioInv
<1> QED
  BY <1>1, <1>2, <1>3, <1>4, <1>5, <1>6, <1>7, <1>8 DEF Studio!Menus

LEMMA AgentsSound == ASSUME StudioInv, Studio!Agents PROVE StudioInv'
<1>0. AllFit(primed)
  BY DEF StudioInv
<1> USE DEF Studio!ToolRuns, Studio!Stays, Studio!session, Studio!Sets
<1>1. ASSUME NEW g, Studio!Edits(g) PROVE StudioInv'
  BY <1>1, PassesSound DEF Studio!Edits
<1>2. ASSUME NEW g, Studio!ImportsFile(g) PROVE StudioInv'
  BY <1>0, <1>2, IdleSound DEF Studio!ImportsFile, Studio!Resets
<1>3. ASSUME NEW g, Studio!ToolRestores(g) PROVE StudioInv'
  BY <1>3, PassesSound DEF Studio!ToolRestores
<1>4. ASSUME NEW e, Studio!ToolAdds(e) PROVE StudioInv'
  BY <1>4, PassesSound DEF Studio!ToolAdds
<1>5. ASSUME NEW e, Studio!ToolRemoves(e) PROVE StudioInv'
  BY <1>5, PassesSound DEF Studio!ToolRemoves, Studio!RemoveComponent
<1>6. ASSUME NEW e, Studio!ToolWritesCode(e) PROVE StudioInv'
  BY <1>6, PassesSound DEF Studio!ToolWritesCode, Studio!room
<1>7. ASSUME NEW g, NEW e, Studio!ToolReplaces(g, e) PROVE StudioInv'
  BY <1>7, PassesSound DEF Studio!ToolReplaces
<1>8. ASSUME NEW g, NEW e, Studio!ToolImports(g, e) PROVE StudioInv'
  <2> DEFINE moved == [b \in Studio!Buttons |-> IF primed[b] = None THEN None ELSE [primed[b] EXCEPT !.moved = TRUE]]
  <2>1. ASSUME NEW b \in Studio!Buttons, moved[b] # None PROVE Fits(b, moved[b]) /\ moved[b].moved
    BY <1>0, <2>1 DEF AllFit, Fits
  <2>2. AllFit(moved) /\ \A b \in Studio!Buttons : moved[b] # None => moved[b].moved
    BY <2>1 DEF AllFit
  <2>3. Studio!Renders(None, picked, menus, moved) /\ done' = None /\ account' = account
    BY <1>8 DEF Studio!ToolImports
  <2> HIDE DEF moved
  <2>4. AllFit(primed)'
    BY <2>2, <2>3, RendersSound
  <2> QED
    BY <2>3, <2>4 DEF StudioInv, Studio!Renders, Studio!ConfirmedAsShown
<1> QED
  BY <1>1, <1>2, <1>3, <1>4, <1>5, <1>6, <1>7, <1>8 DEF Studio!Agents

LEMMA OthersSound == ASSUME StudioInv, Studio!Others PROVE StudioInv'
<1>0. AllFit(primed)
  BY DEF StudioInv
<1> USE DEF Studio!Stays, Studio!session
<1>1. ASSUME NEW e, Studio!OtherSelects(e) PROVE StudioInv'
  BY <1>1, PassesSound DEF Studio!OtherSelects, Studio!room
<1>2. ASSUME NEW q, NEW g, NEW c, Studio!OtherSaves(q, g, c) PROVE StudioInv'
  <2>1. CASE c = current
    BY <1>2, <2>1, PassesSound DEF Studio!OtherSaves
  <2>2. CASE c # current
    <3>1. Studio!Renders(None, picked, menus, primed) /\ done' = None /\ account' = account /\ selected' = None
      BY <1>2, <2>2 DEF Studio!OtherSaves, Studio!Resets
    <3>2. AllFit(primed)'
      BY <1>0, <3>1, RendersSound
    <3> QED
      BY <3>1, <3>2 DEF StudioInv, Studio!Renders, Studio!ConfirmedAsShown
  <2> QED
    BY <2>1, <2>2
<1>3. ASSUME NEW u, NEW q, NEW g, Studio!SessionChanges(u, q, g) PROVE StudioInv'
  <2>1. Studio!Renders(None, picked, menus, primed) /\ done' = None /\ ~ready' /\ selected' = None
    BY <1>3 DEF Studio!SessionChanges, Studio!Resets
  <2>2. AllFit(primed)'
    BY <1>0, <2>1, RendersSound
  <2> QED
    BY <2>1, <2>2 DEF StudioInv, Studio!Renders, Studio!ConfirmedAsShown
<1>4. ASSUME NEW q, NEW g, Studio!Hydrates(q, g) PROVE StudioInv'
  BY <1>4, PassesSound DEF Studio!Hydrates
<1>5. ASSUME NEW to, Studio!Navigates(to) PROVE StudioInv'
  BY <1>5, PassesSound DEF Studio!Navigates, Studio!room
<1> QED
  BY <1>1, <1>2, <1>3, <1>4, <1>5 DEF Studio!Others

LEMMA StudioSteps == ASSUME StudioInv, Studio!StudioNext PROVE StudioInv'
BY ClicksSound, MenusSound, AgentsSound, OthersSound DEF Studio!StudioNext

LEMMA StudioStarts == ASSUME Studio!StudioInit PROVE StudioInv
BY DEF Studio!StudioInit, StudioInv, AllFit, Studio!ConfirmedAsShown

\* The studio's buttons, and what the user confirms with them, whatever other
\* parts of the page exist.
THEOREM StudioSound == PageSpec => [](part = "studio" => StudioInv)
<1>1. PageInit => (part = "studio" => StudioInv)
  BY StudioStarts DEF PageInit, PageStarts
<1>2. (part = "studio" => StudioInv) /\ [PageNext]_pageVars => (part = "studio" => StudioInv)'
  <2> SUFFICES ASSUME part = "studio" => StudioInv, [PageNext]_pageVars, part' = "studio" PROVE StudioInv'
    OBVIOUS
  <2>1. CASE UNCHANGED pageVars
    BY <2>1 DEF pageVars, pageShared, studioOnly, StudioInv, AllFit, Fits, Studio!ConfirmedAsShown, Studio!Shown, Studio!TargetKey, Studio!Open
  <2>2. CASE PageNext
    <3>1. part = "studio" /\ Studio!StudioNext
      BY <2>2 DEF PageNext, PageStays
    <3> QED
      BY <3>1, StudioSteps
  <2> QED
    BY <2>1, <2>2
<1> QED
  BY <1>1, <1>2, PTL DEF PageSpec

(***************************************************************************)
(* The calls of tools.  A tab's log holds activities of its own session,   *)
(* and a call that is over has none that runs; what reaches the other tab  *)
(* is taken for the room it was sent from.                                 *)
(***************************************************************************)
Rooms == PageUsers \cup {None}
Statuses == {"running", "success", "error", "none"}
Activities == [call : PageCalls, room : Rooms, status : Statuses]
Messages == [type : {"add", "update", "clear"}, room : Rooms, call : PageCalls \cup {None}, status : Statuses]
CallTypes ==
    /\ user \in [Tools!Tabs -> Rooms]
    /\ shown \in [Tools!Tabs -> SUBSET Activities]
    /\ channel \in Seq(Messages) /\ \A i \in 1..Len(channel) : channel[i].type # "clear" => channel[i].call \in PageCalls
    /\ DOMAIN call = PageCalls /\ \A c \in PageCalls : DOMAIN call[c] = DOMAIN Tools!Unborn

\* a change is made by an executing call, which then has a result
Applied(c) ==
    call[c].applied => call[c].stage \in {"executing", "done"} /\ (call[c].stage = "done" => call[c].answer = "result")
\* every activity of tab t is of its session
OwnLog(t) == \A a \in shown[t] : a.room = user[t]
\* no activity of c runs after it
Told(c) == \A a \in shown["here"] : a.call = c /\ a.status = "running" => call[c].stage \in {"session", "executing"}
CallsInv == CallTypes /\ (\A c \in PageCalls : Applied(c) /\ Told(c)) /\ \A t \in Tools!Tabs : OwnLog(t)

LEMMA LogIsKept == CallsInv => Tools!LogIsTrue
<1> SUFFICES ASSUME CallsInv PROVE Tools!LogIsTrue
  OBVIOUS
<1>1. \A a \in shown["here"] : a.call \in PageCalls
  BY DEF CallsInv, CallTypes, Activities, Tools!Tabs
<1> QED
  BY <1>1 DEF CallsInv, Applied, OwnLog, Told, Tools!LogIsTrue

\* What is added to a log or patched in it stays within its room.
LEMMA AddedIsOwn ==
    ASSUME NEW s \in SUBSET Activities, NEW r \in Rooms, \A a \in s : a.room = r,
           NEW c \in PageCalls, NEW st \in Statuses
    PROVE  /\ Tools!Added(s, Tools!Activity(c, r, st)) \in SUBSET Activities
           /\ \A a \in Tools!Added(s, Tools!Activity(c, r, st)) : a.room = r /\ (a.call = c => a = Tools!Activity(c, r, st))
           /\ \A a \in Tools!Added(s, Tools!Activity(c, r, st)) : a \in s \/ a.call = c
<1>1. Tools!Activity(c, r, st) \in Activities
  BY DEF Tools!Activity, Activities
<1>2. \A a \in Tools!Added(s, Tools!Activity(c, r, st)) : (a \in s /\ a.call # c) \/ a = Tools!Activity(c, r, st)
  BY DEF Tools!Added, Tools!Newest, Tools!Activity
<1> QED
  BY <1>1, <1>2 DEF Tools!Activity

LEMMA PatchedIsOwn ==
    ASSUME NEW s \in SUBSET Activities, NEW r \in Rooms, \A a \in s : a.room = r,
           NEW c \in PageCalls, NEW st \in Statuses
    PROVE  /\ Tools!Patched(s, c, r, st) \in SUBSET Activities
           /\ \A a \in Tools!Patched(s, c, r, st) : a.room = r /\ (a.call = c => a.status = st) /\ (a \in s \/ a.call = c)
<1> SUFFICES ASSUME NEW a \in Tools!Patched(s, c, r, st)
             PROVE  a \in Activities /\ a.room = r /\ (a.call = c => a.status = st) /\ (a \in s \/ a.call = c)
  OBVIOUS
<1>1. PICK b \in s : a = IF b.call = c /\ b.room = r THEN [b EXCEPT !.status = st] ELSE b
  BY DEF Tools!Patched
<1>2. b \in Activities /\ b.room = r
  OBVIOUS
<1>3. CASE b.call = c
  <2>1. a = [b EXCEPT !.status = st]
    BY <1>1, <1>2, <1>3
  <2> QED
    BY <2>1, <1>2, <1>3 DEF Activities
<1>4. CASE b.call # c
  BY <1>1, <1>2, <1>4
<1> QED
  BY <1>3, <1>4

\* Beginning or finishing an activity of c, whose call is in its new state.
LEMMA SentIsTyped ==
    ASSUME CallTypes, NEW ty \in {"add", "update", "clear"}, NEW c \in PageCalls \cup {None}, NEW st \in Statuses,
           ty # "clear" => c \in PageCalls, channel' = Tools!Sent(ty, c, st)
    PROVE  channel' \in Seq(Messages) /\ \A i \in 1..Len(channel') : channel'[i].type # "clear" => channel'[i].call \in PageCalls
<1> DEFINE m == [type |-> ty, room |-> user["here"], call |-> c, status |-> st]
<1>1. m \in Messages
  BY DEF CallTypes, Messages, Tools!Tabs
<1>2. channel \in Seq(Messages) /\ channel' = Append(channel, m)
  BY DEF CallTypes, Tools!Sent
<1>3. m.type # "clear" => m.call \in PageCalls
  OBVIOUS
<1> HIDE DEF m
<1> QED
  BY <1>1, <1>2, <1>3 DEF CallTypes

LEMMA BeginIsOwn ==
    ASSUME CallsInv, NEW c \in PageCalls, Tools!BeginTool(c), user' = user,
           call' = [call EXCEPT ![c].kind = call'[c].kind, ![c].stage = call'[c].stage],
           call[c].stage = "none", call'[c].stage \in {"session", "executing"}
    PROVE  CallsInv'
<1> DEFINE new == Tools!Added(shown["here"], Tools!Activity(c, user["here"], "running"))
<1>1. /\ new \in SUBSET Activities
      /\ \A a \in new : a.room = user["here"] /\ (a \in shown["here"] \/ a.call = c)
  <2>1. shown["here"] \in SUBSET Activities /\ user["here"] \in Rooms /\ \A a \in shown["here"] : a.room = user["here"]
    BY DEF CallsInv, CallTypes, OwnLog, Tools!Tabs
  <2>2. PICK st \in Statuses : st = "running"
    BY DEF Statuses
  <2>3. new = Tools!Added(shown["here"], Tools!Activity(c, user["here"], st))
    BY <2>2
  <2> HIDE DEF new
  <2> QED
    BY <2>1, <2>3, AddedIsOwn
<1>2. shown' = [shown EXCEPT !["here"] = new]
  BY DEF Tools!BeginTool
<1>3. CallTypes'
  <2>1. channel' = Tools!Sent("add", c, "running") /\ "running" \in Statuses
    BY DEF Tools!BeginTool, Statuses
  <2>2. channel' \in Seq(Messages) /\ \A i \in 1..Len(channel') : channel'[i].type # "clear" => channel'[i].call \in PageCalls
    BY <2>1, SentIsTyped DEF CallsInv
  <2>3. shown' \in [Tools!Tabs -> SUBSET Activities]
    BY <1>1, <1>2 DEF CallsInv, CallTypes
  <2>4. DOMAIN call' = PageCalls /\ \A d \in PageCalls : DOMAIN call'[d] = DOMAIN call[d]
    BY DEF CallsInv, CallTypes
  <2> HIDE DEF new
  <2> QED
    BY <2>2, <2>3, <2>4 DEF CallsInv, CallTypes
<1> HIDE DEF new
<1>4. ASSUME NEW d \in PageCalls PROVE Applied(d)' /\ Told(d)'
  <2>1. Applied(d)'
    BY DEF CallsInv, CallTypes, Applied, Tools!Unborn
  <2>2. Told(d)'
    BY <1>1, <1>2 DEF CallsInv, CallTypes, Told, Tools!Unborn, Tools!Tabs
  <2> QED
    BY <2>1, <2>2
<1>5. ASSUME NEW t \in Tools!Tabs PROVE OwnLog(t)'
  BY <1>1, <1>2 DEF CallsInv, CallTypes, OwnLog, Tools!Tabs
<1> QED
  BY <1>3, <1>4, <1>5 DEF CallsInv

\* A call that ends is told of as it ended: as an error only if it changed nothing.
LEMMA EndIsTold ==
    ASSUME CallsInv, NEW c \in PageCalls, NEW answer, NEW st \in {"success", "error"},
           Tools!Ends(c, answer), Tools!FinishTool(c, st), user' = user,
           call[c].applied => answer = "result"
    PROVE  CallsInv'
<1> DEFINE new == Tools!Patched(shown["here"], c, user["here"], st)
<1>0. st \in Statuses /\ st # "running"
  BY DEF Statuses
<1>1. /\ new \in SUBSET Activities
      /\ \A a \in new : a.room = user["here"] /\ (a.call = c => a.status = st) /\ (a \in shown["here"] \/ a.call = c)
  BY <1>0, PatchedIsOwn DEF CallsInv, CallTypes, OwnLog, Tools!Tabs
<1>2. \/ Tools!Knows(c) /\ shown' = [shown EXCEPT !["here"] = new] /\ channel' = Tools!Sent("update", c, st)
      \/ ~Tools!Knows(c) /\ UNCHANGED <<shown, channel>>
  BY DEF Tools!FinishTool
<1> HIDE DEF new
<1>3. CallTypes'
  <2>1. channel' \in Seq(Messages) /\ \A i \in 1..Len(channel') : channel'[i].type # "clear" => channel'[i].call \in PageCalls
    <3>1. CASE UNCHANGED channel
      BY <3>1 DEF CallsInv, CallTypes
    <3>2. CASE channel' = Tools!Sent("update", c, st)
      BY <1>0, <3>2, SentIsTyped DEF CallsInv
    <3> QED
      BY <1>2, <3>1, <3>2
  <2>2. shown' \in [Tools!Tabs -> SUBSET Activities]
    BY <1>1, <1>2 DEF CallsInv, CallTypes
  <2> QED
    BY <2>1, <2>2 DEF CallsInv, CallTypes, Tools!Ends
<1>4. ASSUME NEW d \in PageCalls PROVE Applied(d)' /\ Told(d)'
  <2>1. Applied(d)'
    BY DEF CallsInv, CallTypes, Applied, Tools!Unborn, Tools!Ends
  <2>2. Told(d)'
    <3>1. CASE d # c
      <4>1. \A a \in shown'["here"] : a.call = d => a \in shown["here"]
        BY <1>1, <1>2, <3>1 DEF CallsInv, CallTypes, Tools!Tabs
      <4> QED
        BY <4>1, <3>1 DEF CallsInv, CallTypes, Told, Tools!Ends
    <3>2. CASE d = c
      <4>1. \A a \in shown'["here"] : a.call = c => a.status # "running"
        <5>1. CASE Tools!Knows(c)
          BY <1>0, <1>1, <1>2, <5>1 DEF CallsInv, CallTypes, Tools!Tabs
        <5>2. CASE ~Tools!Knows(c)
          BY <1>2, <5>2 DEF CallsInv, OwnLog, Tools!Knows, Tools!Tabs
        <5> QED
          BY <5>1, <5>2
      <4> QED
        BY <4>1, <3>2 DEF Told
    <3> QED
      BY <3>1, <3>2
  <2> QED
    BY <2>1, <2>2
<1>5. ASSUME NEW t \in Tools!Tabs PROVE OwnLog(t)'
  BY <1>1, <1>2 DEF CallsInv, CallTypes, OwnLog, Tools!Tabs
<1> QED
  BY <1>3, <1>4, <1>5 DEF CallsInv

\* a step of call c that tells nothing
LEMMA CallGoesOn ==
    ASSUME CallsInv, NEW c \in PageCalls, UNCHANGED <<user, shown, channel>>, DOMAIN call' = PageCalls, DOMAIN call'[c] = DOMAIN call[c],
           \A d \in PageCalls \ {c} : call'[d] = call[d], call'[c].stage \in {"session", "executing"},
           call'[c].applied => call'[c].stage = "executing"
    PROVE  CallsInv'
BY DEF CallsInv, CallTypes, Applied, Told, OwnLog

\* a step that neither makes nor ends a call
LEMMA LogGoesOn ==
    ASSUME CallsInv, UNCHANGED call, user' \in [Tools!Tabs -> Rooms], shown' \in [Tools!Tabs -> SUBSET Activities],
           channel' \in Seq(Messages), \A i \in 1..Len(channel') : channel'[i].type # "clear" => channel'[i].call \in PageCalls,
           shown'["here"] \subseteq shown["here"], \A t \in Tools!Tabs : OwnLog(t)'
    PROVE  CallsInv'
BY DEF CallsInv, CallTypes, Applied, Told

LEMMA CallsStarts == ASSUME Tools!CallsInit PROVE CallsInv
BY DEF Tools!CallsInit, CallsInv, CallTypes, Applied, Told, OwnLog, Rooms, Tools!Unborn, Tools!Tabs

\* the other tab hears of the calls in the room that it is in
LEMMA ReceivesOwn == ASSUME CallsInv, Tools!Receives PROVE CallsInv'
<1> DEFINE m == Head(channel)
           r == user["there"]
           log == shown["there"]
<1>1. channel \in Seq(Messages) /\ channel # <<>> /\ channel' = Tail(channel)
  BY DEF Tools!Receives, CallsInv, CallTypes
<1>2. m \in Messages /\ (m.type # "clear" => m.call \in PageCalls)
  BY <1>1 DEF CallsInv, CallTypes
<1>3. channel' \in Seq(Messages) /\ \A i \in 1..Len(channel') : channel'[i].type # "clear" => channel'[i].call \in PageCalls
  BY <1>1 DEF CallsInv, CallTypes
<1>4. log \in SUBSET Activities /\ r \in Rooms /\ \A a \in log : a.room = r
  BY DEF CallsInv, CallTypes, OwnLog, Tools!Tabs
<1> HIDE DEF m, r, log
<1>5. ASSUME m.room = r
      PROVE  Tools!Heard(log, m) \in SUBSET Activities /\ \A a \in Tools!Heard(log, m) : a.room = r
  <2>1. CASE m.type = "add"
    <3>1. Tools!Heard(log, m) = Tools!Added(log, Tools!Activity(m.call, r, m.status))
      BY <1>5, <2>1 DEF Tools!Heard
    <3>2. m.call \in PageCalls /\ m.status \in Statuses
      BY <1>2, <2>1 DEF Messages
    <3> QED
      BY <1>4, <3>1, <3>2, AddedIsOwn
  <2>2. CASE m.type = "update"
    <3>1. Tools!Heard(log, m) = Tools!Patched(log, m.call, r, m.status)
      BY <1>5, <2>2 DEF Tools!Heard
    <3>2. m.call \in PageCalls /\ m.status \in Statuses
      BY <1>2, <2>2 DEF Messages
    <3> QED
      BY <1>4, <3>1, <3>2, PatchedIsOwn
  <2>3. CASE m.type = "clear"
    BY <2>3 DEF Tools!Heard
  <2> QED
    BY <1>2, <2>1, <2>2, <2>3 DEF Messages
<1>6. \/ m.room = r /\ shown' = [shown EXCEPT !["there"] = Tools!Heard(log, m)]
      \/ shown' = [shown EXCEPT !["there"] = log]
  BY DEF Tools!Receives, Tools!Concerns, m, r, log
<1>7. /\ shown' \in [Tools!Tabs -> SUBSET Activities] /\ shown'["here"] = shown["here"]
      /\ \A a \in shown'["there"] : a.room = r
  BY <1>4, <1>5, <1>6 DEF CallsInv, CallTypes, Tools!Tabs
<1>8. UNCHANGED <<call, user>>
  BY DEF Tools!Receives
<1>9. \A t \in Tools!Tabs : OwnLog(t)'
  BY <1>7, <1>8 DEF CallsInv, OwnLog, Tools!Tabs, r
<1> QED
  BY <1>3, <1>7, <1>8, <1>9, LogGoesOn DEF CallsInv, CallTypes

LEMMA ClearsOwn == ASSUME CallsInv, Tools!ClearActivities PROVE CallsInv'
<1>1. channel' \in Seq(Messages) /\ \A i \in 1..Len(channel') : channel'[i].type # "clear" => channel'[i].call \in PageCalls
  <2>1. PICK ty \in {"add", "update", "clear"}, st \in Statuses : ty = "clear" /\ st = "none"
    BY DEF Statuses
  <2>2. channel' = Tools!Sent(ty, None, st)
    BY <2>1 DEF Tools!ClearActivities
  <2> QED
    BY <2>1, <2>2, SentIsTyped DEF CallsInv
<1>2. UNCHANGED <<call, user>> /\ shown' = [shown EXCEPT !["here"] = {}]
  BY DEF Tools!ClearActivities
<1>3. shown' \in [Tools!Tabs -> SUBSET Activities] /\ shown'["here"] = {} /\ shown'["there"] = shown["there"]
  BY <1>2 DEF CallsInv, CallTypes, Tools!Tabs
<1>4. \A t \in Tools!Tabs : OwnLog(t)'
  BY <1>2, <1>3 DEF CallsInv, OwnLog, Tools!Tabs
<1> QED
  BY <1>1, <1>2, <1>3, <1>4, LogGoesOn DEF CallsInv, CallTypes

LEMMA ChangeEmpties ==
    ASSUME CallsInv, NEW t \in Tools!Tabs, NEW u \in Rooms, Tools!SessionChanges(t, u)
    PROVE  CallsInv'
<1>1. user' = [user EXCEPT ![t] = u] /\ shown' = [shown EXCEPT ![t] = {}] /\ UNCHANGED <<call, channel>>
  BY DEF Tools!SessionChanges, Tools!Emptied
<1>2. /\ user' \in [Tools!Tabs -> Rooms] /\ shown' \in [Tools!Tabs -> SUBSET Activities]
      /\ shown'["here"] \subseteq shown["here"]
  BY <1>1 DEF CallsInv, CallTypes, Tools!Tabs
<1>3. \A s \in Tools!Tabs : OwnLog(s)'
  BY <1>1 DEF CallsInv, CallTypes, OwnLog
<1> QED
  BY <1>1, <1>2, <1>3, LogGoesOn DEF CallsInv, CallTypes

LEMMA CallsSteps == ASSUME CallsInv, Tools!CallsNext PROVE CallsInv'
<1>1. ASSUME NEW c \in PageCalls, NEW kind \in Tools!Kinds, NEW aborted \in BOOLEAN, Tools!Begins(c, kind, aborted) PROVE CallsInv'
  <2>0. ~call[c].applied /\ user' = user
    BY <1>1 DEF Tools!Begins, CallsInv, Applied
  <2>1. CASE aborted
    <3>1. Tools!Ends(c, "throws") /\ UNCHANGED <<shown, channel>>
      BY <1>1, <2>1 DEF Tools!Begins
    <3>2. \A a \in shown["here"] : a.call = c => a.status # "running"
      BY <1>1 DEF Tools!Begins, CallsInv, Told
    <3> QED
      BY <2>0, <3>1, <3>2 DEF Tools!Ends, CallsInv, CallTypes, Applied, Told, OwnLog, Tools!Unborn
  <2>2. CASE ~aborted
    <3>1. /\ call' = [call EXCEPT ![c].kind = kind, ![c].stage = IF kind = "read" THEN "executing" ELSE "session"]
          /\ Tools!BeginTool(c) /\ call[c].stage = "none"
      BY <1>1, <2>2 DEF Tools!Begins
    <3>2. call'[c].kind = kind /\ call'[c].stage = (IF kind = "read" THEN "executing" ELSE "session")
      BY <3>1 DEF CallsInv, CallTypes, Tools!Unborn
    <3> QED
      BY <2>0, <3>1, <3>2, BeginIsOwn
  <2> QED
    BY <2>1, <2>2
<1>2. ASSUME NEW c \in PageCalls, NEW hosted \in BOOLEAN, Tools!SessionArrives(c, hosted) PROVE CallsInv'
  <2>0. call[c].stage = "session" /\ ~call[c].applied /\ user' = user
    BY <1>2 DEF Tools!SessionArrives, CallsInv, Applied
  <2>1. ASSUME NEW answer, Tools!Fails(c, answer) PROVE CallsInv'
    <3>1. PICK st \in {"success", "error"} : st = "error"
      OBVIOUS
    <3>2. Tools!Ends(c, answer) /\ Tools!FinishTool(c, st)
      BY <2>1, <3>1 DEF Tools!Fails
    <3> QED
      BY <2>0, <3>2, EndIsTold
  <2>2. CASE call' = [call EXCEPT ![c].stage = "executing", ![c].lease = lease] /\ UNCHANGED <<shown, channel>>
    <3>1. /\ DOMAIN call' = PageCalls /\ DOMAIN call'[c] = DOMAIN call[c] /\ \A d \in PageCalls \ {c} : call'[d] = call[d]
          /\ call'[c].stage = "executing"
      BY <2>2 DEF CallsInv, CallTypes, Tools!Unborn
    <3> QED
      BY <2>0, <2>2, <3>1, CallGoesOn
  <2> QED
    BY <1>2, <2>1, <2>2 DEF Tools!SessionArrives
<1>3. ASSUME NEW c \in PageCalls, NEW outcome, Tools!Settles(c, outcome) PROVE CallsInv'
  <2>0. call[c].stage = "executing" /\ user' = user
    BY <1>3 DEF Tools!Settles
  <2>1. CASE outcome = "result"
    <3>1. PICK st \in {"success", "error"}, answer \in {"result"} : st = "success"
      OBVIOUS
    <3>2. Tools!Ends(c, answer) /\ Tools!FinishTool(c, st)
      BY <1>3, <2>1, <3>1 DEF Tools!Settles, Tools!Returns
    <3> QED
      BY <2>0, <3>1, <3>2, EndIsTold
  <2>2. CASE outcome # "result"
    <3>1. PICK st \in {"success", "error"} : st = "error"
      OBVIOUS
    <3>2. ~call[c].applied /\ Tools!Ends(c, outcome) /\ Tools!FinishTool(c, st)
      BY <1>3, <2>2, <3>1 DEF Tools!Settles, Tools!Fails
    <3> QED
      BY <2>0, <3>2, EndIsTold
  <2> QED
    BY <2>1, <2>2
<1>4. ASSUME NEW c \in PageCalls, Tools!Applies(c) \/ Tools!Aborts(c) PROVE CallsInv'
  <2>1. CASE Tools!Applies(c)
    <3>1. call[c].stage = "executing" /\ call' = [call EXCEPT ![c].applied = TRUE] /\ UNCHANGED <<user, shown, channel>>
      BY <2>1 DEF Tools!Applies
    <3>2. /\ DOMAIN call' = PageCalls /\ DOMAIN call'[c] = DOMAIN call[c] /\ \A d \in PageCalls \ {c} : call'[d] = call[d]
          /\ call'[c].stage = "executing"
      BY <3>1 DEF CallsInv, CallTypes, Tools!Unborn
    <3> QED
      BY <3>1, <3>2, CallGoesOn
  <2>2. CASE Tools!Aborts(c)
    <3>1. /\ call[c].stage \in {"session", "executing"} /\ call' = [call EXCEPT ![c].aborted = TRUE]
          /\ UNCHANGED <<user, shown, channel>>
      BY <2>2 DEF Tools!Aborts
    <3>2. /\ DOMAIN call' = PageCalls /\ DOMAIN call'[c] = DOMAIN call[c] /\ \A d \in PageCalls \ {c} : call'[d] = call[d]
          /\ call'[c].stage = call[c].stage /\ call'[c].applied = call[c].applied
      BY <3>1 DEF CallsInv, CallTypes, Tools!Unborn
    <3>3. call[c].applied => call[c].stage = "executing"
      BY <3>1 DEF CallsInv, Applied
    <3> QED
      BY <3>1, <3>2, <3>3, CallGoesOn
  <2> QED
    BY <1>4, <2>1, <2>2
<1>5. ASSUME NEW t \in Tools!Tabs, NEW u \in PageUsers \cup {None}, Tools!SessionChanges(t, u) PROVE CallsInv'
  BY <1>5, ChangeEmpties DEF Rooms
<1>6. CASE Tools!Hydrates
  BY <1>6 DEF Tools!Hydrates, CallsInv, CallTypes, Applied, Told, OwnLog
<1> QED
  BY <1>1, <1>2, <1>3, <1>4, <1>5, <1>6, ReceivesOwn, ClearsOwn DEF Tools!CallsNext

\* The tools' calls and the log of them that tabs show (webmcp/tools.ts,
\* useWebMCPStore.ts), for any number of calls, sessions and messages.
THEOREM CallsSound == PageSpec => [](part = "calls" => CallsInv)
<1>1. PageInit => (part = "calls" => CallsInv)
  BY CallsStarts DEF PageInit, PageStarts
<1>2. (part = "calls" => CallsInv) /\ [PageNext]_pageVars => (part = "calls" => CallsInv)'
  <2> SUFFICES ASSUME part = "calls" => CallsInv, [PageNext]_pageVars, part' = "calls" PROVE CallsInv'
    OBVIOUS
  <2>1. CASE UNCHANGED pageVars
    BY <2>1 DEF pageVars, pageShared, callsOnly, CallsInv, CallTypes, Applied, Told, OwnLog
  <2>2. CASE PageNext
    <3>1. part = "calls" /\ Tools!CallsNext
      BY <2>2 DEF PageNext, PageStays
    <3> QED
      BY <3>1, CallsSteps
  <2> QED
    BY <2>1, <2>2
<1> QED
  BY <1>1, <1>2, PTL DEF PageSpec

(***************************************************************************)
(* The graphs.  What a tab shows and sends is of the room it is in.        *)
(***************************************************************************)
VerdictInv == DOMAIN verdict = BrowserTabs /\ DOMAIN room = BrowserTabs /\ Checks!VerdictIsOfRoom

\* the last of the verdicts that a tab sets is the one it shows
LEMMA SetsOwn ==
    ASSUME VerdictInv, NEW t \in BrowserTabs, NEW v, \/ Checks!Sets(t, <<v>>)
                                                     \/ \E w : Checks!Sets(t, <<w, v>>),
           DOMAIN room' = BrowserTabs, v.of = room'[t], \A u \in BrowserTabs \ {t} : room'[u] = room[u]
    PROVE  VerdictInv'
<1>1. verdict' = [verdict EXCEPT ![t] = v]
  <2>1. CASE Checks!Sets(t, <<v>>)
    BY <2>1 DEF Checks!Sets, Checks!Last
  <2>2. ASSUME NEW w, Checks!Sets(t, <<w, v>>) PROVE verdict' = [verdict EXCEPT ![t] = v]
    BY <2>2 DEF Checks!Sets, Checks!Last
  <2> QED
    BY <2>1, <2>2
<1> QED
  BY <1>1 DEF VerdictInv, Checks!VerdictIsOfRoom

\* the verdicts that a tab makes are of its room
LEMMA MadeHere ==
    ASSUME NEW t, NEW x, NEW r
    PROVE  Checks!Lodged(t, x).of = room[t] /\ Checks!Result(t, x).of = room[t] /\ Checks!Cleared(r).of = r
BY DEF Checks!Lodged, Checks!Result, Checks!Cleared

LEMMA CheckedOwn ==
    ASSUME VerdictInv, NEW t \in BrowserTabs, NEW next, UNCHANGED room,
           Checks!Sets(t, <<Checks!Cleared(room[t]), Checks!Result(t, next)>>)
    PROVE  VerdictInv'
<1> DEFINE w == Checks!Cleared(room[t])
           v == Checks!Result(t, next)
<1>1. Checks!Sets(t, <<w, v>>) /\ v.of = room'[t] /\ DOMAIN room' = BrowserTabs
  BY MadeHere DEF VerdictInv
<1> HIDE DEF w, v
<1>2. \E x : Checks!Sets(t, <<x, v>>)
  BY <1>1
<1> QED
  BY <1>1, <1>2, SetsOwn

LEMMA ClearedOwn ==
    ASSUME VerdictInv, NEW t \in BrowserTabs, NEW g, Checks!Invalidates(t, g), UNCHANGED room
    PROVE  VerdictInv'
<1>1. CASE UNCHANGED <<verdict, told>>
  BY <1>1 DEF VerdictInv, Checks!VerdictIsOfRoom
<1>2. CASE Checks!Sets(t, <<Checks!Cleared(room[t])>>)
  BY <1>2, SetsOwn, MadeHere DEF VerdictInv
<1> QED
  BY <1>1, <1>2 DEF Checks!Invalidates

LEMMA EditOwn == ASSUME VerdictInv, NEW t \in BrowserTabs, Checks!Edit(t) PROVE VerdictInv'
<1>1. ASSUME NEW a, NEW b, Checks!ConnectPorts(t, a, b) PROVE VerdictInv'
  <2>0. UNCHANGED room
    BY <1>1 DEF Checks!ConnectPorts
  <2>1. \/ \E issues : Checks!Sets(t, <<Checks!Lodged(t, issues)>>)
        \/ \E next : Checks!Sets(t, <<Checks!Cleared(room[t]), Checks!Result(t, next)>>)
    BY <1>1 DEF Checks!ConnectPorts
  <2>2. ASSUME NEW issues, Checks!Sets(t, <<Checks!Lodged(t, issues)>>) PROVE VerdictInv'
    BY <2>0, <2>2, SetsOwn, MadeHere DEF VerdictInv
  <2>3. ASSUME NEW next, Checks!Sets(t, <<Checks!Cleared(room[t]), Checks!Result(t, next)>>) PROVE VerdictInv'
    BY <2>0, <2>3, CheckedOwn
  <2> QED
    BY <2>1, <2>2, <2>3
<1>2. ASSUME NEW i, Checks!DisconnectPorts(t, i) PROVE VerdictInv'
  <2>1. PICK next : Checks!Sets(t, <<Checks!Cleared(room[t]), Checks!Result(t, next)>>) /\ UNCHANGED room
    BY <1>2 DEF Checks!DisconnectPorts
  <2> QED
    BY <2>1, CheckedOwn
<1>3. ASSUME NEW g, Checks!Becomes(t, g) PROVE VerdictInv'
  BY <1>3, ClearedOwn DEF Checks!Becomes
<1>4. ASSUME NEW c, Checks!AddComponent(t, c) \/ Checks!RemoveComponent(t, c) PROVE VerdictInv'
  BY <1>3, <1>4 DEF Checks!AddComponent, Checks!RemoveComponent
<1>5. CASE Checks!UpdateComponentProps(t)
  BY <1>3, <1>5 DEF Checks!UpdateComponentProps
<1>6. ASSUME NEW g, Checks!LoadProject(t, g) PROVE VerdictInv'
  BY <1>3, <1>6 DEF Checks!LoadProject
<1>7. CASE Checks!CheckGraph(t)
  <2>1. Checks!Sets(t, <<Checks!Result(t, graph[t])>>) /\ UNCHANGED room
    BY <1>7 DEF Checks!CheckGraph
  <2> QED
    BY <2>1, SetsOwn, MadeHere DEF VerdictInv
<1>8. ASSUME NEW r, NEW g, Checks!SessionChanges(t, r, g) PROVE VerdictInv'
  <2>1. Checks!Sets(t, <<Checks!Cleared(r)>>) /\ room' = [room EXCEPT ![t] = r]
    BY <1>8 DEF Checks!SessionChanges
  <2>2. DOMAIN room' = BrowserTabs /\ room'[t] = r /\ \A u \in BrowserTabs \ {t} : room'[u] = room[u]
    BY <2>1 DEF VerdictInv
  <2> QED
    BY <2>1, <2>2, SetsOwn, MadeHere
<1> QED
  BY <1>1, <1>2, <1>4, <1>5, <1>6, <1>7, <1>8 DEF Checks!Edit

\* another tab's verdict is taken for the room it was made in
LEMMA HeardOwn ==
    ASSUME VerdictInv, NEW t \in BrowserTabs, Checks!ReceivesProject(t) \/ Checks!ReceivesVerdict(t)
    PROVE  VerdictInv'
<1>1. CASE Checks!ReceivesProject(t)
  <2>1. UNCHANGED room /\ (UNCHANGED <<verdict, told>> \/ Checks!Invalidates(t, Head(updates[t]).graph))
    BY <1>1 DEF Checks!ReceivesProject
  <2>2. CASE UNCHANGED <<verdict, told>>
    BY <2>1, <2>2 DEF VerdictInv, Checks!VerdictIsOfRoom
  <2> QED
    BY <2>1, <2>2, ClearedOwn
<1>2. CASE Checks!ReceivesVerdict(t)
  BY <1>2 DEF Checks!ReceivesVerdict, Checks!Takes, VerdictInv, Checks!VerdictIsOfRoom
<1> QED
  BY <1>1, <1>2

LEMMA GraphsStart == ASSUME Checks!ChecksInit PROVE VerdictInv
BY MadeHere DEF Checks!ChecksInit, VerdictInv, Checks!VerdictIsOfRoom

LEMMA GraphsStep == ASSUME VerdictInv, Checks!ChecksNext PROVE VerdictInv'
BY EditOwn, HeardOwn DEF Checks!ChecksNext

\* The verdict of every tab is of the room that it is in (useValidationStore.ts),
\* for any number of tabs, rooms, graphs and messages on their way.
THEOREM VerdictsSound == PageSpec => [](part = "graphs" => VerdictInv)
<1>1. PageInit => (part = "graphs" => VerdictInv)
  BY GraphsStart DEF PageInit, PageStarts
<1>2. (part = "graphs" => VerdictInv) /\ [PageNext]_pageVars => (part = "graphs" => VerdictInv)'
  <2> SUFFICES ASSUME part = "graphs" => VerdictInv, [PageNext]_pageVars, part' = "graphs" PROVE VerdictInv'
    OBVIOUS
  <2>1. CASE UNCHANGED pageVars
    BY <2>1 DEF pageVars, pageShared, checksOnly, VerdictInv, Checks!VerdictIsOfRoom
  <2>2. CASE PageNext
    <3>1. part = "graphs" /\ Checks!ChecksNext
      BY <2>2 DEF PageNext, PageStays
    <3> QED
      BY <3>1, GraphsStep
  <2> QED
    BY <2>1, <2>2
<1> QED
  BY <1>1, <1>2, PTL DEF PageSpec

\* The verdict of the only tab goes with its graph: what changes the graph
\* takes the verdict away or makes it anew.
AlikeDomains == \A f \in {verdict, room, graph, told, updates} : DOMAIN f = BrowserTabs
Fresh(t) == verdict[t].valid # None => verdict[t] = Checks!Result(t, graph[t])
Untold(t) == told[t] = <<>> /\ updates[t] = <<>>
LoneInv == AlikeDomains /\ \A t \in BrowserTabs : Checks!Others(t) = {} => Fresh(t) /\ Untold(t)

\* the tab shows v, of its graph if of anything, and there is nobody to tell
LEMMA SetsFresh ==
    ASSUME LoneInv, NEW t \in BrowserTabs, NEW vs, NEW v, Checks!Sets(t, vs), Checks!Last(vs) = v,
           v.valid # None => v = Checks!Result(t, graph[t])',
           \A f \in {room', graph', updates'} : DOMAIN f = BrowserTabs, updates'[t] = updates[t]
    PROVE  LoneInv'
<1>1. verdict' = [verdict EXCEPT ![t] = v] /\ told' = [u \in BrowserTabs |-> IF u = t THEN told[t] ELSE told[u] \o vs]
  BY DEF Checks!Sets
<1>2. AlikeDomains'
  BY <1>1 DEF LoneInv, AlikeDomains
<1>3. ASSUME NEW u \in BrowserTabs, Checks!Others(u) = {} PROVE Fresh(u)' /\ Untold(u)'
  <2>1. u = t
    BY <1>3 DEF Checks!Others
  <2>2. verdict'[t] = v /\ told'[t] = told[t]
    BY <1>1 DEF LoneInv, AlikeDomains
  <2>3. Untold(t)
    BY <1>3, <2>1 DEF LoneInv
  <2> QED
    BY <2>1, <2>2, <2>3 DEF Fresh, Untold
<1>4. \A u \in BrowserTabs : Checks!Others(u)' = {} => Checks!Others(u) = {}
  BY DEF Checks!Others
<1> QED
  BY <1>2, <1>3, <1>4 DEF LoneInv

LEMMA LastOf == ASSUME NEW v, NEW w PROVE Checks!Last(<<v>>) = v /\ Checks!Last(<<w, v>>) = v
BY DEF Checks!Last

\* a tab alone keeps nothing for others
LEMMA EditsAlone ==
    ASSUME LoneInv, NEW t \in BrowserTabs, NEW g, Checks!Edits(t, g)
    PROVE  /\ DOMAIN graph' = BrowserTabs /\ DOMAIN updates' = BrowserTabs /\ graph'[t] = g /\ updates'[t] = updates[t]
           /\ \A u \in BrowserTabs \ {t} : graph'[u] = graph[u]
BY DEF Checks!Edits, LoneInv, AlikeDomains

LEMMA BecomesFresh == ASSUME LoneInv, NEW t \in BrowserTabs, NEW g, Checks!Becomes(t, g) PROVE LoneInv'
<1>1. /\ DOMAIN graph' = BrowserTabs /\ DOMAIN updates' = BrowserTabs /\ graph'[t] = g /\ updates'[t] = updates[t]
      /\ \A u \in BrowserTabs \ {t} : graph'[u] = graph[u]
  BY EditsAlone DEF Checks!Becomes
<1>2. room' = room /\ DOMAIN room = BrowserTabs
  BY DEF Checks!Becomes, LoneInv, AlikeDomains
<1>3. CASE g = graph[t]
  <2>1. UNCHANGED <<verdict, told>>
    BY <1>3 DEF Checks!Becomes, Checks!Invalidates
  <2>2. \A u \in BrowserTabs : graph'[u] = graph[u]
    BY <1>1, <1>3
  <2>3. \A u \in BrowserTabs : Checks!Others(u) = {} => u = t
    BY DEF Checks!Others
  <2> QED
    BY <1>1, <1>2, <2>1, <2>2, <2>3 DEF LoneInv, AlikeDomains, Fresh, Untold, Checks!Result, Checks!Others
<1>4. CASE g # graph[t]
  <2>1. Checks!Sets(t, <<Checks!Cleared(room[t])>>)
    BY <1>4 DEF Checks!Becomes, Checks!Invalidates
  <2>2. Checks!Cleared(room[t]).valid = None
    BY DEF Checks!Cleared
  <2> QED
    BY <1>1, <1>2, <2>1, <2>2, LastOf, SetsFresh
<1> QED
  BY <1>3, <1>4

\* the graph is changed and checked
LEMMA EditsChecked ==
    ASSUME LoneInv, NEW t \in BrowserTabs, NEW g, UNCHANGED room, Checks!Edits(t, g),
           Checks!Sets(t, <<Checks!Cleared(room[t]), Checks!Result(t, g)>>)
    PROVE  LoneInv'
<1>1. DOMAIN graph' = BrowserTabs /\ DOMAIN updates' = BrowserTabs /\ graph'[t] = g /\ updates'[t] = updates[t] /\ DOMAIN room' = BrowserTabs
  BY EditsAlone DEF LoneInv, AlikeDomains
<1>2. Checks!Result(t, g) = Checks!Result(t, graph[t])'
  BY <1>1 DEF Checks!Result
<1> QED
  BY <1>1, <1>2, LastOf, SetsFresh

LEMMA EditFresh == ASSUME LoneInv, NEW t \in BrowserTabs, Checks!Edit(t) PROVE LoneInv'
<1>0. DOMAIN room = BrowserTabs /\ DOMAIN graph = BrowserTabs /\ DOMAIN updates = BrowserTabs
  BY DEF LoneInv, AlikeDomains
<1>1. ASSUME NEW a, NEW b, Checks!ConnectPorts(t, a, b) PROVE LoneInv'
  <2>1. \/ \E issues : Checks!Sets(t, <<Checks!Lodged(t, issues)>>) /\ UNCHANGED <<room, graph, updates>>
        \/ \E g : Checks!Edits(t, g) /\ Checks!Sets(t, <<Checks!Cleared(room[t]), Checks!Result(t, g)>>) /\ UNCHANGED room
    BY <1>1 DEF Checks!ConnectPorts
  <2>2. ASSUME NEW issues, Checks!Sets(t, <<Checks!Lodged(t, issues)>>), UNCHANGED <<room, graph, updates>> PROVE LoneInv'
    <3>1. Checks!Lodged(t, issues).valid = None
      BY DEF Checks!Lodged
    <3> QED
      BY <1>0, <2>2, <3>1, LastOf, SetsFresh
  <2> QED
    BY <2>1, <2>2, EditsChecked
<1>2. ASSUME NEW i, Checks!DisconnectPorts(t, i) PROVE LoneInv'
  <2>1. PICK g : Checks!Edits(t, g) /\ Checks!Sets(t, <<Checks!Cleared(room[t]), Checks!Result(t, g)>>) /\ UNCHANGED room
    BY <1>2 DEF Checks!DisconnectPorts
  <2> QED
    BY <2>1, EditsChecked
<1>3. ASSUME NEW c, Checks!AddComponent(t, c) \/ Checks!RemoveComponent(t, c) PROVE LoneInv'
  BY <1>3, BecomesFresh DEF Checks!AddComponent, Checks!RemoveComponent
<1>4. CASE Checks!UpdateComponentProps(t)
  BY <1>4, BecomesFresh DEF Checks!UpdateComponentProps
<1>5. ASSUME NEW g, Checks!LoadProject(t, g) PROVE LoneInv'
  BY <1>5, BecomesFresh DEF Checks!LoadProject
<1>6. CASE Checks!CheckGraph(t)
  <2>1. Checks!Sets(t, <<Checks!Result(t, graph[t])>>) /\ UNCHANGED <<room, graph, updates>>
    BY <1>6 DEF Checks!CheckGraph
  <2>2. Checks!Result(t, graph[t]) = Checks!Result(t, graph[t])'
    BY <2>1 DEF Checks!Result
  <2> QED
    BY <1>0, <2>1, <2>2, LastOf, SetsFresh
<1>7. ASSUME NEW r, NEW g, Checks!SessionChanges(t, r, g) PROVE LoneInv'
  <2>1. /\ Checks!Sets(t, <<Checks!Cleared(r)>>) /\ updates' = updates
        /\ room' = [room EXCEPT ![t] = r] /\ graph' = [graph EXCEPT ![t] = g]
    BY <1>7 DEF Checks!SessionChanges
  <2>2. Checks!Cleared(r).valid = None
    BY DEF Checks!Cleared
  <2>3. DOMAIN room' = BrowserTabs /\ DOMAIN graph' = BrowserTabs /\ DOMAIN updates' = BrowserTabs /\ updates'[t] = updates[t]
    BY <1>0, <2>1
  <2> QED
    BY <2>1, <2>2, <2>3, LastOf, SetsFresh
<1> QED
  BY <1>1, <1>2, <1>3, <1>4, <1>5, <1>6, <1>7 DEF Checks!Edit

\* where a message arrives there is another tab
LEMMA HeardFresh ==
    ASSUME LoneInv, NEW t \in BrowserTabs, Checks!ReceivesProject(t) \/ Checks!ReceivesVerdict(t)
    PROVE  LoneInv'
<1>1. ~Untold(t)
  BY DEF Checks!ReceivesProject, Checks!ReceivesVerdict, Untold
<1>2. \A u \in BrowserTabs : Checks!Others(u) # {}
  BY <1>1 DEF LoneInv, Checks!Others
<1>3. AlikeDomains'
  <2>1. CASE Checks!ReceivesVerdict(t)
    BY <2>1 DEF Checks!ReceivesVerdict, LoneInv, AlikeDomains
  <2>2. CASE Checks!ReceivesProject(t)
    <3>1. /\ room' = room /\ updates' = [updates EXCEPT ![t] = Tail(@)]
          /\ graph' = graph \/ \E g : graph' = [graph EXCEPT ![t] = g]
          /\ UNCHANGED <<verdict, told>> \/ \E vs : Checks!Sets(t, vs)
      BY <2>2 DEF Checks!ReceivesProject, Checks!Invalidates
    <3> QED
      BY <3>1 DEF Checks!Sets, LoneInv, AlikeDomains
  <2> QED
    BY <2>1, <2>2
<1> QED
  BY <1>2, <1>3 DEF LoneInv, Checks!Others

LEMMA LoneStarts == ASSUME Checks!ChecksInit PROVE LoneInv
BY DEF Checks!ChecksInit, Checks!Cleared, LoneInv, AlikeDomains, Fresh, Untold

\* What the only tab of a browser says of its graph is what a check of that graph
\* would say now (useValidationStore.ts), whatever is edited, loaded or checked.
THEOREM VerdictOfGraph == PageSpec => [](part = "graphs" => LoneInv)
<1>1. PageInit => (part = "graphs" => LoneInv)
  BY LoneStarts DEF PageInit, PageStarts
<1>2. (part = "graphs" => LoneInv) /\ [PageNext]_pageVars => (part = "graphs" => LoneInv)'
  <2> SUFFICES ASSUME part = "graphs" => LoneInv, [PageNext]_pageVars, part' = "graphs" PROVE LoneInv'
    OBVIOUS
  <2>1. CASE UNCHANGED pageVars
    <3>1. part = "graphs" /\ UNCHANGED <<verdict, room, graph, told, updates>>
      BY <2>1 DEF pageVars, pageShared, checksOnly
    <3> QED
      BY <3>1 DEF LoneInv, AlikeDomains, Fresh, Untold, Checks!Result, Checks!Others
  <2>2. CASE PageNext
    <3>1. part = "graphs" /\ Checks!ChecksNext
      BY <2>2 DEF PageNext, PageStays
    <3> QED
      BY <3>1, EditFresh, HeardFresh DEF Checks!ChecksNext
  <2> QED
    BY <2>1, <2>2
<1> QED
  BY <1>1, <1>2, PTL DEF PageSpec

(***************************************************************************)
(* The source editor.  Everything that could be written to a document, or  *)
(* become the base of what is written, was typed for that document or is   *)
(* the sketch: drafts, their conflicts, what was shown and what Monaco     *)
(* shows now.                                                              *)
(***************************************************************************)
Home(text, k) == text # None => text.homes \subseteq {k}
HomelyDraft(d, k) ==
    d # None =>
        /\ d.text.homes \subseteq {k} /\ Home(d.base, k)
        /\ d.conflict # None => d.conflict.mine.homes \subseteq {k} /\ Home(d.conflict.newer, k)
Homely(ds) == ds \in [Editor!Keys -> Editor!Draft \cup {None}] /\ \A k \in Editor!Keys : HomelyDraft(ds[k], k)
DocsHome(docs) == docs \in [Editor!Keys -> Editor!Texts \cup {None}] /\ \A k \in Editor!Keys : Home(docs[k], k)
MetHome(m) == m \in [Editor!Keys -> SUBSET Editor!Texts] /\ \A k \in Editor!Keys : \A x \in m[k] : x.homes \subseteq {k}
Views == [project : EditedProjects, component : Components \cup {None}, mounted : BOOLEAN]
Typed(w) == w \in [Editor!Keys -> Editor!Texts \cup {None}]
SourceInv ==
    /\ user \in Accounts /\ view \in Views /\ texts \in 0..MaxTexts
    /\ DocsHome(documents) /\ Homely(drafts) /\ MetHome(met) /\ Typed(typed)
    /\ armed \subseteq Editor!Keys /\ screen \in Editor!Texts
    /\ view.mounted /\ view.component # None => screen.homes \subseteq {Editor!Shown}

LEMMA SourceIsHome == SourceInv => Editor!EditorTypeOK /\ Editor!SourceStaysHome
BY DEF SourceInv, DocsHome, Homely, MetHome, Views, Typed, Home, Editor!EditorTypeOK, Editor!SourceStaysHome

LEMMA SketchIsHome == Editor!Sketch \in Editor!Texts /\ \A k : Editor!Sketch.homes \subseteq {k}
BY TextsAssumption DEF Editor!Sketch, Editor!Texts

\* a key is the document of its account, project and component
LEMMA KeysAreTriples ==
    /\ \A u \in Accounts, p \in EditedProjects, c \in Components :
          <<u, p, c>> \in Editor!Keys
    /\ \A k \in Editor!Keys : k[1] \in Accounts /\ k[2] \in EditedProjects /\ k[3] \in Components /\ k = <<k[1], k[2], k[3]>>
BY DEF Editor!Keys

\* Drafts that are dropped or pruned leave the others as they were.
LEMMA WithoutIsHomely == ASSUME NEW ds, Homely(ds), NEW ks PROVE Homely(Editor!Without(ds, ks))
<1> SUFFICES ASSUME NEW k \in Editor!Keys
             PROVE  Editor!Without(ds, ks)[k] \in Editor!Draft \cup {None} /\ HomelyDraft(Editor!Without(ds, ks)[k], k)
  BY DEF Homely, Editor!Without
<1>1. CASE k \in ks \/ ds[k] = None
  BY <1>1 DEF Editor!Without, HomelyDraft
<1>2. CASE ~(k \in ks \/ ds[k] = None)
  <2>1. Editor!Without(ds, ks)[k] = [ds[k] EXCEPT !.older = @ \ ks]
    BY <1>2 DEF Editor!Without
  <2>2. ds[k] \in Editor!Draft /\ HomelyDraft(ds[k], k)
    BY <1>2 DEF Homely
  <2>3. [ds[k] EXCEPT !.older = @ \ ks] \in Editor!Draft
    BY <2>2 DEF Editor!Draft
  <2>4. /\ [ds[k] EXCEPT !.older = @ \ ks].text = ds[k].text /\ [ds[k] EXCEPT !.older = @ \ ks].base = ds[k].base
        /\ [ds[k] EXCEPT !.older = @ \ ks].conflict = ds[k].conflict
    BY <2>2 DEF Editor!Draft
  <2> QED
    BY <1>2, <2>1, <2>2, <2>3, <2>4 DEF HomelyDraft
<1> QED
  BY <1>1, <1>2

LEMMA PruneIsHomely == ASSUME NEW ds, Homely(ds), NEW u PROVE Homely(Editor!Prune(ds, u))
<1>1. \E ks : Editor!Prune(ds, u) = Editor!Without(ds, ks)
  BY Zenon DEF Editor!Prune
<1> QED
  BY <1>1, WithoutIsHomely

LEMMA SetDraftIsHomely ==
    ASSUME NEW ds, Homely(ds), NEW k \in Editor!Keys, NEW d \in Editor!Draft, HomelyDraft(d, k)
    PROVE  Homely(Editor!SetDraft(ds, k, d))
<1>1. Homely([ds EXCEPT ![k] = d])
  BY DEF Homely
<1> QED
  BY <1>1, PruneIsHomely DEF Editor!SetDraft

\* What the panel shows after a step is of the document it is on.
LEMMA RendersHome ==
    ASSUME SourceInv, NEW u \in Accounts, NEW p \in EditedProjects, NEW c \in Components \cup {None},
           NEW ds, NEW timers, NEW docs,
           Homely(ds), DocsHome(docs), timers \subseteq Editor!Keys,
           Editor!Renders(<<u, p, c>>, ds, timers, docs)
    PROVE  /\ Homely(drafts') /\ MetHome(met') /\ armed' \subseteq Editor!Keys /\ screen' \in Editor!Texts
           /\ c # None => screen'.homes \subseteq {<<u, p, c>>}
<1> DEFINE here == <<u, p, c>>
           incoming == IF docs[here] = None THEN Editor!Sketch ELSE docs[here]
<1>1. CASE c = None
  <2>1. drafts' = ds /\ armed' = timers /\ screen' = Editor!Sketch /\ met' = met
    BY <1>1 DEF Editor!Renders
  <2> QED
    BY <1>1, <2>1, SketchIsHome DEF SourceInv
<1>2. CASE c # None
  <2>1. here \in Editor!Keys /\ here[3] = c
    BY <1>2, KeysAreTriples
  <2>2. incoming \in Editor!Texts /\ incoming.homes \subseteq {here}
    BY <2>1, SketchIsHome DEF DocsHome, Home
  <2>3. ds[here] # None => ds[here].text \in Editor!Texts /\ ds[here].text.homes \subseteq {here}
    <3>1. ds[here] \in Editor!Draft \cup {None} /\ HomelyDraft(ds[here], here)
      BY <2>1 DEF Homely
    <3> QED
      BY <3>1 DEF HomelyDraft, Editor!Draft
  <2>4. met' = [met EXCEPT ![here] = @ \cup {screen'}]
    BY <1>2, <2>1 DEF Editor!Renders
  <2>5. ASSUME screen' \in Editor!Texts /\ screen'.homes \subseteq {here} PROVE MetHome(met')
    <3>1. MetHome(met) /\ here \in Editor!Keys
      BY <2>1 DEF SourceInv
    <3> HIDE DEF here
    <3> QED
      BY <2>4, <2>5, <3>1 DEF MetHome
  <2>6. CASE view.mounted /\ here = Editor!Shown /\ docs[here] = documents[here]
    <3>1. drafts' = ds /\ armed' = timers /\ screen' = screen
      BY <1>2, <2>6 DEF Editor!Renders
    <3>2. view.component = c
      BY <2>6 DEF Editor!Shown, Editor!EditorDocumentKey
    <3>3. screen' \in Editor!Texts /\ screen'.homes \subseteq {here}
      BY <1>2, <2>6, <3>1, <3>2 DEF SourceInv
    <3> QED
      BY <2>5, <3>1, <3>3 DEF SourceInv
  <2>7. CASE ~(view.mounted /\ here = Editor!Shown /\ docs[here] = documents[here])
    <3>1. PICK moved \in BOOLEAN : /\ moved = (~view.mounted \/ here # Editor!Shown)
                                   /\ drafts' = Editor!Synchronised(here, ds, timers, docs, moved).drafts
                                   /\ armed' = Editor!Synchronised(here, ds, timers, docs, moved).armed
                                   /\ screen' = Editor!Synchronised(here, ds, timers, docs, moved).screen
      BY <1>2, <2>1, <2>7 DEF Editor!Renders
    <3>2. drafts' = ds \/ drafts' = Editor!Without(ds, {here})
      BY <3>1 DEF Editor!Synchronised
    <3>3. armed' = timers \/ armed' = timers \cup {here}
      BY <3>1 DEF Editor!Synchronised
    <3>4. screen' = incoming \/ (ds[here] # None /\ screen' = ds[here].text) \/ (~moved /\ screen' = screen)
      BY <3>1 DEF Editor!Synchronised
    <3>5. ~moved => screen \in Editor!Texts /\ screen.homes \subseteq {here}
      BY <1>2, <3>1 DEF SourceInv, Editor!Shown, Editor!EditorDocumentKey
    <3>6. screen' \in Editor!Texts /\ screen'.homes \subseteq {here}
      BY <2>2, <2>3, <3>4, <3>5
    <3>7. Homely(drafts')
      BY <3>2, WithoutIsHomely
    <3> QED
      BY <2>1, <2>5, <3>3, <3>6, <3>7
  <2> QED
    BY <2>6, <2>7
<1> QED
  BY <1>1, <1>2

LEMMA SourceStarts == ASSUME Editor!EditorInit PROVE SourceInv
<1>1. \A k : Home(None, k) /\ HomelyDraft(None, k)
  BY DEF Home, HomelyDraft
<1>2. DocsHome(documents) /\ Homely(drafts) /\ MetHome(met) /\ Typed(typed)
  BY <1>1 DEF Editor!EditorInit, DocsHome, Homely, MetHome, Typed
<1>3. view \in Views /\ ~view.mounted /\ texts \in 0..MaxTexts
  <2>1. view \in [project : EditedProjects, component : {None}, mounted : {FALSE}] /\ texts = 0
    BY DEF Editor!EditorInit
  <2>2. view \in Views /\ ~view.mounted
    BY <2>1 DEF Views
  <2> QED
    BY <2>1, <2>2, TextsAssumption
<1> QED
  BY <1>2, <1>3, SketchIsHome DEF Editor!EditorInit, SourceInv

LEMMA MovesHome == ASSUME SourceInv, NEW v \in Views, Editor!Moves(v) PROVE SourceInv'
<1>1. UNCHANGED <<user, documents, texts, typed>> /\ view' = v
  BY DEF Editor!Moves
<1>2. CASE v.mounted
  <2>1. Editor!Renders(<<user, v.project, v.component>>, Editor!Prune(drafts, user), armed, documents)
    BY <1>2 DEF Editor!Moves, Editor!EditorDocumentKey
  <2>2. /\ Homely(drafts') /\ MetHome(met') /\ armed' \subseteq Editor!Keys /\ screen' \in Editor!Texts
        /\ v.component # None => screen'.homes \subseteq {<<user, v.project, v.component>>}
    BY <2>1, RendersHome, PruneIsHomely DEF SourceInv, Views
  <2> QED
    BY <1>1, <2>2 DEF SourceInv, Typed, DocsHome, Editor!Shown, Editor!EditorDocumentKey
<1>3. CASE ~v.mounted
  BY <1>1, <1>3 DEF Editor!Moves, SourceInv, Typed, DocsHome, Homely, MetHome
<1> QED
  BY <1>2, <1>3

LEMMA PanelHome ==
    ASSUME SourceInv, Editor!OpenPanel \/ Editor!Select \/ Editor!SwitchProject
    PROVE  SourceInv'
<1>0. view \in Views
  BY DEF SourceInv
<1>1. CASE Editor!OpenPanel
  <2>1. [view EXCEPT !.mounted = TRUE] \in Views
    BY <1>0 DEF Views
  <2> QED
    BY <1>1, <2>1, MovesHome DEF Editor!OpenPanel
<1>2. CASE Editor!Select
  <2>1. PICK c \in Components : Editor!Moves([view EXCEPT !.component = c])
    BY <1>2, Zenon DEF Editor!Select
  <2>2. [view EXCEPT !.component = c] \in Views
    BY <1>0 DEF Views
  <2> QED
    BY <2>1, <2>2, MovesHome
<1>3. CASE Editor!SwitchProject
  <2>1. PICK p \in EditedProjects : Editor!Moves([view EXCEPT !.project = p, !.component = None])
    BY <1>3, Zenon DEF Editor!SwitchProject
  <2>2. [view EXCEPT !.project = p, !.component = None] \in Views
    BY <1>0 DEF Views
  <2> QED
    BY <2>1, <2>2, MovesHome
<1> QED
  BY <1>1, <1>2, <1>3

LEMMA ChangeHome == ASSUME SourceInv, Editor!ChangeUser PROVE SourceInv'
<1>0. PICK u \in Accounts, p \in EditedProjects : \E v :
        /\ v = [view EXCEPT !.project = p, !.component = None]
        /\ user' = u /\ view' = v
        /\ IF view.mounted THEN Editor!Renders(Editor!EditorDocumentKey(u, v), Editor!Prune(drafts, u), armed, documents)
           ELSE UNCHANGED <<drafts, armed, screen, met>>
        /\ typed' = [k \in Editor!Keys |-> None] /\ UNCHANGED <<documents, texts>>
  BY Zenon DEF Editor!ChangeUser
<1>1. PICK v :
        /\ v = [view EXCEPT !.project = p, !.component = None]
        /\ user' = u /\ view' = v
        /\ IF view.mounted THEN Editor!Renders(Editor!EditorDocumentKey(u, v), Editor!Prune(drafts, u), armed, documents)
           ELSE UNCHANGED <<drafts, armed, screen, met>>
        /\ typed' = [k \in Editor!Keys |-> None] /\ UNCHANGED <<documents, texts>>
  BY <1>0, Zenon
<1>2. v \in Views /\ v.mounted = view.mounted /\ v.component = None /\ v.project = p
  BY <1>1 DEF SourceInv, Views
<1>3. Typed(typed')
  BY <1>1 DEF Typed
<1>4. /\ Homely(drafts') /\ MetHome(met') /\ armed' \subseteq Editor!Keys /\ screen' \in Editor!Texts
  <2>1. CASE view.mounted
    <3>1. Editor!Renders(<<u, p, v.component>>, Editor!Prune(drafts, u), armed, documents) /\ v.component \in Components \cup {None}
      BY <1>1, <1>2, <2>1 DEF Editor!EditorDocumentKey
    <3> QED
      BY <3>1, RendersHome, PruneIsHomely DEF SourceInv
  <2>2. CASE ~view.mounted
    BY <1>1, <2>2 DEF SourceInv, Homely, MetHome
  <2> QED
    BY <2>1, <2>2
<1> QED
  BY <1>1, <1>2, <1>3, <1>4 DEF SourceInv, DocsHome

\* what is typed is made of what is on screen, and becomes the document's draft
LEMMA TypedDraft ==
    ASSUME SourceInv, Editor!HandleCodeChange
    PROVE  /\ Editor!Shown \in Editor!Keys
           /\ screen' \in Editor!Texts /\ screen'.homes \subseteq {Editor!Shown}
           /\ \E d \in Editor!Draft :
                 /\ HomelyDraft(d, Editor!Shown) /\ drafts' = Editor!SetDraft(drafts, Editor!Shown, d)
                 /\ d.text = screen' /\ d.dirty /\ (d.conflict # None => d.conflict.mine = screen')
                 /\ d.conflict = None => Editor!Shown \in armed'
                 /\ d.base = IF drafts[Editor!Shown] = None THEN documents[Editor!Shown] ELSE drafts[Editor!Shown].base
<1> DEFINE here == Editor!Shown
           existing == drafts[here]
           new == [n |-> texts + 1, homes |-> screen.homes \cup {here}]
           conflict == IF existing = None \/ existing.conflict = None THEN None ELSE [existing.conflict EXCEPT !.mine = new]
           base == IF existing = None THEN documents[here] ELSE existing.base
           older == IF existing = None THEN {k \in Editor!Keys : drafts[k] # None} ELSE existing.older
           d == [text |-> new, base |-> base, dirty |-> TRUE, conflict |-> conflict, refused |-> FALSE, older |-> older]
<1>1. /\ drafts' = Editor!SetDraft(drafts, here, d)
      /\ armed' = IF conflict = None THEN armed \cup {here} ELSE armed
      /\ screen' = new
  BY DEF Editor!HandleCodeChange
<1>2. view.mounted /\ view.component # None /\ texts < MaxTexts
  BY DEF Editor!HandleCodeChange
<1>3. here \in Editor!Keys
  BY <1>2, KeysAreTriples DEF SourceInv, Views, Editor!Shown, Editor!EditorDocumentKey
<1>4. new \in Editor!Texts /\ new.homes \subseteq {here}
  BY <1>2, <1>3, TextsAssumption DEF SourceInv, Editor!Texts
<1>5. existing # None => existing \in Editor!Draft /\ HomelyDraft(existing, here)
  BY <1>3 DEF SourceInv, Homely
<1> HIDE DEF here, existing, new
<1>6. conflict \in Editor!Conflict \cup {None} /\ (conflict # None => conflict.mine = new /\ Home(conflict.newer, here))
  <2>1. CASE existing = None \/ existing.conflict = None
    BY <2>1
  <2>2. CASE ~(existing = None \/ existing.conflict = None)
    <3>1. existing.conflict \in Editor!Conflict /\ Home(existing.conflict.newer, here)
      BY <1>5, <2>2 DEF HomelyDraft, Editor!Draft
    <3> QED
      BY <1>4, <2>2, <3>1 DEF Editor!Conflict
  <2> QED
    BY <2>1, <2>2
<1>7. base \in Editor!Texts \cup {None} /\ Home(base, here)
  BY <1>3, <1>5 DEF HomelyDraft, Editor!Draft, SourceInv, DocsHome
<1>8. older \in SUBSET Editor!Keys
  BY <1>5 DEF Editor!Draft
<1>9. base = IF drafts[here] = None THEN documents[here] ELSE drafts[here].base
  BY DEF existing
<1>10. conflict = None => here \in armed'
  BY <1>1
<1> HIDE DEF conflict, base, older
<1>11. d \in Editor!Draft /\ HomelyDraft(d, here)
  BY <1>4, <1>6, <1>7, <1>8 DEF Editor!Draft, HomelyDraft
<1>12. d.text = new /\ d.dirty /\ d.conflict = conflict /\ d.base = base
  OBVIOUS
<1> HIDE DEF d
<1> QED
  BY <1>1, <1>3, <1>4, <1>6, <1>9, <1>10, <1>11, <1>12 DEF here

LEMMA TypingHome == ASSUME SourceInv, Editor!HandleCodeChange PROVE SourceInv'
<1> DEFINE here == Editor!Shown
<1>1. /\ met' = [met EXCEPT ![here] = @ \cup {screen'}] /\ typed' = [typed EXCEPT ![here] = screen'] /\ texts' = texts + 1
      /\ armed' = armed \/ armed' = armed \cup {here}
      /\ UNCHANGED <<user, documents, view>> /\ texts < MaxTexts
  BY DEF Editor!HandleCodeChange
<1>2. here \in Editor!Keys /\ screen' \in Editor!Texts /\ screen'.homes \subseteq {here} /\ Homely(drafts')
  BY TypedDraft, SetDraftIsHomely DEF SourceInv
<1>3. Editor!Shown' = here
  BY <1>1 DEF Editor!Shown, Editor!EditorDocumentKey
<1> HIDE DEF here
<1>4. MetHome(met') /\ Typed(typed') /\ armed' \subseteq Editor!Keys
  BY <1>1, <1>2 DEF SourceInv, MetHome, Typed
<1>5. texts' \in 0..MaxTexts
  BY <1>1, TextsAssumption DEF SourceInv
<1> QED
  BY <1>1, <1>2, <1>3, <1>4, <1>5 DEF SourceInv, DocsHome

\* what may be flushed is written where it was typed
LEMMA FlushGoesHome == ASSUME SourceInv, NEW k \in Editor!Keys, Editor!MayFlush(k) PROVE Editor!Target(k) = k
BY KeysAreTriples DEF Editor!MayFlush, Editor!Target

LEMMA FlushedIsHomely ==
    ASSUME SourceInv, NEW k \in Editor!Keys, Editor!MayFlush(k), NEW refused \in BOOLEAN
    PROVE  Editor!Flushed(k, refused) \in Editor!Draft /\ HomelyDraft(Editor!Flushed(k, refused), k)
<1> DEFINE d == drafts[k]
           doc == documents[k]
<1>1. d \in Editor!Draft /\ d # None /\ HomelyDraft(d, k) /\ Editor!Target(k) = k
  BY FlushGoesHome DEF SourceInv, Homely, Editor!MayFlush, Editor!Edited
<1>2. doc \in Editor!Texts \cup {None} /\ Home(doc, k)
  BY DEF SourceInv, DocsHome
<1>3. \/ Editor!Flushed(k, refused) = [d EXCEPT !.base = d.text, !.dirty = FALSE, !.conflict = None, !.refused = FALSE]
      \/ Editor!Flushed(k, refused) = [d EXCEPT !.refused = TRUE]
      \/ Editor!Flushed(k, refused) = [d EXCEPT !.conflict = [mine |-> d.text, newer |-> doc]]
  BY <1>1 DEF Editor!Flushed
<1> HIDE DEF d, doc
<1>4. d.text \in Editor!Texts /\ d.text.homes \subseteq {k} /\ Home(d.base, k)
  BY <1>1 DEF HomelyDraft, Editor!Draft
<1>5. [d EXCEPT !.base = d.text, !.dirty = FALSE, !.conflict = None, !.refused = FALSE] \in Editor!Draft
  BY <1>1, <1>4 DEF Editor!Draft
<1>6. HomelyDraft([d EXCEPT !.base = d.text, !.dirty = FALSE, !.conflict = None, !.refused = FALSE], k)
  BY <1>1, <1>4 DEF HomelyDraft, Editor!Draft, Home
<1>7. [d EXCEPT !.refused = TRUE] \in Editor!Draft /\ HomelyDraft([d EXCEPT !.refused = TRUE], k)
  BY <1>1, <1>4 DEF HomelyDraft, Editor!Draft
<1>8. PICK c \in Editor!Conflict : c = [mine |-> d.text, newer |-> doc]
  BY <1>2, <1>4 DEF Editor!Conflict
<1>9. c.mine = d.text /\ c.newer = doc
  BY <1>8
<1>10. [d EXCEPT !.conflict = c] \in Editor!Draft /\ HomelyDraft([d EXCEPT !.conflict = c], k)
  BY <1>1, <1>2, <1>4, <1>9 DEF HomelyDraft, Editor!Draft
<1> QED
  BY <1>3, <1>5, <1>6, <1>7, <1>8, <1>10

LEMMA TimerHome == ASSUME SourceInv, Editor!TimerFires PROVE SourceInv'
<1>1. PICK k \in armed, refused \in BOOLEAN :
        IF ~Editor!MayFlush(k)
        THEN /\ ~refused /\ armed' = armed \ {k} /\ overwrote' = {}
             /\ UNCHANGED <<user, documents, view, drafts, screen, texts, turns, met, typed>>
        ELSE LET docs == IF Editor!Saves(k, refused) THEN [documents EXCEPT ![Editor!Target(k)] = drafts[k].text] ELSE documents IN
             /\ documents' = docs
             /\ Editor!Renders(Editor!Shown, Editor!SetDraft(drafts, k, Editor!Flushed(k, refused)), armed \ {k}, docs)
             /\ overwrote' = IF Editor!Saves(k, refused) THEN {Editor!Overwritten(k)} ELSE {}
             /\ typed' = IF Editor!Saves(k, refused) THEN [typed EXCEPT ![k] = None] ELSE typed
             /\ UNCHANGED <<user, view, texts, turns>>
  BY Zenon DEF Editor!TimerFires
<1>2. k \in Editor!Keys
  BY DEF SourceInv
<1>3. CASE ~Editor!MayFlush(k)
  <2>1. armed' = armed \ {k} /\ UNCHANGED <<user, documents, view, drafts, screen, texts, met, typed>>
    BY <1>1, <1>3
  <2> QED
    BY <2>1 DEF SourceInv, DocsHome, Homely, MetHome, Typed, Editor!Shown, Editor!EditorDocumentKey
<1>4. CASE Editor!MayFlush(k)
  <2>1. /\ documents' = documents \/ documents' = [documents EXCEPT ![k] = drafts[k].text]
        /\ Editor!Renders(Editor!Shown, Editor!SetDraft(drafts, k, Editor!Flushed(k, refused)), armed \ {k}, documents')
        /\ typed' = typed \/ typed' = [typed EXCEPT ![k] = None]
        /\ UNCHANGED <<user, view, texts>>
    BY <1>1, <1>2, <1>4, FlushGoesHome
  <2>2. Homely(Editor!SetDraft(drafts, k, Editor!Flushed(k, refused)))
    BY <1>2, <1>4, FlushedIsHomely, SetDraftIsHomely DEF SourceInv
  <2>3. DocsHome(documents')
    <3>1. drafts[k] \in Editor!Draft /\ drafts[k] # None /\ HomelyDraft(drafts[k], k)
      BY <1>2, <1>4 DEF SourceInv, Homely, Editor!MayFlush, Editor!Edited
    <3>2. drafts[k].text \in Editor!Texts /\ drafts[k].text.homes \subseteq {k}
      BY <3>1 DEF HomelyDraft, Editor!Draft
    <3> QED
      BY <1>2, <2>1, <3>2 DEF SourceInv, DocsHome, Home
  <2>4. /\ Homely(drafts') /\ MetHome(met') /\ armed' \subseteq Editor!Keys /\ screen' \in Editor!Texts
        /\ view.component # None => screen'.homes \subseteq {<<user, view.project, view.component>>}
    <3>1. armed \ {k} \subseteq Editor!Keys
      BY DEF SourceInv
    <3>2. Editor!Renders(<<user, view.project, view.component>>, Editor!SetDraft(drafts, k, Editor!Flushed(k, refused)), armed \ {k}, documents')
      BY <2>1 DEF Editor!Shown, Editor!EditorDocumentKey
    <3>3. user \in Accounts /\ view.project \in EditedProjects /\ view.component \in Components \cup {None}
      BY DEF SourceInv, Views
    <3> QED
      BY <2>2, <2>3, <3>1, <3>2, <3>3, RendersHome
  <2>5. Typed(typed')
    BY <2>1 DEF SourceInv, Typed
  <2> QED
    BY <2>1, <2>3, <2>4, <2>5 DEF SourceInv, Editor!Shown, Editor!EditorDocumentKey
<1> QED
  BY <1>3, <1>4

LEMMA CloseHome == ASSUME SourceInv, Editor!ClosePanel PROVE SourceInv'
<1>1. PICK refused \in BOOLEAN :
        LET Saved == {k \in Editor!Keys : Editor!Saves(k, refused)}
        IN  /\ refused => \E k \in Editor!Keys : Editor!MayFlush(k)
            /\ documents' = [k \in Editor!Keys |-> IF \E j \in Saved : Editor!Target(j) = k
                                                   THEN drafts[CHOOSE j \in Saved : Editor!Target(j) = k].text ELSE documents[k]]
            /\ drafts' = Editor!Prune([k \in Editor!Keys |-> IF Editor!MayFlush(k) THEN Editor!Flushed(k, refused) ELSE drafts[k]], user)
            /\ typed' = [k \in Editor!Keys |-> IF k \in Saved THEN None ELSE typed[k]]
            /\ overwrote' = {Editor!Overwritten(k) : k \in Saved}
  BY Zenon DEF Editor!ClosePanel
<1> DEFINE Saved == {k \in Editor!Keys : Editor!Saves(k, refused)}
           ds == [k \in Editor!Keys |-> IF Editor!MayFlush(k) THEN Editor!Flushed(k, refused) ELSE drafts[k]]
<1>2. /\ view' = [view EXCEPT !.mounted = FALSE]
      /\ armed' = {} /\ screen' = Editor!Sketch /\ UNCHANGED <<user, texts, met>>
  BY DEF Editor!ClosePanel
<1>3. Homely(ds)
  <2>1. \A k \in Editor!Keys : drafts[k] \in Editor!Draft \cup {None} /\ HomelyDraft(drafts[k], k)
    BY DEF SourceInv, Homely
  <2>2. \A k \in Editor!Keys : Editor!MayFlush(k) =>
            Editor!Flushed(k, refused) \in Editor!Draft /\ HomelyDraft(Editor!Flushed(k, refused), k)
    BY FlushedIsHomely
  <2> QED
    BY <2>1, <2>2 DEF Homely
<1>4. Homely(drafts')
  <2>1. drafts' = Editor!Prune(ds, user)
    BY <1>1
  <2> HIDE DEF ds
  <2> QED
    BY <1>3, <2>1, PruneIsHomely
<1>5. DocsHome(documents')
  <2> SUFFICES ASSUME NEW k \in Editor!Keys PROVE documents'[k] \in Editor!Texts \cup {None} /\ Home(documents'[k], k)
    BY <1>1 DEF DocsHome
  <2>1. CASE \E j \in Saved : Editor!Target(j) = k
    <3>1. PICK j \in Saved : documents'[k] = drafts[j].text /\ Editor!Target(j) = k
      <4> DEFINE i == CHOOSE j \in Saved : Editor!Target(j) = k
      <4>1. i \in Saved /\ Editor!Target(i) = k
        BY <2>1
      <4>2. documents'[k] = drafts[i].text
        BY <1>1, <2>1
      <4> QED
        BY <4>1, <4>2
    <3>2. Editor!MayFlush(j) /\ j \in Editor!Keys
      BY <3>1 DEF Editor!Saves
    <3>3. j = k
      BY <3>1, <3>2, FlushGoesHome
    <3>4. drafts[k] \in Editor!Draft /\ drafts[k] # None /\ HomelyDraft(drafts[k], k)
      BY <3>2, <3>3 DEF SourceInv, Homely, Editor!MayFlush, Editor!Edited
    <3> QED
      BY <3>1, <3>3, <3>4 DEF HomelyDraft, Editor!Draft, Home
  <2>2. CASE ~\E j \in Saved : Editor!Target(j) = k
    <3>1. documents'[k] = documents[k]
      BY <1>1, <2>2
    <3> QED
      BY <3>1 DEF SourceInv, DocsHome
  <2> QED
    BY <2>1, <2>2
<1>6. Typed(typed')
  BY <1>1 DEF SourceInv, Typed
<1>7. view' \in Views /\ ~view'.mounted
  BY <1>2 DEF SourceInv, Views
<1> QED
  BY <1>2, <1>4, <1>5, <1>6, <1>7, SketchIsHome DEF SourceInv, MetHome

\* another writer brings a text of the document's own, or one that was shown there
LEMMA OthersHome == ASSUME SourceInv, Editor!OtherWrites PROVE SourceInv'
<1>0. PICK k \in Editor!Keys : \E new :
        /\ new \in {None} \cup met[k] \cup (IF texts < MaxTexts THEN {[n |-> texts + 1, homes |-> {k}]} ELSE {})
        /\ documents' = [documents EXCEPT ![k] = new]
        /\ IF view.mounted THEN Editor!Renders(Editor!Shown, drafts, armed, [documents EXCEPT ![k] = new])
           ELSE UNCHANGED <<drafts, armed, screen, met>>
        /\ texts' = IF new # None /\ new.n > texts THEN texts + 1 ELSE texts
        /\ UNCHANGED <<user, view, typed>>
  BY Zenon DEF Editor!OtherWrites
<1>1. PICK new :
        /\ new \in {None} \cup met[k] \cup (IF texts < MaxTexts THEN {[n |-> texts + 1, homes |-> {k}]} ELSE {})
        /\ documents' = [documents EXCEPT ![k] = new]
        /\ IF view.mounted THEN Editor!Renders(Editor!Shown, drafts, armed, [documents EXCEPT ![k] = new])
           ELSE UNCHANGED <<drafts, armed, screen, met>>
        /\ texts' = IF new # None /\ new.n > texts THEN texts + 1 ELSE texts
        /\ UNCHANGED <<user, view, typed>>
  BY <1>0, Zenon
<1>2. /\ new \in Editor!Texts \cup {None} /\ Home(new, k)
      /\ new # None => new.n <= MaxTexts /\ new.n \in Nat
  <2>1. CASE new = None
    BY <2>1 DEF Home
  <2>2. CASE new \in met[k]
    BY <2>2, TextsAssumption DEF SourceInv, MetHome, Home, Editor!Texts
  <2>3. CASE texts < MaxTexts /\ new = [n |-> texts + 1, homes |-> {k}]
    BY <2>3, TextsAssumption DEF SourceInv, Home, Editor!Texts
  <2> QED
    BY <1>1, <2>1, <2>2, <2>3
<1>3. texts' \in 0..MaxTexts
  BY <1>1, <1>2, TextsAssumption DEF SourceInv
<1>4. DocsHome(documents')
  BY <1>1, <1>2 DEF SourceInv, DocsHome
<1>5. /\ Homely(drafts') /\ MetHome(met') /\ armed' \subseteq Editor!Keys /\ screen' \in Editor!Texts
      /\ view.mounted /\ view.component # None => screen'.homes \subseteq {<<user, view.project, view.component>>}
  <2>1. CASE view.mounted
    <3>1. Editor!Renders(<<user, view.project, view.component>>, drafts, armed, documents')
      BY <1>1, <2>1 DEF Editor!Shown, Editor!EditorDocumentKey
    <3>2. user \in Accounts /\ view.project \in EditedProjects /\ view.component \in Components \cup {None}
      BY DEF SourceInv, Views
    <3> QED
      BY <1>4, <3>1, <3>2, RendersHome DEF SourceInv
  <2>2. CASE ~view.mounted
    BY <1>1, <2>2 DEF SourceInv, Homely, MetHome
  <2> QED
    BY <2>1, <2>2
<1> QED
  BY <1>1, <1>3, <1>4, <1>5 DEF SourceInv, Typed, Editor!Shown, Editor!EditorDocumentKey

\* The buttons of a conflict: both of its versions are of the document shown.
LEMMA ConflictIsHome ==
    ASSUME SourceInv, Editor!Conflicting # None
    PROVE  /\ Editor!Shown \in Editor!Keys /\ drafts[Editor!Shown] \in Editor!Draft \ {None}
           /\ HomelyDraft(drafts[Editor!Shown], Editor!Shown)
           /\ Editor!Conflicting \in Editor!Conflict
           /\ Editor!Conflicting.mine.homes \subseteq {Editor!Shown} /\ Home(Editor!Conflicting.newer, Editor!Shown)
<1>1. view.mounted /\ view.component # None /\ drafts[Editor!Shown] # None /\ Editor!Conflicting = drafts[Editor!Shown].conflict
  BY DEF Editor!Conflicting
<1>2. Editor!Shown \in Editor!Keys
  BY <1>1, KeysAreTriples DEF SourceInv, Views, Editor!Shown, Editor!EditorDocumentKey
<1>3. drafts[Editor!Shown] \in Editor!Draft /\ HomelyDraft(drafts[Editor!Shown], Editor!Shown)
  BY <1>1, <1>2 DEF SourceInv, Homely
<1> QED
  BY <1>1, <1>2, <1>3 DEF HomelyDraft, Editor!Draft

LEMMA ResolvesHome ==
    ASSUME SourceInv, NEW ds, Homely(ds), NEW timers, timers \subseteq Editor!Keys,
           NEW text \in Editor!Texts, text.homes \subseteq {Editor!Shown},
           Editor!Conflicting # None, Editor!Resolves(ds, timers, text), Typed(typed')
    PROVE  SourceInv'
<1> DEFINE k == Editor!Shown
           newer == Editor!Conflicting.newer
<1>1. /\ drafts' = ds /\ armed' = timers /\ screen' = text
      /\ met' = [met EXCEPT ![k] = @ \cup (({text, newer} \cup Editor!Unshown(ds)) \ {None})]
      /\ UNCHANGED <<user, documents, view, texts>>
  BY DEF Editor!Resolves
<1>2. k \in Editor!Keys /\ newer \in Editor!Texts \cup {None} /\ Home(newer, k)
  BY ConflictIsHome DEF Editor!Conflict
<1>3. k' = k
  BY <1>1 DEF Editor!Shown, Editor!EditorDocumentKey
<1>4. \A x \in Editor!Unshown(ds) : x \in Editor!Texts \cup {None} /\ Home(x, k)
  BY <1>2 DEF Editor!Unshown, SourceInv, DocsHome
<1> HIDE DEF k, newer
<1>5. MetHome(met')
  <2>1. text.homes \subseteq {k}
    BY DEF k
  <2> QED
    BY <1>1, <1>2, <1>4, <2>1 DEF SourceInv, MetHome, Home
<1> QED
  BY <1>1, <1>3, <1>5 DEF SourceInv, DocsHome, k

LEMMA ConflictsEndHome ==
    ASSUME SourceInv,
           \/ Editor!UseNewerConflictSource \/ Editor!UseDeletedConflictSource
           \/ Editor!RestoreLocalConflictDraft \/ Editor!RebaseLocalConflictDraft
    PROVE  SourceInv'
<1> DEFINE k == Editor!Shown
           d == drafts[k]
           mine == Editor!Conflicting.mine
           newer == Editor!Conflicting.newer
<1>1. Editor!Conflicting # None
  BY DEF Editor!UseNewerConflictSource, Editor!UseDeletedConflictSource, Editor!RestoreLocalConflictDraft, Editor!RebaseLocalConflictDraft
<1>2. k \in Editor!Keys /\ d \in Editor!Draft \ {None} /\ HomelyDraft(d, k)
  BY <1>1, ConflictIsHome
<1>3. mine \in Editor!Texts /\ mine.homes \subseteq {k} /\ newer \in Editor!Texts \cup {None} /\ Home(newer, k)
  BY <1>1, ConflictIsHome DEF Editor!Conflict
<1>4. Typed([typed EXCEPT ![k] = None]) /\ Typed(typed) /\ armed \ {k} \subseteq Editor!Keys /\ armed \cup {k} \subseteq Editor!Keys
  BY <1>2 DEF SourceInv, Typed
<1>5. CASE Editor!UseNewerConflictSource
  <2> DEFINE new == [d EXCEPT !.text = newer, !.base = newer, !.dirty = FALSE, !.conflict = None]
  <2>1. newer # None /\ Editor!Resolves(Editor!SetDraft(drafts, k, new), armed \ {k}, newer) /\ typed' = [typed EXCEPT ![k] = None]
    BY <1>5 DEF Editor!UseNewerConflictSource
  <2>2. newer \in Editor!Texts /\ newer.homes \subseteq {k}
    BY <1>3, <2>1 DEF Home
  <2> HIDE DEF k, d, newer
  <2>3. new \in Editor!Draft /\ HomelyDraft(new, k)
    BY <1>2, <2>2 DEF HomelyDraft, Editor!Draft, Home
  <2> HIDE DEF new
  <2>4. Homely(Editor!SetDraft(drafts, k, new))
    BY <1>2, <2>3, SetDraftIsHomely DEF SourceInv
  <2>5. k = Editor!Shown
    BY DEF k
  <2> QED
    BY <1>1, <1>4, <2>1, <2>2, <2>4, <2>5, ResolvesHome
<1>6. CASE Editor!UseDeletedConflictSource
  <2> DEFINE ds == Editor!Without(Editor!Prune(drafts, user), {k})
  <2>1. Editor!Resolves(ds, armed \ {k}, Editor!Sketch) /\ typed' = [typed EXCEPT ![k] = None]
    BY <1>6 DEF Editor!UseDeletedConflictSource
  <2>2. Homely(ds)
    BY PruneIsHomely, WithoutIsHomely DEF SourceInv
  <2>3. Editor!Sketch \in Editor!Texts /\ Editor!Sketch.homes \subseteq {Editor!Shown}
    BY SketchIsHome
  <2> HIDE DEF ds
  <2> QED
    BY <1>1, <1>4, <2>1, <2>2, <2>3, ResolvesHome
<1>7. CASE Editor!RestoreLocalConflictDraft
  <2> DEFINE new == [d EXCEPT !.text = mine, !.dirty = TRUE]
  <2>1. Editor!Resolves(Editor!SetDraft(drafts, k, new), armed \ {k}, mine) /\ typed' = typed
    BY <1>7 DEF Editor!RestoreLocalConflictDraft
  <2>2. k = Editor!Shown
    OBVIOUS
  <2> HIDE DEF k, d, mine
  <2>3. new \in Editor!Draft /\ HomelyDraft(new, k)
    BY <1>2, <1>3 DEF HomelyDraft, Editor!Draft
  <2> HIDE DEF new
  <2>4. Homely(Editor!SetDraft(drafts, k, new))
    BY <1>2, <2>3, SetDraftIsHomely DEF SourceInv
  <2> QED
    BY <1>1, <1>3, <1>4, <2>1, <2>2, <2>4, ResolvesHome
<1>8. CASE Editor!RebaseLocalConflictDraft
  <2> DEFINE new == [d EXCEPT !.text = mine, !.base = newer, !.dirty = TRUE, !.conflict = None]
  <2>1. Editor!Resolves(Editor!SetDraft(drafts, k, new), armed \cup {k}, mine) /\ typed' = typed
    BY <1>8 DEF Editor!RebaseLocalConflictDraft
  <2>2. k = Editor!Shown
    OBVIOUS
  <2> HIDE DEF k, d, mine, newer
  <2>3. new \in Editor!Draft /\ HomelyDraft(new, k)
    BY <1>2, <1>3 DEF HomelyDraft, Editor!Draft
  <2> HIDE DEF new
  <2>4. Homely(Editor!SetDraft(drafts, k, new))
    BY <1>2, <2>3, SetDraftIsHomely DEF SourceInv
  <2> QED
    BY <1>1, <1>3, <1>4, <2>1, <2>2, <2>4, ResolvesHome
<1> QED
  BY <1>5, <1>6, <1>7, <1>8

LEMMA SourceSteps == ASSUME SourceInv, Editor!EditorNext PROVE SourceInv'
BY PanelHome, ChangeHome, TypingHome, TimerHome, CloseHome, OthersHome, ConflictsEndHome DEF Editor!EditorNext

(***************************************************************************)
(* Nothing typed is lost, and nothing is replaced unseen.  Every draft     *)
(* starts from, and holds, a version that was shown (AllKnown); what was   *)
(* typed is in its draft (AllHeld), and on screen it waits for its timer,  *)
(* a conflict's button, or the panel says it was refused (Waits).  That a  *)
(* document without a draft shows itself (Faces) needs that its clean      *)
(* draft is not pruned when another document's is flushed: while the panel *)
(* is open the account's drafts are within the cache's size, or those that *)
(* may go have gone (Roomy).                                               *)
(***************************************************************************)
\* Drafts in the cache: those of an account, and those that may be pruned.
CleanOf(ds, u) == {k \in Editor!Owned(ds, u) : ~ds[k].dirty /\ ds[k].conflict = None}
Roomy(ds, u) == \A k \in CleanOf(ds, u) : Cardinality(CleanOf(ds, u) \cap ds[k].older) + MaxDrafts >= Cardinality(Editor!Owned(ds, u))
FewDrafts(ds) == IsFiniteSet({k \in Editor!Keys : ds[k] # None})
\* what a draft starts from, and would put in its place, was shown
Known(d, k, m) == d # None => d.text \in m[k] /\ (d.base # None => d.base \in m[k])
AllKnown(ds, m) == \A k \in Editor!Keys : Known(ds[k], k, m)
\* what was typed is in its draft
HoldsText(d, w) == d # None /\ d.dirty /\ d.text = w /\ (d.conflict # None => d.conflict.mine = w)
AllHeld(ds, w, u) == \A k \in Editor!Keys : w[k] # None => k[1] = u /\ HoldsText(ds[k], w[k])
\* the document on screen: its draft waits for something, and one that has
\* none shows the document
Waits(k, ds, timers, w) == w[k] # None => k \in timers \/ ds[k].conflict # None \/ ds[k].refused
Faces(k, ds, docs, m) == ds[k] = None /\ docs[k] # None => docs[k] \in m[k]
KeptInv ==
    /\ FewDrafts(drafts) /\ AllKnown(drafts, met) /\ AllHeld(drafts, typed, user)
    /\ view.mounted => Roomy(drafts, user)
    /\ view.mounted /\ view.component # None =>
          Waits(Editor!Shown, drafts, armed, typed) /\ Faces(Editor!Shown, drafts, documents, met)
    /\ Editor!NothingUnseenIsLost

\* the number of drafts, as SourceEditor counts them
LEMMA SameDraftCount == ASSUME NEW S PROVE Editor!Cardinality(S) = Cardinality(S)
BY DEF Editor!Cardinality, Cardinality

\* removing the same elements from a set and a part of it
LEMMA Removal ==
    ASSUME NEW O, IsFiniteSet(O), NEW A \in SUBSET O, NEW R, NEW m \in Nat, Cardinality(A) + m >= Cardinality(O)
    PROVE  Cardinality(A \ R) + m >= Cardinality(O \ R)
<1>1. IsFiniteSet(A) /\ IsFiniteSet(O \cap R) /\ A \cap R \in SUBSET (O \cap R)
  BY FS_Subset
<1>2. Cardinality(A \cap R) <= Cardinality(O \cap R)
  BY <1>1, FS_Subset
<1>3. Cardinality(A \ R) = Cardinality(A) - Cardinality(A \cap R) /\ Cardinality(O \ R) = Cardinality(O) - Cardinality(O \cap R)
  BY <1>1, FS_Difference
<1>4. Cardinality(A) \in Nat /\ Cardinality(O) \in Nat /\ Cardinality(A \cap R) \in Nat /\ Cardinality(O \cap R) \in Nat
  BY <1>1, FS_CardinalityType, FS_Subset
<1> QED
  BY <1>2, <1>3, <1>4

\* what two drafts have in common that differ in the drafts before them
SameDraft(d, e) == e # None /\ e.text = d.text /\ e.base = d.base /\ e.dirty = d.dirty /\ e.conflict = d.conflict /\ e.refused = d.refused
\* the drafts that remain when some go
LEMMA DraftsRemain ==
    ASSUME NEW ds, Homely(ds), NEW ks, NEW k \in Editor!Keys
    PROVE  /\ k \in ks \/ ds[k] = None => Editor!Without(ds, ks)[k] = None
           /\ k \notin ks /\ ds[k] # None =>
                 SameDraft(ds[k], Editor!Without(ds, ks)[k]) /\ Editor!Without(ds, ks)[k].older = ds[k].older \ ks
<1>1. CASE k \in ks \/ ds[k] = None
  BY <1>1 DEF Editor!Without
<1>2. CASE ~(k \in ks \/ ds[k] = None)
  <2>1. Editor!Without(ds, ks)[k] = [ds[k] EXCEPT !.older = @ \ ks]
    BY <1>2 DEF Editor!Without
  <2>2. ds[k] \in Editor!Draft
    BY <1>2 DEF Homely
  <2>3. [ds[k] EXCEPT !.older = @ \ ks] \in Editor!Draft
    BY <2>2 DEF Editor!Draft
  <2>4. Editor!Without(ds, ks)[k] # None
    BY <2>1, <2>3, DraftsAssumption
  <2>5. /\ [ds[k] EXCEPT !.older = @ \ ks].text = ds[k].text /\ [ds[k] EXCEPT !.older = @ \ ks].base = ds[k].base
        /\ [ds[k] EXCEPT !.older = @ \ ks].conflict = ds[k].conflict /\ [ds[k] EXCEPT !.older = @ \ ks].dirty = ds[k].dirty
        /\ [ds[k] EXCEPT !.older = @ \ ks].refused = ds[k].refused /\ [ds[k] EXCEPT !.older = @ \ ks].older = ds[k].older \ ks
    BY <2>2 DEF Editor!Draft
  <2> QED
    BY <1>2, <2>1, <2>4, <2>5 DEF SameDraft
<1> QED
  BY <1>1, <1>2

\* the drafts that remain do what they did
LEMMA OwnedRemain ==
    ASSUME NEW ds, Homely(ds), NEW ks, NEW u
    PROVE  /\ Editor!Owned(Editor!Without(ds, ks), u) = Editor!Owned(ds, u) \ ks
           /\ CleanOf(Editor!Without(ds, ks), u) = CleanOf(ds, u) \ ks
           /\ FewDrafts(ds) => FewDrafts(Editor!Without(ds, ks)) /\ IsFiniteSet(Editor!Owned(ds, u))
<1> DEFINE e == Editor!Without(ds, ks)
<1>1. \A k \in Editor!Keys :
        /\ e[k] # None <=> k \notin ks /\ ds[k] # None
        /\ e[k] # None => e[k].dirty = ds[k].dirty /\ e[k].conflict = ds[k].conflict
  BY DraftsRemain DEF SameDraft
<1> HIDE DEF e
<1>2. Editor!Owned(e, u) = Editor!Owned(ds, u) \ ks
  BY <1>1 DEF Editor!Owned
<1>3. CleanOf(e, u) = CleanOf(ds, u) \ ks
  BY <1>1, <1>2 DEF CleanOf, Editor!Owned
<1>4. ASSUME FewDrafts(ds) PROVE FewDrafts(e) /\ IsFiniteSet(Editor!Owned(ds, u))
  <2>1. {k \in Editor!Keys : e[k] # None} \in SUBSET {k \in Editor!Keys : ds[k] # None}
    BY <1>1
  <2>2. Editor!Owned(ds, u) \in SUBSET {k \in Editor!Keys : ds[k] # None}
    BY DEF Editor!Owned
  <2> QED
    BY <1>4, <2>1, <2>2, FS_Subset DEF FewDrafts
<1> QED
  BY <1>2, <1>3, <1>4 DEF e

\* an account's drafts, and its clean ones
LEMMA OwnedAre ==
    ASSUME NEW ds, NEW u
    PROVE  /\ CleanOf(ds, u) \subseteq Editor!Owned(ds, u)
           /\ \A k \in Editor!Owned(ds, u) : k \in Editor!Keys /\ k[1] = u /\ ds[k] # None
BY DEF CleanOf, Editor!Owned

\* an account's cache stays within its size when drafts go, or all clean ones
\* that stay are within it
LEMMA StaysRoomy ==
    ASSUME NEW ds, Homely(ds), FewDrafts(ds), NEW ks, NEW u,
           \A k \in CleanOf(ds, u) \ ks : Cardinality(CleanOf(ds, u) \cap ds[k].older) + MaxDrafts >= Cardinality(Editor!Owned(ds, u))
    PROVE  Roomy(Editor!Without(ds, ks), u)
<1> DEFINE e == Editor!Without(ds, ks)
           O == Editor!Owned(ds, u)
           C == CleanOf(ds, u)
<1>0. C \subseteq O /\ \A i \in O : i \in Editor!Keys /\ ds[i] # None
  BY OwnedAre
<1> SUFFICES ASSUME NEW k \in CleanOf(e, u) PROVE Cardinality(CleanOf(e, u) \cap e[k].older) + MaxDrafts >= Cardinality(Editor!Owned(e, u))
  BY DEF Roomy
<1>1. Editor!Owned(e, u) = O \ ks /\ CleanOf(e, u) = C \ ks /\ IsFiniteSet(O)
  BY OwnedRemain
<1>2. k \in C /\ k \notin ks /\ k \in Editor!Keys /\ ds[k] # None /\ C \subseteq O
  <2>1. k \in C /\ k \notin ks
    BY <1>1
  <2> QED
    BY <1>0, <2>1
<1>3. e[k].older = ds[k].older \ ks
  BY <1>2, DraftsRemain
<1>4. CleanOf(e, u) \cap e[k].older = (C \cap ds[k].older) \ ks
  BY <1>1, <1>3
<1>5. Cardinality(C \cap ds[k].older) + MaxDrafts >= Cardinality(O)
  BY <1>2
<1>6. C \cap ds[k].older \in SUBSET O
  BY <1>2
<1> HIDE DEF e, O, C
<1> QED
  BY <1>1, <1>4, <1>5, <1>6, Removal, DraftsAssumption

\* what pruning removes: other accounts' drafts and clean ones of the account's,
\* of which none is too many afterwards
LEMMA PruneKeeps ==
    ASSUME NEW ds, Homely(ds), FewDrafts(ds), NEW u
    PROVE  /\ FewDrafts(Editor!Prune(ds, u)) /\ Roomy(Editor!Prune(ds, u), u)
           /\ \A k \in Editor!Keys :
                 /\ ds[k] = None => Editor!Prune(ds, u)[k] = None
                 /\ Editor!Prune(ds, u)[k] # None => ds[k] # None /\ SameDraft(ds[k], Editor!Prune(ds, u)[k])
                 /\ k \in Editor!Owned(ds, u) /\ (ds[k].dirty \/ ds[k].conflict # None) => Editor!Prune(ds, u)[k] # None
                 /\ /\ k \in CleanOf(ds, u)
                    /\ Cardinality(CleanOf(ds, u) \cap ds[k].older) + MaxDrafts >= Cardinality(Editor!Owned(ds, u))
                    => Editor!Prune(ds, u)[k] # None
<1> DEFINE O == Editor!Owned(ds, u)
           C == CleanOf(ds, u)
           R == Editor!Surplus(ds, C, O)
           ks == Editor!Keys \ (O \ R)
<1>1. Editor!Prune(ds, u) = Editor!Without(ds, ks)
  BY DEF Editor!Prune, CleanOf
<1>2. O \subseteq Editor!Keys /\ C \subseteq O /\ (\A k \in C : ~ds[k].dirty /\ ds[k].conflict = None) /\ \A k \in O : ds[k] # None
  BY DEF Editor!Owned, CleanOf
<1>3. IsFiniteSet(O) /\ Cardinality(O) \in Nat /\ \A S \in SUBSET O : Cardinality(S) \in Nat
  BY OwnedRemain, FS_CardinalityType, FS_Subset
<1>4. R \subseteq C /\ \A k \in C \ R : Cardinality(C \cap ds[k].older) + MaxDrafts >= Cardinality(O)
  <2>1. \A k \in C : Cardinality(C \cap ds[k].older) \in Nat
    BY <1>2, <1>3
  <2> HIDE DEF O, C
  <2> QED
    BY <1>3, <2>1, DraftsAssumption, SameDraftCount DEF Editor!Surplus
<1>5. ASSUME NEW k \in C, Cardinality(C \cap ds[k].older) + MaxDrafts >= Cardinality(O) PROVE k \notin R
  <2>1. Cardinality(C \cap ds[k].older) \in Nat
    BY <1>2, <1>3
  <2> HIDE DEF O, C
  <2> QED
    BY <1>3, <1>5, <2>1, DraftsAssumption, SameDraftCount DEF Editor!Surplus
<1> HIDE DEF O, C, R
<1>6. \A k \in C \ ks : k \in C \ R
  BY <1>2
<1>7. Roomy(Editor!Without(ds, ks), u)
  BY <1>4, <1>6, StaysRoomy DEF O, C
<1>8. FewDrafts(Editor!Without(ds, ks))
  BY OwnedRemain
<1>9. \A k \in Editor!Keys :
        /\ Editor!Without(ds, ks)[k] # None <=> k \notin ks /\ ds[k] # None
        /\ Editor!Without(ds, ks)[k] # None => SameDraft(ds[k], Editor!Without(ds, ks)[k])
  <2> HIDE DEF ks
  <2> QED
    BY DraftsRemain DEF SameDraft
<1>10. \A k \in O : ds[k].dirty \/ ds[k].conflict # None => k \notin ks
  BY <1>2, <1>4
<1>11. \A k \in C : Cardinality(C \cap ds[k].older) + MaxDrafts >= Cardinality(O) => k \notin ks
  BY <1>2, <1>5
<1> HIDE DEF ks
<1> QED
  BY <1>1, <1>2, <1>7, <1>8, <1>9, <1>10, <1>11 DEF O, C

\* drafts that remain as they were are known and held as they were
LEMMA SameDraftsKeep ==
    ASSUME NEW ds, NEW e, NEW m, NEW w, NEW u,
           \A k \in Editor!Keys : e[k] # None => ds[k] # None /\ SameDraft(ds[k], e[k])
    PROVE  /\ AllKnown(ds, m) => AllKnown(e, m)
           /\ AllHeld(ds, w, u) /\ (\A k \in Editor!Keys : w[k] # None => e[k] # None) => AllHeld(e, w, u)
<1>1. ASSUME AllKnown(ds, m) PROVE AllKnown(e, m)
  BY <1>1 DEF AllKnown, Known, SameDraft
<1>2. ASSUME AllHeld(ds, w, u), \A k \in Editor!Keys : w[k] # None => e[k] # None PROVE AllHeld(e, w, u)
  BY <1>2 DEF AllHeld, HoldsText, SameDraft
<1> QED
  BY <1>1, <1>2

\* pruning spares what was typed
LEMMA PruneHolds ==
    ASSUME NEW ds, Homely(ds), FewDrafts(ds), NEW m, NEW w, NEW u
    PROVE  /\ AllKnown(ds, m) => AllKnown(Editor!Prune(ds, u), m)
           /\ AllHeld(ds, w, u) => AllHeld(Editor!Prune(ds, u), w, u)
<1> DEFINE e == Editor!Prune(ds, u)
<1>1. \A k \in Editor!Keys : e[k] # None => ds[k] # None /\ SameDraft(ds[k], e[k])
  BY PruneKeeps
<1>2. ASSUME AllHeld(ds, w, u), NEW k \in Editor!Keys, w[k] # None PROVE e[k] # None
  <2>1. k \in Editor!Owned(ds, u) /\ ds[k].dirty
    BY <1>2 DEF AllHeld, HoldsText, Editor!Owned
  <2> QED
    BY <2>1, PruneKeeps
<1> HIDE DEF e
<1> QED
  BY <1>1, <1>2, SameDraftsKeep DEF e

\* a draft that is put into the cache
LEMMA SetDraftKeeps ==
    ASSUME SourceInv, FewDrafts(drafts), NEW k \in Editor!Keys, NEW d \in Editor!Draft, HomelyDraft(d, k), NEW m, NEW w
    PROVE  /\ FewDrafts(Editor!SetDraft(drafts, k, d)) /\ Roomy(Editor!SetDraft(drafts, k, d), user)
           /\ AllKnown([drafts EXCEPT ![k] = d], m) => AllKnown(Editor!SetDraft(drafts, k, d), m)
           /\ AllHeld([drafts EXCEPT ![k] = d], w, user) => AllHeld(Editor!SetDraft(drafts, k, d), w, user)
           /\ Editor!SetDraft(drafts, k, d)[k] # None => SameDraft(d, Editor!SetDraft(drafts, k, d)[k])
           /\ k[1] = user /\ (d.dirty \/ d.conflict # None) => Editor!SetDraft(drafts, k, d)[k] # None
           /\ \A j \in Editor!Keys \ {k} :
                 /\ Editor!SetDraft(drafts, k, d)[j] # None => drafts[j] # None /\ SameDraft(drafts[j], Editor!SetDraft(drafts, k, d)[j])
                 /\ drafts[j] # None /\ j[1] = user /\ (drafts[j].dirty \/ drafts[j].conflict # None) => Editor!SetDraft(drafts, k, d)[j] # None
<1> DEFINE ds == [drafts EXCEPT ![k] = d]
<1>1. Homely(ds) /\ ds[k] = d /\ (\A j \in Editor!Keys \ {k} : ds[j] = drafts[j]) /\ d # None
  BY DraftsAssumption DEF SourceInv, Homely
<1>2. FewDrafts(ds)
  <2>1. {j \in Editor!Keys : ds[j] # None} \in SUBSET ({j \in Editor!Keys : drafts[j] # None} \cup {k})
    BY <1>1
  <2> QED
    BY <2>1, FS_AddElement, FS_Subset DEF FewDrafts
<1>3. Editor!SetDraft(drafts, k, d) = Editor!Prune(ds, user)
  BY DEF Editor!SetDraft
<1>4. \A j \in Editor!Keys : ds[j] # None /\ j[1] = user => j \in Editor!Owned(ds, user)
  BY DEF Editor!Owned
<1> HIDE DEF ds
<1>5. /\ FewDrafts(Editor!Prune(ds, user)) /\ Roomy(Editor!Prune(ds, user), user)
      /\ \A j \in Editor!Keys :
            /\ Editor!Prune(ds, user)[j] # None => ds[j] # None /\ SameDraft(ds[j], Editor!Prune(ds, user)[j])
            /\ j \in Editor!Owned(ds, user) /\ (ds[j].dirty \/ ds[j].conflict # None) => Editor!Prune(ds, user)[j] # None
  BY <1>1, <1>2, PruneKeeps
<1>6. /\ AllKnown(ds, m) => AllKnown(Editor!Prune(ds, user), m)
      /\ AllHeld(ds, w, user) => AllHeld(Editor!Prune(ds, user), w, user)
  BY <1>1, <1>2, PruneHolds
<1> QED
  BY <1>1, <1>3, <1>4, <1>5, <1>6 DEF ds

\* what was shown or offered is not forgotten
MetGrows == \A k \in Editor!Keys : met[k] \subseteq met'[k]
\* what was shown stays so
LEMMA MoreMet == ASSUME NEW ds, MetGrows, AllKnown(ds, met) PROVE AllKnown(ds, met')
BY DEF MetGrows, AllKnown, Known

\* The panel after a step: a draft with edits stays, and a clean one gives way to
\* the document, which is on screen then.
LEMMA RendersKept ==
    ASSUME SourceInv, NEW u \in Accounts, NEW p \in EditedProjects, NEW c \in Components \cup {None},
           NEW ds, NEW timers, NEW docs, NEW w,
           Homely(ds), FewDrafts(ds), AllKnown(ds, met), AllHeld(ds, w, u), Roomy(ds, u),
           Editor!Renders(<<u, p, c>>, ds, timers, docs),
           view.mounted /\ <<u, p, c>> = Editor!Shown /\ c # None /\ docs[<<u, p, c>>] = documents[<<u, p, c>>] =>
              Waits(<<u, p, c>>, ds, timers, w) /\ Faces(<<u, p, c>>, ds, docs, met)
    PROVE  /\ FewDrafts(drafts') /\ AllKnown(drafts', met') /\ AllHeld(drafts', w, u) /\ Roomy(drafts', u) /\ MetGrows
           /\ c # None => Waits(<<u, p, c>>, drafts', armed', w) /\ Faces(<<u, p, c>>, drafts', docs, met')
<1> DEFINE here == <<u, p, c>>
           incoming == IF docs[here] = None THEN Editor!Sketch ELSE docs[here]
<1>1. CASE c = None
  <2>1. drafts' = ds /\ met' = met
    BY <1>1 DEF Editor!Renders
  <2> QED
    BY <1>1, <2>1 DEF MetGrows
<1>2. CASE c # None
  <2>1. here \in Editor!Keys /\ here[3] = c
    BY <1>2, KeysAreTriples
  <2>2. met' = [met EXCEPT ![here] = @ \cup {screen'}]
    BY <1>2, <2>1 DEF Editor!Renders
  <2>3. MetGrows /\ screen' \in met'[here]
    <3>1. MetHome(met) /\ here \in Editor!Keys
      BY <2>1 DEF SourceInv
    <3> HIDE DEF here
    <3> QED
      BY <2>2, <3>1 DEF MetHome, MetGrows
  <2>4. CASE view.mounted /\ here = Editor!Shown /\ docs[here] = documents[here]
    <3>1. drafts' = ds /\ armed' = timers
      BY <1>2, <2>4 DEF Editor!Renders
    <3>2. Waits(here, ds, timers, w) /\ Faces(here, ds, docs, met)
      BY <1>2, <2>4
    <3>3. Faces(here, ds, docs, met')
      BY <2>1, <2>3, <3>2 DEF Faces, MetGrows
    <3> QED
      BY <2>3, <3>1, <3>2, <3>3, MoreMet
  <2>5. CASE ~(view.mounted /\ here = Editor!Shown /\ docs[here] = documents[here])
    <3> DEFINE Stays == ds[here] # None /\ (ds[here].text = incoming \/ ds[here].dirty \/ ds[here].conflict # None)
    <3>1. PICK moved \in BOOLEAN : /\ drafts' = Editor!Synchronised(here, ds, timers, docs, moved).drafts
                                   /\ armed' = Editor!Synchronised(here, ds, timers, docs, moved).armed
                                   /\ screen' = Editor!Synchronised(here, ds, timers, docs, moved).screen
      BY <1>2, <2>1, <2>5 DEF Editor!Renders
    <3>2. /\ drafts' = IF Stays THEN ds ELSE Editor!Without(ds, {here})
          /\ Stays /\ ds[here].dirty /\ ds[here].conflict = None => here \in armed'
          /\ ~Stays => screen' = incoming
      BY <3>1 DEF Editor!Synchronised
    <3>3. CASE Stays
      <4>1. Waits(here, ds, armed', w)
        BY <2>1, <3>2, <3>3 DEF Waits, AllHeld, HoldsText
      <4> QED
        BY <2>3, <3>2, <3>3, <4>1, MoreMet DEF Faces
    <3>4. CASE ~Stays
      <4>1. w[here] = None
        BY <2>1, <3>4 DEF AllHeld, HoldsText
      <4>2. drafts' = Editor!Without(ds, {here}) /\ screen' = incoming
        BY <3>2, <3>4
      <4> HIDE DEF here, Stays
      <4>3. \A k \in Editor!Keys : /\ drafts'[k] # None => ds[k] # None /\ SameDraft(ds[k], drafts'[k])
                                   /\ k # here /\ ds[k] # None => drafts'[k] # None
        BY <4>2, DraftsRemain DEF SameDraft
      <4>4. \A k \in Editor!Keys : w[k] # None => drafts'[k] # None
        BY <4>1, <4>3 DEF AllHeld, HoldsText
      <4>5. AllKnown(drafts', met) /\ AllHeld(drafts', w, u)
        BY <4>3, <4>4, SameDraftsKeep
      <4>6. FewDrafts(drafts') /\ Roomy(drafts', u)
        BY <4>2, OwnedRemain, StaysRoomy DEF Roomy
      <4>7. Waits(here, drafts', armed', w) /\ Faces(here, drafts', docs, met')
        BY <2>3, <4>1, <4>2 DEF Waits, Faces
      <4> QED
        BY <2>3, <4>5, <4>6, <4>7, MoreMet DEF here
    <3> QED
      BY <3>3, <3>4
  <2> QED
    BY <2>4, <2>5
<1> QED
  BY <1>1, <1>2

\* a step that changes no draft, and closes the panel or leaves it alone
LEMMA SourceRests ==
    ASSUME KeptInv, UNCHANGED <<user, documents, drafts, met, typed>>, overwrote' = {} \/ overwrote' = overwrote,
           \/ ~view'.mounted
           \/ UNCHANGED view /\ armed' = armed
    PROVE  KeptInv'
BY DEF KeptInv, FewDrafts, AllKnown, AllHeld, Roomy, CleanOf, Editor!Owned, Waits, Faces, Editor!Shown, Editor!EditorDocumentKey, Editor!NothingUnseenIsLost

\* the panel moves to another document
LEMMA MovesKept ==
    ASSUME SourceInv, KeptInv, NEW v \in Views, Editor!Moves(v), view.mounted => v.component = None \/ v.component # view.component
    PROVE  KeptInv'
<1>1. UNCHANGED <<user, documents, texts, typed>> /\ view' = v /\ overwrote' = {}
  BY DEF Editor!Moves
<1>2. CASE v.mounted
  <2> DEFINE here == <<user, v.project, v.component>>
             ds == Editor!Prune(drafts, user)
  <2>1. Editor!Renders(here, ds, armed, documents)
    BY <1>2 DEF Editor!Moves, Editor!EditorDocumentKey
  <2>2. user \in Accounts /\ v.project \in EditedProjects /\ v.component \in Components \cup {None} /\ Homely(drafts)
    BY DEF SourceInv, Views
  <2>3. FewDrafts(drafts) /\ AllKnown(drafts, met) /\ AllHeld(drafts, typed, user)
    BY DEF KeptInv
  <2>4. Homely(ds) /\ FewDrafts(ds) /\ AllKnown(ds, met) /\ AllHeld(ds, typed, user) /\ Roomy(ds, user)
    BY <2>2, <2>3, PruneKeeps, PruneHolds, PruneIsHomely
  <2>5. ~(view.mounted /\ here = Editor!Shown /\ v.component # None)
    BY DEF Editor!Shown, Editor!EditorDocumentKey
  <2> HIDE DEF ds
  <2>6. /\ FewDrafts(drafts') /\ AllKnown(drafts', met') /\ AllHeld(drafts', typed, user) /\ Roomy(drafts', user)
        /\ v.component # None => Waits(here, drafts', armed', typed) /\ Faces(here, drafts', documents, met')
    BY <2>1, <2>2, <2>4, <2>5, RendersKept
  <2>7. Editor!Shown' = here
    BY <1>1 DEF Editor!Shown, Editor!EditorDocumentKey
  <2> HIDE DEF here
  <2> QED
    BY <1>1, <2>6, <2>7 DEF KeptInv, Editor!NothingUnseenIsLost, FewDrafts, AllKnown, AllHeld, Roomy, CleanOf, Editor!Owned, Waits, Faces
<1>3. CASE ~v.mounted
  BY <1>1, <1>3, SourceRests DEF Editor!Moves
<1> QED
  BY <1>2, <1>3

\* the panel opens, another part is selected, another project is opened
LEMMA PanelKept ==
    ASSUME SourceInv, KeptInv, Editor!OpenPanel \/ Editor!Select \/ Editor!SwitchProject
    PROVE  KeptInv'
<1>0. view \in Views
  BY DEF SourceInv
<1>1. CASE Editor!OpenPanel
  <2>1. [view EXCEPT !.mounted = TRUE] \in Views
    BY <1>0 DEF Views
  <2> QED
    BY <1>1, <2>1, MovesKept DEF Editor!OpenPanel
<1>2. CASE Editor!Select
  <2>1. PICK c \in Components \ {view.component} : Editor!Moves([view EXCEPT !.component = c])
    BY <1>2, Zenon DEF Editor!Select
  <2>2. [view EXCEPT !.component = c] \in Views /\ [view EXCEPT !.component = c].component = c
    BY <1>0 DEF Views
  <2> QED
    BY <2>1, <2>2, MovesKept
<1>3. CASE Editor!SwitchProject
  <2>1. PICK p \in EditedProjects : Editor!Moves([view EXCEPT !.project = p, !.component = None])
    BY <1>3, Zenon DEF Editor!SwitchProject
  <2>2. [view EXCEPT !.project = p, !.component = None] \in Views /\ [view EXCEPT !.project = p, !.component = None].component = None
    BY <1>0 DEF Views
  <2> QED
    BY <2>1, <2>2, MovesKept
<1> QED
  BY <1>1, <1>2, <1>3

\* another account signs in: what the other one typed is no longer asked for
LEMMA ChangeKept == ASSUME SourceInv, KeptInv, Editor!ChangeUser PROVE KeptInv'
<1>0. PICK u \in Accounts, p \in EditedProjects : \E v :
        /\ v = [view EXCEPT !.project = p, !.component = None]
        /\ user' = u /\ view' = v
        /\ IF view.mounted THEN Editor!Renders(Editor!EditorDocumentKey(u, v), Editor!Prune(drafts, u), armed, documents)
           ELSE UNCHANGED <<drafts, armed, screen, met>>
        /\ typed' = [k \in Editor!Keys |-> None] /\ overwrote' = {}
  BY Zenon DEF Editor!ChangeUser
<1>1. PICK v :
        /\ v = [view EXCEPT !.project = p, !.component = None]
        /\ user' = u /\ view' = v
        /\ IF view.mounted THEN Editor!Renders(Editor!EditorDocumentKey(u, v), Editor!Prune(drafts, u), armed, documents)
           ELSE UNCHANGED <<drafts, armed, screen, met>>
        /\ typed' = [k \in Editor!Keys |-> None] /\ overwrote' = {}
  BY <1>0, Zenon
<1>2. v.mounted = view.mounted /\ v.component = None /\ v.project = p /\ Homely(drafts)
  BY <1>1 DEF SourceInv, Views
<1>3. FewDrafts(drafts) /\ AllKnown(drafts, met)
  BY DEF KeptInv
<1>4. \A ds : AllHeld(ds, typed', user')
  BY <1>1 DEF AllHeld
<1>5. FewDrafts(drafts') /\ AllKnown(drafts', met') /\ (view.mounted => Roomy(drafts', u))
  <2>1. CASE view.mounted
    <3> DEFINE ds == Editor!Prune(drafts, u)
    <3>1. Editor!Renders(<<u, p, None>>, ds, armed, documents)
      BY <1>1, <1>2, <2>1 DEF Editor!EditorDocumentKey
    <3>2. Homely(ds) /\ FewDrafts(ds) /\ AllKnown(ds, met) /\ Roomy(ds, u) /\ AllHeld(ds, typed', u)
      BY <1>1, <1>2, <1>3, <1>4, PruneKeeps, PruneHolds, PruneIsHomely
    <3> HIDE DEF ds
    <3> QED
      BY <3>1, <3>2, RendersKept
  <2>2. CASE ~view.mounted
    BY <1>1, <1>3, <2>2 DEF FewDrafts, AllKnown
  <2> QED
    BY <2>1, <2>2
<1> QED
  BY <1>1, <1>2, <1>4, <1>5 DEF KeptInv, Editor!NothingUnseenIsLost, FewDrafts, AllKnown, AllHeld, Roomy, CleanOf, Editor!Owned

\* what is typed is in a draft, over the version that was on screen
LEMMA TypingKept == ASSUME SourceInv, KeptInv, Editor!HandleCodeChange PROVE KeptInv'
<1> DEFINE here == Editor!Shown
<1>1. /\ met' = [met EXCEPT ![here] = @ \cup {screen'}] /\ typed' = [typed EXCEPT ![here] = screen'] /\ overwrote' = {}
      /\ UNCHANGED <<user, documents, view>> /\ view.mounted /\ view.component # None
  BY DEF Editor!HandleCodeChange
<1>2. PICK d \in Editor!Draft :
        /\ HomelyDraft(d, here) /\ drafts' = Editor!SetDraft(drafts, here, d)
        /\ d.text = screen' /\ d.dirty /\ (d.conflict # None => d.conflict.mine = screen')
        /\ d.conflict = None => here \in armed'
        /\ d.base = IF drafts[here] = None THEN documents[here] ELSE drafts[here].base
  BY TypedDraft
<1>3. here \in Editor!Keys /\ here[1] = user /\ screen' \in Editor!Texts
  BY TypedDraft DEF Editor!Shown, Editor!EditorDocumentKey
<1>4. Editor!Shown' = here
  BY <1>1 DEF Editor!Shown, Editor!EditorDocumentKey
<1>5. DOMAIN met = Editor!Keys /\ DOMAIN typed = Editor!Keys /\ DOMAIN drafts = Editor!Keys
  BY DEF SourceInv, MetHome, Typed, Homely
<1>6. FewDrafts(drafts) /\ AllKnown(drafts, met) /\ AllHeld(drafts, typed, user) /\ Faces(here, drafts, documents, met)
  BY <1>1 DEF KeptInv
<1> HIDE DEF here
<1>7. MetGrows /\ screen' \in met'[here]
  BY <1>1, <1>3, <1>5 DEF MetGrows
<1> DEFINE ds == [drafts EXCEPT ![here] = d]
<1>8. ds[here] = d /\ (\A k \in Editor!Keys \ {here} : ds[k] = drafts[k]) /\ d # None
  BY <1>3, <1>5, DraftsAssumption
<1>9. AllKnown(ds, met')
  <2>1. Known(d, here, met')
    BY <1>2, <1>3, <1>6, <1>7 DEF AllKnown, Known, Faces, MetGrows
  <2>2. AllKnown(drafts, met')
    BY <1>6, <1>7, MoreMet
  <2> HIDE DEF ds
  <2> QED
    BY <1>8, <2>1, <2>2 DEF AllKnown
<1>10. AllHeld(ds, typed', user)
  <2>1. HoldsText(d, screen')
    BY <1>2, <1>8 DEF HoldsText
  <2>2. typed'[here] = screen' /\ \A k \in Editor!Keys \ {here} : typed'[k] = typed[k]
    BY <1>1, <1>3, <1>5
  <2> HIDE DEF ds
  <2> QED
    BY <1>3, <1>6, <1>8, <2>1, <2>2 DEF AllHeld
<1> HIDE DEF ds
<1>11. /\ FewDrafts(drafts') /\ Roomy(drafts', user) /\ AllKnown(drafts', met') /\ AllHeld(drafts', typed', user)
       /\ drafts'[here] # None /\ SameDraft(d, drafts'[here])
  BY <1>2, <1>3, <1>6, <1>9, <1>10, SetDraftKeeps DEF ds
<1>12. Waits(here, drafts', armed', typed') /\ Faces(here, drafts', documents, met')
  BY <1>2, <1>11 DEF Waits, Faces, SameDraft
<1> QED
  BY <1>1, <1>4, <1>11, <1>12 DEF KeptInv, Editor!NothingUnseenIsLost, FewDrafts, AllKnown, AllHeld, Roomy, CleanOf, Editor!Owned, Waits, Faces

\* a clean draft within the size of the cache stays there when another is flushed
LEMMA CleanStays ==
    ASSUME SourceInv, KeptInv, view.mounted, NEW k \in Editor!Keys, NEW j \in Editor!Keys \ {k}, k[1] = user, j[1] = user,
           drafts[k] # None, drafts[k].dirty, drafts[j] # None, NEW d \in Editor!Draft, HomelyDraft(d, k)
    PROVE  Editor!SetDraft(drafts, k, d)[j] # None
<1> DEFINE ds == [drafts EXCEPT ![k] = d]
           O == Editor!Owned(drafts, user)
           C == CleanOf(drafts, user)
<1>1. Homely(drafts) /\ FewDrafts(drafts) /\ Roomy(drafts, user)
  BY DEF SourceInv, KeptInv
<1>2. CASE drafts[j].dirty \/ drafts[j].conflict # None
  BY <1>1, <1>2, SetDraftKeeps
<1>3. CASE ~(drafts[j].dirty \/ drafts[j].conflict # None)
  <2>1. Homely(ds) /\ ds[k] = d /\ (\A i \in Editor!Keys \ {k} : ds[i] = drafts[i]) /\ d # None
    BY <1>1, DraftsAssumption DEF Homely
  <2>2. j \in C
    BY <1>3 DEF CleanOf, Editor!Owned
  <2> HIDE DEF ds
  <2>3. FewDrafts(ds)
    <3>1. {i \in Editor!Keys : ds[i] # None} = {i \in Editor!Keys : drafts[i] # None}
      BY <2>1
    <3> QED
      BY <1>1, <3>1 DEF FewDrafts
  <2>4. Editor!Owned(ds, user) = O
    BY <2>1 DEF Editor!Owned
  <2>5. C \subseteq CleanOf(ds, user)
    <3>1. \A i \in C : i \in O /\ i \in Editor!Keys /\ i # k /\ ~drafts[i].dirty /\ drafts[i].conflict = None
      BY DEF CleanOf, Editor!Owned
    <3> HIDE DEF O, C
    <3> QED
      BY <2>1, <2>4, <3>1 DEF CleanOf
  <2>6. Cardinality(C \cap drafts[j].older) + MaxDrafts >= Cardinality(O)
    BY <1>1, <2>2 DEF Roomy
  <2>7. Cardinality(CleanOf(ds, user) \cap ds[j].older) + MaxDrafts >= Cardinality(O)
    <3>1. IsFiniteSet(O)
      BY <1>1, OwnedRemain
    <3>2. CleanOf(ds, user) \cap ds[j].older \in SUBSET O
      BY <2>4, OwnedAre
    <3>3. C \cap drafts[j].older \in SUBSET (CleanOf(ds, user) \cap ds[j].older)
      BY <2>1, <2>5
    <3> HIDE DEF O, C
    <3>4. IsFiniteSet(CleanOf(ds, user) \cap ds[j].older)
      BY <3>1, <3>2, FS_Subset
    <3>5. IsFiniteSet(C \cap drafts[j].older) /\ Cardinality(C \cap drafts[j].older) <= Cardinality(CleanOf(ds, user) \cap ds[j].older)
      BY <3>3, <3>4, FS_Subset
    <3>6. /\ Cardinality(CleanOf(ds, user) \cap ds[j].older) \in Nat /\ Cardinality(C \cap drafts[j].older) \in Nat
          /\ Cardinality(O) \in Nat
      BY <3>1, <3>4, <3>5, FS_CardinalityType
    <3> QED
      BY <2>6, <3>5, <3>6, DraftsAssumption
  <2>8. j \in CleanOf(ds, user)
    BY <2>2, <2>5
  <2>9. Editor!Prune(ds, user)[j] # None
    BY <2>1, <2>3, <2>4, <2>7, <2>8, PruneKeeps
  <2> QED
    BY <2>9 DEF ds, Editor!SetDraft
<1> QED
  BY <1>2, <1>3

\* a draft that was flushed is saved, or still holds what was typed and the
\* panel says why it was not; what it replaces was shown
LEMMA FlushedHolds ==
    ASSUME SourceInv, KeptInv, NEW k \in Editor!Keys, Editor!MayFlush(k), NEW refused \in BOOLEAN
    PROVE  /\ Known(Editor!Flushed(k, refused), k, met)
           /\ drafts[k].text \in met[k]
           /\ Editor!Saves(k, refused) =>
                 /\ Editor!Overwritten(k) = [key |-> k, text |-> documents[k]]
                 /\ documents[k] # None => documents[k] \in met[k]
           /\ ~Editor!Saves(k, refused) =>
                 /\ Editor!Flushed(k, refused).dirty
                 /\ typed[k] # None => HoldsText(Editor!Flushed(k, refused), typed[k])
                 /\ Editor!Flushed(k, refused).conflict # None \/ Editor!Flushed(k, refused).refused
<1> DEFINE d == drafts[k]
           F == Editor!Flushed(k, refused)
<1>1. d \in Editor!Draft /\ d # None /\ d.dirty /\ Editor!Target(k) = k
  BY FlushGoesHome DEF SourceInv, Homely, Editor!MayFlush, Editor!Edited
<1>2. Known(d, k, met) /\ (typed[k] # None => HoldsText(d, typed[k]))
  BY DEF KeptInv, AllKnown, AllHeld
<1>3. F \in Editor!Draft /\ F # None
  BY FlushedIsHomely, DraftsAssumption
<1>4. d.text \in met[k] /\ (d.base # None => d.base \in met[k])
  BY <1>1, <1>2 DEF Known
<1>5. CASE Editor!Saves(k, refused)
  <2>1. F = [d EXCEPT !.base = d.text, !.dirty = FALSE, !.conflict = None, !.refused = FALSE]
    BY <1>5 DEF Editor!Flushed
  <2>2. documents[k] = d.base
    BY <1>1, <1>5 DEF Editor!Saves, Editor!IsCurrent
  <2>3. F.text = d.text /\ F.base = d.text
    BY <1>1, <2>1 DEF Editor!Draft
  <2>4. Editor!Overwritten(k) = [key |-> k, text |-> documents[k]]
    BY <1>1 DEF Editor!Overwritten
  <2> HIDE DEF d, F
  <2>5. Known(F, k, met)
    BY <1>4, <2>3 DEF Known
  <2> QED
    BY <1>4, <1>5, <2>2, <2>4, <2>5 DEF d, F
<1>6. CASE ~Editor!Saves(k, refused)
  <2>1. \/ F = [d EXCEPT !.refused = TRUE]
        \/ F = [d EXCEPT !.conflict = [mine |-> d.text, newer |-> documents[k]]]
    BY <1>1, <1>6 DEF Editor!Flushed
  <2>2. F.text = d.text /\ F.base = d.base /\ F.dirty
    BY <1>1, <2>1 DEF Editor!Draft
  <2>3. \/ F.refused /\ F.conflict = d.conflict
        \/ F.conflict = [mine |-> d.text, newer |-> documents[k]]
    BY <1>1, <2>1 DEF Editor!Draft
  <2>4. [mine |-> d.text, newer |-> documents[k]] # None
    <3>1. d.text \in Editor!Texts /\ documents[k] \in Editor!Texts \cup {None}
      BY <1>1 DEF Editor!Draft, SourceInv, DocsHome
    <3>2. [mine |-> d.text, newer |-> documents[k]] \in Editor!Conflict
      BY <3>1 DEF Editor!Conflict
    <3> QED
      BY <3>2, DraftsAssumption
  <2> HIDE DEF d, F
  <2>5. Known(F, k, met)
    BY <1>4, <2>2 DEF Known
  <2>6. typed[k] # None => HoldsText(F, typed[k])
    BY <1>2, <1>3, <2>2, <2>3 DEF HoldsText
  <2> QED
    BY <1>4, <1>6, <2>2, <2>3, <2>4, <2>5, <2>6 DEF d, F
<1> QED
  BY <1>5, <1>6

\* a timer saves its draft or leaves it as it is, and the document on screen
\* waits, or shows itself, as before
LEMMA TimerKept == ASSUME SourceInv, KeptInv, Editor!TimerFires PROVE KeptInv'
<1>1. PICK k \in armed, refused \in BOOLEAN :
        IF ~Editor!MayFlush(k)
        THEN /\ ~refused /\ armed' = armed \ {k} /\ overwrote' = {}
             /\ UNCHANGED <<user, documents, view, drafts, screen, texts, turns, met, typed>>
        ELSE LET docs == IF Editor!Saves(k, refused) THEN [documents EXCEPT ![Editor!Target(k)] = drafts[k].text] ELSE documents IN
             /\ documents' = docs
             /\ Editor!Renders(Editor!Shown, Editor!SetDraft(drafts, k, Editor!Flushed(k, refused)), armed \ {k}, docs)
             /\ overwrote' = IF Editor!Saves(k, refused) THEN {Editor!Overwritten(k)} ELSE {}
             /\ typed' = IF Editor!Saves(k, refused) THEN [typed EXCEPT ![k] = None] ELSE typed
             /\ UNCHANGED <<user, view, texts, turns>>
  BY Zenon DEF Editor!TimerFires
<1> DEFINE here == Editor!Shown
<1>2. k \in Editor!Keys /\ Homely(drafts)
  BY DEF SourceInv
<1>3. /\ FewDrafts(drafts) /\ AllKnown(drafts, met) /\ AllHeld(drafts, typed, user)
      /\ view.mounted /\ view.component # None => Waits(here, drafts, armed, typed) /\ Faces(here, drafts, documents, met)
  BY DEF KeptInv
<1>4. CASE ~Editor!MayFlush(k)
  <2>1. armed' = armed \ {k} /\ overwrote' = {} /\ UNCHANGED <<user, documents, view, drafts, screen, met, typed>>
    BY <1>1, <1>4
  <2>2. ASSUME view.mounted, view.component # None PROVE Waits(here, drafts, armed', typed)
    <3>1. CASE here = k /\ typed[here] # None
      <4>1. drafts[k] # None /\ drafts[k].dirty
        BY <1>2, <1>3, <3>1 DEF AllHeld, HoldsText
      <4>2. k[1] = user /\ k[2] = view.project
        BY <3>1 DEF Editor!Shown, Editor!EditorDocumentKey
      <4> QED
        BY <1>4, <4>1, <4>2 DEF Editor!MayFlush, Editor!Edited
    <3>2. CASE ~(here = k /\ typed[here] # None)
      BY <1>3, <2>1, <2>2, <3>2 DEF Waits
    <3> QED
      BY <3>1, <3>2
  <2> QED
    BY <2>1, <2>2 DEF KeptInv, Editor!NothingUnseenIsLost, FewDrafts, AllKnown, AllHeld, Roomy, CleanOf, Editor!Owned,
                      Waits, Faces, Editor!Shown, Editor!EditorDocumentKey
<1>5. CASE Editor!MayFlush(k)
  <2> DEFINE F == Editor!Flushed(k, refused)
             ds == Editor!SetDraft(drafts, k, F)
             saved == Editor!Saves(k, refused)
  <2>1. /\ documents' = IF saved THEN [documents EXCEPT ![k] = drafts[k].text] ELSE documents
        /\ Editor!Renders(here, ds, armed \ {k}, documents')
        /\ overwrote' = IF saved THEN {Editor!Overwritten(k)} ELSE {}
        /\ typed' = IF saved THEN [typed EXCEPT ![k] = None] ELSE typed
        /\ UNCHANGED <<user, view>>
    BY <1>1, <1>2, <1>5, FlushGoesHome
  <2>2. F \in Editor!Draft /\ HomelyDraft(F, k)
    BY <1>2, <1>5, FlushedIsHomely
  <2>3. drafts[k] \in Editor!Draft /\ drafts[k] # None /\ drafts[k].dirty /\ k[1] = user
    BY <1>2, <1>5 DEF Homely, Editor!MayFlush, Editor!Edited
  <2>4. /\ Known(F, k, met) /\ drafts[k].text \in met[k]
        /\ saved => Editor!Overwritten(k) = [key |-> k, text |-> documents[k]] /\ (documents[k] # None => documents[k] \in met[k])
        /\ ~saved => /\ F.dirty /\ (typed[k] # None => HoldsText(F, typed[k]))
                     /\ F.conflict # None \/ F.refused
    BY <1>2, <1>5, FlushedHolds
  <2>5. /\ DOMAIN documents = Editor!Keys /\ DOMAIN typed = Editor!Keys /\ DOMAIN drafts = Editor!Keys
        /\ \A j \in Editor!Keys \ {k} : documents'[j] = documents[j] /\ typed'[j] = typed[j]
        /\ saved => documents'[k] = drafts[k].text /\ typed'[k] = None
        /\ ~saved => documents' = documents /\ typed' = typed
    BY <1>2, <2>1 DEF SourceInv, DocsHome, Typed, Homely
  <2> HIDE DEF here, F, saved
  <2>6. AllKnown([drafts EXCEPT ![k] = F], met)
    BY <1>2, <1>3, <2>4, <2>5 DEF AllKnown
  <2>7. AllHeld([drafts EXCEPT ![k] = F], typed', user)
    <3> SUFFICES ASSUME NEW j \in Editor!Keys, typed'[j] # None
                 PROVE  j[1] = user /\ HoldsText([drafts EXCEPT ![k] = F][j], typed'[j])
      BY DEF AllHeld
    <3>1. CASE j = k
      BY <1>2, <2>3, <2>4, <2>5, <3>1
    <3>2. CASE j # k
      BY <1>3, <2>5, <3>2 DEF AllHeld
    <3> QED
      BY <3>1, <3>2
  <2>8. /\ Homely(ds) /\ FewDrafts(ds) /\ Roomy(ds, user) /\ AllKnown(ds, met) /\ AllHeld(ds, typed', user)
        /\ ds[k] # None => SameDraft(F, ds[k])
        /\ F.dirty \/ F.conflict # None => ds[k] # None
        /\ \A j \in Editor!Keys \ {k} :
              /\ ds[j] # None => drafts[j] # None /\ SameDraft(drafts[j], ds[j])
              /\ drafts[j] # None /\ j[1] = user /\ (drafts[j].dirty \/ drafts[j].conflict # None) => ds[j] # None
    BY <1>2, <1>3, <2>2, <2>3, <2>6, <2>7, SetDraftKeeps, SetDraftIsHomely
  <2>9. ASSUME view.mounted, NEW j \in Editor!Keys \ {k}, j[1] = user, drafts[j] # None PROVE ds[j] # None
    BY <1>2, <2>2, <2>3, <2>9, CleanStays
  <2> HIDE DEF ds
  <2>10. here = <<user, view.project, view.component>> /\ here[1] = user
    BY DEF here, Editor!Shown, Editor!EditorDocumentKey
  <2>11. user \in Accounts /\ view.project \in EditedProjects /\ view.component \in Components \cup {None}
    BY DEF SourceInv, Views
  <2>12. ASSUME view.mounted, view.component # None
         PROVE  Waits(here, ds, armed \ {k}, typed') /\ Faces(here, ds, documents', met)
    <3>1. here \in Editor!Keys
      BY <2>10, <2>11, <2>12, KeysAreTriples
    <3>2. Waits(here, drafts, armed, typed) /\ Faces(here, drafts, documents, met)
      BY <1>3, <2>12
    <3>3. CASE here = k
      <4>1. Waits(here, ds, armed \ {k}, typed')
        BY <2>4, <2>5, <2>8, <3>3 DEF Waits, SameDraft
      <4>2. Faces(here, ds, documents', met)
        BY <2>4, <2>5, <2>8, <3>3 DEF Faces
      <4> QED
        BY <4>1, <4>2
    <3>4. CASE here # k
      <4>1. Waits(here, ds, armed \ {k}, typed')
        <5> SUFFICES ASSUME typed'[here] # None PROVE here \in armed \ {k} \/ ds[here].conflict # None \/ ds[here].refused
          BY DEF Waits
        <5>1. typed[here] # None /\ drafts[here] # None /\ drafts[here].dirty
          BY <1>3, <2>5, <3>1, <3>4 DEF AllHeld, HoldsText
        <5>2. SameDraft(drafts[here], ds[here])
          BY <2>8, <2>10, <3>1, <3>4, <5>1
        <5> QED
          BY <3>2, <3>4, <5>1, <5>2 DEF Waits, SameDraft
      <4>2. Faces(here, ds, documents', met)
        BY <2>5, <2>9, <2>10, <2>12, <3>1, <3>2, <3>4 DEF Faces
      <4> QED
        BY <4>1, <4>2
    <3> QED
      BY <3>3, <3>4
  <2>13. /\ FewDrafts(drafts') /\ AllKnown(drafts', met') /\ AllHeld(drafts', typed', user) /\ Roomy(drafts', user) /\ MetGrows
         /\ view.component # None => Waits(here, drafts', armed', typed') /\ Faces(here, drafts', documents', met')
    BY <2>1, <2>8, <2>10, <2>11, <2>12, RendersKept
  <2>14. Editor!NothingUnseenIsLost'
    <3>1. \A o \in overwrote' : o.text # None => o.text \in met[o.key] /\ o.key \in Editor!Keys
      BY <1>2, <2>1, <2>4
    <3> QED
      BY <2>13, <3>1 DEF Editor!NothingUnseenIsLost, MetGrows
  <2>15. here' = here
    BY <2>1 DEF here, Editor!Shown, Editor!EditorDocumentKey
  <2> QED
    BY <2>1, <2>13, <2>14, <2>15 DEF KeptInv, here
<1> QED
  BY <1>4, <1>5

\* the panel closes: what was not saved stays in its draft
LEMMA CloseKept == ASSUME SourceInv, KeptInv, Editor!ClosePanel PROVE KeptInv'
<1>1. PICK refused \in BOOLEAN :
        LET Saved == {k \in Editor!Keys : Editor!Saves(k, refused)}
        IN  /\ drafts' = Editor!Prune([k \in Editor!Keys |-> IF Editor!MayFlush(k) THEN Editor!Flushed(k, refused) ELSE drafts[k]], user)
            /\ typed' = [k \in Editor!Keys |-> IF k \in Saved THEN None ELSE typed[k]]
            /\ overwrote' = {Editor!Overwritten(k) : k \in Saved}
  BY Zenon DEF Editor!ClosePanel
<1> DEFINE Saved == {k \in Editor!Keys : Editor!Saves(k, refused)}
           ds == [k \in Editor!Keys |-> IF Editor!MayFlush(k) THEN Editor!Flushed(k, refused) ELSE drafts[k]]
<1>2. view' = [view EXCEPT !.mounted = FALSE] /\ UNCHANGED <<user, met>>
  BY DEF Editor!ClosePanel
<1>3. Homely(drafts) /\ FewDrafts(drafts) /\ AllKnown(drafts, met) /\ AllHeld(drafts, typed, user)
  BY DEF SourceInv, KeptInv
<1>4. \A k \in Editor!Keys : /\ Editor!MayFlush(k) => ds[k] = Editor!Flushed(k, refused) /\ drafts[k] # None /\ drafts[k].dirty
                             /\ ~Editor!MayFlush(k) => ds[k] = drafts[k] /\ k \notin Saved
  BY DEF Editor!MayFlush, Editor!Edited, Editor!Saves
<1>5. \A k \in Editor!Keys : Editor!MayFlush(k) =>
        /\ Editor!Flushed(k, refused) \in Editor!Draft /\ HomelyDraft(Editor!Flushed(k, refused), k)
        /\ Known(Editor!Flushed(k, refused), k, met)
        /\ k \notin Saved /\ typed[k] # None => HoldsText(Editor!Flushed(k, refused), typed[k])
        /\ k \in Saved => /\ Editor!Overwritten(k) = [key |-> k, text |-> documents[k]]
                          /\ documents[k] # None => documents[k] \in met[k]
  BY FlushedIsHomely, FlushedHolds
<1>6. ds \in [Editor!Keys -> Editor!Draft \cup {None}] /\ Homely(ds)
  BY <1>3, <1>5 DEF Homely
<1>7. drafts' = Editor!Prune(ds, user) /\ typed' = [k \in Editor!Keys |-> IF k \in Saved THEN None ELSE typed[k]]
      /\ overwrote' = {Editor!Overwritten(k) : k \in Saved}
  BY <1>1
<1>8. \A k \in Saved : k \in Editor!Keys /\ Editor!MayFlush(k)
  BY DEF Editor!Saves
<1> HIDE DEF ds, Saved
<1>9. FewDrafts(ds)
  <2>1. {k \in Editor!Keys : ds[k] # None} \in SUBSET {k \in Editor!Keys : drafts[k] # None}
    BY <1>4
  <2> QED
    BY <1>3, <2>1, FS_Subset DEF FewDrafts
<1>10. AllKnown(ds, met)
  BY <1>3, <1>4, <1>5 DEF AllKnown
<1>11. AllHeld(ds, typed', user)
  <2> SUFFICES ASSUME NEW k \in Editor!Keys, typed'[k] # None PROVE k[1] = user /\ HoldsText(ds[k], typed'[k])
    BY DEF AllHeld
  <2>1. k \notin Saved /\ typed'[k] = typed[k]
    BY <1>7
  <2> QED
    BY <1>3, <1>4, <1>5, <2>1 DEF AllHeld
<1>12. FewDrafts(drafts') /\ AllKnown(drafts', met) /\ AllHeld(drafts', typed', user)
  BY <1>6, <1>7, <1>9, <1>10, <1>11, PruneKeeps, PruneHolds
<1>13. \A o \in overwrote' : o.text # None => o.text \in met[o.key]
  BY <1>5, <1>7, <1>8
<1>14. ~view'.mounted
  BY <1>2 DEF SourceInv, Views
<1> QED
  BY <1>2, <1>12, <1>13, <1>14 DEF KeptInv, Editor!NothingUnseenIsLost, FewDrafts, AllKnown, AllHeld

\* another writer: the panel shows what it wrote, or keeps the draft it has
LEMMA OthersKept == ASSUME SourceInv, KeptInv, Editor!OtherWrites PROVE KeptInv'
<1>1. PICK docs :
        /\ documents' = docs /\ overwrote' = {} /\ UNCHANGED <<user, view, typed>>
        /\ IF view.mounted THEN Editor!Renders(Editor!Shown, drafts, armed, docs) ELSE UNCHANGED <<drafts, armed, screen, met>>
  BY Zenon DEF Editor!OtherWrites
<1> DEFINE here == <<user, view.project, view.component>>
<1>2. Homely(drafts) /\ FewDrafts(drafts) /\ AllKnown(drafts, met) /\ AllHeld(drafts, typed, user)
  BY DEF SourceInv, KeptInv
<1>3. Editor!Shown = here /\ Editor!Shown' = here
  BY <1>1 DEF Editor!Shown, Editor!EditorDocumentKey
<1>4. CASE view.mounted
  <2>1. Editor!Renders(here, drafts, armed, docs) /\ Roomy(drafts, user)
    BY <1>1, <1>3, <1>4 DEF KeptInv
  <2>2. user \in Accounts /\ view.project \in EditedProjects /\ view.component \in Components \cup {None}
    BY DEF SourceInv, Views
  <2>3. view.component # None /\ docs[here] = documents[here] =>
            Waits(here, drafts, armed, typed) /\ Faces(here, drafts, docs, met)
    BY <1>3, <1>4 DEF KeptInv, Faces
  <2>4. /\ FewDrafts(drafts') /\ AllKnown(drafts', met') /\ AllHeld(drafts', typed, user) /\ Roomy(drafts', user)
        /\ view.component # None => Waits(here, drafts', armed', typed) /\ Faces(here, drafts', docs, met')
    BY <1>2, <2>1, <2>2, <2>3, RendersKept
  <2> HIDE DEF here
  <2> QED
    BY <1>1, <1>3, <2>4 DEF KeptInv, Editor!NothingUnseenIsLost, FewDrafts, AllKnown, AllHeld, Roomy, CleanOf, Editor!Owned, Waits, Faces
<1>5. CASE ~view.mounted
  BY <1>1, <1>2, <1>5 DEF KeptInv, Editor!NothingUnseenIsLost, FewDrafts, AllKnown, AllHeld
<1> QED
  BY <1>4, <1>5

\* A button of the conflict on screen: its draft holds what the button shows,
\* and both versions, or the document without a draft, count as seen.
LEMMA ResolvesKept ==
    ASSUME SourceInv, KeptInv, Editor!Conflicting # None, NEW ds, NEW timers, NEW text, Editor!Resolves(ds, timers, text),
           FewDrafts(ds), Roomy(ds, user), AllKnown(ds, met'), AllHeld(ds, typed', user), Waits(Editor!Shown, ds, timers, typed')
    PROVE  KeptInv'
<1> DEFINE here == Editor!Shown
<1>1. /\ drafts' = ds /\ armed' = timers /\ overwrote' = {} /\ UNCHANGED <<user, documents, view>>
      /\ met' = [met EXCEPT ![here] = @ \cup (({text, Editor!Conflicting.newer} \cup Editor!Unshown(ds)) \ {None})]
  BY DEF Editor!Resolves
<1>2. here \in Editor!Keys /\ DOMAIN met = Editor!Keys
  BY ConflictIsHome DEF SourceInv, MetHome
<1>3. Editor!Shown' = here
  BY <1>1 DEF Editor!Shown, Editor!EditorDocumentKey
<1>4. Faces(here, ds, documents, met')
  <2> SUFFICES ASSUME ds[here] = None, documents[here] # None PROVE documents[here] \in met'[here]
    BY DEF Faces
  <2>1. documents[here] \in Editor!Unshown(ds)
    BY DEF Editor!Unshown
  <2> HIDE DEF here
  <2> QED
    BY <1>1, <1>2, <2>1
<1>5. Waits(here, ds, timers, typed')
  OBVIOUS
<1> HIDE DEF here
<1> QED
  BY <1>1, <1>3, <1>4, <1>5 DEF KeptInv, Editor!NothingUnseenIsLost, FewDrafts, AllKnown, AllHeld, Roomy, CleanOf, Editor!Owned, Waits, Faces

\* what a button of the conflict counts as seen
LEMMA ResolvesShows ==
    ASSUME SourceInv, Editor!Conflicting # None, NEW ds, NEW timers, NEW text \in Editor!Texts, Editor!Resolves(ds, timers, text)
    PROVE  /\ MetGrows /\ (text # None => text \in met'[Editor!Shown])
           /\ Editor!Conflicting.newer # None => Editor!Conflicting.newer \in met'[Editor!Shown]
<1> DEFINE here == Editor!Shown
           counted == {text, Editor!Conflicting.newer} \cup Editor!Unshown(ds)
<1>1. met' = [met EXCEPT ![here] = @ \cup (counted \ {None})]
  BY DEF Editor!Resolves
<1>2. here \in Editor!Keys /\ DOMAIN met = Editor!Keys /\ text \in counted /\ Editor!Conflicting.newer \in counted
  BY ConflictIsHome DEF SourceInv, MetHome
<1> HIDE DEF here, counted
<1> QED
  BY <1>1, <1>2 DEF MetGrows, here

\* the buttons that leave a draft
LEMMA ResolvedDraftKept ==
    ASSUME SourceInv, KeptInv, Editor!Conflicting # None,
           NEW d \in Editor!Draft, HomelyDraft(d, Editor!Shown), NEW timers, NEW text \in Editor!Texts,
           Editor!Resolves(Editor!SetDraft(drafts, Editor!Shown, d), timers, text),
           Known(d, Editor!Shown, met'), \A k \in Editor!Keys \ {Editor!Shown} : typed'[k] = typed[k],
           typed'[Editor!Shown] # None =>
              HoldsText(d, typed'[Editor!Shown]) /\ (Editor!Shown \in timers \/ d.conflict # None)
    PROVE  KeptInv'
<1> DEFINE here == Editor!Shown
           ds == Editor!SetDraft(drafts, here, d)
           set == [drafts EXCEPT ![here] = d]
<1>1. here \in Editor!Keys /\ here[1] = user
  BY ConflictIsHome DEF Editor!Shown, Editor!EditorDocumentKey
<1>2. FewDrafts(drafts) /\ AllKnown(drafts, met) /\ AllHeld(drafts, typed, user) /\ MetGrows
  BY ResolvesShows DEF KeptInv
<1>3. AllKnown(drafts, met')
  BY <1>2, MoreMet
<1>4. set[here] = d /\ \A k \in Editor!Keys \ {here} : set[k] = drafts[k]
  BY <1>1 DEF SourceInv, Homely
<1> HIDE DEF here, set, ds
<1>5. AllKnown(set, met')
  BY <1>3, <1>4 DEF AllKnown, here
<1>6. AllHeld(set, typed', user)
  BY <1>1, <1>2, <1>4 DEF AllHeld, here
<1>7. /\ FewDrafts(ds) /\ Roomy(ds, user) /\ AllKnown(ds, met') /\ AllHeld(ds, typed', user)
      /\ ds[here] # None => SameDraft(d, ds[here])
      /\ d.dirty \/ d.conflict # None => ds[here] # None
  BY <1>1, <1>2, <1>5, <1>6, SetDraftKeeps DEF here, ds, set
<1>8. Waits(here, ds, timers, typed')
  BY <1>7 DEF Waits, SameDraft, HoldsText, here
<1> QED
  BY <1>7, <1>8, ResolvesKept DEF here, ds

\* the user takes the newer version, the deletion, or what was typed, or puts
\* what was typed over the newer version
LEMMA ConflictsEndKept ==
    ASSUME SourceInv, KeptInv,
           \/ Editor!UseNewerConflictSource \/ Editor!UseDeletedConflictSource
           \/ Editor!RestoreLocalConflictDraft \/ Editor!RebaseLocalConflictDraft
    PROVE  KeptInv'
<1> DEFINE k == Editor!Shown
           d == drafts[k]
           mine == Editor!Conflicting.mine
           newer == Editor!Conflicting.newer
<1>1. Editor!Conflicting # None /\ d.conflict = Editor!Conflicting
  BY DEF Editor!UseNewerConflictSource, Editor!UseDeletedConflictSource, Editor!RestoreLocalConflictDraft,
         Editor!RebaseLocalConflictDraft, Editor!Conflicting
<1>2. k \in Editor!Keys /\ d \in Editor!Draft \ {None} /\ HomelyDraft(d, k)
  BY <1>1, ConflictIsHome
<1>3. mine \in Editor!Texts /\ mine.homes \subseteq {k} /\ newer \in Editor!Texts \cup {None} /\ Home(newer, k)
  BY <1>1, ConflictIsHome DEF Editor!Conflict
<1>4. /\ DOMAIN typed = Editor!Keys /\ Known(d, k, met)
      /\ typed[k] # None => HoldsText(d, typed[k]) /\ mine = typed[k]
  BY <1>1, <1>2 DEF SourceInv, Typed, KeptInv, AllKnown, AllHeld, HoldsText
<1>5. CASE Editor!UseNewerConflictSource
  <2> DEFINE new == [d EXCEPT !.text = newer, !.base = newer, !.dirty = FALSE, !.conflict = None]
  <2>1. newer # None /\ Editor!Resolves(Editor!SetDraft(drafts, k, new), armed \ {k}, newer) /\ typed' = [typed EXCEPT ![k] = None]
    BY <1>5 DEF Editor!UseNewerConflictSource
  <2>2. newer \in Editor!Texts /\ newer.homes \subseteq {k}
    BY <1>3, <2>1 DEF Home
  <2>3. newer \in met'[k]
    BY <1>1, <2>1, <2>2, ResolvesShows
  <2> HIDE DEF k, d, newer
  <2>4. new \in Editor!Draft /\ HomelyDraft(new, k) /\ new.text = newer /\ new.base = newer
    BY <1>2, <2>2 DEF HomelyDraft, Editor!Draft, Home
  <2> HIDE DEF new
  <2>5. Known(new, k, met')
    BY <2>3, <2>4 DEF Known
  <2>6. typed'[k] = None /\ \A j \in Editor!Keys \ {k} : typed'[j] = typed[j]
    BY <1>2, <1>4, <2>1
  <2> QED
    BY <1>1, <2>1, <2>2, <2>4, <2>5, <2>6, ResolvedDraftKept DEF k
<1>6. CASE Editor!UseDeletedConflictSource
  <2> DEFINE pruned == Editor!Prune(drafts, user)
             ds == Editor!Without(pruned, {k})
  <2>1. Editor!Resolves(ds, armed \ {k}, Editor!Sketch) /\ typed' = [typed EXCEPT ![k] = None]
    BY <1>6 DEF Editor!UseDeletedConflictSource
  <2>2. MetGrows
    BY <1>1, <2>1, SketchIsHome, ResolvesShows
  <2>3. Homely(drafts) /\ FewDrafts(drafts) /\ AllKnown(drafts, met') /\ AllHeld(drafts, typed, user)
    BY <2>2, MoreMet DEF SourceInv, KeptInv
  <2>4. Homely(pruned) /\ FewDrafts(pruned) /\ AllKnown(pruned, met') /\ AllHeld(pruned, typed, user) /\ Roomy(pruned, user)
    BY <2>3, PruneKeeps, PruneHolds, PruneIsHomely
  <2>5. typed'[k] = None /\ \A j \in Editor!Keys \ {k} : typed'[j] = typed[j]
    BY <1>2, <1>4, <2>1
  <2>6. k = Editor!Shown
    BY DEF k
  <2> HIDE DEF k, pruned
  <2>7. \A j \in Editor!Keys : /\ ds[j] # None => pruned[j] # None /\ SameDraft(pruned[j], ds[j])
                               /\ j # k /\ pruned[j] # None => ds[j] # None
    BY <2>4, DraftsRemain DEF SameDraft
  <2>8. AllHeld(pruned, typed', user) /\ \A j \in Editor!Keys : typed'[j] # None => ds[j] # None
    BY <2>4, <2>5, <2>7 DEF AllHeld, HoldsText
  <2>9. AllKnown(ds, met') /\ AllHeld(ds, typed', user)
    <3> HIDE DEF ds
    <3> QED
      BY <2>4, <2>7, <2>8, SameDraftsKeep
  <2>10. FewDrafts(ds) /\ Roomy(ds, user)
    BY <2>4, OwnedRemain, StaysRoomy DEF Roomy
  <2> HIDE DEF ds
  <2>11. Waits(k, ds, armed \ {k}, typed')
    BY <2>5 DEF Waits
  <2> QED
    BY <1>1, <2>1, <2>6, <2>9, <2>10, <2>11, ResolvesKept
<1>7. CASE Editor!RestoreLocalConflictDraft
  <2> DEFINE new == [d EXCEPT !.text = mine, !.dirty = TRUE]
  <2>1. Editor!Resolves(Editor!SetDraft(drafts, k, new), armed \ {k}, mine) /\ typed' = typed
    BY <1>7 DEF Editor!RestoreLocalConflictDraft
  <2>2. MetGrows /\ (mine # None => mine \in met'[k])
    BY <1>1, <1>3, <2>1, ResolvesShows
  <2>3. mine # None
    BY <1>3, DraftsAssumption
  <2> HIDE DEF k, d, mine
  <2>4. new \in Editor!Draft /\ HomelyDraft(new, k) /\ new.text = mine /\ new.base = d.base /\ new.dirty /\ new.conflict = d.conflict
    BY <1>2, <1>3 DEF HomelyDraft, Editor!Draft
  <2> HIDE DEF new
  <2>5. Known(new, k, met')
    BY <1>2, <1>4, <2>2, <2>3, <2>4 DEF Known, MetGrows
  <2>6. typed'[k] # None => HoldsText(new, typed'[k]) /\ new.conflict # None
    BY <1>1, <1>4, <2>1, <2>4, DraftsAssumption DEF HoldsText
  <2> QED
    BY <1>1, <1>3, <2>1, <2>4, <2>5, <2>6, ResolvedDraftKept DEF k
<1>8. CASE Editor!RebaseLocalConflictDraft
  <2> DEFINE new == [d EXCEPT !.text = mine, !.base = newer, !.dirty = TRUE, !.conflict = None]
  <2>1. Editor!Resolves(Editor!SetDraft(drafts, k, new), armed \cup {k}, mine) /\ typed' = typed
    BY <1>8 DEF Editor!RebaseLocalConflictDraft
  <2>2. (mine # None => mine \in met'[k]) /\ (newer # None => newer \in met'[k])
    BY <1>1, <1>3, <2>1, ResolvesShows
  <2>3. mine # None
    BY <1>3, DraftsAssumption
  <2> HIDE DEF k, d, mine, newer
  <2>4. new \in Editor!Draft /\ HomelyDraft(new, k) /\ new.text = mine /\ new.base = newer /\ new.dirty /\ new.conflict = None
    BY <1>2, <1>3 DEF HomelyDraft, Editor!Draft
  <2> HIDE DEF new
  <2>5. Known(new, k, met')
    BY <2>2, <2>3, <2>4 DEF Known
  <2>6. typed'[k] # None => HoldsText(new, typed'[k]) /\ k \in armed \cup {k}
    BY <1>4, <2>1, <2>4, DraftsAssumption DEF HoldsText
  <2> QED
    BY <1>1, <1>3, <2>1, <2>4, <2>5, <2>6, ResolvedDraftKept DEF k
<1> QED
  BY <1>5, <1>6, <1>7, <1>8

\* at first nothing is typed, and no draft is kept
LEMMA KeptStarts == ASSUME Editor!EditorInit PROVE KeptInv
<1>1. /\ \A k \in Editor!Keys : drafts[k] = None /\ typed[k] = None
      /\ ~view.mounted /\ overwrote = {}
  BY DEF Editor!EditorInit
<1>2. FewDrafts(drafts)
  <2>1. {k \in Editor!Keys : drafts[k] # None} = {}
    BY <1>1
  <2> QED
    BY <2>1, FS_EmptySet DEF FewDrafts
<1> QED
  BY <1>1, <1>2 DEF KeptInv, AllKnown, Known, AllHeld, Editor!NothingUnseenIsLost

\* every step of the editor keeps it
LEMMA KeptSteps == ASSUME SourceInv, KeptInv, Editor!EditorNext PROVE KeptInv'
BY PanelKept, ChangeKept, TypingKept, TimerKept, CloseKept, OthersKept, ConflictsEndKept DEF Editor!EditorNext

\* then what was typed is kept, and only seen versions were replaced
LEMMA SourceIsKept == ASSUME SourceInv, KeptInv PROVE Editor!UnsavedSourceIsKept /\ Editor!NothingUnseenIsLost
<1>1. \A k \in Editor!Keys : typed[k] # None => Editor!Edited(k) /\ drafts[k].text = typed[k]
  BY DEF KeptInv, AllHeld, HoldsText, Editor!Edited
<1> QED
  BY <1>1 DEF KeptInv, Waits, Editor!UnsavedSourceIsKept

\* Whatever timers, switches, sign-ins, other writers and buttons do, what the
\* user typed is saved or in its draft until it is given up, and no save
\* replaces a version that was not shown (MonacoWorkspace.tsx).
THEOREM SourceKept == PageSpec => [](part = "rooms" => SourceInv /\ KeptInv)
<1>1. PageInit => (part = "rooms" => SourceInv /\ KeptInv)
  BY SourceStarts, KeptStarts DEF PageInit, PageStarts
<1>2. (part = "rooms" => SourceInv /\ KeptInv) /\ [PageNext]_pageVars => (part = "rooms" => SourceInv /\ KeptInv)'
  <2> SUFFICES ASSUME part = "rooms" => SourceInv /\ KeptInv, [PageNext]_pageVars, part' = "rooms" PROVE SourceInv' /\ KeptInv'
    OBVIOUS
  <2>1. CASE UNCHANGED pageVars
    <3>1. part = "rooms" /\ UNCHANGED <<user, editorOnly>>
      BY <2>1 DEF pageVars, pageShared
    <3>2. SourceInv'
      BY <3>1 DEF editorOnly, SourceInv, DocsHome, Homely, MetHome, Typed, Editor!Shown, Editor!EditorDocumentKey
    <3>3. UNCHANGED <<user, documents, view, drafts, armed, met, typed>> /\ overwrote' = overwrote
      BY <3>1 DEF editorOnly
    <3> QED
      BY <3>1, <3>2, <3>3, SourceRests
  <2>2. CASE PageNext
    <3>1. part = "rooms" /\ Editor!EditorNext
      BY <2>2 DEF PageNext, PageStays
    <3> QED
      BY <3>1, SourceSteps, KeptSteps
  <2> QED
    BY <2>1, <2>2
<1> QED
  BY <1>1, <1>2, PTL DEF PageSpec

\* Whatever a timer, a switch, a sign-in or a conflict's button writes or
\* shows, it is of its own document (MonacoWorkspace.tsx).
THEOREM SourceSound == PageSpec => [](part = "rooms" => SourceInv)
BY SourceKept, PTL

(***************************************************************************)
(* Calls, verdicts and source together.                                    *)
(***************************************************************************)
\* What the page shows an account and saves for it is the account's own.
THEOREM AccountsOwn == PageSpec => []AccountsAreSeparate
<1>1. /\ part = "calls" => CallsInv
      /\ part = "graphs" => VerdictInv /\ LoneInv
      /\ part = "rooms" => SourceInv /\ KeptInv
      => AccountsAreSeparate
  BY LogIsKept, SourceIsHome, SourceIsKept DEF VerdictInv, LoneInv, Fresh, Checks!VerdictIsCurrent, AccountsAreSeparate
<1> QED
  BY <1>1, CallsSound, VerdictsSound, VerdictOfGraph, SourceKept, PTL

(***************************************************************************)
(* The Parts desk: the cart.  Screen and storage are of their room; lines  *)
(* are distinct unless an alternative was chosen that had one (loose), and *)
(* so are those of every cart that an undo may bring back; what storage    *)
(* holds is listed.                                                        *)
(***************************************************************************)
Lines == [id : Desk!Ids, quantity : 1..MaxQuantity]
Carts == [Desk!Slots -> Lines \cup {None}]
Causes == {"undone", "duplicate"}
Remembrances == [cart : Carts, loose : SUBSET Causes]
DeskFields == {"query", "results", "cart", "undo", "status", "discovery", "handoff", "of", "loose"}
Distinct(cart, loose) == loose \ {"undone"} = {} => Desk!OneLineEach(cart)
IsListed(results, cart) == Desk!Listed(results, cart) = cart

DeskSound(d, r) ==
    /\ DOMAIN d = DeskFields /\ d.of = r
    /\ d.results \subseteq Desk!Ids /\ d.cart \in Carts /\ d.loose \subseteq Causes
    /\ Distinct(d.cart, d.loose) /\ (d.loose = {} => IsListed(d.results, d.cart))
    /\ d.undo \in Seq(Remembrances) /\ \A i \in 1..Len(d.undo) : Distinct(d.undo[i].cart, d.undo[i].loose)
SavedSound(s, r) ==
    /\ DOMAIN s = {"results", "cart", "of", "loose"} /\ s.of = r
    /\ s.results \subseteq Desk!Ids /\ s.cart \in Carts /\ s.loose \subseteq Causes
    /\ Distinct(s.cart, s.loose) /\ IsListed(s.results, s.cart)
StoredSound(st) == DOMAIN st = Accounts /\ \A r \in Accounts : SavedSound(st[r], r)
CartInv == room \in Accounts /\ DeskSound(desk, room) /\ StoredSound(stored)

\* what is listed keeps its distinct lines
LEMMA ListedIsListed ==
    ASSUME NEW results, NEW cart \in Carts
    PROVE  /\ Desk!Listed(results, cart) \in Carts /\ IsListed(results, Desk!Listed(results, cart))
           /\ Desk!OneLineEach(cart) => Desk!OneLineEach(Desk!Listed(results, cart))
<1> DEFINE kept == Desk!Listed(results, cart)
<1>1. \A n \in Desk!Slots : kept[n] = IF Desk!Holds(cart, n, results) THEN cart[n] ELSE None
  BY DEF Desk!Listed
<1>2. kept \in Carts
  BY DEF Desk!Listed, Carts
<1> HIDE DEF kept
<1>3. \A n \in Desk!Slots : kept[n] = IF Desk!Holds(kept, n, results) THEN kept[n] ELSE None
  BY <1>1 DEF Desk!Holds
<1>4. IsListed(results, kept)
  <2>1. Desk!Listed(results, kept) = [n \in Desk!Slots |-> kept[n]]
    BY <1>3 DEF Desk!Listed
  <2> QED
    BY <1>2, <2>1 DEF IsListed, Carts
<1>5. ASSUME Desk!OneLineEach(cart) PROVE Desk!OneLineEach(kept)
  <2>1. \A n \in Desk!Slots : \A some : Desk!Holds(kept, n, some) => Desk!Holds(cart, n, some) /\ kept[n] = cart[n]
    BY <1>1 DEF Desk!Holds
  <2> QED
    BY <1>5, <2>1 DEF Desk!OneLineEach
<1> QED
  BY <1>2, <1>4, <1>5 DEF kept

LEMMA SavedIsSound ==
    ASSUME NEW d, room \in Accounts, DeskSound(d, room), StoredSound(stored), Desk!Persist(d)
    PROVE  StoredSound(stored')
<1> DEFINE s == Desk!Saved(d, Desk!Listed(d.results, d.cart))
<1>1. /\ DOMAIN s = {"results", "cart", "of", "loose"} /\ s.of = d.of /\ s.results = d.results
      /\ s.cart = Desk!Listed(d.results, d.cart) /\ s.loose = d.loose \ {"undone"}
  BY DEF Desk!Saved
<1>2. SavedSound(s, room)
  <2> HIDE DEF s
  <2>1. s.cart \in Carts /\ IsListed(s.results, s.cart) /\ (Desk!OneLineEach(d.cart) => Desk!OneLineEach(s.cart))
    BY <1>1, ListedIsListed DEF DeskSound
  <2>2. Distinct(s.cart, s.loose)
    BY <1>1, <2>1 DEF DeskSound, Distinct
  <2> QED
    BY <1>1, <2>1, <2>2 DEF DeskSound, SavedSound
<1>3. stored' = [stored EXCEPT ![room] = s]
  BY DEF Desk!Persist
<1> HIDE DEF s
<1> QED
  BY <1>2, <1>3 DEF StoredSound

LEMMA ReadIsSound ==
    ASSUME NEW s, NEW r, SavedSound(s, r)
    PROVE  DeskSound(Desk!FromStorage(s), r) /\ Desk!FromStorage(s).status = "idle"
<1> DEFINE d == Desk!FromStorage(s)
<1>1. /\ DOMAIN d = DeskFields /\ d.of = s.of /\ d.results = s.results /\ d.cart = Desk!Listed(s.results, s.cart)
      /\ d.loose = s.loose /\ d.undo = <<>> /\ d.status = "idle"
  BY DEF Desk!FromStorage, DeskFields
<1> HIDE DEF d
<1>2. d.cart \in Carts /\ IsListed(d.results, d.cart) /\ (Desk!OneLineEach(s.cart) => Desk!OneLineEach(d.cart))
  BY <1>1, ListedIsListed DEF SavedSound
<1>3. Distinct(d.cart, d.loose)
  BY <1>1, <1>2 DEF SavedSound, Distinct
<1> QED
  BY <1>1, <1>2, <1>3 DEF SavedSound, DeskSound, d

\* the cart that was there is remembered with what makes it loose
LEMMA RememberedIsSound ==
    ASSUME NEW d, NEW r, DeskSound(d, r)
    PROVE  /\ Desk!Remembered(d) \in Seq(Remembrances)
           /\ \A i \in 1..Len(Desk!Remembered(d)) : Distinct(Desk!Remembered(d)[i].cart, Desk!Remembered(d)[i].loose)
<1> DEFINE e == [cart |-> d.cart, loose |-> d.loose]
           s == Append(d.undo, e)
<1>1. e \in Remembrances /\ Distinct(e.cart, e.loose)
  BY DEF DeskSound, Remembrances
<1>2. d.undo \in Seq(Remembrances) /\ \A i \in 1..Len(d.undo) : Distinct(d.undo[i].cart, d.undo[i].loose)
  BY DEF DeskSound
<1>3. Desk!Remembered(d) = s \/ Desk!Remembered(d) = Tail(s)
  BY DEF Desk!Remembered
<1> HIDE DEF e
<1>4. s \in Seq(Remembrances) /\ s # <<>> /\ \A i \in 1..Len(s) : Distinct(s[i].cart, s[i].loose)
  BY <1>1, <1>2
<1> HIDE DEF s
<1>5. Tail(s) \in Seq(Remembrances) /\ \A i \in 1..Len(Tail(s)) : Distinct(Tail(s)[i].cart, Tail(s)[i].loose)
  BY <1>4
<1> QED
  BY <1>3, <1>4, <1>5

\* a cart with distinct lines that are listed replaces the one on screen
LEMMA WithCartIsSound ==
    ASSUME CartInv, NEW cart \in Carts, Distinct(cart, desk.loose), desk.loose = {} => IsListed(desk.results, cart),
           Desk!WithCart(cart), UNCHANGED room
    PROVE  CartInv' /\ desk'.status = desk.status
<1>1. desk' = [desk EXCEPT !.cart = cart, !.undo = Desk!Remembered(desk)] /\ Desk!Persist(desk')
  BY DEF Desk!WithCart
<1>2. /\ DOMAIN desk' = DeskFields /\ desk'.of = desk.of /\ desk'.results = desk.results /\ desk'.loose = desk.loose
      /\ desk'.cart = cart /\ desk'.undo = Desk!Remembered(desk) /\ desk'.status = desk.status
  BY <1>1 DEF CartInv, DeskSound, DeskFields
<1>3. DeskSound(desk', room)
  BY <1>2, RememberedIsSound DEF CartInv, DeskSound
<1>4. StoredSound(stored')
  BY <1>1, <1>3, SavedIsSound DEF CartInv
<1> QED
  BY <1>2, <1>3, <1>4 DEF CartInv

\* what the cart is not made of may change
LEMMA SameCartIsSound ==
    ASSUME CartInv, UNCHANGED room, DOMAIN desk' = DeskFields,
           desk'.of = desk.of, desk'.results = desk.results, desk'.cart = desk.cart, desk'.undo = desk.undo, desk'.loose = desk.loose,
           Desk!Persist(desk') \/ UNCHANGED stored
    PROVE  CartInv'
<1>1. DeskSound(desk', room)
  BY DEF CartInv, DeskSound
<1> QED
  BY <1>1, SavedIsSound DEF CartInv

LEMMA QuantityFits == \A n \in Nat : Desk!Clamp(n) \in 1..MaxQuantity
BY DeskAssumption DEF Desk!Clamp

LEMMA AddIsSound ==
    ASSUME CartInv, NEW id \in desk.results, NEW n \in 1..MaxQuantity, Desk!AddToCart(id, n), UNCHANGED room
    PROVE  CartInv' /\ desk'.status = desk.status
<1>0. /\ desk.cart \in Carts /\ id \in Desk!Ids /\ n \in Nat /\ Distinct(desk.cart, desk.loose)
      /\ desk.loose = {} => IsListed(desk.results, desk.cart)
  BY DeskAssumption DEF CartInv, DeskSound
<1>1. ASSUME Desk!HasLine(id) PROVE CartInv' /\ desk'.status = desk.status
  <2> DEFINE cart == Desk!Requantified(id, LAMBDA q : Desk!Clamp(q + Desk!Clamp(n)))
  <2>1. Desk!WithCart(cart)
    BY <1>1 DEF Desk!AddToCart
  <2>2. \A m \in Desk!Slots : cart[m] = IF Desk!Holds(desk.cart, m, {id}) THEN Desk!Line(id, Desk!Clamp(desk.cart[m].quantity + Desk!Clamp(n)))
                                        ELSE desk.cart[m]
    BY DEF Desk!Requantified
  <2>3. ASSUME NEW m \in Desk!Slots, Desk!Holds(desk.cart, m, {id}) PROVE cart[m] \in Lines /\ cart[m].id = id
    <3>1. desk.cart[m] \in Lines
      BY <1>0, <2>3 DEF Carts, Desk!Holds
    <3>2. Desk!Clamp(n) \in 1..MaxQuantity
      BY <1>0, QuantityFits
    <3>3. desk.cart[m].quantity + Desk!Clamp(n) \in Nat
      BY <3>1, <3>2, DeskAssumption DEF Lines
    <3>4. PICK quantity \in 1..MaxQuantity : quantity = Desk!Clamp(desk.cart[m].quantity + Desk!Clamp(n))
      BY <3>3, QuantityFits
    <3>5. cart[m] = [id |-> id, quantity |-> quantity]
      BY <2>2, <2>3, <3>4 DEF Desk!Line
    <3> QED
      BY <1>0, <3>5 DEF Lines
  <2>4. DOMAIN cart = Desk!Slots /\ cart = [m \in Desk!Slots |-> cart[m]]
    BY DEF Desk!Requantified
  <2> HIDE DEF cart
  <2>5. cart \in Carts
    BY <1>0, <2>2, <2>3, <2>4 DEF Carts
  <2>6. \A m \in Desk!Slots : \A some : Desk!Holds(cart, m, some) => Desk!Holds(desk.cart, m, some) /\ cart[m].id = desk.cart[m].id
    BY <2>2, <2>3 DEF Desk!Holds
  <2>7. Desk!OneLineEach(desk.cart) => Desk!OneLineEach(cart)
    BY <2>6 DEF Desk!OneLineEach
  <2>8. IsListed(desk.results, desk.cart) => IsListed(desk.results, cart)
    <3> SUFFICES ASSUME IsListed(desk.results, desk.cart), NEW m \in Desk!Slots, ~Desk!Holds(cart, m, desk.results) PROVE cart[m] = None
      BY <2>4 DEF IsListed, Desk!Listed
    <3>1. CASE Desk!Holds(desk.cart, m, {id})
      BY <2>3, <3>1 DEF Desk!Holds
    <3>2. CASE ~Desk!Holds(desk.cart, m, {id})
      BY <2>2, <3>2 DEF IsListed, Desk!Listed, Desk!Holds
    <3> QED
      BY <3>1, <3>2
  <2> QED
    BY <1>0, <2>1, <2>5, <2>7, <2>8, WithCartIsSound DEF Distinct
<1>2. ASSUME ~Desk!HasLine(id) PROVE CartInv' /\ desk'.status = desk.status
  <2>1. PICK cart \in Desk!Added(id, n) : Desk!WithCart(cart)
    BY <1>2, Zenon DEF Desk!AddToCart
  <2>2. PICK slot \in Desk!Slots : cart = [desk.cart EXCEPT ![slot] = Desk!Line(id, Desk!Clamp(n))]
    BY <2>1 DEF Desk!Added
  <2>3. PICK line \in Lines : line = Desk!Line(id, Desk!Clamp(n)) /\ line.id = id
    <3>1. PICK quantity \in 1..MaxQuantity : quantity = Desk!Clamp(n)
      BY <1>0, QuantityFits
    <3>2. Desk!Line(id, Desk!Clamp(n)) = [id |-> id, quantity |-> quantity]
      BY <3>1 DEF Desk!Line
    <3> QED
      BY <1>0, <3>2 DEF Lines
  <2>4. cart \in Carts /\ \A m \in Desk!Slots : cart[m] = IF m = slot THEN line ELSE desk.cart[m]
    BY <1>0, <2>2, <2>3 DEF Carts
  <2>5. Desk!OneLineEach(desk.cart) => Desk!OneLineEach(cart)
    <3> SUFFICES ASSUME Desk!OneLineEach(desk.cart), NEW m \in Desk!Slots, NEW k \in Desk!Slots,
                        Desk!Holds(cart, m, Desk!Ids), Desk!Holds(cart, k, {cart[m].id})
                 PROVE  m = k
      BY DEF Desk!OneLineEach
    <3>1. \A j \in Desk!Slots : ~Desk!Holds(desk.cart, j, {id})
      BY <1>2 DEF Desk!HasLine
    <3>2. cart[k].id = cart[m].id /\ cart[k] # None /\ cart[m] # None
      BY DEF Desk!Holds
    <3>3. \A j \in Desk!Slots : cart[j] # None /\ cart[j].id = id => j = slot
      BY <2>4, <3>1 DEF Desk!Holds
    <3>4. CASE m # slot /\ k # slot
      BY <2>4, <3>2, <3>4 DEF Desk!OneLineEach, Desk!Holds
    <3> QED
      BY <2>3, <2>4, <3>2, <3>3, <3>4
  <2>6. IsListed(desk.results, desk.cart) => IsListed(desk.results, cart)
    <3> SUFFICES ASSUME IsListed(desk.results, desk.cart), NEW m \in Desk!Slots, ~Desk!Holds(cart, m, desk.results) PROVE cart[m] = None
      BY <2>4 DEF IsListed, Desk!Listed, Carts
    <3>1. \A j \in Desk!Slots : desk.cart[j] = IF Desk!Holds(desk.cart, j, desk.results) THEN desk.cart[j] ELSE None
      BY DEF IsListed, Desk!Listed
    <3> QED
      BY <2>3, <2>4, <3>1 DEF Desk!Holds
  <2> QED
    BY <1>0, <2>1, <2>4, <2>5, <2>6, WithCartIsSound DEF Distinct
<1> QED
  BY <1>1, <1>2

\* line by line
LEMMA LineByLine ==
    ASSUME NEW results, NEW cart \in Carts
    PROVE  /\ IsListed(results, cart) <=> \A m \in Desk!Slots : cart[m] # None => cart[m].id \in results
           /\ Desk!OneLineEach(cart) <=>
                 \A m, k \in Desk!Slots : cart[m] # None /\ cart[k] # None /\ cart[m].id = cart[k].id => m = k
<1>1. \A m \in Desk!Slots : cart[m] # None => cart[m].id \in Desk!Ids
  BY DEF Carts, Lines
<1>2. IsListed(results, cart) => \A m \in Desk!Slots : cart[m] # None => cart[m].id \in results
  BY DEF IsListed, Desk!Listed, Desk!Holds
<1>3. ASSUME \A m \in Desk!Slots : cart[m] # None => cart[m].id \in results PROVE IsListed(results, cart)
  <2>1. \A m \in Desk!Slots : cart[m] = IF Desk!Holds(cart, m, results) THEN cart[m] ELSE None
    BY <1>3 DEF Desk!Holds
  <2>2. cart = [m \in Desk!Slots |-> cart[m]]
    BY DEF Carts
  <2> QED
    BY <2>1, <2>2 DEF IsListed, Desk!Listed
<1>4. Desk!OneLineEach(cart) <=>
         \A m, k \in Desk!Slots : cart[m] # None /\ cart[k] # None /\ cart[m].id = cart[k].id => m = k
  BY <1>1 DEF Desk!OneLineEach, Desk!Holds
<1> QED
  BY <1>2, <1>3, <1>4

\* a cart whose lines are lines of another cart, on their slots, is as sound
LEMMA FewerLines ==
    ASSUME NEW results, NEW cart \in Carts, NEW fewer \in Carts,
           \A m \in Desk!Slots : fewer[m] # None => cart[m] # None /\ fewer[m].id = cart[m].id
    PROVE  /\ Desk!OneLineEach(cart) => Desk!OneLineEach(fewer)
           /\ IsListed(results, cart) => IsListed(results, fewer)
BY LineByLine

LEMMA RelineIsSound ==
    ASSUME CartInv, NEW id, NEW line \in Lines \cup {None}, line # None => line.id = id,
           Desk!WithCart(Desk!Relined(id, line)), UNCHANGED room
    PROVE  CartInv' /\ desk'.status = desk.status
<1> DEFINE cart == Desk!Relined(id, line)
<1>0. /\ desk.cart \in Carts /\ Distinct(desk.cart, desk.loose)
      /\ desk.loose = {} => IsListed(desk.results, desk.cart)
  BY DEF CartInv, DeskSound
<1>1. cart \in Carts /\ \A m \in Desk!Slots : cart[m] = IF Desk!Holds(desk.cart, m, {id}) THEN line ELSE desk.cart[m]
  <2>1. \A m \in Desk!Slots : cart[m] = IF Desk!Holds(desk.cart, m, {id}) THEN line ELSE desk.cart[m]
    BY Zenon DEF Desk!Relined
  <2>2. cart = [m \in Desk!Slots |-> cart[m]]
    BY DEF Desk!Relined
  <2> HIDE DEF cart
  <2>3. \A m \in Desk!Slots : cart[m] \in Lines \cup {None}
    BY <1>0, <2>1 DEF Carts
  <2> QED
    BY <2>1, <2>2, <2>3 DEF Carts
<1> HIDE DEF cart
<1>2. \A m \in Desk!Slots : cart[m] # None => desk.cart[m] # None /\ cart[m].id = desk.cart[m].id
  BY <1>1 DEF Desk!Holds
<1>3. /\ Desk!OneLineEach(desk.cart) => Desk!OneLineEach(cart)
      /\ IsListed(desk.results, desk.cart) => IsListed(desk.results, cart)
  <2>1. \A results, c : c \in Carts /\ (\A m \in Desk!Slots : cart[m] # None => c[m] # None /\ cart[m].id = c[m].id) =>
          /\ Desk!OneLineEach(c) => Desk!OneLineEach(cart)
          /\ IsListed(results, c) => IsListed(results, cart)
    BY <1>1, FewerLines
  <2> QED
    BY <1>0, <1>2, <2>1
<1>4. Desk!WithCart(cart)
  BY DEF cart
<1> QED
  BY <1>0, <1>1, <1>3, <1>4, WithCartIsSound DEF Distinct

\* an alternative may have a line already: the cart is loose from then on
LEMMA AlternativeIsSound ==
    ASSUME CartInv, NEW id, NEW p, Desk!ChooseAlternative(id, p), UNCHANGED room
    PROVE  CartInv' /\ desk'.status = desk.status
<1>1. PICK r \in desk.results :
        /\ desk' = [desk EXCEPT !.cart = [n \in Desk!Slots |-> IF Desk!Holds(@, n, {id}) THEN [@[n] EXCEPT !.id = r] ELSE @[n]],
                                !.undo = Desk!Remembered(desk), !.loose = @ \cup {"duplicate"}]
        /\ Desk!Persist(desk')
  BY Zenon DEF Desk!ChooseAlternative
<1> DEFINE cart == [n \in Desk!Slots |-> IF Desk!Holds(desk.cart, n, {id}) THEN [desk.cart[n] EXCEPT !.id = r] ELSE desk.cart[n]]
<1>2. /\ DOMAIN desk' = DeskFields /\ desk'.of = desk.of /\ desk'.results = desk.results /\ desk'.status = desk.status
      /\ desk'.cart = cart /\ desk'.undo = Desk!Remembered(desk) /\ desk'.loose = desk.loose \cup {"duplicate"}
  BY <1>1 DEF CartInv, DeskSound, DeskFields
<1>3. cart \in Carts
  <2> SUFFICES ASSUME NEW n \in Desk!Slots PROVE cart[n] \in Lines \cup {None}
    BY DEF Carts
  <2>1. desk.cart[n] \in Lines \cup {None} /\ r \in Desk!Ids
    BY DEF CartInv, DeskSound, Carts
  <2>2. CASE Desk!Holds(desk.cart, n, {id})
    BY <2>1, <2>2 DEF Desk!Holds, Lines
  <2>3. CASE ~Desk!Holds(desk.cart, n, {id})
    BY <2>1, <2>3
  <2> QED
    BY <2>2, <2>3
<1> HIDE DEF cart
<1>4. DeskSound(desk', room)
  <2>1. desk'.loose \subseteq Causes /\ "duplicate" \in desk'.loose
    BY <1>2 DEF CartInv, DeskSound, Causes
  <2>2. desk'.loose # {} /\ desk'.loose \ {"undone"} # {}
    BY <2>1
  <2> QED
    BY <1>2, <1>3, <2>1, <2>2, RememberedIsSound DEF CartInv, DeskSound, Distinct
<1> QED
  BY <1>1, <1>2, <1>4, SavedIsSound DEF CartInv

LEMMA ResetIsSound == ASSUME CartInv, NEW parts, Desk!ResetCart(parts), UNCHANGED room PROVE CartInv' /\ desk'.status = desk.status
<1> DEFINE wanted == {p \in parts : \E r \in desk.results : Listings[r].part = p}
           first(p) == Desk!Line(CHOOSE r \in desk.results : Listings[r].part = p, 1)
           lines == {first(p) : p \in wanted}
<1>1. PICK cart \in [Desk!Slots -> lines \cup {None}] :
        /\ \A m, n \in Desk!Slots : cart[m] = cart[n] /\ cart[m] # None => m = n
        /\ Desk!WithCart(cart)
  BY Zenon DEF Desk!ResetCart
<1>2. ASSUME NEW line \in lines PROVE line \in Lines /\ line.id \in desk.results /\ line = [id |-> line.id, quantity |-> 1]
  <2>1. PICK p \in wanted : line = first(p)
    OBVIOUS
  <2>2. (CHOOSE r \in desk.results : Listings[r].part = p) \in desk.results
    BY <2>1
  <2>3. PICK r \in desk.results : line = [id |-> r, quantity |-> 1]
    BY <2>1, <2>2 DEF Desk!Line
  <2>4. r \in Desk!Ids /\ 1 \in 1..MaxQuantity
    BY DeskAssumption DEF CartInv, DeskSound
  <2> QED
    BY <2>3, <2>4 DEF Lines
<1> HIDE DEF lines
<1>3. cart \in Carts
  BY <1>2 DEF Carts
<1>4. Desk!OneLineEach(cart) /\ IsListed(desk.results, cart)
  <2>1. \A m \in Desk!Slots : cart[m] # None => cart[m].id \in desk.results /\ cart[m] = [id |-> cart[m].id, quantity |-> 1]
    BY <1>2
  <2>2. \A m, n \in Desk!Slots : cart[m] # None /\ cart[n] # None /\ cart[m].id = cart[n].id => cart[m] = cart[n]
    BY <2>1
  <2>3. \A m, n \in Desk!Slots : cart[m] # None /\ cart[n] # None /\ cart[m].id = cart[n].id => m = n
    BY <1>1, <2>2
  <2> QED
    BY <1>3, <2>1, <2>3, LineByLine
<1> QED
  BY <1>1, <1>3, <1>4, WithCartIsSound DEF Distinct

LEMMA UndoIsSound == ASSUME CartInv, Desk!UndoCart, UNCHANGED room PROVE CartInv' /\ desk'.status = desk.status
<1>1. CASE desk.undo = <<>>
  BY <1>1 DEF Desk!UndoCart, CartInv, DeskSound, StoredSound, SavedSound
<1>2. CASE desk.undo # <<>>
  <2> DEFINE undo == desk.undo
             n == Len(undo)
             e == undo[n]
  <2>0. undo \in Seq(Remembrances) /\ undo # <<>> /\ n \in Nat /\ n >= 1 /\ \A i \in 1..n : Distinct(undo[i].cart, undo[i].loose)
    BY <1>2 DEF CartInv, DeskSound
  <2>1. e \in Remembrances /\ Distinct(e.cart, e.loose)
    BY <2>0
  <2>2. /\ desk' = [desk EXCEPT !.cart = e.cart, !.undo = SubSeq(@, 1, n - 1), !.loose = e.loose \cup {"undone"}]
        /\ Desk!Persist(desk')
    BY <1>2 DEF Desk!UndoCart
  <2>3. /\ DOMAIN desk' = DeskFields /\ desk'.of = desk.of /\ desk'.results = desk.results /\ desk'.status = desk.status
        /\ desk'.cart = e.cart /\ desk'.undo = SubSeq(undo, 1, n - 1) /\ desk'.loose = e.loose \cup {"undone"}
    BY <2>2 DEF CartInv, DeskSound, DeskFields
  <2>4. SubSeq(undo, 1, n - 1) \in Seq(Remembrances) /\ Len(SubSeq(undo, 1, n - 1)) = n - 1
        /\ \A i \in 1..(n - 1) : SubSeq(undo, 1, n - 1)[i] = undo[i]
    BY <2>0
  <2> HIDE DEF undo, n, e
  <2>5. DeskSound(desk', room)
    <3>1. desk'.cart \in Carts /\ desk'.loose \subseteq Causes /\ desk'.loose # {}
      BY <2>1, <2>3 DEF Remembrances, Causes
    <3>2. Distinct(desk'.cart, desk'.loose)
      <4>1. desk'.loose \ {"undone"} = e.loose \ {"undone"}
        BY <2>3
      <4> QED
        BY <2>1, <2>3, <4>1 DEF Distinct
    <3>3. desk'.undo \in Seq(Remembrances) /\ \A i \in 1..Len(desk'.undo) : Distinct(desk'.undo[i].cart, desk'.undo[i].loose)
      BY <2>0, <2>3, <2>4
    <3> QED
      BY <2>3, <3>1, <3>2, <3>3 DEF CartInv, DeskSound
  <2> QED
    BY <2>2, <2>3, <2>5, SavedIsSound DEF CartInv
<1> QED
  BY <1>1, <1>2

(***************************************************************************)
(* The Parts desk: its lookups.  Only the newest lookup of the page is     *)
(* active, and it is for what the page looked up; a lookup of a tool is    *)
(* answered as long as the room has the lease that the tool began in.      *)
(***************************************************************************)
Numbered(l) ==
    /\ l.by \in {"page", "tool"} /\ l.seq \in Nat
    /\ l.by = "page" => l.seq <= page.seq /\ (l.seq = page.active => l.for = page.looked)
    /\ l.by = "tool" => l.seq <= lease /\ (l.seq = lease => hydrated)
Answers(l) == (l.by = "page" /\ l.seq = page.active) \/ (l.by = "tool" /\ l.seq = lease)
LookupInv ==
    /\ lease \in Nat /\ hydrated \in BOOLEAN
    /\ DOMAIN page = {"mounted", "looked", "seq", "active", "candidates"} /\ page.seq \in Nat /\ page.active \in Nat \cup {None}
    /\ \A l \in lookups : Numbered(l)
    /\ Desk!CandidatesOfDesign
    /\ desk.status = "searching" /\ ~abandoned => \E l \in lookups : Answers(l)
DeskInv == CartInv /\ LookupInv

LEMMA DeskKept == DeskInv => Desk!DeskIsOfRoom /\ Desk!CartIsListed /\ Desk!CandidatesOfDesign /\ Desk!SearchingIsAlive
<1> SUFFICES ASSUME DeskInv PROVE Desk!DeskIsOfRoom /\ Desk!CartIsListed /\ Desk!CandidatesOfDesign /\ Desk!SearchingIsAlive
  OBVIOUS
<1>1. Desk!DeskIsOfRoom
  BY DEF DeskInv, CartInv, DeskSound, StoredSound, SavedSound, Desk!DeskIsOfRoom
<1>2. Desk!CartIsListed
  BY DEF DeskInv, CartInv, DeskSound, StoredSound, SavedSound, Distinct, IsListed, Desk!CartIsListed
<1>3. Desk!CandidatesOfDesign /\ Desk!SearchingIsAlive
  BY DEF DeskInv, LookupInv, Answers, Desk!SearchingIsAlive, Desk!ActiveLookup
<1> QED
  BY <1>1, <1>2, <1>3

LEMMA SameLookups ==
    ASSUME LookupInv, UNCHANGED <<lease, hydrated, page, lookups>>, 
           \/ desk'.status = desk.status /\ (abandoned => abandoned')
           \/ desk'.status # "searching"
    PROVE  LookupInv'
BY DEF LookupInv, Numbered, Answers, Desk!CandidatesOfDesign

LEMMA CartToolSound == ASSUME DeskInv, Desk!CartTool PROVE DeskInv'
<1>0. UNCHANGED <<room, lease, hydrated, page, lookups, abandoned>>
  BY DEF Desk!CartTool, Desk!Quiet, Desk!session
<1>1. CartInv' /\ desk'.status = desk.status
  <2>1. ASSUME NEW id \in desk.results, NEW n \in 1..MaxQuantity, Desk!AddToCart(id, n) PROVE CartInv' /\ desk'.status = desk.status
    BY <1>0, <2>1, AddIsSound DEF DeskInv
  <2>2. ASSUME NEW id \in Desk!Ids, Desk!Remove(id) PROVE CartInv' /\ desk'.status = desk.status
    <3>1. PICK line \in Lines \cup {None} : line = None
      OBVIOUS
    <3>2. Desk!WithCart(Desk!Relined(id, line))
      BY <2>2, <3>1 DEF Desk!Remove
    <3> QED
      BY <1>0, <3>1, <3>2, RelineIsSound DEF DeskInv
  <2>3. ASSUME NEW id \in Desk!Ids, NEW n \in 0..MaxQuantity, Desk!SetQuantity(id, n) PROVE CartInv' /\ desk'.status = desk.status
    <3>1. PICK quantity \in 1..MaxQuantity : quantity = Desk!Clamp(n)
      BY QuantityFits, DeskAssumption
    <3>2. PICK line \in Lines \cup {None} : line = (IF n = 0 THEN None ELSE Desk!Line(id, Desk!Clamp(n)))
      <4>1. Desk!Line(id, Desk!Clamp(n)) = [id |-> id, quantity |-> quantity]
        BY <3>1 DEF Desk!Line
      <4>2. Desk!Line(id, Desk!Clamp(n)) \in Lines
        BY <4>1 DEF Lines
      <4> QED
        BY <4>2
    <3>3. line # None => line.id = id
      BY <3>2 DEF Desk!Line
    <3>4. Desk!WithCart(Desk!Relined(id, line))
      BY <2>3, <3>2 DEF Desk!SetQuantity
    <3> QED
      BY <1>0, <3>3, <3>4, RelineIsSound DEF DeskInv
  <2>4. ASSUME NEW id, NEW p, Desk!ChooseAlternative(id, p) PROVE CartInv' /\ desk'.status = desk.status
    BY <1>0, <2>4, AlternativeIsSound DEF DeskInv
  <2>5. ASSUME Desk!ResetCart(design) PROVE CartInv' /\ desk'.status = desk.status
    BY <1>0, <2>5, ResetIsSound DEF DeskInv
  <2>6. ASSUME Desk!UndoCart PROVE CartInv' /\ desk'.status = desk.status
    BY <1>0, <2>6, UndoIsSound DEF DeskInv
  <2> QED
    BY <2>1, <2>2, <2>3, <2>4, <2>5, <2>6 DEF Desk!CartTool
<1> QED
  BY <1>0, <1>1, SameLookups DEF DeskInv

\* a publication empties the cart; what went before may still be undone
LEMMA PublishSound == ASSUME DeskInv, Desk!PublishTool PROVE DeskInv'
<1>0. UNCHANGED <<room, lease, hydrated, page, lookups>>
  BY DEF Desk!PublishTool, Desk!session
<1>1. CASE Desk!PublishRejected
  <2>1. desk' = [desk EXCEPT !.status = "failed"] /\ Desk!Persist(desk')
    BY <1>1 DEF Desk!PublishRejected
  <2>2. CartInv' /\ desk'.status # "searching"
    <3>1. /\ DOMAIN desk' = DeskFields /\ desk'.of = desk.of /\ desk'.results = desk.results /\ desk'.cart = desk.cart
          /\ desk'.undo = desk.undo /\ desk'.loose = desk.loose /\ desk'.status = "failed"
      BY <2>1 DEF DeskInv, CartInv, DeskSound, DeskFields
    <3> QED
      BY <1>0, <2>1, <3>1, SameCartIsSound DEF DeskInv
  <2> QED
    BY <1>0, <2>2, SameLookups DEF DeskInv
<1>2. ASSUME NEW results \in SUBSET Desk!Ids \ {{}}, NEW rejected \in BOOLEAN, Desk!PublishAgentResults(results, rejected) PROVE DeskInv'
  <2>1. /\ desk' = [desk EXCEPT !.results = results, !.cart = Desk!NoLines, !.of = room, !.discovery = None, !.handoff = None,
                                !.loose = {}, !.status = IF rejected THEN "partial" ELSE "ready"]
        /\ Desk!Persist(desk')
    BY <1>2 DEF Desk!PublishAgentResults
  <2>2. /\ DOMAIN desk' = DeskFields /\ desk'.of = room /\ desk'.results = results /\ desk'.cart = Desk!NoLines
        /\ desk'.undo = desk.undo /\ desk'.loose = {} /\ desk'.status # "searching"
    BY <2>1 DEF DeskInv, CartInv, DeskSound, DeskFields
  <2>3. Desk!NoLines \in Carts /\ Desk!OneLineEach(Desk!NoLines) /\ IsListed(results, Desk!NoLines)
    <3>1. Desk!NoLines \in Carts /\ \A m \in Desk!Slots : Desk!NoLines[m] = None
      BY DEF Desk!NoLines, Carts
    <3> QED
      BY <3>1, LineByLine
  <2>4. DeskSound(desk', room)
    BY <2>2, <2>3 DEF DeskInv, CartInv, DeskSound, Distinct
  <2>5. CartInv'
    BY <1>0, <2>1, <2>4, SavedIsSound DEF DeskInv, CartInv
  <2> QED
    BY <1>0, <2>2, <2>5, SameLookups DEF DeskInv
<1> QED
  BY <1>1, <1>2 DEF Desk!PublishTool

(* The agent's lookups.                                                    *)
LEMMA SearchSound ==
    ASSUME DeskInv, NEW q, Desk!SearchTool(q) \/ Desk!SearchToolSignedOut(q)
    PROVE  DeskInv'
<1>1. CASE Desk!SearchTool(q)
  <2>0. PICK l : l = [by |-> "tool", for |-> q, seq |-> lease, before |-> desk.discovery]
    OBVIOUS
  <2>1. /\ desk' = [desk EXCEPT !.query = q, !.discovery = None, !.handoff = q, !.status = "searching"]
        /\ lookups' = lookups \cup {l} /\ hydrated /\ Desk!Persist(desk')
        /\ UNCHANGED <<room, lease, hydrated, page>>
    BY <1>1, <2>0 DEF Desk!SearchTool, Desk!session
  <2>2. CartInv'
    <3>1. /\ DOMAIN desk' = DeskFields /\ desk'.of = desk.of /\ desk'.results = desk.results /\ desk'.cart = desk.cart
          /\ desk'.undo = desk.undo /\ desk'.loose = desk.loose
      BY <2>1 DEF DeskInv, CartInv, DeskSound, DeskFields
    <3> QED
      BY <2>1, <3>1, SameCartIsSound DEF DeskInv
  <2>3. l.by = "tool" /\ l.seq = lease
    BY <2>0
  <2>4. lease \in Nat /\ Numbered(l)'
    BY <2>1, <2>3 DEF DeskInv, LookupInv, Numbered
  <2>5. \A m \in lookups : Numbered(m)'
    BY <2>1 DEF DeskInv, LookupInv, Numbered
  <2>6. Answers(l)'
    BY <2>1, <2>3 DEF Answers
  <2>7. LookupInv'
    BY <2>1, <2>4, <2>5, <2>6 DEF DeskInv, LookupInv, Desk!CandidatesOfDesign
  <2> QED
    BY <2>2, <2>7 DEF DeskInv
<1>2. CASE Desk!SearchToolSignedOut(q)
  <2>1. /\ desk' = [desk EXCEPT !.query = q, !.discovery = None, !.handoff = q, !.status = "agent-required"]
        /\ Desk!Persist(desk') /\ UNCHANGED <<room, lease, hydrated, page, lookups>>
    BY <1>2 DEF Desk!SearchToolSignedOut, Desk!session
  <2>2. /\ DOMAIN desk' = DeskFields /\ desk'.of = desk.of /\ desk'.results = desk.results /\ desk'.cart = desk.cart
        /\ desk'.undo = desk.undo /\ desk'.loose = desk.loose /\ desk'.status # "searching"
    BY <2>1 DEF DeskInv, CartInv, DeskSound, DeskFields
  <2> QED
    BY <2>1, <2>2, SameCartIsSound, SameLookups DEF DeskInv
<1> QED
  BY <1>1, <1>2

\* a lookup that is gone and answered nothing
LEMMA LookupGone ==
    ASSUME LookupInv, NEW l, UNCHANGED <<lease, hydrated>>, lookups' = lookups \ {l},
           page' = page \/ (DOMAIN page' = DOMAIN page /\ page'.seq = page.seq /\ page'.active = None /\ page'.looked = page.looked
                            /\ page'.candidates \in {None, page.looked, page.candidates}),
           \/ desk'.status # "searching" \/ abandoned'
           \/ desk'.status = desk.status /\ abandoned' = abandoned /\ page' = page /\ ~Answers(l)
    PROVE  LookupInv'
<1>1. \A m \in lookups' : Numbered(m)'
  <2> SUFFICES ASSUME NEW m \in lookups PROVE Numbered(m)'
    OBVIOUS
  <2>1. Numbered(m) /\ m.seq # None
    BY DeskAssumption DEF LookupInv, Numbered
  <2> QED
    BY <2>1 DEF Numbered
<1>2. Desk!CandidatesOfDesign'
  BY DEF LookupInv, Desk!CandidatesOfDesign
<1>3. DOMAIN page' = DOMAIN page /\ page'.seq = page.seq /\ page'.active \in Nat \cup {None}
  BY DEF LookupInv
<1>4. desk'.status = "searching" /\ ~abandoned' => \E m \in lookups' : Answers(m)'
  BY DEF LookupInv, Answers
<1> QED
  BY <1>1, <1>2, <1>3, <1>4 DEF LookupInv

LEMMA AnswersSound ==
    ASSUME DeskInv, NEW l \in lookups, NEW outcome, Desk!SearchToolAnswers(l, outcome) \/ Desk!SearchToolAborted(l)
    PROVE  DeskInv'
<1>1. CASE Desk!SearchToolAborted(l)
  <2>1. lookups' = lookups \ {l} /\ abandoned' /\ UNCHANGED <<room, lease, hydrated, desk, stored, page>>
    BY <1>1 DEF Desk!SearchToolAborted, Desk!session
  <2>2. CartInv'
    BY <2>1 DEF DeskInv, CartInv, DeskSound, StoredSound, SavedSound
  <2> QED
    BY <2>1, <2>2, LookupGone DEF DeskInv
<1>2. CASE Desk!SearchToolAnswers(l, outcome)
  <2>0. l.by = "tool" /\ lookups' = lookups \ {l} /\ UNCHANGED <<room, lease, hydrated, page>>
    BY <1>2 DEF Desk!SearchToolAnswers, Desk!session
  <2>1. CASE l.seq # lease \/ ~hydrated
    <3>1. UNCHANGED <<desk, stored, abandoned>>
      BY <1>2, <2>1 DEF Desk!SearchToolAnswers
    <3>2. ~Answers(l)
      BY <2>0, <2>1 DEF DeskInv, LookupInv, Numbered, Answers
    <3>3. CartInv'
      BY <2>0, <3>1 DEF DeskInv, CartInv, DeskSound, StoredSound, SavedSound
    <3> QED
      BY <2>0, <3>1, <3>2, <3>3, LookupGone DEF DeskInv
  <2>2. CASE ~(l.seq # lease \/ ~hydrated)
    <3>1. desk' = [desk EXCEPT !.query = l.for, !.handoff = l.for, !.discovery = desk'.discovery, !.status = desk'.status]
      BY <1>2, <2>2 DEF Desk!SearchToolAnswers, DeskInv, CartInv, DeskSound, DeskFields
    <3>2. desk'.status \in {"rate-limited", "failed", "agent-required"} /\ Desk!Persist(desk')
      BY <1>2, <2>2 DEF Desk!SearchToolAnswers, DeskInv, CartInv, DeskSound, DeskFields
    <3>3. /\ DOMAIN desk' = DeskFields /\ desk'.of = desk.of /\ desk'.results = desk.results /\ desk'.cart = desk.cart
          /\ desk'.undo = desk.undo /\ desk'.loose = desk.loose /\ desk'.status # "searching"
      BY <3>1, <3>2 DEF DeskInv, CartInv, DeskSound, DeskFields
    <3>4. CartInv'
      BY <2>0, <3>2, <3>3, SameCartIsSound DEF DeskInv
    <3> QED
      BY <2>0, <3>3, <3>4, LookupGone DEF DeskInv
  <2> QED
    BY <2>1, <2>2
<1> QED
  BY <1>1, <1>2

(* The page's lookups.                                                     *)
LEMMA StageSound == ASSUME DeskInv, Desk!StageDesign PROVE DeskInv'
<1>0. PICK l : l = [by |-> "page", for |-> design, seq |-> page.seq + 1, before |-> None]
  OBVIOUS
<1>1. /\ page' = [page EXCEPT !.looked = design, !.seq = @ + 1, !.active = page.seq + 1, !.candidates = None]
      /\ lookups' = lookups \cup {l}
      /\ desk' = [desk EXCEPT !.query = None, !.handoff = "design", !.discovery = None, !.status = "searching"]
      /\ Desk!Persist(desk') /\ UNCHANGED <<room, lease, hydrated>>
  BY <1>0 DEF Desk!StageDesign, Desk!session
<1>2. CartInv'
  <2>1. /\ DOMAIN desk' = DeskFields /\ desk'.of = desk.of /\ desk'.results = desk.results /\ desk'.cart = desk.cart
        /\ desk'.undo = desk.undo /\ desk'.loose = desk.loose
    BY <1>1 DEF DeskInv, CartInv, DeskSound, DeskFields
  <2> QED
    BY <1>1, <2>1, SameCartIsSound DEF DeskInv
<1>3. l.by = "page" /\ l.seq = page.seq + 1 /\ l.for = design
  BY <1>0
<1>4. /\ DOMAIN page' = DOMAIN page /\ page.seq \in Nat /\ page'.seq = page.seq + 1 /\ page'.active = page.seq + 1
      /\ page'.looked = design /\ page'.candidates = None
  BY <1>1 DEF DeskInv, LookupInv
<1>5. Numbered(l)' /\ Answers(l)'
  BY <1>3, <1>4 DEF Numbered, Answers
<1>6. ASSUME NEW m \in lookups PROVE Numbered(m)'
  <2>1. Numbered(m)
    BY DEF DeskInv, LookupInv
  <2>2. m.by = "page" => m.seq <= page'.seq /\ m.seq # page'.active
    BY <1>4, <2>1 DEF Numbered
  <2> QED
    BY <1>1, <2>1, <2>2 DEF Numbered
<1>7. LookupInv'
  BY <1>1, <1>4, <1>5, <1>6 DEF DeskInv, LookupInv, Desk!CandidatesOfDesign
<1> QED
  BY <1>2, <1>7 DEF DeskInv

\* the page gives its lookup up, with its design or with itself
LEMMA LeftSound ==
    ASSUME DeskInv, UNCHANGED <<room, lease, hydrated, desk, stored, lookups>>,
           DOMAIN page' = DOMAIN page, page'.seq = page.seq, page'.active = None, page'.looked = None, page'.candidates = None,
           abandoned' = (abandoned \/ (Desk!ActiveLookup # {} /\ desk.status = "searching"))
    PROVE  DeskInv'
<1>1. CartInv'
  BY DEF DeskInv, CartInv, DeskSound, StoredSound, SavedSound
<1>2. \A m \in lookups : Numbered(m)'
  <2> SUFFICES ASSUME NEW m \in lookups PROVE Numbered(m)'
    OBVIOUS
  <2>1. Numbered(m) /\ m.seq # None
    BY DeskAssumption DEF DeskInv, LookupInv, Numbered
  <2> QED
    BY <2>1 DEF Numbered
<1>3. desk'.status = "searching" /\ ~abandoned' => \E m \in lookups' : Answers(m)'
  BY DEF DeskInv, LookupInv, Answers, Desk!ActiveLookup
<1>4. LookupInv'
  BY <1>2, <1>3 DEF DeskInv, LookupInv, Desk!CandidatesOfDesign
<1> QED
  BY <1>1, <1>4 DEF DeskInv

LEMMA PageLookupsSound ==
    ASSUME DeskInv, Desk!LookupEffect \/ Desk!RetryLookup \/ Desk!Unmount \/ Desk!Mount \/ Desk!DropMirror
    PROVE  DeskInv'
<1>0. DOMAIN page = {"mounted", "looked", "seq", "active", "candidates"}
  BY DEF DeskInv, LookupInv
<1>1. CASE Desk!StageDesign
  BY <1>1, StageSound
<1>2. CASE Desk!EmptyDesign
  BY <1>0, <1>2, LeftSound DEF Desk!EmptyDesign, Desk!session
<1>3. CASE Desk!Unmount
  BY <1>0, <1>3, LeftSound DEF Desk!Unmount, Desk!session
<1>4. CASE Desk!Mount \/ Desk!DropMirror
  <2>1. /\ UNCHANGED <<room, lease, hydrated, desk, stored, lookups, abandoned>>
        /\ page' = [page EXCEPT !.mounted = TRUE] \/ page' = [page EXCEPT !.candidates = None]
    BY <1>4 DEF Desk!Mount, Desk!DropMirror, Desk!session
  <2>2. /\ DOMAIN page' = DOMAIN page /\ page'.seq = page.seq /\ page'.active = page.active /\ page'.looked = page.looked
        /\ page'.candidates = page.candidates \/ page'.candidates = None
    BY <1>0, <2>1
  <2>3. CartInv'
    BY <2>1 DEF DeskInv, CartInv, DeskSound, StoredSound, SavedSound
  <2>4. LookupInv'
    BY <2>1, <2>2 DEF DeskInv, LookupInv, Numbered, Answers, Desk!CandidatesOfDesign
  <2> QED
    BY <2>3, <2>4 DEF DeskInv
<1> QED
  BY <1>1, <1>2, <1>3, <1>4 DEF Desk!LookupEffect, Desk!RetryLookup

\* the active lookup settles, and what it found is of the design looked up last
LEMMA SettlesSound ==
    ASSUME DeskInv, NEW l \in lookups, NEW outcome, Desk!LookupSettles(l, outcome) \/ Desk!LookupThrows(l)
    PROVE  DeskInv'
<1>0. /\ DOMAIN page = {"mounted", "looked", "seq", "active", "candidates"}
      /\ l.by = "page" /\ lookups' = lookups \ {l} /\ UNCHANGED <<room, lease, hydrated>>
      /\ Desk!StillActive(l) => l.for = page.looked
  BY DEF DeskInv, LookupInv, Numbered, Desk!LookupSettles, Desk!LookupThrows, Desk!StillActive, Desk!session
<1>1. CASE Desk!LookupSettles(l, outcome) /\ ~Desk!StillActive(l)
  <2>1. UNCHANGED <<desk, stored, page, abandoned>>
    BY <1>1 DEF Desk!LookupSettles
  <2>2. ~Answers(l)
    BY <1>0, <1>1 DEF Answers, Desk!StillActive
  <2>3. CartInv'
    BY <1>0, <2>1 DEF DeskInv, CartInv, DeskSound, StoredSound, SavedSound
  <2> QED
    BY <1>0, <2>1, <2>2, <2>3, LookupGone DEF DeskInv
<1>2. CASE Desk!LookupSettles(l, outcome) /\ Desk!StillActive(l)
  <2>1. /\ desk' = [desk EXCEPT !.discovery = l.for, !.status = desk'.status] /\ Desk!Persist(desk')
        /\ desk'.status \in {"staged", "rate-limited", "failed"}
        /\ page' = [page EXCEPT !.active = None, !.candidates = IF outcome = "found" THEN l.for ELSE None]
    BY <1>2 DEF Desk!LookupSettles, DeskInv, CartInv, DeskSound, DeskFields
  <2>2. /\ DOMAIN desk' = DeskFields /\ desk'.of = desk.of /\ desk'.results = desk.results /\ desk'.cart = desk.cart
        /\ desk'.undo = desk.undo /\ desk'.loose = desk.loose /\ desk'.status # "searching"
    BY <2>1 DEF DeskInv, CartInv, DeskSound, DeskFields
  <2>3. /\ DOMAIN page' = DOMAIN page /\ page'.seq = page.seq /\ page'.active = None /\ page'.looked = page.looked
        /\ page'.candidates \in {None, page.looked, page.candidates}
    BY <1>0, <1>2, <2>1
  <2> QED
    BY <1>0, <2>1, <2>2, <2>3, SameCartIsSound, LookupGone DEF DeskInv
<1>3. CASE Desk!LookupThrows(l)
  <2>1. desk' = [desk EXCEPT !.status = "failed"] /\ page' = [page EXCEPT !.active = None] /\ UNCHANGED stored
    BY <1>3 DEF Desk!LookupThrows
  <2>2. /\ DOMAIN desk' = DeskFields /\ desk'.of = desk.of /\ desk'.results = desk.results /\ desk'.cart = desk.cart
        /\ desk'.undo = desk.undo /\ desk'.loose = desk.loose /\ desk'.status # "searching"
    BY <2>1 DEF DeskInv, CartInv, DeskSound, DeskFields
  <2>3. /\ DOMAIN page' = DOMAIN page /\ page'.seq = page.seq /\ page'.active = None /\ page'.looked = page.looked
        /\ page'.candidates \in {None, page.looked, page.candidates}
    BY <1>0, <2>1
  <2> QED
    BY <1>0, <2>1, <2>2, <2>3, SameCartIsSound, LookupGone DEF DeskInv
<1> QED
  BY <1>1, <1>2, <1>3

(* The project, another tab and the account.                               *)
LEMMA OtherTabSound == ASSUME DeskInv, NEW r \in Accounts, Desk!OtherTabSaves(r) PROVE DeskInv'
<1>0. PICK results \in SUBSET Desk!Ids, id \in Desk!Ids : \E s :
        /\ s = [results |-> results, cart |-> Desk!Listed(results, [n \in Desk!Slots |-> IF n = 1 THEN Desk!Line(id, 1) ELSE None]),
                of |-> r, loose |-> {}]
        /\ stored' = [stored EXCEPT ![r] = s]
        /\ desk' = IF Desk!HearsOf(r) THEN Desk!FromStorage(s) ELSE desk
        /\ abandoned' = (abandoned /\ ~Desk!HearsOf(r))
        /\ UNCHANGED <<room, lease, hydrated, page, lookups>>
  BY Zenon DEF Desk!OtherTabSaves, Desk!session
<1>1. PICK s :
        /\ s = [results |-> results, cart |-> Desk!Listed(results, [n \in Desk!Slots |-> IF n = 1 THEN Desk!Line(id, 1) ELSE None]),
                of |-> r, loose |-> {}]
        /\ stored' = [stored EXCEPT ![r] = s]
        /\ desk' = IF Desk!HearsOf(r) THEN Desk!FromStorage(s) ELSE desk
        /\ abandoned' = (abandoned /\ ~Desk!HearsOf(r))
        /\ UNCHANGED <<room, lease, hydrated, page, lookups>>
  BY <1>0, Zenon
<1>2. SavedSound(s, r)
  <2> DEFINE cart == [n \in Desk!Slots |-> IF n = 1 THEN Desk!Line(id, 1) ELSE None]
  <2>1. Desk!Line(id, 1) \in Lines
    BY DeskAssumption DEF Lines, Desk!Line
  <2>2. cart \in Carts /\ \A m \in Desk!Slots : cart[m] # None => m = 1
    BY <2>1 DEF Carts
  <2> HIDE DEF cart
  <2>3. Desk!OneLineEach(cart)
    BY <2>2, LineByLine
  <2>4. /\ DOMAIN s = {"results", "cart", "of", "loose"} /\ s.of = r /\ s.results = results /\ s.loose = {}
        /\ s.cart = Desk!Listed(results, cart)
    BY <1>1 DEF cart
  <2>5. Desk!Listed(results, cart) \in Carts /\ IsListed(results, Desk!Listed(results, cart)) /\ Desk!OneLineEach(Desk!Listed(results, cart))
    BY <2>2, <2>3, ListedIsListed
  <2> QED
    BY <2>4, <2>5 DEF SavedSound, Distinct
<1>3. StoredSound(stored')
  BY <1>1, <1>2 DEF DeskInv, CartInv, StoredSound
<1>4. CASE r = room
  <2>1. desk' = Desk!FromStorage(s)
    BY <1>1, <1>4 DEF Desk!HearsOf
  <2>2. DeskSound(desk', room) /\ desk'.status # "searching"
    BY <1>2, <1>4, <2>1, ReadIsSound
  <2> QED
    BY <1>1, <1>3, <2>2, SameLookups DEF DeskInv, CartInv
<1>5. CASE r # room
  <2>1. desk' = desk /\ (abandoned => abandoned')
    BY <1>1, <1>5 DEF Desk!HearsOf
  <2> QED
    BY <1>1, <1>3, <2>1, SameLookups DEF DeskInv, CartInv
<1> QED
  BY <1>4, <1>5

LEMMA RoomSound ==
    ASSUME DeskInv, Desk!EditDesign \/ Desk!SwitchRoom \/ Desk!RoomHydrated
    PROVE  DeskInv'
<1>1. CASE Desk!EditDesign
  <2>1. UNCHANGED <<room, lease, hydrated, desk, stored, page, lookups, abandoned>>
    BY <1>1 DEF Desk!EditDesign, Desk!session
  <2>2. CartInv'
    BY <2>1 DEF DeskInv, CartInv, DeskSound, StoredSound, SavedSound
  <2> QED
    BY <2>1, <2>2, SameLookups DEF DeskInv
<1>2. CASE Desk!SwitchRoom
  <2>1. /\ lease' = lease + 1 /\ room' \in Accounts /\ desk' = Desk!FromStorage(stored[room'])
        /\ hydrated' = FALSE /\ UNCHANGED <<stored, page, lookups>>
    BY <1>2 DEF Desk!SwitchRoom
  <2>2. SavedSound(stored[room'], room')
    BY <2>1 DEF DeskInv, CartInv, StoredSound
  <2>3. DeskSound(desk', room') /\ desk'.status # "searching"
    BY <2>1, <2>2, ReadIsSound
  <2>4. \A l \in lookups : Numbered(l)'
    BY <2>1 DEF DeskInv, LookupInv, Numbered
  <2>5. lease \in Nat /\ lease' \in Nat
    BY <2>1 DEF DeskInv, LookupInv
  <2>6. LookupInv'
    BY <2>1, <2>3, <2>4, <2>5 DEF DeskInv, LookupInv, Desk!CandidatesOfDesign
  <2> QED
    BY <2>1, <2>3, <2>6 DEF DeskInv, CartInv, StoredSound, SavedSound
<1>3. CASE Desk!RoomHydrated
  <2>1. hydrated' = TRUE /\ UNCHANGED <<room, lease, desk, stored, page, lookups, abandoned>>
    BY <1>3 DEF Desk!RoomHydrated
  <2>2. CartInv'
    BY <2>1 DEF DeskInv, CartInv, DeskSound, StoredSound, SavedSound
  <2>3. LookupInv'
    BY <2>1 DEF DeskInv, LookupInv, Numbered, Answers, Desk!CandidatesOfDesign
  <2> QED
    BY <2>2, <2>3 DEF DeskInv
<1> QED
  BY <1>1, <1>2, <1>3

LEMMA DeskStarts == ASSUME Desk!DeskInit PROVE DeskInv
<1>1. room \in Accounts
  BY DeskAssumption DEF Desk!DeskInit
<1>2. Desk!NoLines \in Carts /\ \A m \in Desk!Slots : Desk!NoLines[m] = None
  BY DEF Desk!NoLines, Carts
<1>3. ASSUME NEW r PROVE SavedSound(Desk!Empty(r), r)
  <2>1. Desk!OneLineEach(Desk!NoLines) /\ IsListed({}, Desk!NoLines)
    BY <1>2, LineByLine
  <2> QED
    BY <1>2, <2>1 DEF SavedSound, Desk!Empty, Distinct
<1>4. DeskSound(desk, room) /\ desk.status # "searching"
  BY <1>3, ReadIsSound DEF Desk!DeskInit
<1>5. StoredSound(stored)
  BY <1>3 DEF Desk!DeskInit, StoredSound
<1>6. LookupInv
  BY <1>4 DEF Desk!DeskInit, LookupInv, Desk!CandidatesOfDesign
<1> QED
  BY <1>1, <1>4, <1>5, <1>6 DEF DeskInv, CartInv

LEMMA DeskSteps == ASSUME DeskInv, Desk!DeskNext PROVE DeskInv'
BY CartToolSound, PublishSound, SearchSound, AnswersSound, PageLookupsSound, SettlesSound, OtherTabSound, RoomSound DEF Desk!DeskNext

\* The Parts desk (useShoppingStore.ts, ShoppingWorkspace.tsx and the shopping
\* tools), for any number of rooms, listings, lines, lookups and undo steps.
THEOREM DeskKeeps == PageSpec => [](part = "desk" => DeskInv)
<1>1. PageInit => (part = "desk" => DeskInv)
  BY DeskStarts DEF PageInit, PageStarts
<1>2. (part = "desk" => DeskInv) /\ [PageNext]_pageVars => (part = "desk" => DeskInv)'
  <2> SUFFICES ASSUME part = "desk" => DeskInv, [PageNext]_pageVars, part' = "desk" PROVE DeskInv'
    OBVIOUS
  <2>1. CASE UNCHANGED pageVars
    <3>1. part = "desk" /\ UNCHANGED <<room, lease, hydrated, deskOnly>>
      BY <2>1 DEF pageVars, pageShared
    <3>2. CartInv'
      BY <3>1 DEF deskOnly, DeskInv, CartInv, DeskSound, StoredSound, SavedSound
    <3> QED
      BY <3>1, <3>2, SameLookups DEF deskOnly, DeskInv
  <2>2. CASE PageNext
    <3>1. part = "desk" /\ Desk!DeskNext
      BY <2>2 DEF PageNext, PageStays
    <3> QED
      BY <3>1, DeskSteps
  <2> QED
    BY <2>1, <2>2
<1> QED
  BY <1>1, <1>2, PTL DEF PageSpec

\* Listings and cart are of their room, lines are listed and distinct, candidates
\* are of the design looked up, and "searching" is said while a lookup runs.
THEOREM DeskProved == PageSpec => []DeskIsSound
<1>1. (part = "desk" => DeskInv) => DeskIsSound
  BY DeskKept DEF DeskIsSound
<1> QED
  BY <1>1, DeskKeeps, PTL

(***************************************************************************)
(* Sign-ins.  Of a token that the edge has signed, the sign-in is at most  *)
(* a token's life ago when it ends, a ticket's life more for a ticket; the *)
(* cached keys of the provider end with the cache after they are withdrawn; *)
(* and a ticket of the backend that is unused has opened nothing.          *)
(***************************************************************************)
KeyHolds(k) == k \in 0..MaxRotations /\ (retired[k] # None => clock < retired[k] + CacheTtl)
RotationInv ==
    /\ config \in Configs /\ clock \in Nat /\ key \in 0..MaxRotations
    /\ retired \in [0..MaxRotations -> Nat \cup {None}] /\ \A k \in key..MaxRotations : retired[k] = None
KeysInv ==
    cached # None =>
        /\ cached.expires \in Nat /\ cached.expires <= clock + CacheTtl /\ cached.keys \subseteq 0..key
        /\ \A k \in cached.keys : retired[k] # None => cached.expires <= retired[k] + CacheTtl
Sealed(t) ==
    /\ t.exp \in Nat /\ t.since \in Nat
    /\ SignIns!Edge => t.exp <= t.since + Ttl + TicketTtl /\ (t.aud = "api" => t.exp <= t.since + Ttl)
TicketsInv ==
    /\ opened \in Seq({0, 1})
    /\ \A x \in tickets : x.id \in 1..Len(opened) /\ opened[x.id] = 0
LastInv ==
    /\ last.op = "session" /\ last.subject # None => SignIns!Verified(last.token, "api")
    /\ last.key # None => KeyHolds(last.key)
SignInv == RotationInv /\ KeysInv /\ (\A t \in issued : Sealed(t)) /\ TicketsInv /\ LastInv

LEMMA SignInsHold == SignInv => SignIns!SignInsAreBounded
BY DEF SignInv, TicketsInv, LastInv, KeyHolds, Sealed, SignIns!SignInsAreBounded

\* a key that the edge accepts has not been withdrawn for longer than the cache keeps it
LEMMA AcceptedKeyHolds == ASSUME RotationInv, KeysInv, NEW k \in SignIns!Keys PROVE KeyHolds(k)
<1>1. CASE SignIns!Fresh(cached)
  <2>1. /\ cached # None /\ cached.expires > clock /\ cached.expires \in Nat /\ cached.keys \subseteq 0..key /\ k \in cached.keys
        /\ retired[k] # None => cached.expires <= retired[k] + CacheTtl
    BY <1>1 DEF KeysInv, SignIns!Fresh, SignIns!Keys
  <2>2. k \in 0..MaxRotations /\ retired[k] \in Nat \cup {None} /\ clock \in Nat
    BY <2>1, SignInAssumption DEF RotationInv
  <2> QED
    BY <2>1, <2>2, SignInAssumption DEF KeyHolds
<1>2. CASE ~SignIns!Fresh(cached)
  BY <1>2, SignInAssumption DEF SignIns!Keys, KeyHolds, RotationInv
<1> QED
  BY <1>1, <1>2

LEMMA FetchedHolds ==
    ASSUME RotationInv, KeysInv, SignIns!Fetched \/ UNCHANGED cached, UNCHANGED <<clock, key, retired>>
    PROVE  KeysInv'
<1>1. CASE cached' = cached
  BY <1>1 DEF KeysInv
<1>2. CASE cached' = [keys |-> {key}, expires |-> clock + CacheTtl]
  BY <1>2, SignInAssumption DEF KeysInv, RotationInv
<1> QED
  BY <1>1, <1>2 DEF SignIns!Fetched

\* who is not a stranger has a sign-in: that of a token that is good, or one of now
LEMMA ResolvedHolds ==
    ASSUME SignInv, NEW t \in issued \cup {None}, NEW s, NEW k \in 0..key, NEW who, who = SignIns!Resolved(t, s, k), who # SignIns!Stranger
    PROVE  /\ who.since \in Nat /\ (who.key # None => KeyHolds(who.key))
           /\ t # None => SignIns!Verified(t, "api") /\ who.since = t.since
           /\ t = None => who.since = clock
<1>1. CASE t # None
  <2>1. t \in issued /\ Sealed(t) /\ SignIns!Verified(t, "api") /\ who = SignIns!Person(t.subject, t.since, None)
    BY <1>1 DEF SignInv, SignIns!Resolved, SignIns!Bearer
  <2> QED
    BY <1>1, <2>1 DEF Sealed, SignIns!Person
<1>2. CASE t = None /\ SignIns!Platform(s, k) # SignIns!Stranger
  <2>1. who = SignIns!Platform(s, k)
    BY <1>2, Zenon DEF SignIns!Resolved
  <2>2. s # None /\ config.mode \in {"chatgpt-sites", "cloudflare-access"}
    BY <1>2, SignInAssumption, Zenon DEF SignInv, RotationInv, SignIns!Platform
  <2>3. CASE config.mode = "chatgpt-sites"
    BY <1>2, <2>1, <2>2, <2>3 DEF SignInv, RotationInv, SignIns!Platform, SignIns!Person
  <2>4. CASE config.mode = "cloudflare-access"
    <3>1. who = SignIns!Person(s, clock, k) /\ k \in SignIns!Keys
      BY <1>2, <2>1, <2>2, <2>4 DEF SignIns!Platform
    <3> QED
      BY <1>2, <3>1, AcceptedKeyHolds DEF SignInv, RotationInv, SignIns!Person
  <2> QED
    BY <2>2, <2>3, <2>4
<1>3. CASE t = None /\ SignIns!Platform(s, k) = SignIns!Stranger
  <2>1. who = SignIns!Person("local", clock, None)
    BY <1>3, Zenon DEF SignIns!Resolved
  <2> QED
    BY <1>3, <2>1 DEF SignInv, RotationInv, SignIns!Person
<1> QED
  BY <1>1, <1>2, <1>3

\* a step that neither passes time nor changes secrets
LEMMA SameTime ==
    ASSUME SignInv, UNCHANGED <<config, clock, secret, key, retired>>
    PROVE  /\ RotationInv' /\ (\A t : Sealed(t)' <=> Sealed(t)) /\ (\A k : KeyHolds(k)' <=> KeyHolds(k))
           /\ \A t, aud : SignIns!Verified(t, aud)' <=> SignIns!Verified(t, aud)
BY DEF SignInv, RotationInv, Sealed, KeyHolds, SignIns!Verified, SignIns!MaySign, SignIns!Edge

\* what a fresh token of the API is good for, and how a ticket is bounded
LEMMA TokenHolds ==
    ASSUME SignInv, NEW who, who.since \in Nat, NEW aud, NEW ttl \in Nat, NEW t, t = SignIns!Token(aud, who, ttl)
    PROVE  /\ SignIns!MaySign /\ ttl > 0 => SignIns!Verified(t, aud)
           /\ SignIns!Edge /\ clock + ttl <= who.since + Ttl + TicketTtl /\ (aud = "api" => clock + ttl <= who.since + Ttl) => Sealed(t)
           /\ ~SignIns!Edge => Sealed(t)
<1>1. clock \in Nat
  BY DEF SignInv, RotationInv
<1>2. t.aud = aud /\ t.exp = clock + ttl /\ t.since = who.since /\ t.secret = secret
  BY DEF SignIns!Token
<1> QED
  BY <1>1, <1>2, SignInAssumption DEF SignIns!Verified, Sealed

LEMMA AsksFetches == ASSUME NEW s, SignIns!Asks(s) PROVE SignIns!Fetched \/ UNCHANGED cached
BY DEF SignIns!Asks

\* an answer to nobody, or to somebody whose key holds
LEMMA AnswerHolds ==
    ASSUME SignInv, UNCHANGED <<config, clock, secret, key, retired>>,
           \/ \E op : last' = SignIns!Refused(op)
           \/ last' = SignIns!Nobody
           \/ \E op, who, token : /\ last' = SignIns!Says(op, who, token) /\ (who.key # None => KeyHolds(who.key))
                                  /\ op = "session" => SignIns!Verified(token, "api")
    PROVE  LastInv'
<1>1. CASE (\E op : last' = SignIns!Refused(op)) \/ last' = SignIns!Nobody
  <2>1. last'.subject = None /\ last'.key = None
    BY <1>1 DEF SignIns!Refused, SignIns!Nobody
  <2> QED
    BY <2>1 DEF LastInv
<1>2. ASSUME NEW op, NEW who, NEW token, last' = SignIns!Says(op, who, token), who.key # None => KeyHolds(who.key),
             op = "session" => SignIns!Verified(token, "api")
      PROVE  LastInv'
  <2>1. last'.op = op /\ last'.token = token /\ last'.key = who.key
    BY <1>2 DEF SignIns!Says
  <2> QED
    BY <1>2, <2>1, SameTime DEF LastInv
<1> QED
  BY <1>1, <1>2

\* GET session
LEMMA GetSessionHolds ==
    ASSUME SignInv, NEW t \in issued \cup {None}, NEW s, NEW k \in 0..key, SignIns!GetSession(t, s, k)
    PROVE  SignInv'
<1>1. PICK who : who = SignIns!Resolved(t, s, k)
  OBVIOUS
<1>2. PICK token : token = SignIns!Renewed(t, who)
  OBVIOUS
<1>3. UNCHANGED <<config, clock, secret, key, retired, tickets, opened>> /\ (SignIns!Fetched \/ UNCHANGED cached)
  BY AsksFetches DEF SignIns!GetSession
<1>4. \/ last' = SignIns!Refused("session") /\ issued' = issued
      \/ who # SignIns!Stranger /\ SignIns!MaySign /\ last' = SignIns!Says("session", who, token) /\ issued' = issued \cup {token}
  BY <1>1, <1>2, Zenon DEF SignIns!GetSession
<1>5. ASSUME who # SignIns!Stranger, SignIns!MaySign
      PROVE  Sealed(token) /\ SignIns!Verified(token, "api") /\ (who.key # None => KeyHolds(who.key))
  <2>1. /\ who.since \in Nat /\ (who.key # None => KeyHolds(who.key))
        /\ t # None => SignIns!Verified(t, "api") /\ who.since = t.since
        /\ t = None => who.since = clock
    BY <1>1, <1>5, ResolvedHolds
  <2>2. CASE SignIns!Edge /\ t # None
    <3>1. token = t
      BY <1>2, <2>2 DEF SignIns!Renewed
    <3> QED
      BY <2>1, <2>2, <3>1 DEF SignInv
  <2>3. CASE ~(SignIns!Edge /\ t # None)
    <3>1. token = SignIns!Token("api", who, Ttl)
      BY <1>2, <2>3 DEF SignIns!Renewed
    <3>2. clock \in Nat /\ Ttl \in Nat /\ Ttl > 0 /\ TicketTtl \in Nat
      BY SignInAssumption DEF SignInv, RotationInv
    <3>3. SignIns!Edge => clock + Ttl <= who.since + Ttl /\ clock + Ttl <= who.since + Ttl + TicketTtl
      BY <2>1, <2>3, <3>2
    <3> QED
      BY <1>5, <2>1, <3>1, <3>2, <3>3, TokenHolds
  <2> QED
    BY <2>2, <2>3
<1>6. \A x \in issued' : Sealed(x)
  BY <1>4, <1>5 DEF SignInv
<1>7. LastInv'
  BY <1>3, <1>4, <1>5, AnswerHolds
<1>8. KeysInv' /\ TicketsInv'
  BY <1>3, FetchedHolds DEF SignInv, TicketsInv
<1> QED
  BY <1>3, <1>6, <1>7, <1>8, SameTime DEF SignInv

\* POST session and POST chatgpt
LEMMA SignsInHolds ==
    ASSUME SignInv, NEW s, NEW k \in 0..key, NEW firebase \in BOOLEAN, SignIns!SignsIn(s, k, firebase)
    PROVE  SignInv'
<1>1. PICK who : who = SignIns!Person(s, clock, IF firebase THEN None ELSE k)
  OBVIOUS
<1>2. PICK token : token = SignIns!Token("api", who, Ttl)
  OBVIOUS
<1>3. /\ UNCHANGED <<config, clock, secret, key, retired, tickets, opened>> /\ (SignIns!Fetched \/ UNCHANGED cached)
      /\ \/ last' = SignIns!Refused("session") /\ issued' = issued
         \/ (firebase \/ k \in SignIns!Keys) /\ SignIns!MaySign /\ last' = SignIns!Says("session", who, token) /\ issued' = issued \cup {token}
  BY <1>1, <1>2, Zenon DEF SignIns!SignsIn
<1>4. who.since = clock /\ who.key = (IF firebase THEN None ELSE k) /\ clock \in Nat /\ RotationInv /\ KeysInv
  BY <1>1 DEF SignIns!Person, SignInv, RotationInv
<1>5. ASSUME firebase \/ k \in SignIns!Keys, SignIns!MaySign
      PROVE  Sealed(token) /\ SignIns!Verified(token, "api") /\ (who.key # None => KeyHolds(who.key))
  <2>1. who.key # None => KeyHolds(who.key)
    BY <1>4, <1>5, AcceptedKeyHolds
  <2>2. clock + Ttl <= who.since + Ttl /\ clock + Ttl <= who.since + Ttl + TicketTtl /\ Ttl \in Nat /\ Ttl > 0
    BY <1>4, SignInAssumption
  <2> QED
    BY <1>2, <1>4, <1>5, <2>1, <2>2, TokenHolds
<1>6. \A x \in issued' : Sealed(x)
  BY <1>3, <1>5 DEF SignInv
<1>7. LastInv'
  BY <1>3, <1>5, AnswerHolds
<1>8. KeysInv' /\ TicketsInv'
  BY <1>3, FetchedHolds DEF SignInv, TicketsInv
<1> QED
  BY <1>3, <1>6, <1>7, <1>8, SameTime DEF SignInv

\* POST ws-ticket
LEMMA IssueTicketHolds ==
    ASSUME SignInv, NEW t \in issued \cup {None}, NEW s, NEW k \in 0..key, SignIns!IssueTicket(t, s, k)
    PROVE  SignInv'
<1>1. PICK who : who = SignIns!Resolved(t, s, k)
  OBVIOUS
<1>2. PICK token : token = SignIns!Token("ws", who, TicketTtl)
  OBVIOUS
<1>3. PICK ticket : ticket = [id |-> Len(opened) + 1, subject |-> who.subject, exp |-> clock + TicketTtl]
  OBVIOUS
<1>4. UNCHANGED <<config, clock, secret, key, retired>> /\ (SignIns!Fetched \/ UNCHANGED cached)
  BY AsksFetches DEF SignIns!IssueTicket
<1>5. \/ last' = SignIns!Refused("ticket") /\ issued' = issued /\ opened' = opened /\ tickets' \subseteq tickets
      \/ /\ who # SignIns!Stranger /\ last' = SignIns!Says("ticket", who, None)
         /\ \/ SignIns!Edge /\ issued' = issued \cup {token} /\ tickets' = tickets /\ opened' = opened
            \/ issued' = issued /\ tickets' \subseteq tickets \cup {ticket} /\ opened' = Append(opened, 0)
  BY <1>1, <1>2, <1>3 DEF SignIns!IssueTicket, SignIns!Purged
<1>6. ASSUME who # SignIns!Stranger
      PROVE  (who.key # None => KeyHolds(who.key)) /\ (SignIns!Edge => Sealed(token))
  <2>1. /\ who.since \in Nat /\ (who.key # None => KeyHolds(who.key))
        /\ t # None => SignIns!Verified(t, "api") /\ who.since = t.since
        /\ t = None => who.since = clock
    BY <1>1, <1>6, ResolvedHolds
  <2>2. clock \in Nat /\ Ttl \in Nat /\ TicketTtl \in Nat
    BY SignInAssumption DEF SignInv, RotationInv
  <2>3. ASSUME t # None, SignIns!Edge PROVE clock < who.since + Ttl
    <3>1. t.exp \in Nat /\ t.exp <= t.since + Ttl /\ t.exp > clock
      BY <2>1, <2>3 DEF SignInv, Sealed, SignIns!Verified
    <3> QED
      BY <2>1, <2>2, <2>3, <3>1
  <2>4. SignIns!Edge => clock + TicketTtl <= who.since + Ttl + TicketTtl
    BY <2>1, <2>2, <2>3
  <2> QED
    BY <1>2, <2>1, <2>2, <2>4, TokenHolds
<1>7. \A x \in issued' : Sealed(x)
  BY <1>5, <1>6 DEF SignInv
<1>8. LastInv'
  BY <1>4, <1>5, <1>6, AnswerHolds
<1>9. TicketsInv'
  <2>1. CASE opened' = opened /\ tickets' \subseteq tickets
    BY <2>1 DEF SignInv, TicketsInv
  <2>2. CASE opened' = Append(opened, 0) /\ tickets' \subseteq tickets \cup {ticket}
    <3>1. opened \in Seq({0, 1}) /\ ticket.id = Len(opened) + 1
      BY <1>3 DEF SignInv, TicketsInv
    <3>2. /\ opened' \in Seq({0, 1}) /\ Len(opened') = Len(opened) + 1 /\ opened'[Len(opened) + 1] = 0
          /\ \A i \in 1..Len(opened) : opened'[i] = opened[i]
      BY <2>2, <3>1
    <3> QED
      BY <2>2, <3>1, <3>2 DEF SignInv, TicketsInv
  <2> QED
    BY <1>5, <2>1, <2>2
<1>10. KeysInv'
  BY <1>4, FetchedHolds DEF SignInv
<1> QED
  BY <1>4, <1>7, <1>8, <1>9, <1>10, SameTime DEF SignInv

\* a request of the API
LEMMA CallApiHolds ==
    ASSUME SignInv, NEW t \in issued \cup {None}, NEW s, NEW k \in 0..key, SignIns!CallApi(t, s, k)
    PROVE  SignInv'
<1>1. PICK who : who = SignIns!Resolved(t, s, k)
  OBVIOUS
<1>2. /\ UNCHANGED <<config, clock, secret, key, retired, issued, tickets, opened>>
      /\ SignIns!Fetched \/ UNCHANGED cached
      /\ last' = SignIns!Refused("api") \/ (who # SignIns!Stranger /\ last' = SignIns!Says("api", who, None))
  BY <1>1, AsksFetches, Zenon DEF SignIns!CallApi
<1>3. who # SignIns!Stranger => (who.key # None => KeyHolds(who.key))
  BY <1>1, ResolvedHolds
<1>4. LastInv'
  BY <1>2, <1>3, AnswerHolds
<1> QED
  BY <1>2, <1>4, SameTime, FetchedHolds DEF SignInv, TicketsInv

\* a socket with a token of either audience
LEMMA OpenWithTokenHolds == ASSUME SignInv, NEW t \in issued, SignIns!OpenWithToken(t) PROVE SignInv'
<1>1. /\ UNCHANGED <<config, clock, secret, key, retired, cached, issued, tickets, opened>>
      /\ last' = SignIns!Refused("socket") \/ last' = SignIns!Says("socket", SignIns!Person(t.subject, t.since, None), None)
  BY Zenon DEF SignIns!OpenWithToken
<1>2. SignIns!Person(t.subject, t.since, None).key = None
  BY DEF SignIns!Person
<1>3. LastInv'
  BY <1>1, <1>2, AnswerHolds
<1> QED
  BY <1>1, <1>3, SameTime DEF SignInv, KeysInv, TicketsInv

\* a socket with a ticket of the backend: it is forgotten, and opens one
LEMMA OpenWithTicketHolds ==
    ASSUME SignInv, NEW id \in 1..Len(opened), SignIns!OpenWithTicket(id) PROVE SignInv'
<1>1. /\ UNCHANGED <<config, clock, secret, key, retired, cached, issued>>
      /\ tickets' = {x \in tickets : x.exp > clock} \ {x \in tickets : x.id = id}
      /\ \/ /\ \E x \in tickets : x.id = id
            /\ opened' = [opened EXCEPT ![id] = @ + 1]
            /\ last'.op = "socket" /\ last'.key = None
         \/ opened' = opened /\ last' = SignIns!Refused("socket")
  BY DEF SignIns!OpenWithTicket, SignIns!Consumed, SignIns!Purged, SignIns!Presented, SignIns!Nobody
<1>2. LastInv'
  BY <1>1 DEF LastInv, SignIns!Refused, SignIns!Nobody
<1>3. TicketsInv'
  <2>1. \A x \in tickets' : x \in tickets /\ x.id # id
    BY <1>1
  <2>2. CASE opened' = opened
    BY <2>1, <2>2 DEF SignInv, TicketsInv
  <2>3. CASE (\E x \in tickets : x.id = id) /\ opened' = [opened EXCEPT ![id] = @ + 1]
    <3>1. opened \in Seq({0, 1}) /\ opened[id] = 0
      BY <2>3 DEF SignInv, TicketsInv
    <3>2. opened' = [opened EXCEPT ![id] = 1]
      BY <2>3, <3>1
    <3>3. opened' \in Seq({0, 1}) /\ Len(opened') = Len(opened) /\ \A i \in 1..Len(opened) : i # id => opened'[i] = opened[i]
      BY <3>1, <3>2
    <3> QED
      BY <2>1, <3>3 DEF SignInv, TicketsInv
  <2> QED
    BY <1>1, <2>2, <2>3
<1> QED
  BY <1>1, <1>2, <1>3, SameTime DEF SignInv, KeysInv

\* time passes, keys rotate, secrets change
LEMMA SurroundingsHold ==
    ASSUME SignInv, SignIns!Tick \/ SignIns!ProviderRotates \/ SignIns!Redeployed PROVE SignInv'
<1>1. LastInv'
  BY DEF SignIns!Tick, SignIns!ProviderRotates, SignIns!Redeployed, SignIns!Nobody, LastInv
<1>2. issued' = issued /\ opened' = opened /\ config' = config /\ tickets' \subseteq tickets
  BY DEF SignIns!Tick, SignIns!ProviderRotates, SignIns!Redeployed
<1>3. (\A t \in issued' : Sealed(t)') /\ TicketsInv'
  BY <1>2 DEF SignInv, Sealed, TicketsInv, SignIns!Edge
<1>4. CASE SignIns!Tick
  <2>1. RotationInv' /\ KeysInv'
    BY <1>4, SignInAssumption DEF SignInv, SignIns!Tick, RotationInv, KeysInv
  <2> QED
    BY <1>1, <1>3, <2>1 DEF SignInv
<1>5. CASE SignIns!ProviderRotates
  <2>1. key \in Nat /\ key < MaxRotations /\ key' = key + 1 /\ retired' = [retired EXCEPT ![key] = clock] /\ UNCHANGED <<config, clock, cached>>
    BY <1>5, SignInAssumption DEF SignInv, RotationInv, SignIns!ProviderRotates
  <2>2. RotationInv'
    BY <2>1, SignInAssumption DEF SignInv, RotationInv
  <2>3. KeysInv'
    BY <2>1, SignInAssumption DEF SignInv, RotationInv, KeysInv
  <2> QED
    BY <1>1, <1>3, <2>2, <2>3 DEF SignInv
<1>6. CASE SignIns!Redeployed
  BY <1>1, <1>3, <1>6 DEF SignInv, SignIns!Redeployed, RotationInv, KeysInv
<1> QED
  BY <1>4, <1>5, <1>6

LEMMA SignInsBegin == ASSUME SignIns!ServerInit PROVE SignInv
<1>1. RotationInv /\ KeysInv
  BY SignInAssumption DEF SignIns!ServerInit, RotationInv, KeysInv
<1>2. LastInv /\ TicketsInv /\ issued = {}
  BY DEF SignIns!ServerInit, SignIns!Nobody, LastInv, TicketsInv
<1> QED
  BY <1>1, <1>2 DEF SignInv

LEMMA SignInsStep == ASSUME SignInv, SignIns!ServerNext PROVE SignInv'
BY GetSessionHolds, SignsInHolds, IssueTicketHolds, CallApiHolds, OpenWithTokenHolds, OpenWithTicketHolds, SurroundingsHold
   DEF SignIns!ServerNext

LEMMA SignInsStay == ASSUME SignInv, UNCHANGED <<signInsOnly, last>> PROVE SignInv'
<1>1. UNCHANGED <<config, clock, secret, key, retired, cached, issued, tickets, opened, last>>
  BY DEF signInsOnly
<1>2. KeysInv' /\ TicketsInv' /\ LastInv'
  BY <1>1 DEF SignInv, KeysInv, TicketsInv, LastInv, KeyHolds, SignIns!Verified, SignIns!MaySign, SignIns!Edge
<1> QED
  BY <1>1, <1>2, SameTime DEF SignInv

\* Who is told to be signed in can use the API, a ticket opens one socket, no
\* exchange prolongs a sign-in for long, and a withdrawn key is soon refused.
THEOREM SignInsSound == PageSpec => [](part = "sign-ins" => SignInv)
<1>1. PageInit => (part = "sign-ins" => SignInv)
  BY SignInsBegin DEF PageInit, PageStarts
<1>2. (part = "sign-ins" => SignInv) /\ [PageNext]_pageVars => (part = "sign-ins" => SignInv)'
  <2> SUFFICES ASSUME part = "sign-ins" => SignInv, [PageNext]_pageVars, part' = "sign-ins" PROVE SignInv'
    OBVIOUS
  <2>1. CASE UNCHANGED pageVars
    <3>1. part = "sign-ins" /\ UNCHANGED <<signInsOnly, last>>
      BY <2>1 DEF pageVars, pageShared
    <3> QED
      BY <3>1, SignInsStay
  <2>2. CASE PageNext
    <3>1. part = "sign-ins" /\ SignIns!ServerNext
      BY <2>2 DEF PageNext, PageStays
    <3> QED
      BY <3>1, SignInsStep
  <2> QED
    BY <2>1, <2>2
<1> QED
  BY <1>1, <1>2, PTL DEF PageSpec

(***************************************************************************)
(* Simulations.  The backend's order enumerates the sessions that live, so *)
(* that the default which follows a removed one lives as well.             *)
(***************************************************************************)
Enumerates(os, S) ==
    /\ os \in Seq(S) /\ (\A m, n \in 1..Len(os) : os[m] = os[n] => m = n)
    /\ \A i \in S : \E n \in 1..Len(os) : os[n] = i
SessionsTyped == sessions \in [SimulationIds -> SessionValues \cup {None}]
SocketsTyped == socket \in [Accounts -> [id : SimulationIds \cup {None}, pending : InputValues \cup {None}]]
BackendInv ==
    /\ IsFiniteSet(Simulations!Live) /\ Cardinality(Simulations!Live) <= MaxSessions
    /\ Enumerates(order, Simulations!Live)
    /\ IF Simulations!Live = {} THEN default = None ELSE default \in Simulations!Live
SimulationInv ==
    /\ Simulations!AnswersAreOwn /\ SessionsTyped /\ SocketsTyped
    /\ server \in {"backend", "edge"} /\ (server = "backend" => BackendInv)

LEMMA SameCount == ASSUME NEW S PROVE Simulations!Cardinality(S) = Cardinality(S)
BY DEF Simulations!Cardinality, Cardinality

LEMMA AppendEnumerates ==
    ASSUME NEW S, NEW os, Enumerates(os, S), NEW i, i \notin S PROVE Enumerates(Append(os, i), S \cup {i})
<1>1. os \in Seq(S \cup {i}) /\ \A n \in 1..Len(os) : os[n] \in S
  BY DEF Enumerates
<1>2. PICK a : a = Append(os, i)
  OBVIOUS
<1>3. /\ a \in Seq(S \cup {i}) /\ Len(a) = Len(os) + 1 /\ Len(os) \in Nat
      /\ a[Len(os) + 1] = i /\ \A n \in 1..Len(os) : a[n] = os[n]
  BY <1>1, <1>2, AppendProperties
<1>4. ASSUME NEW m \in 1..Len(a), NEW n \in 1..Len(a), a[m] = a[n] PROVE m = n
  <2>1. CASE m = Len(os) + 1 \/ n = Len(os) + 1
    BY <1>1, <1>3, <1>4, <2>1
  <2>2. CASE m \in 1..Len(os) /\ n \in 1..Len(os)
    BY <1>3, <1>4, <2>2 DEF Enumerates
  <2> QED
    BY <1>3, <2>1, <2>2
<1>5. ASSUME NEW j \in S \cup {i} PROVE \E n \in 1..Len(a) : a[n] = j
  <2>1. CASE j = i
    BY <1>3, <2>1
  <2>2. CASE j \in S
    <3>1. PICK n \in 1..Len(os) : os[n] = j
      BY <2>2 DEF Enumerates
    <3> QED
      BY <1>3, <3>1
  <2> QED
    BY <2>1, <2>2
<1> QED
  BY <1>2, <1>3, <1>4, <1>5 DEF Enumerates

LEMMA WithoutEnumerates ==
    ASSUME NEW S, NEW os, Enumerates(os, S), NEW i \in S PROVE Enumerates(Simulations!Without(os, i), S \ {i})
<1>1. os \in Seq(S) /\ Len(os) \in Nat /\ DOMAIN os = 1..Len(os) /\ \A n \in 1..Len(os) : os[n] \in S
  BY DEF Enumerates
<1>2. PICK w : w = Simulations!Without(os, i)
  OBVIOUS
<1>3. PICK k : k = CHOOSE n \in DOMAIN os : os[n] = i
  OBVIOUS
<1>4. k \in 1..Len(os) /\ os[k] = i
  BY <1>1, <1>3 DEF Enumerates
<1>5. PICK l, r : l = SubSeq(os, 1, k - 1) /\ r = SubSeq(os, k + 1, Len(os))
  OBVIOUS
<1>6. w = l \o r
  BY <1>1, <1>2, <1>3, <1>4, <1>5 DEF Simulations!Without, Simulations!RemoveAt
<1>7. \A n \in 1..Len(os) : n # k => os[n] \in S \ {i}
  BY <1>1, <1>4 DEF Enumerates
<1>8. l \in Seq(S \ {i}) /\ Len(l) = k - 1 /\ \A n \in 1..(k - 1) : l[n] = os[n]
  <2>1. \A n \in 1..(k - 1) : os[n] \in S \ {i}
    BY <1>1, <1>4, <1>7
  <2> QED
    BY <1>1, <1>4, <1>5, <2>1, SubSeqProperties
<1>9. r \in Seq(S \ {i}) /\ Len(r) = Len(os) - k /\ \A n \in 1..(Len(os) - k) : r[n] = os[k + n]
  <2>1. \A n \in (k + 1)..Len(os) : os[n] \in S \ {i}
    BY <1>1, <1>4, <1>7
  <2>2. PICK n : n = Len(os)
    OBVIOUS
  <2>3. n \in Nat /\ k \in 1..n
    BY <1>1, <1>4, <2>2, Zenon
  <2>4. /\ r \in Seq(S \ {i}) /\ Len(r) = IF k + 1 <= n THEN n - (k + 1) + 1 ELSE 0
        /\ \A m \in 1..(n - (k + 1) + 1) : r[m] = os[(k + 1) + m - 1]
    BY <1>5, <2>1, <2>2, <2>3, SubSeqProperties
  <2>5. ASSUME NEW m \in 1..(n - k) PROVE r[m] = os[k + m]
    <3>1. m \in 1..(n - (k + 1) + 1) /\ (k + 1) + m - 1 = k + m
      BY <2>3
    <3> QED
      BY <2>4, <3>1
  <2>6. Len(r) = n - k
    <3>1. CASE k + 1 <= n
      BY <2>3, <2>4, <3>1
    <3>2. CASE ~(k + 1 <= n)
      BY <2>3, <2>4, <3>2
    <3> QED
      BY <3>1, <3>2
  <2> QED
    BY <2>2, <2>4, <2>5, <2>6, Zenon
<1>10. /\ w \in Seq(S \ {i}) /\ Len(w) = Len(os) - 1
       /\ \A n \in 1..Len(w) : w[n] = IF n < k THEN os[n] ELSE os[n + 1]
  <2>1. /\ w \in Seq(S \ {i}) /\ Len(w) = Len(l) + Len(r)
        /\ \A n \in 1..(Len(l) + Len(r)) : w[n] = IF n <= Len(l) THEN l[n] ELSE r[n - Len(l)]
    BY <1>6, <1>8, <1>9, ConcatProperties
  <2>2. Len(w) = Len(os) - 1
    BY <1>1, <1>4, <1>8, <1>9, <2>1
  <2>3. ASSUME NEW n \in 1..Len(w) PROVE w[n] = IF n < k THEN os[n] ELSE os[n + 1]
    <3>1. CASE n < k
      BY <1>1, <1>4, <1>8, <1>9, <2>1, <2>2, <2>3, <3>1
    <3>2. CASE ~(n < k)
      <4>1. n - (k - 1) \in 1..(Len(os) - k) /\ k + (n - (k - 1)) = n + 1 /\ ~(n <= Len(l))
        BY <1>1, <1>4, <1>8, <2>2, <2>3, <3>2
      <4> QED
        BY <1>8, <1>9, <2>1, <2>2, <2>3, <3>2, <4>1
    <3> QED
      BY <3>1, <3>2
  <2> QED
    BY <2>1, <2>2, <2>3
<1>11. ASSUME NEW m \in 1..Len(w), NEW n \in 1..Len(w), w[m] = w[n] PROVE m = n
  <2>1. PICK a, b : a = (IF m < k THEN m ELSE m + 1) /\ b = (IF n < k THEN n ELSE n + 1)
    OBVIOUS
  <2>2. a \in 1..Len(os) /\ w[m] = os[a]
    BY <1>1, <1>4, <1>10, <2>1
  <2>3. b \in 1..Len(os) /\ w[n] = os[b]
    BY <1>1, <1>4, <1>10, <2>1
  <2>4. a = b
    BY <1>11, <2>2, <2>3 DEF Enumerates
  <2> QED
    BY <1>4, <2>1, <2>4
<1>12. ASSUME NEW j \in S \ {i} PROVE \E n \in 1..Len(w) : w[n] = j
  <2>1. PICK n \in 1..Len(os) : os[n] = j
    BY <1>12 DEF Enumerates
  <2>2. CASE n < k
    BY <1>1, <1>4, <1>10, <2>1, <2>2
  <2>3. CASE n > k
    <3>1. n - 1 \in 1..Len(w) /\ w[n - 1] = os[n]
      BY <1>1, <1>4, <1>10, <2>3
    <3> QED
      BY <2>1, <3>1
  <2> QED
    BY <1>4, <1>12, <2>1, <2>2, <2>3
<1> QED
  BY <1>2, <1>10, <1>11, <1>12 DEF Enumerates

\* a session is put in its place, or removed
LEMMA PutLives ==
    ASSUME SessionsTyped, NEW i \in SimulationIds, NEW r \in SessionValues, Simulations!Put(i, r)
    PROVE  SessionsTyped' /\ Simulations!Live' = Simulations!Live \cup {i}
<1>1. sessions' = [sessions EXCEPT ![i] = r] /\ r # None
  BY SessionsAssumption DEF Simulations!Put
<1>2. SessionsTyped'
  BY <1>1 DEF SessionsTyped
<1>3. \A j \in SimulationIds : sessions'[j] # None <=> (sessions[j] # None \/ j = i)
  BY <1>1 DEF SessionsTyped
<1> QED
  BY <1>2, <1>3 DEF Simulations!Live

LEMMA KeptHolds ==
    ASSUME BackendInv, SessionsTyped, NEW i \in SimulationIds, NEW r \in SessionValues, Simulations!Put(i, r), Simulations!Kept(i),
           sessions[i] = None => Cardinality(Simulations!Live) < MaxSessions
    PROVE  BackendInv'
<1>1. Simulations!Live' = Simulations!Live \cup {i} /\ (i \in Simulations!Live <=> sessions[i] # None)
  BY PutLives DEF Simulations!Live
<1>2. default' = i
  BY DEF Simulations!Kept
<1>3. IsFiniteSet(Simulations!Live') /\ Cardinality(Simulations!Live') <= MaxSessions
  <2>1. Cardinality(Simulations!Live) \in Nat
    BY FS_CardinalityType DEF BackendInv
  <2>2. /\ IsFiniteSet(Simulations!Live \cup {i})
        /\ Cardinality(Simulations!Live \cup {i}) = IF i \in Simulations!Live THEN Cardinality(Simulations!Live) ELSE Cardinality(Simulations!Live) + 1
    BY FS_AddElement DEF BackendInv
  <2> QED
    BY <1>1, <2>1, <2>2, SessionsAssumption DEF BackendInv
<1>4. Enumerates(order', Simulations!Live')
  <2>1. CASE sessions[i] = None
    BY <1>1, <2>1, AppendEnumerates DEF Simulations!Kept, BackendInv
  <2>2. CASE sessions[i] # None
    <3>1. Simulations!Live' = Simulations!Live /\ order' = order
      BY <1>1, <2>2 DEF Simulations!Kept
    <3> QED
      BY <3>1 DEF BackendInv
  <2> QED
    BY <2>1, <2>2
<1> QED
  BY <1>1, <1>2, <1>3, <1>4 DEF BackendInv, Enumerates

LEMMA RemovedTyped ==
    ASSUME SessionsTyped, NEW i \in SimulationIds, Simulations!Removed(i)
    PROVE  SessionsTyped' /\ Simulations!Live' = Simulations!Live \ {i}
<1>1. sessions' = [sessions EXCEPT ![i] = None]
  BY DEF Simulations!Removed, Simulations!Put
<1>2. SessionsTyped' /\ \A j \in SimulationIds : sessions'[j] # None <=> (sessions[j] # None /\ j # i)
  BY <1>1 DEF SessionsTyped
<1> QED
  BY <1>2 DEF Simulations!Live

LEMMA RemovedHolds ==
    ASSUME BackendInv, SessionsTyped, NEW i \in Simulations!Live, Simulations!Removed(i)
    PROVE  BackendInv'
<1>1. Simulations!Live' = Simulations!Live \ {i} /\ default \in Simulations!Live
  BY RemovedTyped DEF Simulations!Live, BackendInv
<1>2. PICK w : w = Simulations!Without(order, i)
  OBVIOUS
<1>3. order' = w /\ default' = (IF default = i THEN Simulations!First(w) ELSE default)
  BY <1>2 DEF Simulations!Removed
<1>4. Enumerates(w, Simulations!Live \ {i})
  BY <1>2, WithoutEnumerates DEF BackendInv
<1>5. IsFiniteSet(Simulations!Live') /\ Cardinality(Simulations!Live') <= MaxSessions
  <2>1. Cardinality(Simulations!Live) \in Nat
    BY FS_CardinalityType DEF BackendInv
  <2>2. /\ IsFiniteSet(Simulations!Live \ {i})
        /\ Cardinality(Simulations!Live \ {i}) = IF i \in Simulations!Live THEN Cardinality(Simulations!Live) - 1 ELSE Cardinality(Simulations!Live)
    BY FS_RemoveElement DEF BackendInv
  <2> QED
    BY <1>1, <2>1, <2>2, SessionsAssumption DEF BackendInv
<1>6. IF Simulations!Live' = {} THEN default' = None ELSE default' \in Simulations!Live'
  <2>1. CASE default # i
    BY <1>1, <1>3, <2>1
  <2>2. CASE default = i /\ Simulations!Live \ {i} = {}
    <3>1. w = <<>>
      BY <1>4, <2>2 DEF Enumerates
    <3> QED
      BY <1>1, <1>3, <2>2, <3>1 DEF Simulations!First
  <2>3. CASE default = i /\ Simulations!Live \ {i} # {}
    <3>1. w \in Seq(Simulations!Live \ {i}) /\ w # <<>>
      BY <1>4, <2>3 DEF Enumerates
    <3>2. Head(w) \in Simulations!Live \ {i}
      BY <3>1
    <3> QED
      BY <1>1, <1>3, <2>3, <3>1, <3>2 DEF Simulations!First
  <2> QED
    BY <2>1, <2>2, <2>3
<1> QED
  BY <1>1, <1>3, <1>4, <1>5, <1>6 DEF BackendInv

\* what an operation says of the session that it found
LEMMA QuietIsOwn == ASSUME NEW o, NEW op, last' = Simulations!Quiet(o, op) PROVE Simulations!AnswersAreOwn'
BY DEF Simulations!Quiet, Simulations!AnswersAreOwn

LEMMA SaysOwn ==
    ASSUME NEW o, NEW op, NEW i, NEW asked, NEW shows, last' = Simulations!Says(o, op, i, asked, shows),
           op = "deletes" \/ sessions[i] = None \/ sessions[i].owner = o,
           asked = None \/ (shows.project = asked.project /\ shows.input = asked.input)
    PROVE  Simulations!AnswersAreOwn'
<1>1. last'.by = o /\ last'.op = op /\ last'.found = sessions[i] /\ last'.asked = asked /\ last'.shows = shows
  BY DEF Simulations!Says
<1> QED
  BY <1>1 DEF Simulations!AnswersAreOwn

\* the sessions that are made are sessions
LEMMA SessionHolds ==
    ASSUME NEW o \in Accounts, NEW p \in Simulated, NEW v \in InputValues \cup {None}, NEW t \in Nat,
           NEW r, r = Simulations!Session(o, p, v, Simulations!Clip(t))
    PROVE  r \in SessionValues /\ r.owner = o /\ r.project = p /\ r.input = v /\ r.shows.project = p /\ r.shows.input = v
<1>1. Simulations!Clip(t) \in 0..MaxTime
  BY SessionsAssumption DEF Simulations!Clip
<1> QED
  BY <1>1 DEF Simulations!Session, SessionValues, SimulationResults

\* what an operation on the backend's sessions keeps
Holds == SessionsTyped /\ (server = "backend" => BackendInv) /\ Simulations!AnswersAreOwn

LEMMA RefusedHolds ==
    ASSUME SimulationInv, NEW o, NEW op, last' = Simulations!Quiet(o, op), UNCHANGED <<server, sessions, order, default>>
    PROVE  Holds'
<1>1. SessionsTyped' /\ (server' = "backend" => BackendInv')
  BY DEF SimulationInv, SessionsTyped, BackendInv, Enumerates, Simulations!Live
<1> QED
  BY <1>1, QuietIsOwn DEF Holds

LEMMA SaidHolds ==
    ASSUME SimulationInv, NEW o, NEW op, NEW i, NEW shows, last' = Simulations!Says(o, op, i, None, shows),
           sessions[i] = None \/ sessions[i].owner = o, UNCHANGED <<server, sessions, order, default>>
    PROVE  Holds'
<1>1. SessionsTyped' /\ (server' = "backend" => BackendInv')
  BY DEF SimulationInv, SessionsTyped, BackendInv, Enumerates, Simulations!Live
<1> QED
  BY <1>1, SaysOwn DEF Holds

LEMMA RunBackendHolds ==
    ASSUME SimulationInv, server = "backend", server' = server,
           NEW o \in Accounts, NEW i \in SimulationIds, NEW p \in Simulated, NEW v \in InputValues \cup {None}, NEW t \in 1..MaxTime,
           NEW op, Simulations!RunBackend(o, i, p, v, t, op)
    PROVE  Holds'
<1>1. CASE ~Simulations!MayCreate(i, o, p)
  BY <1>1, RefusedHolds, Zenon DEF Simulations!RunBackend
<1>2. CASE Simulations!MayCreate(i, o, p)
  <2>1. PICK runner : runner = Simulations!Created(i, o, p)
    OBVIOUS
  <2>2. runner.project = p
    BY <2>1 DEF Simulations!Created, Simulations!Session
  <2>3. PICK ran : ran = Simulations!Session(o, runner.project, v, Simulations!Clip(t))
    OBVIOUS
  <2>4. /\ Simulations!Put(i, ran) /\ Simulations!Kept(i)
        /\ last' = Simulations!Says(o, op, i, [project |-> p, input |-> v], ran.shows)
    BY <1>2, <2>1, <2>3, Zenon DEF Simulations!RunBackend
  <2>5. t \in Nat
    OBVIOUS
  <2>6. ran \in SessionValues /\ ran.shows.project = p /\ ran.shows.input = v
    BY <2>2, <2>3, <2>5, SessionHolds
  <2>7. /\ sessions[i] = None \/ sessions[i].owner = o
        /\ sessions[i] = None => Cardinality(Simulations!Live) < MaxSessions
    BY <1>2, SameCount DEF Simulations!MayCreate, Simulations!Owned
  <2>8. BackendInv' /\ SessionsTyped'
    BY <2>4, <2>6, <2>7, KeptHolds, PutLives DEF SimulationInv
  <2>9. Simulations!AnswersAreOwn'
    <3>1. PICK asked : asked = [project |-> p, input |-> v]
      OBVIOUS
    <3>2. asked.project = p /\ asked.input = v
      BY <3>1
    <3> QED
      BY <2>4, <2>6, <2>7, <3>1, <3>2, SaysOwn
  <2> QED
    BY <2>8, <2>9 DEF Holds
<1> QED
  BY <1>1, <1>2

\* a step of the backend: of a session that is there, or of a new one
LEMMA RequestStepHolds ==
    ASSUME SimulationInv, NEW o \in Accounts, NEW i \in SimulationIds, NEW p \in Simulated, NEW t \in 1..MaxTime,
           Simulations!RequestStep(o, i, p, t)
    PROVE  Holds' /\ UNCHANGED <<server, socket>>
<1>1. server = "backend" /\ UNCHANGED <<server, socket>>
  BY DEF Simulations!RequestStep
<1>2. CASE ~(Simulations!Owned(i, o) /\ (sessions[i] # None \/ Simulations!MayCreate(i, o, p)))
  <2>1. last' = Simulations!Quiet(o, "refused") /\ UNCHANGED <<sessions, order, default>>
    BY <1>2, Zenon DEF Simulations!RequestStep
  <2> QED
    BY <1>1, <2>1, RefusedHolds
<1>3. CASE Simulations!Owned(i, o) /\ (sessions[i] # None \/ Simulations!MayCreate(i, o, p))
  <2>1. PICK at : at = IF sessions[i] = None THEN Simulations!Created(i, o, p) ELSE sessions[i]
    OBVIOUS
  <2>2. PICK ran : ran = Simulations!Session(at.owner, at.project, at.input, Simulations!Clip(at.time + t))
    OBVIOUS
  <2>3. PICK asked : asked = [project |-> at.project, input |-> at.input]
    OBVIOUS
  <2>4. /\ Simulations!Put(i, ran)
        /\ IF sessions[i] = None THEN Simulations!Kept(i) ELSE UNCHANGED <<order, default>>
        /\ last' = Simulations!Says(o, "step", i, asked, ran.shows)
    BY <1>3, <2>1, <2>2, <2>3, Zenon DEF Simulations!RequestStep
  <2>5. at \in SessionValues
    <3>1. CASE sessions[i] # None
      BY <2>1, <3>1 DEF SimulationInv, SessionsTyped
    <3>2. CASE sessions[i] = None
      <4>1. at = Simulations!Session(o, p, None, 0)
        BY <2>1, <3>2 DEF Simulations!Created
      <4> QED
        BY <4>1, SessionsAssumption DEF Simulations!Session, SessionValues, SimulationResults
    <3> QED
      BY <3>1, <3>2
  <2>6. at.owner \in Accounts /\ at.project \in Simulated /\ at.input \in InputValues \cup {None}
    BY <2>5 DEF SessionValues
  <2>a. PICK later : later = at.time + t
    OBVIOUS
  <2>b. later \in Nat
    BY <2>5, <2>a, SessionsAssumption DEF SessionValues
  <2>7. ran \in SessionValues /\ ran.shows.project = at.project /\ ran.shows.input = at.input
    BY <2>2, <2>6, <2>a, <2>b, SessionHolds
  <2>8. Simulations!AnswersAreOwn'
    <3>1. asked.project = at.project /\ asked.input = at.input /\ (sessions[i] = None \/ sessions[i].owner = o)
      BY <1>3, <2>3 DEF Simulations!Owned
    <3> QED
      BY <2>4, <2>7, <3>1, SaysOwn
  <2>9. BackendInv' /\ SessionsTyped'
    <3>1. CASE sessions[i] = None
      <4>1. Cardinality(Simulations!Live) < MaxSessions
        BY <1>3, <3>1, SameCount DEF Simulations!MayCreate
      <4> QED
        BY <1>1, <2>4, <2>7, <3>1, <4>1, KeptHolds, PutLives DEF SimulationInv
    <3>2. CASE sessions[i] # None
      <4>1. Simulations!Live' = Simulations!Live /\ SessionsTyped' /\ UNCHANGED <<order, default>>
        BY <2>4, <2>7, <3>2, PutLives DEF SimulationInv, Simulations!Live
      <4> QED
        BY <1>1, <4>1 DEF SimulationInv, BackendInv
    <3> QED
      BY <3>1, <3>2
  <2> QED
    BY <1>1, <2>8, <2>9 DEF Holds
<1> QED
  BY <1>2, <1>3

LEMMA StopBackendHolds ==
    ASSUME SimulationInv, server = "backend", server' = server, NEW o, NEW i \in SimulationIds, NEW op, Simulations!StopBackend(o, i, op)
    PROVE  Holds'
<1>1. CASE ~(Simulations!Owned(i, o) /\ sessions[i] # None)
  BY <1>1, RefusedHolds, Zenon DEF Simulations!StopBackend
<1>2. CASE Simulations!Owned(i, o) /\ sessions[i] # None
  <2>1. Simulations!Removed(i) /\ last' = Simulations!Says(o, op, i, None, None)
    BY <1>2, Zenon DEF Simulations!StopBackend
  <2>2. BackendInv' /\ SessionsTyped'
    BY <1>2, <2>1, RemovedHolds, RemovedTyped DEF SimulationInv, Simulations!Live
  <2>3. Simulations!AnswersAreOwn'
    BY <1>2, <2>1, SaysOwn DEF Simulations!Owned
  <2> QED
    BY <2>2, <2>3 DEF Holds
<1> QED
  BY <1>1, <1>2

\* the edge evicts; a socket's end there removes whatever has its id
LEMMA RunEdgeHolds ==
    ASSUME SimulationInv, server = "edge", server' = server,
           NEW o \in Accounts, NEW i \in SimulationIds, NEW p \in Simulated, NEW v \in InputValues \cup {None}, NEW t \in 1..MaxTime,
           NEW op, Simulations!RunEdge(o, i, p, v, t, op), default' = default
    PROVE  Holds'
<1>1. CASE ~Simulations!Allowed(i, o)
  <2>1. last' = Simulations!Quiet(o, "refused") /\ UNCHANGED <<sessions, order>>
    BY <1>1, Zenon DEF Simulations!RunEdge
  <2> QED
    BY <2>1, RefusedHolds
<1>2. CASE Simulations!Allowed(i, o)
  <2>1. PICK ran : ran = Simulations!Session(o, p, v, Simulations!Clip(t))
    OBVIOUS
  <2>2. PICK left : left = IF op = "run" THEN Simulations!Latest(Append(Simulations!Without(order, i), i)) ELSE Append(Simulations!Without(order, i), i)
    OBVIOUS
  <2>3. PICK asked : asked = [project |-> p, input |-> v]
    OBVIOUS
  <2>4. /\ sessions' = [j \in SimulationIds |-> IF j = i THEN ran ELSE IF j \in Simulations!ToSet(left) THEN sessions[j] ELSE None]
        /\ last' = Simulations!Says(o, op, i, asked, ran.shows)
    BY <1>2, <2>1, <2>2, <2>3, Zenon DEF Simulations!RunEdge
  <2>5. t \in Nat
    OBVIOUS
  <2>6. ran \in SessionValues /\ ran.shows.project = p /\ ran.shows.input = v
    BY <2>1, <2>5, SessionHolds
  <2>7. SessionsTyped'
    BY <2>4, <2>6 DEF SimulationInv, SessionsTyped
  <2>8. asked.project = p /\ asked.input = v /\ (sessions[i] = None \/ sessions[i].owner = o)
    BY <1>2, <2>3 DEF Simulations!Allowed
  <2>9. Simulations!AnswersAreOwn'
    BY <2>4, <2>6, <2>8, SaysOwn
  <2> QED
    BY <2>7, <2>9 DEF Holds
<1> QED
  BY <1>1, <1>2

LEMMA EdgeRemoves ==
    ASSUME SimulationInv, server = "edge", server' = server, NEW o, NEW i \in SimulationIds, NEW op, Simulations!Removed(i),
           last' = Simulations!Says(o, op, i, None, None), op = "deletes" \/ sessions[i] = None \/ sessions[i].owner = o
    PROVE  Holds'
BY RemovedTyped, SaysOwn DEF SimulationInv, Holds

LEMMA StopEdgeHolds ==
    ASSUME SimulationInv, server = "edge", server' = server, NEW o, NEW i \in SimulationIds, NEW op, Simulations!StopEdge(o, i, op)
    PROVE  Holds'
<1>1. CASE ~Simulations!Allowed(i, o)
  BY <1>1, RefusedHolds, Zenon DEF Simulations!StopEdge
<1>2. CASE Simulations!Allowed(i, o)
  <2>1. Simulations!Removed(i) /\ last' = Simulations!Says(o, op, i, None, None)
    BY <1>2, Zenon DEF Simulations!StopEdge
  <2> QED
    BY <1>2, <2>1, EdgeRemoves DEF Simulations!Allowed
<1> QED
  BY <1>1, <1>2

\* a socket: its inputs are kept, and written to its session if it has one
LEMMA SocketRunsHolds ==
    ASSUME SimulationInv, NEW o \in Accounts, NEW i \in SimulationIds \cup {None}, NEW p \in Simulated,
           NEW v \in InputValues \cup {None}, NEW t \in 1..MaxTime,
           Simulations!SocketRunsBackend(o, i, p, v, t) \/ Simulations!SocketRunsEdge(o, i, p, v, t)
    PROVE  Holds' /\ SocketsTyped'
<1>1. SocketsTyped /\ socket[o].id \in SimulationIds \cup {None} /\ socket[o].pending \in InputValues \cup {None}
  BY DEF SimulationInv, SocketsTyped
<1>2. PICK merged : merged = Simulations!Merged(socket[o].pending, v)
  OBVIOUS
<1>3. merged \in InputValues \cup {None}
  BY <1>1, <1>2 DEF Simulations!Merged
<1>4. CASE Simulations!SocketRunsBackend(o, i, p, v, t)
  <2>1. PICK target : target = IF i # None THEN i ELSE socket[o].id
    OBVIOUS
  <2>2. /\ server = "backend" /\ target # None /\ server' = server
        /\ Simulations!RunBackend(o, target, p, merged, t, "socket-run")
        /\ socket' = [socket EXCEPT ![o].id = target] \/ socket' = socket
    BY <1>2, <1>4, <2>1, Zenon DEF Simulations!SocketRunsBackend
  <2>3. target \in SimulationIds
    BY <1>1, <2>1, <2>2
  <2>4. Holds'
    BY <1>3, <2>2, <2>3, RunBackendHolds
  <2>5. SocketsTyped'
    BY <1>1, <2>2, <2>3 DEF SocketsTyped
  <2> QED
    BY <2>4, <2>5
<1>5. CASE Simulations!SocketRunsEdge(o, i, p, v, t)
  <2>1. /\ server = "edge" /\ i # None /\ server' = server /\ default' = default
        /\ Simulations!RunEdge(o, i, p, merged, t, "socket-run")
        /\ socket' = [socket EXCEPT ![o].id = i] \/ socket' = socket
    BY <1>2, <1>5, Zenon DEF Simulations!SocketRunsEdge
  <2>2. i \in SimulationIds
    BY <2>1
  <2>3. Holds'
    BY <1>3, <2>1, <2>2, RunEdgeHolds
  <2>4. SocketsTyped'
    BY <1>1, <2>1, <2>2 DEF SocketsTyped
  <2> QED
    BY <2>3, <2>4
<1> QED
  BY <1>4, <1>5

LEMMA SocketInputHolds ==
    ASSUME SimulationInv, NEW o \in Accounts, NEW v \in InputValues, Simulations!SocketInput(o, v)
    PROVE  Holds' /\ SocketsTyped'
<1>1. PICK i : i = socket[o].id
  OBVIOUS
<1>2. /\ UNCHANGED <<server, order, default>> /\ socket' = [socket EXCEPT ![o].pending = v]
      /\ \/ \E op : last' = Simulations!Quiet(o, op) /\ sessions' = sessions
         \/ /\ server = "backend" /\ i # None /\ sessions[i] # None /\ Simulations!Owned(i, o)
            /\ Simulations!Put(i, [sessions[i] EXCEPT !.input = v])
            /\ last' = Simulations!Says(o, "input", i, None, None)
  BY <1>1, Zenon DEF Simulations!SocketInput
<1>3. SocketsTyped' /\ i \in SimulationIds \cup {None}
  BY <1>1, <1>2 DEF SimulationInv, SocketsTyped
<1>4. ASSUME NEW op, last' = Simulations!Quiet(o, op), sessions' = sessions PROVE Holds'
  BY <1>2, <1>4, RefusedHolds
<1>5. CASE /\ server = "backend" /\ i # None /\ sessions[i] # None /\ Simulations!Owned(i, o)
           /\ Simulations!Put(i, [sessions[i] EXCEPT !.input = v])
           /\ last' = Simulations!Says(o, "input", i, None, None)
  <2>1. i \in SimulationIds /\ sessions[i] \in SessionValues
    BY <1>3, <1>5 DEF SimulationInv, SessionsTyped
  <2>2. PICK r : r = [sessions[i] EXCEPT !.input = v]
    OBVIOUS
  <2>3. r \in SessionValues
    BY <2>1, <2>2 DEF SessionValues
  <2>4. SessionsTyped' /\ Simulations!Live' = Simulations!Live \cup {i}
    BY <1>5, <2>1, <2>2, <2>3, PutLives DEF SimulationInv
  <2>5. Simulations!Live' = Simulations!Live
    BY <1>5, <2>1, <2>4 DEF Simulations!Live
  <2>6. BackendInv'
    BY <1>2, <1>5, <2>5 DEF SimulationInv, BackendInv
  <2>7. Simulations!AnswersAreOwn'
    BY <1>5, SaysOwn DEF Simulations!Owned
  <2> QED
    BY <1>3, <2>4, <2>6, <2>7 DEF Holds
<1> QED
  BY <1>2, <1>3, <1>4, <1>5

LEMMA SocketStopHolds == ASSUME SimulationInv, NEW o \in Accounts, Simulations!SocketStop(o) PROVE Holds' /\ SocketsTyped'
<1>1. PICK i : i = socket[o].id
  OBVIOUS
<1>2. /\ server' = server /\ (socket' = [socket EXCEPT ![o].id = None] \/ socket' = socket)
      /\ CASE i = None -> last' = Simulations!Quiet(o, "socket-stop") /\ UNCHANGED <<sessions, order, default>>
           [] i # None /\ server = "backend" -> Simulations!StopBackend(o, i, "socket-stop")
           [] i # None /\ server = "edge" -> Simulations!Removed(i) /\ last' = Simulations!Says(o, "deletes", i, None, None)
  BY <1>1, Zenon DEF Simulations!SocketStop
<1>3. SocketsTyped' /\ i \in SimulationIds \cup {None}
  BY <1>1, <1>2 DEF SimulationInv, SocketsTyped
<1>4. CASE i = None
  <2>1. last' = Simulations!Quiet(o, "socket-stop") /\ UNCHANGED <<sessions, order, default>>
    BY <1>2, <1>4, Zenon
  <2> QED
    BY <1>2, <1>3, <2>1, RefusedHolds
<1>5. CASE i # None /\ server = "backend"
  <2>1. Simulations!StopBackend(o, i, "socket-stop")
    BY <1>2, <1>5
  <2> QED
    BY <1>2, <1>3, <1>5, <2>1, StopBackendHolds
<1>6. CASE i # None /\ server = "edge"
  <2>1. Simulations!Removed(i) /\ last' = Simulations!Says(o, "deletes", i, None, None)
    BY <1>2, <1>6
  <2> QED
    BY <1>2, <1>3, <1>6, <2>1, EdgeRemoves
<1> QED
  BY <1>4, <1>5, <1>6 DEF SimulationInv

LEMMA RequestsHold ==
    ASSUME SimulationInv, NEW o \in Accounts, NEW i \in SimulationIds, NEW p \in Simulated, NEW v \in InputValues \cup {None}, NEW t \in 1..MaxTime,
           Simulations!RequestRun(o, i, p, v, t) \/ Simulations!RunSimulation(o, i, p, v, t)
    PROVE  Holds' /\ UNCHANGED <<server, socket>>
BY RunBackendHolds, RunEdgeHolds, Zenon DEF Simulations!RequestRun, Simulations!RunSimulation

LEMMA StopsAndReadsHold ==
    ASSUME SimulationInv, NEW o \in Accounts, NEW i, \* of the socket, or the one that is named
           \/ i \in SimulationIds /\ Simulations!RequestStop(o, i)
           \/ Simulations!ReadState(o, i)
           \/ Simulations!ReadPin(o)
    PROVE  Holds' /\ UNCHANGED <<server, socket>>
<1>1. CASE i \in SimulationIds /\ Simulations!RequestStop(o, i)
  <2>1. /\ UNCHANGED <<server, socket>>
        /\ IF server = "backend" THEN Simulations!StopBackend(o, i, "stop") ELSE Simulations!StopEdge(o, i, "stop")
    BY <1>1, Zenon DEF Simulations!RequestStop
  <2> QED
    BY <1>1, <2>1, StopBackendHolds, StopEdgeHolds DEF SimulationInv
<1>2. ASSUME NEW j, NEW op, Simulations!Reads(o, j, op) PROVE Holds' /\ UNCHANGED <<server, socket>>
  <2>1. /\ UNCHANGED <<server, sessions, order, default, socket>>
        /\ \/ last' = Simulations!Quiet(o, "refused")
           \/ Simulations!Allowed(j, o) /\ last' = Simulations!Says(o, op, j, None, sessions[j].shows)
    BY <1>2, Zenon DEF Simulations!Reads
  <2> QED
    BY <2>1, RefusedHolds, SaidHolds DEF Simulations!Allowed
<1> QED
  BY <1>1, <1>2 DEF Simulations!ReadState, Simulations!ReadPin

LEMMA EndsHold ==
    ASSUME SimulationInv, \/ \E i \in SimulationIds : Simulations!Expires(i)
                          \/ Simulations!Restarts
                          \/ \E o \in Accounts : Simulations!SocketCloses(o)
    PROVE  Holds' /\ SocketsTyped' /\ server' = server
<1>1. ASSUME NEW i \in SimulationIds, Simulations!Expires(i) PROVE Holds' /\ SocketsTyped' /\ server' = server
  <2>1. server = "backend" /\ sessions[i] # None /\ Simulations!Removed(i) /\ last' = Simulations!Quiet(None, "expires") /\ UNCHANGED <<server, socket>>
    BY <1>1 DEF Simulations!Expires
  <2>2. BackendInv' /\ SessionsTyped' /\ Simulations!AnswersAreOwn'
    BY <2>1, RemovedHolds, RemovedTyped, QuietIsOwn DEF SimulationInv, Simulations!Live
  <2> QED
    BY <2>1, <2>2 DEF Holds, SimulationInv, SocketsTyped
<1>2. CASE Simulations!Restarts
  <2>1. /\ sessions' = [i \in SimulationIds |-> None] /\ order' = <<>> /\ default' = None
        /\ socket' = [o \in Accounts |-> Simulations!Closed] /\ last' = Simulations!Quiet(None, "restarts") /\ server' = server
    BY <1>2 DEF Simulations!Restarts
  <2>2. SessionsTyped' /\ Simulations!Live' = {} /\ SocketsTyped'
    BY <2>1 DEF SessionsTyped, SocketsTyped, Simulations!Live, Simulations!Closed
  <2>3. BackendInv'
    <3>1. IsFiniteSet(Simulations!Live') /\ Cardinality(Simulations!Live') = 0
      BY <2>2, FS_EmptySet
    <3> QED
      BY <2>1, <2>2, <3>1, SessionsAssumption DEF BackendInv, Enumerates
  <2> QED
    BY <2>1, <2>2, <2>3, QuietIsOwn DEF Holds
<1>3. ASSUME NEW o \in Accounts, Simulations!SocketCloses(o) PROVE Holds' /\ SocketsTyped' /\ server' = server
  <2>1. socket' = [socket EXCEPT ![o] = Simulations!Closed] /\ last' = Simulations!Quiet(o, "closes") /\ UNCHANGED <<server, sessions, order, default>>
    BY <1>3 DEF Simulations!SocketCloses
  <2>2. SocketsTyped'
    BY <2>1 DEF SimulationInv, SocketsTyped, Simulations!Closed
  <2> QED
    BY <2>1, <2>2, RefusedHolds
<1> QED
  BY <1>1, <1>2, <1>3

LEMMA SimulationsStart == ASSUME Simulations!SessionsInit PROVE SimulationInv
<1>1. SessionsTyped /\ SocketsTyped /\ Simulations!Live = {} /\ server \in {"backend", "edge"}
  BY DEF Simulations!SessionsInit, SessionsTyped, SocketsTyped, Simulations!Live, Simulations!Closed
<1>2. Simulations!AnswersAreOwn
  BY DEF Simulations!SessionsInit, Simulations!Quiet, Simulations!AnswersAreOwn
<1>3. BackendInv
  <2>1. IsFiniteSet(Simulations!Live) /\ Cardinality(Simulations!Live) = 0
    BY <1>1, FS_EmptySet
  <2> QED
    BY <1>1, <2>1, SessionsAssumption DEF BackendInv, Enumerates, Simulations!SessionsInit
<1> QED
  BY <1>1, <1>2, <1>3 DEF SimulationInv

LEMMA SimulationsStep == ASSUME SimulationInv, Simulations!SessionsNext PROVE SimulationInv'
<1>1. ASSUME Holds', UNCHANGED <<server, socket>> PROVE SimulationInv'
  BY <1>1 DEF Holds, SimulationInv, SocketsTyped
<1>2. ASSUME Holds', SocketsTyped', server' = server PROVE SimulationInv'
  BY <1>2 DEF Holds, SimulationInv
<1>3. ASSUME NEW o \in Accounts, NEW i \in SimulationIds, NEW p \in Simulated, NEW v \in InputValues \cup {None}, NEW t \in 1..MaxTime,
             Simulations!RequestRun(o, i, p, v, t) \/ Simulations!RunSimulation(o, i, p, v, t)
      PROVE  SimulationInv'
  BY <1>1, <1>3, RequestsHold
<1>4. ASSUME NEW o \in Accounts, NEW i \in SimulationIds \cup {None}, NEW p \in Simulated, NEW v \in InputValues \cup {None}, NEW t \in 1..MaxTime,
             Simulations!SocketRunsBackend(o, i, p, v, t) \/ Simulations!SocketRunsEdge(o, i, p, v, t)
      PROVE  SimulationInv'
  <2>1. server' = server
    BY <1>4 DEF Simulations!SocketRunsBackend, Simulations!SocketRunsEdge
  <2> QED
    BY <1>2, <1>4, <2>1, SocketRunsHolds
<1>5. ASSUME NEW o \in Accounts, NEW i \in SimulationIds, NEW p \in Simulated, NEW t \in 1..MaxTime, Simulations!RequestStep(o, i, p, t)
      PROVE  SimulationInv'
  BY <1>1, <1>5, RequestStepHolds
<1>6. ASSUME NEW o \in Accounts, NEW i \in SimulationIds, Simulations!RequestStop(o, i) \/ Simulations!ReadState(o, i) PROVE SimulationInv'
  BY <1>1, <1>6, StopsAndReadsHold
<1>7. ASSUME NEW o \in Accounts, NEW v \in InputValues, Simulations!SocketInput(o, v) PROVE SimulationInv'
  <2>1. server' = server
    BY <1>7 DEF Simulations!SocketInput
  <2> QED
    BY <1>2, <1>7, <2>1, SocketInputHolds
<1>8. ASSUME NEW o \in Accounts, Simulations!SocketStop(o) PROVE SimulationInv'
  <2>1. server' = server
    BY <1>8 DEF Simulations!SocketStop
  <2> QED
    BY <1>2, <1>8, <2>1, SocketStopHolds
<1>9. ASSUME NEW o \in Accounts, Simulations!ReadPin(o) PROVE SimulationInv'
  BY <1>1, <1>9, StopsAndReadsHold
<1>10. ASSUME (\E i \in SimulationIds : Simulations!Expires(i)) \/ Simulations!Restarts \/ (\E o \in Accounts : Simulations!SocketCloses(o))
       PROVE  SimulationInv'
  BY <1>2, <1>10, EndsHold
<1> QED
  BY <1>3, <1>4, <1>5, <1>6, <1>7, <1>8, <1>9, <1>10, Zenon DEF Simulations!SessionsNext

\* An operation finds a session of its owner and answers with the graph and the
\* inputs it was sent; the backend keeps to its capacity, and its default lives.
THEOREM SimulationsSound == PageSpec => [](part = "simulations" => SimulationInv)
<1>1. PageInit => (part = "simulations" => SimulationInv)
  BY SimulationsStart DEF PageInit, PageStarts
<1>2. (part = "simulations" => SimulationInv) /\ [PageNext]_pageVars => (part = "simulations" => SimulationInv)'
  <2> SUFFICES ASSUME part = "simulations" => SimulationInv, [PageNext]_pageVars, part' = "simulations" PROVE SimulationInv'
    OBVIOUS
  <2>1. CASE UNCHANGED pageVars
    <3>1. part = "simulations" /\ UNCHANGED <<server, sessions, order, default, socket, last>>
      BY <2>1 DEF pageVars, pageShared, simulationsOnly
    <3> QED
      BY <3>1 DEF SimulationInv, SessionsTyped, SocketsTyped, BackendInv, Enumerates, Simulations!Live, Simulations!AnswersAreOwn
  <2>2. CASE PageNext
    <3>1. part = "simulations" /\ Simulations!SessionsNext
      BY <2>2 DEF PageNext, PageStays
    <3> QED
      BY <3>1, SimulationsStep
  <2> QED
    BY <2>1, <2>2
<1> QED
  BY <1>1, <1>2, PTL DEF PageSpec

\* Simulations, their capacity, sign-ins and tickets are an account's own and
\* last as long as they should.
THEOREM ServersProved == PageSpec => []ServersKeepApart
<1>1. (part = "simulations" => SimulationInv) => (part = "simulations" => Simulations!AnswersAreOwn /\ Simulations!SessionsAreBounded)
  BY SameCount DEF SimulationInv, BackendInv, Simulations!SessionsAreBounded
<1>2. (part = "sign-ins" => SignInv) => (part = "sign-ins" => SignIns!SignInsAreBounded)
  BY SignInsHold
<1> QED
  BY <1>1, <1>2, SimulationsSound, SignInsSound, PTL DEF ServersKeepApart

(***************************************************************************)
(* The import dialog.  A read that is under way was begun for the choice   *)
(* that its generation stands for: a later choice, the other tab of the    *)
(* dialog and closing it all count on.                                     *)
(***************************************************************************)
Fields == {"open", "mode", "generation", "choice", "preview", "loading", "error"}
IsPreview(p, f) == f # None /\ Chosen!ParseSchematicProjectFile(f) /\ p = f.project
Behind(r) == r.generation \in Nat /\ r.generation <= dialog.generation
DialogInv ==
    /\ DOMAIN dialog = Fields /\ dialog.generation \in Nat
    /\ dialog.preview # None => IsPreview(dialog.preview, dialog.choice)
    /\ dialog.loading => \E r \in reads : r.by = "dialog" /\ r.generation = dialog.generation
    /\ \A r \in reads : r.by = "dialog" =>
          Behind(r) /\ (r.generation = dialog.generation => r.file = dialog.choice /\ r.file # None)

LEMMA DialogHolds == ASSUME DialogInv PROVE Chosen!PreviewIsOfChoice
BY DEF DialogInv, IsPreview, Chosen!PreviewIsOfChoice

LEMMA DialogRests == ASSUME DialogInv, UNCHANGED dialog, \A r \in reads \cup reads' : r.by = "dialog" => r \in reads \cap reads' PROVE DialogInv'
BY DEF DialogInv, Behind

\* what bumps the generation begins at most one read, for the choice that it made
LEMMA CountsOn ==
    ASSUME DialogInv, DOMAIN dialog' = Fields, dialog'.generation = dialog.generation + 1,
           dialog'.preview = None \/ (dialog'.preview = dialog.preview /\ dialog'.choice = dialog.choice),
           \/ reads' = reads /\ ~dialog'.loading
           \/ \E f : f # None /\ dialog'.choice = f /\ reads' = reads \cup {[by |-> "dialog", generation |-> dialog'.generation, file |-> f]}
    PROVE  DialogInv'
<1>1. dialog'.generation \in Nat /\ dialog.generation \in Nat
  BY DEF DialogInv
<1>2. dialog'.preview # None => IsPreview(dialog'.preview, dialog'.choice)
  BY DEF DialogInv
<1>3. CASE reads' = reads /\ ~dialog'.loading
  BY <1>1, <1>2, <1>3 DEF DialogInv, Behind, IsPreview
<1>4. ASSUME NEW f, f # None, dialog'.choice = f,
             reads' = reads \cup {[by |-> "dialog", generation |-> dialog'.generation, file |-> f]}
      PROVE  DialogInv'
  <2>1. PICK q : q = [by |-> "dialog", generation |-> dialog'.generation, file |-> f]
    OBVIOUS
  <2>2. q.by = "dialog" /\ q.generation = dialog'.generation /\ q.file = f /\ reads' = reads \cup {q}
    BY <1>4, <2>1
  <2> QED
    BY <1>1, <1>2, <1>4, <2>2 DEF DialogInv, Behind, IsPreview
<1> QED
  BY <1>3, <1>4

LEMMA UnmountedHolds == ASSUME DialogInv, dialog' = Chosen!Unmounted, UNCHANGED reads PROVE DialogInv'
<1>1. /\ DOMAIN dialog' = Fields /\ dialog'.generation = dialog.generation + 1
      /\ dialog'.preview = None /\ ~dialog'.loading
  BY DEF Chosen!Unmounted, Chosen!Closed, Fields
<1> QED
  BY <1>1, CountsOn

LEMMA HasReadHolds == ASSUME DialogInv, NEW r \in reads, Chosen!DialogHasRead(r) PROVE DialogInv'
<1>1. r.by = "dialog" /\ reads' = reads \ {r}
  BY DEF Chosen!DialogHasRead
<1>2. CASE r.generation # dialog.generation
  BY <1>1, <1>2 DEF Chosen!DialogHasRead, Chosen!Counts, DialogInv, Behind
<1>3. CASE r.generation = dialog.generation
  <2>1. r.file = dialog.choice /\ r.file # None
    BY <1>1, <1>3 DEF DialogInv
  <2>2. \/ Chosen!ParseSchematicProjectFile(r.file) /\ dialog' = [dialog EXCEPT !.preview = r.file.project, !.loading = FALSE]
        \/ dialog' = [dialog EXCEPT !.error = TRUE, !.loading = FALSE]
    BY <1>3 DEF Chosen!DialogHasRead, Chosen!Counts
  <2>3. /\ DOMAIN dialog' = Fields /\ dialog'.generation = dialog.generation /\ dialog'.choice = dialog.choice /\ ~dialog'.loading
        /\ dialog'.preview = dialog.preview \/ IsPreview(dialog'.preview, dialog.choice)
    BY <2>1, <2>2 DEF DialogInv, Fields, IsPreview
  <2> QED
    BY <1>1, <2>3 DEF DialogInv, Behind, IsPreview
<1> QED
  BY <1>2, <1>3

\* the dialog is opened, turned over or left as it is
LEMMA TurnsHold ==
    ASSUME DialogInv, UNCHANGED reads,
           \/ dialog' = [dialog EXCEPT !.open = TRUE]
           \/ dialog' = [dialog EXCEPT !.error = TRUE]
           \/ dialog' = [dialog EXCEPT !.mode = "project", !.error = FALSE]
    PROVE  DialogInv'
<1>1. /\ DOMAIN dialog' = Fields /\ dialog'.generation = dialog.generation /\ dialog'.choice = dialog.choice
      /\ dialog'.loading = dialog.loading /\ dialog'.preview = dialog.preview
  BY DEF DialogInv, Fields
<1> QED
  BY <1>1 DEF DialogInv, Behind, IsPreview

LEMMA ChoosesHolds == ASSUME DialogInv, NEW f, Chosen!ChooseProjectFile(f) PROVE DialogInv'
<1>1. /\ f # None
      /\ dialog' = [dialog EXCEPT !.generation = @ + 1, !.choice = f, !.preview = None, !.loading = TRUE, !.error = FALSE]
      /\ reads' = reads \cup {[by |-> "dialog", generation |-> dialog'.generation, file |-> f]}
  BY DEF Chosen!ChooseProjectFile, Chosen!Available, Chosen!StartsRead
<1>2. DOMAIN dialog' = Fields /\ dialog'.generation = dialog.generation + 1 /\ dialog'.preview = None /\ dialog'.choice = f
  BY <1>1 DEF DialogInv, Fields
<1> QED
  BY <1>1, <1>2, CountsOn

\* the settings page reads and imports beside the dialog
LEMMA SettingsHold ==
    ASSUME DialogInv, \/ \E f : Chosen!HandleImport(f)
                      \/ \E r \in reads : Chosen!SettingsHaveRead(r)
    PROVE  DialogInv'
<1>1. ASSUME NEW f, Chosen!HandleImport(f) PROVE DialogInv'
  <2>1. PICK q : q = [by |-> "settings", generation |-> 0, file |-> f]
    OBVIOUS
  <2>2. q.by = "settings" /\ reads' = reads \cup {q} /\ UNCHANGED dialog
    BY <1>1, <2>1 DEF Chosen!HandleImport, Chosen!StartsRead
  <2> QED
    BY <2>2, DialogRests
<1>2. ASSUME NEW r \in reads, Chosen!SettingsHaveRead(r) PROVE DialogInv'
  <2>1. r.by = "settings" /\ reads' = reads \ {r} /\ UNCHANGED dialog
    BY <1>2 DEF Chosen!SettingsHaveRead
  <2> QED
    BY <2>1, DialogRests
<1> QED
  BY <1>1, <1>2

LEMMA DialogStarts == ASSUME Chosen!FileInit PROVE DialogInv
BY DEF Chosen!FileInit, Chosen!Closed, DialogInv, Fields

LEMMA DialogSteps == ASSUME DialogInv, Chosen!FileNext PROVE DialogInv'
<1>1. ASSUME NEW p, Chosen!Edited(p) PROVE DialogInv'
  BY <1>1, DialogRests DEF Chosen!Edited
<1>2. CASE Chosen!AddComponent
  BY <1>1, <1>2 DEF Chosen!AddComponent
<1>3. CASE Chosen!Export
  BY <1>3, DialogRests DEF Chosen!Export
<1>4. CASE Chosen!Opens \/ Chosen!ToProject
  BY <1>4, TurnsHold DEF Chosen!Opens, Chosen!ToProject
<1>5. CASE Chosen!Closes
  BY <1>5, UnmountedHolds DEF Chosen!Closes
<1>6. CASE Chosen!ToModels
  <2>1. reads' = reads /\ dialog' = [dialog EXCEPT !.mode = "models", !.generation = @ + 1, !.loading = FALSE, !.error = FALSE]
    BY <1>6 DEF Chosen!ToModels
  <2>2. /\ DOMAIN dialog' = Fields /\ dialog'.generation = dialog.generation + 1 /\ ~dialog'.loading
        /\ dialog'.preview = dialog.preview /\ dialog'.choice = dialog.choice
    BY <2>1 DEF DialogInv, Fields
  <2> QED
    BY <2>1, <2>2, CountsOn
<1>7. CASE Chosen!DoImportProject
  BY <1>7, UnmountedHolds, TurnsHold DEF Chosen!DoImportProject
<1>8. ASSUME NEW c, Chosen!RemoveComponent(c) PROVE DialogInv'
  BY <1>1, <1>8 DEF Chosen!RemoveComponent
<1>9. ASSUME NEW c, NEW b, Chosen!ConnectPorts(c, b) PROVE DialogInv'
  BY <1>1, <1>9 DEF Chosen!ConnectPorts
<1>10. ASSUME NEW c, NEW src, NEW plan, Chosen!WriteCodeDocument(c, src, plan) PROVE DialogInv'
  BY <1>1, <1>10 DEF Chosen!WriteCodeDocument
<1>11. ASSUME NEW id, NEW refs, Chosen!WriteBehaviorPlan(id, refs) PROVE DialogInv'
  BY <1>1, <1>11 DEF Chosen!WriteBehaviorPlan
<1> QED
  BY <1>2, <1>3, <1>4, <1>5, <1>6, <1>7, <1>8, <1>9, <1>10, <1>11, ChoosesHolds, HasReadHolds, SettingsHold DEF Chosen!FileNext

\* What the import dialog shows, and would import, is the project in the file
\* that was chosen last (ImportDialog.tsx, vllxFile.ts), whatever was chosen,
\* closed, edited or imported meanwhile and in whichever order the reads end.
THEOREM DialogSound == PageSpec => [](part = "chosen" => DialogInv)
<1>1. PageInit => (part = "chosen" => DialogInv)
  BY DialogStarts DEF PageInit, PageStarts
<1>2. (part = "chosen" => DialogInv) /\ [PageNext]_pageVars => (part = "chosen" => DialogInv)'
  <2> SUFFICES ASSUME part = "chosen" => DialogInv, [PageNext]_pageVars, part' = "chosen" PROVE DialogInv'
    OBVIOUS
  <2>1. CASE UNCHANGED pageVars
    <3>1. part = "chosen" /\ UNCHANGED <<dialog, reads>>
      BY <2>1 DEF pageVars, filesOnly
    <3> QED
      BY <3>1, DialogRests
  <2>2. CASE PageNext
    <3>1. part = "chosen" /\ Chosen!FileNext
      BY <2>2 DEF PageNext, PageStays
    <3> QED
      BY <3>1, DialogSteps
  <2> QED
    BY <2>1, <2>2
<1> QED
  BY <1>1, <1>2, PTL DEF PageSpec

(***************************************************************************)
(* The verification.  seen holds what was active during a call; whatever   *)
(* of the report is not about the call's own project is about one of them. *)
(***************************************************************************)
SourceStages == {"not-applicable", "invalid-binding", "missing", "starter-source-present", "editable-source-present"}

\* the sources of c's boards were listed when q was active
Listed(c, q) ==
    /\ c.missing = {b \in c.targets : q.docs[b] = None} /\ c.source \in SourceStages
    /\ c.source \in {"not-applicable", "editable-source-present"} <=>
          c.targets = {} \/ (c.project.misbound = {} /\ \A b \in c.targets : q.docs[b] # None /\ ~q.docs[b].starter)
    /\ c.source = "invalid-binding" => c.project.misbound # {}

\* what checkFirmware says of b when q is active
Checked(q, b) ==
    IF b \notin q.boards THEN "not-board" ELSE IF b \in q.misbound THEN "binding-invalid" ELSE q.docs[b].outcome

Lacked(b, ps) == \E q \in ps : q.docs[b] = None

\* c was judged while the projects ps were active
Judged(c, ps) ==
    /\ c.project \in ps /\ c.targets \subseteq c.project.boards /\ c.behavior = Verification!Behavior(c.project)
    /\ \E q \in ps : Listed(c, q)
    /\ \A b \in DOMAIN c.reports : b \in c.targets /\ \E q \in ps : q.docs[b] # None /\ c.reports[b] = Checked(q, b)

\* the boards of c are checked, left to be checked or were found without a source
Awaited(c, b) == \E i \in 1..Len(c.left) : c.left[i] = b
Covering(c, ps) == c.left \in Seq(c.targets) /\ \A b \in c.targets : b \in DOMAIN c.reports \/ Awaited(c, b) \/ Lacked(b, ps)

CallFields == {"pc", "project", "targets", "behavior", "source", "missing", "left", "reports"}
Underway(c, ps) == c.pc = "checking" /\ DOMAIN c = CallFields /\ Judged(c, ps) /\ Covering(c, ps)

\* ReadyIsEarned, of a report r that was made while ps were active
Ready(p, ts) == p.valid /\ Verification!Intended(p) /\ (ts # {} => p.misbound = {})
Earned(r, ps) ==
    /\ ps = {r.of} =>
          /\ r.overall = "ready" <=> Ready(r.of, r.targets) /\ \A b \in r.targets : Verification!Passes(r.of, b) /\ ~r.of.docs[b].starter
          /\ r.overall = "blocked" =>
                ~r.of.valid \/ r.of.misbound # {} \/ Verification!Behavior(r.of) = "blocked" \/ \E b \in r.targets : ~Verification!Passes(r.of, b)
    /\ r.overall = "ready" =>
          Ready(r.of, r.targets) /\ \A b \in r.targets : \E q \in ps : Verification!Passes(q, b) \/ q.docs[b] = None

\* what a call that the code goes on with may become
Fair(c, ps) ==
    /\ c.pc \in {"refused", "checking", "reported"}
    /\ c.pc = "checking" => Underway(c, ps)
    /\ c.pc = "reported" => Earned(c, ps)

VerifyInv ==
    /\ project \in VerifiedProjects /\ seen \subseteq VerifiedProjects
    /\ call.pc \in {"preparing", "checking"} => project \in seen
    /\ call.pc = "preparing" => call.project \in seen
    /\ call.pc \in {"checking", "reported"} => Fair(call, seen)

Bad == {"blocked", "invalid-binding", "failed"}
Poor == {"missing", "needs-review", "starter-source-present", "partial", "unavailable", "not-run"}
Outcomes(c) == {c.reports[b] : b \in DOMAIN c.reports}
Unwanted == Verification!Failures \cup {"partial", "unavailable"}

LEMMA OverallMeans ==
    ASSUME NEW stages
    PROVE  /\ Verification!Overall(stages) = "blocked" <=> stages \cap Bad # {}
           /\ Verification!Overall(stages) = "ready" <=> stages \cap (Bad \cup Poor) = {}
BY DEF Verification!Overall, Bad, Poor

LEMMA BehaviorMeans ==
    ASSUME NEW p \in VerifiedProjects
    PROVE  /\ Verification!Behavior(p) \in Bad => Verification!Behavior(p) = "blocked"
           /\ Verification!Behavior(p) \notin Bad \cup Poor <=> Verification!Intended(p)
BY VerificationAssumption DEF Verification!Behavior, Verification!Intended, Verification!Covered, Bad, Poor

LEMMA BrowserMeans ==
    ASSUME NEW c, NEW outcomes
    PROVE  /\ \A s \in {Verification!Browser(c, outcomes), Verification!Preflight(c, outcomes)} :
                /\ s \in Bad => outcomes \cap Verification!Failures # {} /\ c.targets # {} /\ c.missing = {}
                /\ s \in Bad \cup Poor => c.targets # {} /\ (c.missing # {} \/ outcomes \cap Unwanted # {})
           /\ c.targets # {} /\ (c.missing # {} \/ outcomes \cap Unwanted # {}) => Verification!Browser(c, outcomes) \in Bad \cup Poor
BY DEF Verification!Browser, Verification!Preflight, Verification!Failures, Unwanted, Bad, Poor

\* the stages of a report
LEMMA ReportMeans ==
    ASSUME NEW c, NEW ps \in SUBSET VerifiedProjects, Judged(c, ps)
    PROVE  LET r == Verification!Report(c) IN
           /\ r.pc = "reported" /\ r.of = c.project /\ r.targets = c.targets
           /\ r.overall = "ready" <=> /\ c.project.valid /\ Verification!Intended(c.project) /\ c.source \notin Bad \cup Poor
                                      /\ c.targets # {} => c.missing = {} /\ Outcomes(c) \cap Unwanted = {}
           /\ r.overall = "blocked" => \/ ~c.project.valid \/ Verification!Behavior(c.project) = "blocked" \/ c.source \in Bad
                                       \/ Outcomes(c) \cap Verification!Failures # {}
<1> DEFINE r == Verification!Report(c)
           wiring == IF c.project.valid THEN "ready" ELSE "blocked"
           browser == Verification!Browser(c, Outcomes(c))
           preflight == Verification!Preflight(c, Outcomes(c))
           stages == {wiring, c.behavior, c.source, browser, preflight}
<1>1. r = [pc |-> "reported", of |-> c.project, targets |-> c.targets, overall |-> Verification!Overall(stages)]
  BY DEF Verification!Report, Outcomes
<1>2. c.project \in VerifiedProjects /\ c.behavior = Verification!Behavior(c.project)
  BY DEF Judged
<1>3. (wiring \in Bad <=> ~c.project.valid) /\ wiring \notin Poor
  BY DEF Bad, Poor
<1>4. /\ Verification!Behavior(c.project) \in Bad => Verification!Behavior(c.project) = "blocked"
      /\ Verification!Behavior(c.project) \notin Bad \cup Poor <=> Verification!Intended(c.project)
  BY <1>2, BehaviorMeans
<1>5. /\ browser \in Bad \/ preflight \in Bad => Outcomes(c) \cap Verification!Failures # {}
      /\ browser \in Bad \cup Poor \/ preflight \in Bad \cup Poor <=> c.targets # {} /\ (c.missing # {} \/ Outcomes(c) \cap Unwanted # {})
  BY BrowserMeans
<1>6. /\ stages \cap Bad # {} <=> wiring \in Bad \/ c.behavior \in Bad \/ c.source \in Bad \/ browser \in Bad \/ preflight \in Bad
      /\ stages \cap (Bad \cup Poor) = {} <=> wiring \notin Bad \cup Poor /\ c.behavior \notin Bad \cup Poor /\ c.source \notin Bad \cup Poor
                                              /\ browser \notin Bad \cup Poor /\ preflight \notin Bad \cup Poor
  OBVIOUS
<1>7. /\ r.overall = "blocked" <=> stages \cap Bad # {}
      /\ r.overall = "ready" <=> stages \cap (Bad \cup Poor) = {}
  BY <1>1, OverallMeans
<1> HIDE DEF wiring, browser, preflight, stages
<1>8. r.pc = "reported" /\ r.of = c.project /\ r.targets = c.targets
  BY <1>1
<1> HIDE DEF r
<1>9. r.overall = "ready" <=> /\ c.project.valid /\ Verification!Intended(c.project) /\ c.source \notin Bad \cup Poor
                              /\ c.targets # {} => c.missing = {} /\ Outcomes(c) \cap Unwanted = {}
  BY <1>2, <1>3, <1>4, <1>5, <1>6, <1>7
<1>10. r.overall = "blocked" => \/ ~c.project.valid \/ Verification!Behavior(c.project) = "blocked" \/ c.source \in Bad
                                \/ Outcomes(c) \cap Verification!Failures # {}
  BY <1>2, <1>3, <1>4, <1>5, <1>6, <1>7
<1> QED
  BY <1>8, <1>9, <1>10 DEF r

LEMMA CheckedMeans ==
    ASSUME NEW q \in VerifiedProjects, NEW b, q.docs[b] # None
    PROVE  /\ Checked(q, b) \notin Unwanted <=> Verification!Passes(q, b)
           /\ Checked(q, b) \in Verification!Failures => ~Verification!Passes(q, b)
BY VerificationAssumption DEF Checked, Verification!Passes, Verification!Failures, Unwanted

LEMMA ListedMeans ==
    ASSUME NEW c, NEW q, Listed(c, q)
    PROVE  /\ c.source \notin Bad \cup Poor <=> c.source \in {"not-applicable", "editable-source-present"}
           /\ c.source \in Bad => c.project.misbound # {}
BY DEF Listed, SourceStages, Bad, Poor

\* a report that no board keeps waiting
LEMMA ReportEarned ==
    ASSUME NEW c, NEW ps \in SUBSET VerifiedProjects, Judged(c, ps), \A b \in c.targets : b \in DOMAIN c.reports \/ Lacked(b, ps)
    PROVE  Fair(Verification!Report(c), ps)
<1> DEFINE r == Verification!Report(c)
           p == c.project
<1>1. /\ r.pc = "reported" /\ r.of = p /\ r.targets = c.targets
      /\ r.overall = "ready" <=> /\ p.valid /\ Verification!Intended(p) /\ c.source \notin Bad \cup Poor
                                 /\ c.targets # {} => c.missing = {} /\ Outcomes(c) \cap Unwanted = {}
      /\ r.overall = "blocked" => \/ ~p.valid \/ Verification!Behavior(p) = "blocked" \/ c.source \in Bad
                                  \/ Outcomes(c) \cap Verification!Failures # {}
  BY ReportMeans
<1> HIDE DEF r
<1>2. PICK listed \in ps : Listed(c, listed)
  BY DEF Judged
<1>3. /\ c.source \notin Bad \cup Poor <=> c.source \in {"not-applicable", "editable-source-present"}
      /\ c.source \in Bad => p.misbound # {}
  BY <1>2, ListedMeans
<1>4. \A b \in DOMAIN c.reports :
         b \in c.targets /\ c.reports[b] \in Outcomes(c) /\ \E q \in ps : q.docs[b] # None /\ c.reports[b] = Checked(q, b)
  BY DEF Judged, Outcomes
<1>5. r.overall = "ready" => Ready(p, c.targets) /\ \A b \in c.targets : \E q \in ps : Verification!Passes(q, b) \/ q.docs[b] = None
  <2> SUFFICES ASSUME r.overall = "ready"
               PROVE  Ready(p, c.targets) /\ \A b \in c.targets : \E q \in ps : Verification!Passes(q, b) \/ q.docs[b] = None
    OBVIOUS
  <2>1. Ready(p, c.targets)
    BY <1>1, <1>2, <1>3 DEF Ready, Listed
  <2>2. ASSUME NEW b \in c.targets PROVE \E q \in ps : Verification!Passes(q, b) \/ q.docs[b] = None
    <3>1. CASE Lacked(b, ps)
      BY <3>1 DEF Lacked
    <3>2. CASE b \in DOMAIN c.reports
      <4>1. PICK q \in ps : q.docs[b] # None /\ c.reports[b] = Checked(q, b)
        BY <1>4, <3>2
      <4>2. Checked(q, b) \notin Unwanted
        BY <1>1, <1>4, <2>2, <3>2, <4>1
      <4> QED
        BY <4>1, <4>2, CheckedMeans
    <3> QED
      BY <3>1, <3>2
  <2> QED
    BY <2>1, <2>2
<1>6. ASSUME ps = {p}
      PROVE  /\ r.overall = "ready" <=> Ready(p, c.targets) /\ \A b \in c.targets : Verification!Passes(p, b) /\ ~p.docs[b].starter
             /\ r.overall = "blocked" =>
                   ~p.valid \/ p.misbound # {} \/ Verification!Behavior(p) = "blocked" \/ \E b \in c.targets : ~Verification!Passes(p, b)
  <2>1. p \in VerifiedProjects /\ Listed(c, p)
    BY <1>2, <1>6
  <2>2. \A b \in DOMAIN c.reports : b \in c.targets /\ p.docs[b] # None /\ c.reports[b] = Checked(p, b)
    BY <1>4, <1>6
  <2>3. \A b \in c.targets : p.docs[b] # None => b \in DOMAIN c.reports
    BY <1>6 DEF Lacked
  <2>4. ASSUME Ready(p, c.targets), \A b \in c.targets : Verification!Passes(p, b) /\ ~p.docs[b].starter PROVE r.overall = "ready"
    <3>1. \A b \in c.targets : p.docs[b] # None
      BY <2>4 DEF Verification!Passes
    <3>2. c.source \notin Bad \cup Poor /\ c.missing = {}
      BY <1>3, <2>1, <2>4, <3>1 DEF Listed, Ready
    <3>3. \A b \in DOMAIN c.reports : c.reports[b] \notin Unwanted
      BY <2>1, <2>2, <2>4, CheckedMeans
    <3> QED
      BY <1>1, <2>4, <3>2, <3>3 DEF Outcomes, Ready
  <2>5. ASSUME r.overall = "ready" PROVE Ready(p, c.targets) /\ \A b \in c.targets : Verification!Passes(p, b) /\ ~p.docs[b].starter
    <3>1. Ready(p, c.targets) /\ c.source \in {"not-applicable", "editable-source-present"}
      BY <1>1, <1>3, <1>5, <2>5
    <3>2. \A b \in c.targets : p.docs[b] # None /\ ~p.docs[b].starter
      BY <2>1, <3>1 DEF Listed
    <3>3. \A b \in c.targets : Verification!Passes(p, b)
      BY <1>5, <1>6, <2>5, <3>2
    <3> QED
      BY <3>1, <3>2, <3>3
  <2>6. ASSUME Outcomes(c) \cap Verification!Failures # {} PROVE \E b \in c.targets : ~Verification!Passes(p, b)
    <3>1. PICK b \in DOMAIN c.reports : c.reports[b] \in Verification!Failures
      BY <2>6 DEF Outcomes
    <3> QED
      BY <2>1, <2>2, <3>1, CheckedMeans
  <2> QED
    BY <1>1, <1>3, <2>4, <2>5, <2>6
<1> QED
  BY <1>1, <1>5, <1>6 DEF Fair, Earned, r

LEMMA Sequenced ==
    ASSUME NEW S, IsFiniteSet(S)
    PROVE  /\ Verification!SetToSeq(S) \in Seq(S)
           /\ \A b \in S : \E i \in 1..Len(Verification!SetToSeq(S)) : Verification!SetToSeq(S)[i] = b
<1>1. Verification!Cardinality(S) = Cardinality(S)
  BY DEF Verification!Cardinality, Cardinality
<1>2. Cardinality(S) \in Nat /\ ExistsBijection(1..Cardinality(S), S)
  BY FS_CardinalityType
<1> DEFINE n == Cardinality(S)
           s == Verification!SetToSeq(S)
<1>3. PICK f \in [1..n -> S] : \A a, b \in 1..n : f[a] = f[b] => a = b
  BY <1>2 DEF ExistsBijection, Bijection, Injection, IsInjective
<1>4. s \in [1..n -> S] /\ \A a, b \in 1..n : s[a] = s[b] => a = b
  <2>1. Verification!IsInjective(f)
    BY <1>3 DEF Verification!IsInjective
  <2>2. s \in [1..n -> S] /\ Verification!IsInjective(s)
    BY <1>1, <1>3, <2>1 DEF Verification!SetToSeq
  <2> HIDE DEF s
  <2> QED
    BY <2>2 DEF Verification!IsInjective
<1> HIDE DEF s
<1>5. IsFiniteSet(1..n) /\ Cardinality(1..n) = n
  BY <1>2, FS_Interval
<1>6. s \in Injection(1..n, S)
  BY <1>4 DEF Injection, IsInjective
<1>7. s \in Surjection(1..n, S)
  BY <1>5, <1>6, FS_Injection
<1>8. Len(s) = n /\ s \in Seq(S)
  BY <1>2, <1>4
<1> QED
  BY <1>7, <1>8 DEF Surjection, s

LEMMA LeastAt == ASSUME NEW T \in SUBSET Nat, T # {} PROVE \E n \in T : \A m \in T : n <= m
<1> DEFINE R == OpToRel(<, Nat)
<1>1. \A m, n \in Nat : <<m, n>> \in R <=> m < n
  BY DEF OpToRel
<1>2. \E n \in T : \A m \in T : ~(<<m, n>> \in R)
  <2>1. IsWellFoundedOn(R, Nat)
    BY NatLessThanWellFounded, Zenon
  <2> HIDE DEF R
  <2> QED
    BY <2>1, WFMin
<1> HIDE DEF R
<1>3. PICK n \in T : \A m \in T : ~(<<m, n>> \in R)
  BY <1>2
<1>4. \A m \in T : m \in Nat /\ n \in Nat /\ ~(m < n)
  BY <1>1, <1>3
<1>5. \A m \in T : n <= m
  BY <1>4
<1> QED
  BY <1>5

\* the boards before the first one with a source are passed over, its own answer is awaited
LEMMA CheckingFair ==
    ASSUME NEW c, NEW ps \in SUBSET VerifiedProjects, project \in ps, c.pc = "checking", DOMAIN c = CallFields, Judged(c, ps), Covering(c, ps)
    PROVE  Fair(Verification!Checking(c), ps)
<1> DEFINE present == {i \in DOMAIN c.left : project.docs[c.left[i]] # None}
<1>1. c.left \in Seq(c.targets) /\ DOMAIN c.left = 1..Len(c.left) /\ Len(c.left) \in Nat
  BY DEF Covering
<1>2. CASE present = {}
  <2>1. Verification!Checking(c) = Verification!Report(c)
    BY <1>2 DEF Verification!Checking
  <2>2. \A b \in c.targets : Awaited(c, b) => Lacked(b, ps)
    BY <1>1, <1>2 DEF Awaited, Lacked
  <2>3. \A b \in c.targets : b \in DOMAIN c.reports \/ Lacked(b, ps)
    BY <2>2 DEF Covering
  <2> QED
    BY <2>1, <2>3, ReportEarned
<1>3. CASE present # {}
  <2> DEFINE i == CHOOSE x \in present : \A y \in present : x <= y
             b == c.left[i]
             d == Verification!Checking(c)
             rest == SubSeq(c.left, i + 1, Len(c.left))
  <2>1. i \in present /\ \A y \in present : i <= y
    <3>1. present \in SUBSET Nat
      BY <1>1
    <3> QED
      BY <1>3, <3>1, LeastAt
  <2>2. d = [c EXCEPT !.pc = "checking", !.left = rest,
                      !.reports = [x \in DOMAIN c.reports \cup {b} |-> IF x = b THEN Verification!CheckFirmware(b) ELSE c.reports[x]]]
    BY <1>3 DEF Verification!Checking
  <2> HIDE DEF i, d
  <2>3. i \in 1..Len(c.left) /\ b \in c.targets /\ project.docs[b] # None
    BY <1>1, <2>1
  <2>4. /\ DOMAIN d = CallFields /\ d.pc = "checking" /\ d.left = rest
        /\ d.reports = [x \in DOMAIN c.reports \cup {b} |-> IF x = b THEN Verification!CheckFirmware(b) ELSE c.reports[x]]
        /\ d.project = c.project /\ d.targets = c.targets /\ d.behavior = c.behavior /\ d.source = c.source /\ d.missing = c.missing
    BY <2>2 DEF CallFields
  <2>5. Verification!CheckFirmware(b) = Checked(project, b)
    BY DEF Verification!CheckFirmware, Checked
  <2>6. Judged(d, ps)
    <3>1. \A q : Listed(c, q) <=> Listed(d, q)
      BY <2>4 DEF Listed
    <3>2. \A x \in DOMAIN d.reports : x \in d.targets /\ \E q \in ps : q.docs[x] # None /\ d.reports[x] = Checked(q, x)
      <4> SUFFICES ASSUME NEW x \in DOMAIN d.reports PROVE x \in d.targets /\ \E q \in ps : q.docs[x] # None /\ d.reports[x] = Checked(q, x)
        OBVIOUS
      <4>1. CASE x = b
        BY <2>3, <2>4, <2>5, <4>1
      <4>2. CASE x # b
        <5>1. x \in DOMAIN c.reports /\ d.reports[x] = c.reports[x]
          BY <2>4, <4>2
        <5> QED
          BY <2>4, <5>1 DEF Judged
      <4> QED
        BY <4>1, <4>2
    <3> QED
      BY <2>4, <3>1, <3>2 DEF Judged
  <2>7. /\ rest \in Seq(c.targets) /\ Len(rest) = Len(c.left) - i
        /\ \A n \in 1..Len(rest) : rest[n] = c.left[i + n]
    <3>1. PICK m \in Int, n \in Int : m = i + 1 /\ n = Len(c.left)
      BY <1>1, <2>3
    <3>2. \A k \in m..n : c.left[k] \in c.targets
      BY <1>1, <2>3, <3>1
    <3> DEFINE s == SubSeq(c.left, m, n)
    <3>3. /\ s \in Seq(c.targets) /\ Len(s) = (IF m <= n THEN n - m + 1 ELSE 0)
          /\ \A k \in 1..(n - m + 1) : s[k] = c.left[m + k - 1]
      <4>1. PICK l, S : l = c.left /\ S = c.targets
        OBVIOUS
      <4>2. \A k \in m..n : l[k] \in S
        BY <3>2, <4>1
      <4>3. /\ SubSeq(l, m, n) \in Seq(S) /\ Len(SubSeq(l, m, n)) = (IF m <= n THEN n - m + 1 ELSE 0)
            /\ \A k \in 1..(n - m + 1) : SubSeq(l, m, n)[k] = l[m + k - 1]
        BY <4>2, SubSeqProperties
      <4> QED
        BY <4>1, <4>3
    <3>4. rest = s
      BY <3>1
    <3> HIDE DEF s
    <3> HIDE DEF rest
    <3> QED
      BY <1>1, <2>3, <3>1, <3>3, <3>4
  <2> HIDE DEF rest
  <2>8. ASSUME NEW x \in c.targets, Awaited(c, x), x # b PROVE Lacked(x, ps) \/ Awaited(d, x)
    <3>1. PICK n \in 1..Len(c.left) : c.left[n] = x
      BY <2>8 DEF Awaited
    <3>2. CASE n < i
      <4>1. n \notin present
        BY <1>1, <2>1, <2>3, <3>2
      <4> QED
        BY <1>1, <3>1, <4>1 DEF Lacked
    <3>3. CASE i < n
      <4>1. n - i \in 1..Len(rest) /\ rest[n - i] = c.left[i + (n - i)] /\ i + (n - i) = n
        BY <1>1, <2>3, <2>7, <3>3
      <4> QED
        BY <2>4, <3>1, <4>1 DEF Awaited
    <3>4. n # i
      BY <2>8, <3>1
    <3> QED
      BY <1>1, <2>3, <3>2, <3>3, <3>4
  <2>9. Covering(d, ps)
    <3>1. \A x \in c.targets : x \in DOMAIN d.reports \/ Awaited(d, x) \/ Lacked(x, ps)
      BY <2>4, <2>8 DEF Covering
    <3> QED
      BY <2>4, <2>7, <3>1 DEF Covering
  <2> QED
    BY <2>4, <2>6, <2>9 DEF Fair, Underway, d
<1> QED
  BY <1>2, <1>3

LEMMA ContinuedFair ==
    ASSUME NEW p, NEW request, NEW ps \in SUBSET VerifiedProjects, p \in ps, project \in ps
    PROVE  Fair(Verification!Continued(p, request), ps)
<1> DEFINE targets == IF request = None THEN p.boards ELSE p.boards \cap {request}
           c == [pc |-> "checking", project |-> p, targets |-> targets, behavior |-> Verification!Behavior(p),
                 source |-> Verification!Source(p, targets), missing |-> Verification!Lacking(targets),
                 left |-> Verification!SetToSeq(targets), reports |-> <<>>]
           d == Verification!Continued(p, request)
<1>1. CASE request # None /\ targets = {}
  BY <1>1 DEF Verification!Continued, Fair
<1>2. CASE ~(request # None /\ targets = {})
  <2>1. d = Verification!Checking(c)
    BY <1>2 DEF Verification!Continued
  <2>2. targets \subseteq p.boards /\ IsFiniteSet(targets)
    BY VerificationAssumption, FS_Subset
  <2> DEFINE left == Verification!SetToSeq(targets)
  <2>3. left \in Seq(targets) /\ \A b \in targets : \E i \in 1..Len(left) : left[i] = b
    BY <2>2, Sequenced
  <2>4. /\ c.pc = "checking" /\ DOMAIN c = CallFields /\ c.project = p /\ c.targets = targets /\ c.left = left /\ DOMAIN c.reports = {}
        /\ c.behavior = Verification!Behavior(p) /\ c.source = Verification!Source(p, targets) /\ c.missing = Verification!Lacking(targets)
    BY DEF CallFields
  <2> HIDE DEF targets, left, c
  <2>5. Listed(c, project)
    BY <2>4 DEF Listed, Verification!Source, Verification!Lacking, SourceStages
  <2>6. Judged(c, ps)
    BY <2>2, <2>4, <2>5 DEF Judged
  <2>7. Covering(c, ps)
    BY <2>3, <2>4 DEF Covering, Awaited
  <2> QED
    BY <2>1, <2>4, <2>6, <2>7, CheckingFair
<1> QED
  BY <1>1, <1>2

LEMMA MoreSeen ==
    ASSUME NEW c, NEW ps, NEW qs, ps \subseteq qs, Underway(c, ps) PROVE Underway(c, qs)
<1>1. c.project \in qs /\ \E q \in qs : Listed(c, q)
  BY DEF Underway, Judged
<1>2. \A b \in DOMAIN c.reports : b \in c.targets /\ \E q \in qs : q.docs[b] # None /\ c.reports[b] = Checked(q, b)
  BY DEF Underway, Judged
<1>3. \A b : Lacked(b, ps) => Lacked(b, qs)
  BY DEF Lacked
<1> QED
  BY <1>1, <1>2, <1>3 DEF Underway, Judged, Covering

LEMMA VerificationStarts == ASSUME Verification!VerificationInit PROVE VerifyInv
BY DEF Verification!VerificationInit, Verification!Idle, VerifyInv

LEMMA VerificationSteps == ASSUME VerifyInv, Verification!VerificationNext PROVE VerifyInv'
<1>1. ASSUME NEW request, Verification!VerifyProject(request) PROVE VerifyInv'
  <2>1. project' = project /\ seen' = {project} /\ project \in VerifiedProjects
    BY <1>1 DEF Verification!VerifyProject, VerifyInv
  <2>2. CASE call' = [pc |-> "preparing", project |-> project, request |-> request]
    BY <2>1, <2>2 DEF VerifyInv
  <2>3. CASE call' = Verification!Continued(project, request)
    <3>1. Fair(call', seen')
      BY <2>1, <2>3, ContinuedFair
    <3> QED
      BY <2>1, <3>1 DEF VerifyInv, Fair
  <2> QED
    BY <1>1, <2>2, <2>3 DEF Verification!VerifyProject
<1>2. CASE Verification!PlanIsPrepared
  <2>1. /\ UNCHANGED <<project, seen>> /\ call' = Verification!Continued(call.project, call.request)
        /\ project \in seen /\ call.project \in seen /\ seen \subseteq VerifiedProjects
    BY <1>2 DEF Verification!PlanIsPrepared, VerifyInv
  <2>2. Fair(call', seen')
    BY <2>1, ContinuedFair
  <2> QED
    BY <2>1, <2>2 DEF VerifyInv, Fair
<1>3. CASE Verification!CheckReturns
  <2>1. /\ UNCHANGED <<project, seen>> /\ call' = Verification!Checking(call)
        /\ project \in seen /\ seen \subseteq VerifiedProjects /\ Underway(call, seen)
    BY <1>3 DEF Verification!CheckReturns, VerifyInv, Fair
  <2>2. Fair(call', seen')
    BY <2>1, CheckingFair DEF Underway
  <2> QED
    BY <2>1, <2>2 DEF VerifyInv, Fair
<1>4. CASE Verification!ReportIsRead
  BY <1>4 DEF Verification!ReportIsRead, Verification!Idle, VerifyInv
<1>5. ASSUME NEW p \in VerifiedProjects, Verification!ProjectBecomes(p) PROVE VerifyInv'
  <2>1. /\ project' = p /\ call' = call
        /\ seen' = IF call.pc \in {"preparing", "checking"} THEN seen \cup {p} ELSE seen
    BY <1>5 DEF Verification!ProjectBecomes
  <2>2. call.pc \in {"checking", "reported"} => Fair(call, seen')
    <3>1. CASE call.pc = "checking"
      BY <2>1, <3>1, MoreSeen DEF VerifyInv, Fair
    <3>2. CASE call.pc = "reported"
      BY <2>1, <3>2 DEF VerifyInv
    <3> QED
      BY <3>1, <3>2
  <2> QED
    BY <2>1, <2>2 DEF VerifyInv
<1> QED
  BY <1>1, <1>2, <1>3, <1>4, <1>5 DEF Verification!VerificationNext

LEMMA VerifyInvHolds == ASSUME VerifyInv PROVE Verification!ReadyIsEarned
BY DEF VerifyInv, Fair, Earned, Ready, Verification!ReadyIsEarned

\* A report says "ready" when graph, plan and every board's own source are, in a
\* project that was active during the call (projectVerification.ts), whatever is
\* edited or opened while plan and boards are checked.
THEOREM VerificationSound == PageSpec => [](part = "verification" => VerifyInv)
<1>1. PageInit => (part = "verification" => VerifyInv)
  BY VerificationStarts DEF PageInit, PageStarts
<1>2. (part = "verification" => VerifyInv) /\ [PageNext]_pageVars => (part = "verification" => VerifyInv)'
  <2> SUFFICES ASSUME part = "verification" => VerifyInv, [PageNext]_pageVars, part' = "verification" PROVE VerifyInv'
    OBVIOUS
  <2>1. CASE UNCHANGED pageVars
    <3>1. part = "verification" /\ UNCHANGED <<project, call, seen>>
      BY <2>1 DEF pageVars, pageShared, verificationOnly
    <3> QED
      BY <3>1 DEF VerifyInv
  <2>2. CASE PageNext
    <3>1. part = "verification" /\ Verification!VerificationNext
      BY <2>2 DEF PageNext, PageStays
    <3> QED
      BY <3>1, VerificationSteps
  <2> QED
    BY <2>1, <2>2
<1> QED
  BY <1>1, <1>2, PTL DEF PageSpec

(***************************************************************************)
(* What the user confirms or trusts.                                       *)
(***************************************************************************)
\* What the user confirms or trusts is what the page shows: the deletions of the
\* studio, the project to import and the report that a project is ready.
THEOREM ConfirmationsSound == PageSpec => []ConfirmedAsShown
<1>1. /\ part = "studio" => StudioInv
      /\ part = "chosen" => DialogInv
      /\ part = "verification" => VerifyInv
      => ConfirmedAsShown
  BY DialogHolds, VerifyInvHolds DEF StudioInv, ConfirmedAsShown
<1> QED
  BY <1>1, StudioSound, DialogSound, VerificationSound, PTL
=============================================================================
