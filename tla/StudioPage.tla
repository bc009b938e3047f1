------------------------------ MODULE StudioPage ------------------------------
(***************************************************************************)
(* The studio page and what it deletes: the project menus                  *)
(* (pages/StudioPage.tsx), the canvas (components/canvas/HardwareCanvas.tsx *)
(* and HardwareNode.tsx), the inspector, the project panel and the list of *)
(* problems, over the selection and the wire in focus                      *)
(* (store/useSelectionStore.ts, useGraphFocusStore.ts).  Every deletion     *)
(* takes two clicks: the first arms a button, the second deletes what the  *)
(* button is for at that moment (components/DestructiveConfirmButton.tsx). *)
(* Agents, other tabs and the account change the same stores in between.   *)
(*                                                                         *)
(* A graph is the ids of its parts and wires.  Copies of a project keep    *)
(* the ids of its parts and wires.  React renders what a handler wrote,    *)
(* and runs the effects of that render, before the next click: both belong *)
(* to the step.  The collapsed right panel is the tab "code", which deletes *)
(* nothing; names, layout and the mobile copy of the panel are left out.   *)
(***************************************************************************)
CONSTANTS
    None, Users, Projects, Parts,
    Ends,       \* wire -> <<source, target>>
    Graphs      \* the graphs that files, tools and other tabs bring
Wires == DOMAIN Ends

VARIABLES
    account, ready,     \* the session; its room is hydrated
    graphs, current,    \* project -> graph or None; activeProjectId
    selected,           \* activeComponentId
    focus,              \* activeConnectionId
    picked,             \* the node that React Flow itself shows as selected
    route, tab, menus,  \* the studio or another page; the right panel's tab; the open menus
    primed,             \* button -> None or ghost: what it was armed for
    done                \* ghost: the deletion that the last step confirmed

studioVars == <<account, ready, graphs, current, selected, focus, picked, route, tab, menus, primed, done>>
session == <<account, ready>>
place == <<route, tab>>
room == <<graphs, current>>

Empty == [parts |-> {}, wires |-> {}]
Open == graphs[current]
Stored == {p \in Projects : graphs[p] # None}
Without(g, part) ==
    [parts |-> g.parts \ {part}, wires |-> {w \in g.wires : part \notin {Ends[w][1], Ends[w][2]}}]
Unwired(g, wire) == [g EXCEPT !.wires = @ \ {wire}]

-----------------------------------------------------------------------------
\* RequireAuth: the page is mounted only for a session whose room is hydrated
Shown == account # None /\ ready /\ route = "studio"

\* the button of the inspector, of a node, of a wire and of the project panel;
\* those of a project's row and of the workspace menu
Confirming == {"part", "node", "wire", "panel"}
MenuOf == [delete |-> "projects", clear |-> "overflow"]
Buttons == Confirming \cup DOMAIN MenuOf

\* targetKey of a mounted DestructiveConfirmButton, None where it is not mounted
TargetKey(b) ==
    IF ~Shown THEN None
    ELSE CASE b = "part" -> IF tab = "inspect" /\ selected \in Open.parts THEN selected ELSE None
           [] b = "node" -> picked
           [] b = "wire" -> IF focus \in Open.wires THEN focus ELSE None
           [] b = "panel" -> IF tab = "project" THEN current ELSE None

\* What a step leaves armed: the canvas is mounted anew for another project
\* (key), the inspector is not; menus disarm when they close and when
\* another project opens.
Kept_AnyTarget(b) ==
    /\ Shown /\ Shown'
    /\ b \in Confirming => TargetKey(b) # None /\ TargetKey(b)' # None
    /\ b \in {"node", "wire"} \cup DOMAIN MenuOf => current' = current
    /\ b \in DOMAIN MenuOf => MenuOf[b] \in menus'
Kept(b) ==
    /\ Shown /\ Shown'
    /\ b \in Confirming => TargetKey(b) # None /\ TargetKey(b)' = TargetKey(b)
    /\ b \in {"node", "wire"} \cup DOMAIN MenuOf => current' = current
    /\ b \in DOMAIN MenuOf => MenuOf[b] \in menus'

\* The rest of a step that writes the wire f into focus, clicks node p, leaves
\* the menus m open and the buttons as in a: the canvas drops a focus without
\* its wire, and its nodes are made anew, none of them selected, when the
\* project or the focus changes.
Renders(f, p, m, a) ==
    /\ focus' = IF Shown' /\ f \notin Open'.wires THEN None ELSE f
    /\ picked' = IF Shown' /\ UNCHANGED <<room, focus>> THEN p ELSE None
    /\ menus' = IF Shown' THEN m ELSE {}
    /\ primed' = [b \in Buttons |-> IF a[b] # None /\ Kept(b) THEN a[b] ELSE None]
Passes(f) == Renders(f, picked, menus, primed) /\ done' = None

Target(key, project) == [key |-> key, project |-> project, account |-> account, moved |-> FALSE]
Confirmed(b, key, project) == done' = [armed |-> primed[b], hit |-> Target(key, project)]

-----------------------------------------------------------------------------
(***************************************************************************)
(* The store's operations that the page and the tools call.                *)
(***************************************************************************)
Sets(g) == graphs' = [graphs EXCEPT ![current] = g] /\ UNCHANGED current
RemoveComponent(part) == Sets(Without(Open, part))
DisconnectPorts(wire) == Sets(Unwired(Open, wire))
ClearProject == Sets(Empty)
Opens(p, g) == graphs' = [graphs EXCEPT ![p] = g] /\ current' = p
AddsProject(g) == \E p \in Projects \ Stored : Opens(p, g)
DeleteProject(p) ==
    /\ graphs' = [graphs EXCEPT ![p] = None]
    /\ current' \in IF p = current THEN Stored \ {p} ELSE {current}
Resets(m, a) == selected' = None /\ Renders(None, picked, m, a)     \* resetProjectRuntime

(***************************************************************************)
(* Clicks.  A click outside a menu closes it, unless the canvas took it.   *)
(***************************************************************************)
Stays == UNCHANGED <<session, place>>
Idle == done' = None /\ Stays
OnNodeClick(part) ==
    /\ Shown /\ part \in Open.parts
    /\ selected' = part /\ UNCHANGED room
    /\ Idle
    /\ \E m \in {menus, {}} : Renders(None, part, m, primed)
\* Escape, where React Flow drops its selection and the page closes its menus;
\* a click next to them does only the latter
Escape ==
    /\ Shown /\ UNCHANGED <<selected, room>>
    /\ Idle /\ \E p \in {picked, None} : Renders(focus, p, {}, primed)
OnPaneClick ==
    /\ Shown /\ selected' = None /\ UNCHANGED room
    /\ Idle
    /\ \E m \in {menus, {}} : Renders(None, None, m, primed)
OnEdgeClick(wire) ==
    /\ Shown /\ wire \in Open.wires
    /\ selected' = Ends[wire][1] /\ UNCHANGED room
    /\ Idle
    /\ \E m \in {menus, {}} : Renders(wire, None, m, primed)
ComponentRow(part) ==
    /\ Shown /\ tab = "project" /\ part \in Open.parts
    /\ selected' = part /\ UNCHANGED room
    /\ Idle /\ Renders(focus, picked, {}, primed)
WireRow(wire) ==
    /\ Shown /\ tab = "project" /\ wire \in Open.wires
    /\ selected' = Ends[wire][1] /\ UNCHANGED room
    /\ Idle /\ Renders(wire, picked, {}, primed)
\* a problem names a wire, a part, both or neither that the graph still has
FocusIssue(wire, part) ==
    /\ Shown /\ wire \in Open.wires \cup {None} /\ part \in Open.parts \cup {None}
    /\ selected' = IF part # None THEN part ELSE selected
    /\ UNCHANGED room
    /\ Idle /\ Renders(wire, picked, {}, primed)

\* the first click, and the second: the button is disarmed before it deletes, which may throw
Arms(b) ==
    /\ TargetKey(b) # None /\ primed[b] = None
    /\ UNCHANGED <<selected, room>>
    /\ Idle /\ Renders(focus, picked, {}, [primed EXCEPT ![b] = Target(TargetKey(b), current)])
Fails(b) ==
    /\ TargetKey(b) # None /\ primed[b] # None
    /\ UNCHANGED <<selected, room>>
    /\ Idle /\ Renders(focus, picked, {}, [primed EXCEPT ![b] = None])
DeletesPart(b) ==
    /\ b \in {"part", "node"} /\ TargetKey(b) # None /\ primed[b] # None
    /\ RemoveComponent(TargetKey(b)) /\ UNCHANGED selected /\ Stays
    /\ Renders(focus, picked, {}, [primed EXCEPT ![b] = None])
    /\ Confirmed(b, TargetKey(b), current)
DeletesWire ==
    /\ TargetKey("wire") # None /\ primed["wire"] # None
    /\ DisconnectPorts(TargetKey("wire")) /\ UNCHANGED selected /\ Stays
    /\ Renders(None, picked, {}, [primed EXCEPT !["wire"] = None])
    /\ Confirmed("wire", TargetKey("wire"), current)
ClearsPanel ==
    /\ TargetKey("panel") # None /\ primed["panel"] # None
    /\ ClearProject /\ Stays /\ Resets({}, [primed EXCEPT !["panel"] = None])
    /\ Confirmed("panel", current, current)

(***************************************************************************)
(* The project menu and the workspace menu.  A store call that throws      *)
(* leaves its menu open and armed.                                         *)
(***************************************************************************)
ToggleMenu(m) ==
    /\ Shown /\ UNCHANGED <<selected, room>>
    /\ Idle /\ Renders(focus, picked, IF m \in menus THEN {} ELSE {m}, primed)
InMenu(m) == Shown /\ m \in menus
ArmedFor(b, p) == primed[b] # None /\ primed[b].key = p
ArmsDelete(p) ==
    /\ InMenu("projects") /\ p \in Stored /\ Stored # {p}
    /\ ~ArmedFor("delete", p)
    /\ UNCHANGED <<selected, room>>
    /\ Idle /\ Renders(focus, picked, {"projects"}, [primed EXCEPT !["delete"] = Target(p, p)])
DeletesProject(p) ==
    /\ InMenu("projects") /\ p \in Stored /\ Stored # {p}
    /\ ArmedFor("delete", p)
    /\ DeleteProject(p) /\ Stays /\ Resets({"projects"}, [primed EXCEPT !["delete"] = None])
    /\ Confirmed("delete", p, p)
SwitchProjectFromMenu(p) ==
    /\ InMenu("projects") /\ p \in Stored
    /\ current' = p /\ UNCHANGED graphs
    /\ Idle /\ Resets({"projects"}, [primed EXCEPT !["delete"] = None])
CreateProjectFromMenu ==
    /\ InMenu("projects") /\ AddsProject(Empty)
    /\ Idle /\ Resets({"projects"}, [primed EXCEPT !["delete"] = None])
DuplicateProjectFromMenu ==
    /\ InMenu("projects") /\ AddsProject(Open) /\ Idle /\ Resets({}, primed)
\* the store is asked, not the render, for the project that is cleared
ArmsClear ==
    /\ InMenu("overflow") /\ ~ArmedFor("clear", current)
    /\ UNCHANGED <<selected, room>>
    /\ Idle /\ Renders(focus, picked, {"overflow"}, [primed EXCEPT !["clear"] = Target(current, current)])
ClearsFromMenu ==
    /\ InMenu("overflow") /\ ArmedFor("clear", current)
    /\ ClearProject /\ Stays /\ Resets({}, [primed EXCEPT !["clear"] = None])
    /\ Confirmed("clear", current, current)

(***************************************************************************)
(* Other edits: dropped, wired and imported by the user, made by an agent. *)
(***************************************************************************)
SetTab(t) ==
    /\ Shown /\ t # tab /\ tab' = t
    /\ UNCHANGED <<selected, room, session, route>>
    /\ Renders(focus, picked, {}, primed) /\ done' = None
Edits(g) == Shown /\ g # Open /\ Sets(g) /\ UNCHANGED selected /\ Stays /\ Passes(focus)
ImportsFile(g) == Shown /\ AddsProject(g) /\ Idle /\ Resets({}, primed)

ToolRuns == account # None /\ ready /\ Stays
ToolAdds(part) ==
    /\ ToolRuns /\ part \notin Open.parts
    /\ Sets([Open EXCEPT !.parts = @ \cup {part}]) /\ selected' = part /\ Passes(focus)
ToolRemoves(part) ==
    /\ ToolRuns /\ part \in Open.parts
    /\ RemoveComponent(part) /\ selected' = (IF selected = part THEN None ELSE selected) /\ Passes(focus)
\* design.apply, and a blueprint in place of the project
ToolReplaces(g, part) ==
    /\ ToolRuns /\ part \in g.parts \cup {None} /\ Sets(g) /\ selected' = part /\ Passes(focus)
\* A blueprint as a new project: importProject resets the selection and the
\* tool selects the board before React renders.  An inspector that showed a
\* board with this id shows it still.
ToolImports(g, part) ==
    /\ ToolRuns /\ part \in g.parts \cup {None} /\ AddsProject(g) /\ selected' = part
    /\ Renders(None, picked, menus, [b \in Buttons |-> IF primed[b] = None THEN None ELSE [primed[b] EXCEPT !.moved = TRUE]])
    /\ done' = None
ToolRestores(g) == ToolRuns /\ Sets(g) /\ selected' = None /\ Passes(focus)
ToolWritesCode(part) == ToolRuns /\ part \in Open.parts /\ UNCHANGED room /\ selected' = part /\ Passes(focus)

(***************************************************************************)
(* Other tabs, the account and the router.                                 *)
(***************************************************************************)
OtherSelects(part) == Stays /\ selected' = part /\ UNCHANGED room /\ Passes(focus)
\* applyRemoteState: another tab of this account saved; only another active project resets the page
OtherSaves(p, g, c) ==
    /\ graphs' = [graphs EXCEPT ![p] = g] /\ current' = c /\ graphs'[c] # None /\ Stays
    /\ IF c = current THEN UNCHANGED selected /\ Passes(focus) ELSE Resets(menus, primed) /\ done' = None
Alone(p, g) == [q \in Projects |-> IF q = p THEN g ELSE None]
SessionChanges(u, p, g) ==
    /\ u # account /\ account' = u /\ ready' = FALSE
    /\ graphs' = Alone(p, g) /\ current' = p
    /\ UNCHANGED place /\ Resets(menus, primed) /\ done' = None
Hydrates(p, g) ==
    /\ ~ready /\ ready' = TRUE
    /\ graphs' = Alone(p, g) /\ current' = p
    /\ UNCHANGED <<account, selected, place>> /\ Passes(focus)
Navigates(to) ==
    /\ to # route /\ route' = to
    /\ UNCHANGED <<session, room, selected, tab>> /\ Passes(focus)

StudioInit ==
    /\ account = None /\ ready = FALSE
    /\ current \in Projects /\ graphs = Alone(current, Empty)
    /\ selected = None /\ focus = None /\ picked = None
    /\ route = "studio" /\ tab = "code" /\ menus = {}
    /\ primed = [b \in Buttons |-> None] /\ done = None

Clicks ==
    \/ \E part \in Parts : OnNodeClick(part) \/ ComponentRow(part)
    \/ \E wire \in Wires : OnEdgeClick(wire) \/ WireRow(wire)
    \/ \E wire \in Wires \cup {None}, part \in Parts \cup {None} : FocusIssue(wire, part)
    \/ OnPaneClick \/ Escape \/ (\E t \in {"code", "inspect", "project"} : SetTab(t))
    \/ \E b \in Confirming : Arms(b) \/ Fails(b) \/ DeletesPart(b)
    \/ DeletesWire \/ ClearsPanel
Menus ==
    \/ (\E m \in {"projects", "overflow"} : ToggleMenu(m))
    \/ \E p \in Projects : ArmsDelete(p) \/ DeletesProject(p) \/ SwitchProjectFromMenu(p)
    \/ CreateProjectFromMenu \/ DuplicateProjectFromMenu \/ ArmsClear \/ ClearsFromMenu
Agents ==
    \/ \E g \in Graphs : Edits(g) \/ ImportsFile(g) \/ ToolRestores(g)
    \/ \E part \in Parts : ToolAdds(part) \/ ToolRemoves(part) \/ ToolWritesCode(part)
    \/ \E g \in Graphs, part \in Parts \cup {None} : ToolReplaces(g, part) \/ ToolImports(g, part)
Others ==
    \/ \E part \in Parts \cup {None} : OtherSelects(part)
    \/ \E p, c \in Projects, g \in Graphs \cup {None} : OtherSaves(p, g, c)
    \/ \E p \in Projects, g \in Graphs : Hydrates(p, g) \/ (\E u \in Users \cup {None} : SessionChanges(u, p, g))
    \/ \E to \in {"studio", "elsewhere"} : Navigates(to)
StudioNext == Clicks \/ Menus \/ Agents \/ Others
StudioSpec == StudioInit /\ [][StudioNext]_studioVars

-----------------------------------------------------------------------------
\* A deletion that the user confirms hits the part, wire or project that the
\* page showed when the button was armed, in the same account and in the same
\* project, whatever agents, other tabs and menus did between the two clicks;
\* only an agent's blueprint, opened as a new project, moves an armed button of
\* the inspector along to the part of the same id there.
ConfirmedAsShown ==
    done # None =>
        /\ done.hit.key = done.armed.key /\ done.hit.account = done.armed.account
        /\ done.hit.project = done.armed.project \/ done.armed.moved
=============================================================================
