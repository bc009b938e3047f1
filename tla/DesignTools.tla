----------------------------- MODULE DesignTools -----------------------------
(***************************************************************************)
(* The design tools of the agent (webmcp/designTools.ts and the graph      *)
(* tools of webmcp/tools.ts) over the project store: a staged proposal,    *)
(* design.apply with its rollback, the undo and redo stacks shared by all  *)
(* projects of the page, and the fallback artifacts written after an edit  *)
(* (agentBuildArtifacts.ts, starterPlan.ts).  The user keeps editing, and  *)
(* may change the account, between the awaits of a tool.                   *)
(*                                                                         *)
(* The model runs one design.apply at a time: a second one of the same     *)
(* project finds its proposal stale until the graph is as it was proposed  *)
(* for.                                                                    *)
(***************************************************************************)
EXTENDS ProjectStore

CONSTANTS
    Starter,        \* GENERATED_STARTER_BEHAVIOR_PLAN_ID
    Calculator,     \* the plan of the reviewed proposal
    Scaffold,       \* the marked starter source
    MaxHistory,     \* MAX_HISTORY
    MaxLeases       \* bound: account changes

ASSUME DesignAssumption ==
    /\ {Starter, Calculator} \subseteq PlanIds /\ Starter # Calculator
    /\ Scaffold \in Bodies /\ MaxHistory \in Nat \ {0} /\ MaxLeases \in Nat

VARIABLES
    proposal,   \* activeProposal: the project record it was made for
    undo, redo, \* undoStack and redoStack: project snapshots
    apply,      \* the design.apply in flight: phase, before, hash and lease; alone
                \* says that nobody else changed the store once its plan was written
    building,   \* an ensureAgentBuildArtifacts call is in flight
    lease       \* persistence generation of the page

tools == <<proposal, undo, redo, apply, building, lease>>
allVars == <<vars, tools>>

Idle == [phase |-> "idle"]      \* no design.apply in flight

\* another actor changes the store
Meanwhile == apply' = IF apply.phase \in {"flush", "artifacts"} THEN [apply EXCEPT !.alone = FALSE] ELSE apply

(***************************************************************************)
(* The history.                                                            *)
(***************************************************************************)
Record_KeepsRedo(before) ==
    LET all == Append(undo, before) IN
    /\ undo' = IF Len(all) > MaxHistory THEN Tail(all) ELSE all
    /\ UNCHANGED redo

\* recordDesignMutation
Record(before) ==
    LET all == Append(undo, before) IN
    /\ undo' = IF Len(all) > MaxHistory THEN Tail(all) ELSE all
    /\ redo' = <<>>

\* place k holds the last snapshot of the active project
IsLast(stack, k) == stack[k].id = project.id /\ \A n \in DOMAIN stack : stack[n].id = project.id => n <= k

RestoreSnapshot_KeepsDocs(snapshot) ==
    /\ project' = [snapshot EXCEPT !.docs = project.docs] /\ active' = snapshot.id
    /\ projects' = WithProject(project')
    /\ UNCHANGED <<recovery, minted>>

\* restoreSnapshot: set the store, then saveProject, which may throw
RestoreSnapshot(snapshot) ==
    /\ project' = snapshot /\ active' = snapshot.id
    /\ projects' = WithProject(snapshot)
    /\ UNCHANGED <<recovery, minted>>

Undo ==
    /\ \E k \in DOMAIN undo :
           /\ IsLast(undo, k)
           /\ redo' = Append(redo, project) /\ undo' = RemoveAt(undo, k)
           /\ RestoreSnapshot(undo[k])
    /\ Meanwhile /\ UNCHANGED <<building, lease>>

Redo ==
    /\ \E k \in DOMAIN redo :
           /\ IsLast(redo, k)
           /\ undo' = Append(undo, project) /\ redo' = RemoveAt(redo, k)
           /\ RestoreSnapshot(redo[k])
    /\ Meanwhile /\ UNCHANGED <<building, lease>>

(***************************************************************************)
(* Graph tools record the project before the edit, then refresh the        *)
(* fallback artifacts.                                                     *)
(***************************************************************************)
GraphTool ==
    /\ \/ \E c \in Comps : AddComponent(c) \/ (c \in project.comps /\ RemoveComponent(c))
       \/ \E w \in Wires : ConnectPorts(w) \/ (w \in project.wires /\ DisconnectPorts(w))
       \/ \E name \in Names : LoadProject(Comps, name)     \* project.apply_blueprint, replace
    /\ Record(project) /\ building' = TRUE
    /\ Meanwhile /\ UNCHANGED lease

LayoutTool == AutoLayout /\ Record(project) /\ Meanwhile /\ UNCHANGED <<building, lease>>

\* ensureStarterPlanForAgentBuild: a plan that somebody wrote is kept, whether it
\* is ready or not
Authored == DOMAIN project.plans \ {Starter}

\* prepareStarterPlan, for the components that can act; the plan is always the
\* same rules for them
StarterWrite ==
    /\ Authored = {} /\ project.comps # {}
    /\ WriteBehaviorPlan(Starter, Scaffold, Revision(Starter))

\* a scaffold for a board without source, or a fresh link of an unedited scaffold
ToScaffold(b) == b \in DOMAIN project.docs => project.docs[b].body = Scaffold

\* to the plan found ready before
SourceWrite(b) ==
    /\ ToScaffold(b)
    /\ \E q \in DOMAIN project.plans \cup {None} :
           /\ Authored # {} => q # Starter
           /\ WriteCodeDocument(b, Scaffold, q)

\* writeCode throws on: the room would not hold the board's scaffold
SourceThrows(b) ==
    LET docs == [d \in DOMAIN project.docs \cup {b} |-> IF d = b THEN Unlinked ELSE project.docs[d]] IN
    ToScaffold(b) /\ ~Persists(WithProject([project EXCEPT !.docs = docs]))

\* one write of ensureAgentBuildArtifacts, to the project active at that time
ArtifactWrite ==
    /\ building \/ apply.phase = "artifacts"
    /\ StarterWrite \/ (\E b \in Boards \cap project.comps : SourceWrite(b))
    /\ UNCHANGED <<undo, redo, apply, building, lease>>

ArtifactsDone == building /\ building' = FALSE /\ UNCHANGED <<store, undo, redo, apply, lease>>

(***************************************************************************)
(* The staged proposal.                                                    *)
(***************************************************************************)
Propose ==
    /\ project.comps = {}
    /\ proposal' = project
    /\ UNCHANGED <<store, undo, redo, apply, building, lease>>

Discard == proposal # None /\ proposal' = None /\ UNCHANGED <<store, undo, redo, apply, building, lease>>

\* the proposal keeps a hash of the whole project record; its time stamps are not
\* modelled, so a record edited back may or may not be found stale
Fresh1(p) == proposal # None /\ proposal = p /\ p.comps = {}

\* components and wires, up to the await of writeBehaviorPlan; a step that
\* throws restores the empty project before anything else runs
Apply ==
    LET built == [project EXCEPT !.comps = Comps, !.wires = Wires] IN
    /\ apply = Idle /\ Fresh1(project)
    /\ Calculator \notin DOMAIN project.plans
    /\ CommitGraph(built)
    /\ apply' = [phase |-> "prepare", before |-> project, hash |-> Fingerprint(built), lease |-> lease,
                 alone |-> TRUE]
    /\ UNCHANGED <<undo, redo, building, lease>>

PlanMayBeWritten_RevisionOnly == Revision(Calculator) = None

\* the checks writeBehaviorPlan repeats after preparing
PlanMayBeWritten ==
    /\ apply.lease = lease /\ Fingerprint(project) = apply.hash
    /\ Revision(Calculator) = None

ApplyPlan ==
    /\ apply.phase = "prepare" /\ PlanMayBeWritten
    /\ WriteBehaviorPlan(Calculator, Scaffold, None)
    /\ apply' = [apply EXCEPT !.phase = "flush"]
    /\ UNCHANGED <<undo, redo, building, lease>>

\* the plan was refused or persistState threw, or the source of a board did not
\* fit once the plan was stored
ApplyFails ==
    \/ apply.phase = "prepare" /\ (~PlanMayBeWritten \/ ~Persists(projects))
    \/ apply.phase = "artifacts" /\ \E b \in Boards \cap project.comps : SourceThrows(b)

ApplyRollback_OfPlanOnly ==
    /\ ApplyFails
    /\ IF apply.phase = "prepare" THEN RestoreSnapshot(apply.before) ELSE UNCHANGED store
    /\ apply' = Idle
    /\ UNCHANGED <<undo, redo, building, lease>>

\* the catch of design.apply
ApplyRollback ==
    /\ ApplyFails
    /\ RestoreSnapshot(apply.before)
    /\ apply' = Idle
    /\ UNCHANGED <<undo, redo, building, lease>>

\* writeBehaviorPlan answers ok even when its durability was superseded
ApplyFlushed ==
    /\ apply.phase = "flush"
    /\ apply' = [apply EXCEPT !.phase = "artifacts"]
    /\ UNCHANGED <<store, undo, redo, building, lease>>

\* a board whose write was refused, its link no longer being current, has no source
ApplyDone ==
    /\ apply.phase = "artifacts"
    /\ Record(apply.before)
    /\ proposal' = None /\ apply' = Idle
    /\ UNCHANGED <<store, building, lease>>

(***************************************************************************)
(* The user edits in the page; another account's room is loaded.           *)
(***************************************************************************)
UserEdit == Mutation /\ Meanwhile /\ UNCHANGED <<undo, redo, building, lease>>

ReloadForCurrentUser ==
    /\ lease < MaxLeases /\ minted < MaxIds
    /\ lease' = lease + 1
    /\ project' = EmptyProject(NewId, <<Untitled>>) /\ active' = NewId /\ projects' = <<project'>>
    /\ minted' = minted + 1 /\ recovery' = Normal
    /\ Meanwhile /\ UNCHANGED <<undo, redo, building>>

DesignInit ==
    /\ Init /\ proposal = None /\ undo = <<>> /\ redo = <<>>
    /\ apply = Idle /\ building = FALSE /\ lease = 0

Edit ==
    \/ UserEdit \/ Undo \/ Redo \/ GraphTool \/ LayoutTool \/ ArtifactWrite
    \/ Apply \/ ApplyPlan \/ ReloadForCurrentUser

DesignNext ==
    \/ edits < MaxEdits /\ edits' = edits + 1 /\ Edit /\ UNCHANGED proposal
    \/ UNCHANGED edits /\ (Propose \/ Discard \/ ApplyDone)
    \/ UNCHANGED <<edits, proposal>> /\ (ArtifactsDone \/ ApplyFlushed \/ ApplyRollback)

DesignSpec == DesignInit /\ [][DesignNext]_allVars

-----------------------------------------------------------------------------
\* The two stacks together never hold more than MAX_HISTORY snapshots,
\* although only recordDesignMutation trims one of them.
HistoryBounded == Len(undo) + Len(redo) <= MaxHistory

\* the design of the proposal, in its project
Designed(p) ==
    /\ p.id = apply.before.id /\ p.comps = Comps /\ p.wires = Wires
    /\ Calculator \in DOMAIN p.plans

\* design.apply is one transaction, whatever is edited, undone or loaded at its
\* awaits and whichever of its steps fails.  Either it gives up, and the project
\* and its entry are those from before the call and the history knows nothing of
\* it; or it completes, the next undo of the project is to before the call, and
\* the project has all of the components, wires and plan, unless somebody
\* changed it after the plan was written.
AppliesWhole ==
    [][apply # Idle /\ apply' = Idle =>
           \/ /\ project' = apply.before /\ projects' = WithProject(apply.before)
              /\ UNCHANGED <<undo, redo>>
           \/ /\ undo' # <<>> /\ undo'[Len(undo')] = apply.before /\ redo' = <<>>
              /\ apply.alone => Designed(project')]_allVars
=============================================================================
