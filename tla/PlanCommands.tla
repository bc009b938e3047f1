----------------------------- MODULE PlanCommands -----------------------------
(***************************************************************************)
(* The commands that write Behavior Plans and code documents               *)
(* (application/behaviorCommands.ts) over the project store: a write is    *)
(* checked, prepared asynchronously, checked again, stored, flushed to the *)
(* room's IndexedDB and answered.  The user edits, other commands write,   *)
(* and the account changes between those steps.                            *)
(*                                                                         *)
(* The saver is its contract (SaveContract): one save at a time, of the    *)
(* newest snapshot; a flush returns when nothing is left to save.          *)
(***************************************************************************)
EXTENDS ProjectStore

CONSTANTS
    Slots,          \* commands in flight
    MaxLease        \* bound: persistence leases of the page

VARIABLES
    cmds,       \* what each command in flight has read or written
    gate,       \* the persistence gate: lease and hydrated
    unsaved,    \* the snapshot waiting in the saver: a set of at most one
    saving,     \* the snapshot of the save in progress, likewise
    saveError,  \* context.error
    disk,       \* the room's durable workspace
    answered    \* the answer given by the last step

commandVars == <<cmds, gate, unsaved, saving, saveError, disk, answered>>
planVars == <<vars, commandVars>>

Idle == [phase |-> "idle"]
PlanOf(p, q) == IF q \in DOMAIN p.plans THEN p.plans[q] ELSE None

(***************************************************************************)
(* The store's mutations schedule a save while the room is hydrated.       *)
(***************************************************************************)
ScheduleSave == unsaved' = IF gate.hydrated /\ projects' # projects THEN {projects'} ELSE unsaved

UserMutation ==
    /\ gate.hydrated
    /\ \/ \E c \in Comps : AddComponent(c)
       \/ UpdateComponentProps
       \/ Clear
       \/ \E i \in DOMAIN projects : SwitchProject(i)
       \/ \E name \in Names : CreateProject(name)
    /\ ScheduleSave
    /\ UNCHANGED <<cmds, gate, saving, saveError, disk>> /\ answered' = None

(***************************************************************************)
(* writeBehaviorPlan.                                                      *)
(***************************************************************************)
PrepareWrite(s, q, body, expected) ==
    /\ cmds[s] = Idle /\ gate.hydrated
    /\ expected = Revision(q)
    /\ cmds' = [cmds EXCEPT ![s] =
           [phase |-> "prepare", lease |-> gate.lease, id |-> project.id, graph |-> Fingerprint(project),
            plan |-> q, body |-> body, seen |-> PlanOf(project, q)]]
    /\ answered' = None
    /\ UNCHANGED <<store, gate, unsaved, saving, saveError, disk>>

LeaseHolds(c) == gate.hydrated /\ gate.lease = c.lease

WriteAllowed_RevisionOnly(c) ==
    /\ LeaseHolds(c) /\ project.id = c.id /\ Fingerprint(project) = c.graph
    /\ Revision(c.plan) = IF c.seen = None THEN None ELSE c.seen.rev

\* the checks repeated after preparation: room, project, graph and exact plan
WriteAllowed(c) ==
    /\ LeaseHolds(c) /\ project.id = c.id /\ Fingerprint(project) = c.graph
    /\ PlanOf(project, c.plan) = c.seen

WritePlan(s) ==
    /\ cmds[s].phase = "prepare"
    /\ LET c == cmds[s] IN
       /\ WriteAllowed(c)
       /\ WriteBehaviorPlan(c.plan, c.body, IF c.seen = None THEN None ELSE c.seen.rev)
       /\ cmds' = [cmds EXCEPT ![s] = [phase |-> "flush", lease |-> c.lease, id |-> c.id,
                                       kind |-> "plan", key |-> c.plan, value |-> project'.plans[c.plan]]]
       /\ answered' = [status |-> "replaced", seen |-> c.seen, was |-> PlanOf(project, c.plan),
                       lease |-> c.lease, graph |-> c.graph]
    /\ ScheduleSave
    /\ UNCHANGED <<gate, saving, saveError, disk>>

\* conflict, changed context, blocked plan or a room that is not ready
RefuseWrite(s) ==
    /\ cmds[s].phase = "prepare"
    /\ cmds' = [cmds EXCEPT ![s] = Idle]
    /\ answered' = [status |-> "refused"]
    /\ UNCHANGED <<store, gate, unsaved, saving, saveError, disk>>

(***************************************************************************)
(* writeCode: exact content precondition, or null for a new document; the  *)
(* link, when asked for, must name the current plan and graph.             *)
(***************************************************************************)
ContentOf(b) == IF b \in DOMAIN project.docs THEN project.docs[b].body ELSE None

WriteCode(s, b, body, expected, link) ==
    /\ cmds[s] = Idle /\ gate.hydrated
    /\ expected = ContentOf(b)
    /\ WriteCodeDocument(b, body, link)
    /\ cmds' = [cmds EXCEPT ![s] = [phase |-> "flush", lease |-> gate.lease, id |-> project.id,
                                    kind |-> "code", key |-> b, value |-> project'.docs[b]]]
    /\ ScheduleSave /\ answered' = None
    /\ UNCHANGED <<gate, saving, saveError, disk>>

\* exportCode records the export in the document and answers with a manifest
ReconciledLink_AsStored(doc, p) == doc.link

\* reconciledCodeDocument: a stored link is compared with what it names
ReconciledLink(doc, p) ==
    IF doc.link.status = "unlinked" THEN doc.link
    ELSE LET planChanged == doc.link.plan \notin DOMAIN p.plans \/ PlanHash(p, doc.link.plan) # doc.link.planHash
             graphChanged == doc.link.graph # Fingerprint(p)
             codeChanged == doc.link.content # doc.body
             changed == doc.link.changed \cup (IF planChanged THEN {"plan"} ELSE {})
                          \cup (IF graphChanged THEN {"project"} ELSE {})
                          \cup (IF codeChanged THEN {"code"} ELSE {})
         IN  IF changed = {} THEN doc.link ELSE [doc.link EXCEPT !.status = "stale", !.changed = changed]

ReadCode(b) ==
    /\ b \in DOMAIN project.docs
    /\ answered' = [status |-> "read", doc |-> project.docs[b], link |-> ReconciledLink(project.docs[b], project)]
    /\ UNCHANGED <<store, cmds, gate, unsaved, saving, saveError, disk>>

(***************************************************************************)
(* durableWriteData: the answer, when the flush has returned.              *)
(***************************************************************************)
Holds(ps, c) ==
    \E i \in DOMAIN ps :
        /\ ps[i].id = c.id
        /\ IF c.kind = "plan" THEN PlanOf(ps[i], c.key) = c.value
           ELSE c.key \in DOMAIN ps[i].docs /\ ps[i].docs[c.key].rev = c.value.rev
                /\ ps[i].docs[c.key].body = c.value.body

DurableStatus_Unverified(c) ==
    IF ~LeaseHolds(c) \/ active # c.id THEN "superseded" ELSE IF saveError THEN "failed" ELSE "flushed"

DurableStatus(c) ==
    IF ~LeaseHolds(c) \/ active # c.id \/ ~Holds(<<project>>, c) THEN "superseded"
    ELSE IF saveError THEN "failed" ELSE "flushed"

AnswerWrite(s) ==
    /\ cmds[s].phase = "flush"
    /\ gate.lease = cmds[s].lease => unsaved = {} /\ saving = {}
    /\ answered' = [status |-> DurableStatus(cmds[s]), cmd |-> cmds[s]]
    /\ cmds' = [cmds EXCEPT ![s] = Idle]
    /\ UNCHANGED <<store, gate, unsaved, saving, saveError, disk>>

(***************************************************************************)
(* The saver and the account.                                              *)
(***************************************************************************)
StartSave ==
    /\ unsaved # {} /\ saving = {}
    /\ saving' = unsaved /\ unsaved' = {} /\ answered' = None
    /\ UNCHANGED <<store, cmds, gate, saveError, disk>>

EndSave(ok) ==
    /\ saving # {}
    /\ IF ok THEN disk' \in saving ELSE UNCHANGED disk
    /\ saveError' = ~ok /\ saving' = {} /\ answered' = None
    /\ UNCHANGED <<store, cmds, gate, unsaved>>

\* sign-out and sign-in: a new lease, the saver is cancelled, and the room
\* shown is the same one's localStorage copy or another user's fresh room
ChangeAccount(same) ==
    /\ gate.lease < MaxLease /\ (~same => minted < MaxIds)
    /\ gate' = [lease |-> gate.lease + 1, hydrated |-> FALSE]
    /\ IF same THEN UNCHANGED <<store, disk>>
       ELSE /\ project' = EmptyProject(NewId, <<Untitled>>) /\ active' = NewId /\ projects' = <<project'>>
            /\ minted' = minted + 1 /\ recovery' = Normal /\ disk' = projects'
    /\ unsaved' = {} /\ saving' = {} /\ saveError' = FALSE /\ answered' = None
    /\ UNCHANGED cmds

\* hydration ends with the record, or with local edits that are saved next
Hydrate ==
    /\ ~gate.hydrated
    /\ gate' = [gate EXCEPT !.hydrated = TRUE]
    /\ unsaved' = IF disk = projects THEN {} ELSE {projects}
    /\ answered' = None
    /\ UNCHANGED <<store, cmds, saving, saveError, disk>>

\* a stored document may claim a link that no write of this page made, such as
\* one of an imported file: decoding checks its form only
HasPlan(q, body) == [EmptyProject(1, <<Untitled>>) EXCEPT !.plans = [k \in {q} |-> [rev |-> 1, body |-> body]]]
ClaimsLink(b, q, body) ==
    LET p == HasPlan(q, body) IN
    [p EXCEPT !.comps = {b}, !.docs = [k \in {b} |-> [rev |-> 1, body |-> body, link |-> Link(p, q, body)]]]

PlanInit ==
    /\ \/ Init /\ recovery = Normal
       \/ /\ \E b \in Boards, q \in PlanIds, body \in Bodies : projects \in {<<ClaimsLink(b, q, body)>>, <<HasPlan(q, body)>>}
          /\ recovery = Normal /\ project = projects[1] /\ active = 1 /\ minted = 1 /\ edits = 0
    /\ cmds = [s \in Slots |-> Idle] /\ gate = [lease |-> 1, hydrated |-> TRUE]
    /\ unsaved = {} /\ saving = {} /\ saveError = FALSE
    /\ disk = projects /\ answered = None

PlanStep ==
    \/ UserMutation
    \/ \E s \in Slots :
           \/ WritePlan(s)
           \/ \E b \in Boards, body \in Bodies, expected \in Bodies \cup {None}, link \in PlanIds \cup {None} :
                  WriteCode(s, b, body, expected, link)
    \/ \E same \in BOOLEAN : ChangeAccount(same)

PlanNext ==
    \/ edits < MaxEdits /\ edits' = edits + 1 /\ PlanStep
    \/ UNCHANGED edits /\ (StartSave \/ Hydrate)
    \/ UNCHANGED edits /\ \E ok \in BOOLEAN : EndSave(ok)
    \/ UNCHANGED edits /\ \E s \in Slots : RefuseWrite(s) \/ AnswerWrite(s)
    \/ UNCHANGED edits /\ \E s \in Slots, q \in PlanIds, body \in Bodies, expected \in 1..MaxEdits \cup {None} :
           PrepareWrite(s, q, body, expected)
    \/ UNCHANGED edits /\ \E b \in Boards : ReadCode(b)

PlanSpec == PlanInit /\ [][PlanNext]_planVars

-----------------------------------------------------------------------------
\* A plan or source write answered as durable is in the durable room at that
\* moment, whatever was edited, saved, failed or signed out meanwhile.
DurableIsOnDisk ==
    answered # None /\ answered.status = "flushed" =>
        Holds(disk, answered.cmd) /\ answered.cmd.lease = gate.lease

\* A plan write in flight replaces exactly the plan its caller's revision
\* named when the command began, although a cleared project may hold another
\* plan under the same id and revision by then.
NoLostPlan == answered # None /\ answered.status = "replaced" => answered.was = answered.seen

\* What readCode and exportCode say of a document's link is true of the source,
\* plan and graph at that moment, even if the stored link is not.
ReadIsTruthful ==
    answered # None /\ answered.status = "read" /\ answered.link.status = "linked" =>
        /\ answered.link.content = answered.doc.body
        /\ answered.link.graph = Fingerprint(project)
        /\ answered.link.plan \in DOMAIN project.plans
        /\ answered.link.planHash = PlanHash(project, answered.link.plan)
=============================================================================
