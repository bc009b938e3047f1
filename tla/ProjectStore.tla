---------------------------- MODULE ProjectStore ----------------------------
(***************************************************************************)
(* The mutations of one tab's project store (useProjectStore.ts): hardware *)
(* edits, Behavior Plans and code documents with their preview links, the  *)
(* project list, the capacity limits and the recovery mode of a room that  *)
(* is over them.  Every mutation is one synchronous set() whose persist    *)
(* call throws, leaving the store as it was, when the room would not fit.  *)
(*                                                                         *)
(* A hash is the value it is the hash of.  Ids are never reused.  The      *)
(* lease check of persistState is modelled in ProjectPersistence.          *)
(***************************************************************************)
EXTENDS Naturals, FiniteSets, SequencesExt

CONSTANTS
    Comps,          \* component instances of a project
    Boards,         \* the programmable ones: a code document targets a board
    PlanIds,        \* Behavior Plan ids
    Bodies,         \* contents of a plan's rules and of a document's files
    Names,          \* names a user may ask for, as sequences of words
    None,           \* null
    MaxProjects,    \* MAX_PROJECTS_PER_WORKSPACE
    MaxBytes,       \* MAX_WORKSPACE_SERIALIZED_BYTES
    MaxIds,         \* bound: projects ever created
    MaxEdits        \* bound: mutations of the run

ASSUME StoreAssumption ==
    /\ Boards \subseteq Comps /\ IsFiniteSet(Comps) /\ Names \subseteq Seq(Nat)
    /\ None \notin PlanIds \cup Bodies \cup Nat
    /\ {MaxProjects, MaxBytes, MaxIds} \subseteq Nat \ {0} /\ MaxEdits \in Nat

VARIABLES
    projects,   \* the room's projects, in order
    active,     \* activeProjectId
    project,    \* the active project, held beside the list
    recovery,   \* workspaceRecoveryError and workspaceRecoveryBaseline
    minted,     \* project ids created so far
    edits       \* mutations so far

store == <<projects, active, project, recovery, minted>>
vars == <<store, edits>>

Ids == 1..MaxIds
Wires == {w \in SUBSET Comps : Cardinality(w) = 2}
Untitled == 0       \* words of names; a suffix is the number itself
Copy == 1
Unlinked == [status |-> "unlinked"]

Fingerprint(p) == <<p.id, p.comps, p.props, p.wires>>
PlanHash(p, q) == <<p.id, q, p.plans[q]>>

EmptyProject(id, name) ==
    [id |-> id, name |-> name, comps |-> {}, props |-> 0, wires |-> {}, plans |-> <<>>, docs |-> <<>>]

(***************************************************************************)
(* Capacity and recovery.                                                  *)
(***************************************************************************)
\* what takes space in a serialized project
Parts(p) == {<<"project", None>>} \cup ({"component"} \X p.comps) \cup ({"document"} \X DOMAIN p.docs)
Bytes(ps) == Cardinality(UNION {{i} \X Parts(ps[i]) : i \in DOMAIN ps})
Fits(ps) == Len(ps) <= MaxProjects /\ Bytes(ps) <= MaxBytes
Baseline(ps) == [count |-> Len(ps), bytes |-> Bytes(ps)]

Normal == [failed |-> FALSE, baseline |-> None]

Persists_Unchecked(ps) == TRUE

\* persistState
Persists(ps) == ~recovery.failed /\ Fits(ps)

Reduced(ps) ==
    LET b == recovery.baseline IN
    /\ Len(ps) <= b.count /\ Bytes(ps) <= b.bytes
    /\ Len(ps) < b.count \/ Bytes(ps) < b.bytes

PersistReduction_AlwaysEnds(ps) ==
    IF recovery.failed /\ recovery.baseline # None THEN Reduced(ps) /\ recovery' = Normal
    ELSE Persists(ps) /\ UNCHANGED recovery

\* persistRecoveryReduction
PersistReduction(ps) ==
    IF recovery.failed /\ recovery.baseline # None
    THEN /\ Reduced(ps)
         /\ recovery' = IF Fits(ps) THEN Normal ELSE [recovery EXCEPT !.baseline = Baseline(ps)]
    ELSE Persists(ps) /\ UNCHANGED recovery

(***************************************************************************)
(* Preview links of code documents.                                        *)
(***************************************************************************)
MarkStale(doc, why) ==
    IF doc.link.status = "unlinked" THEN doc
    ELSE [doc EXCEPT !.link.status = "stale", !.link.changed = @ \cup {why}]

MarkDocsStale(docs, why) == [b \in DOMAIN docs |-> MarkStale(docs[b], why)]

Link(p, q, body) ==
    [status |-> "linked", plan |-> q, planHash |-> PlanHash(p, q),
     graph |-> Fingerprint(p), content |-> body, changed |-> {}]

(***************************************************************************)
(* The project list.                                                       *)
(***************************************************************************)
WithProject(p) == [i \in DOMAIN projects |-> IF projects[i].id = p.id THEN p ELSE projects[i]]
NamesUsed(except) == {projects[i].name : i \in {j \in DOMAIN projects : projects[j].id # except}}

UniqueName(base, except) ==
    IF base \notin NamesUsed(except) THEN base
    ELSE LET Free == {n \in 2..(Len(projects) + 2) : base \o <<n>> \notin NamesUsed(except)}
         IN  base \o <<CHOOSE n \in Free : \A m \in Free : n <= m>>

\* one set() of the active project
Commit(p) ==
    /\ Persists(WithProject(p))
    /\ projects' = WithProject(p) /\ project' = p
    /\ UNCHANGED <<active, recovery, minted>>

\* a graph edit: the links of the documents no longer describe the graph
CommitGraph(p) == Commit([p EXCEPT !.docs = MarkDocsStale(@, "project")])

Append1(p) ==
    /\ Persists(Append(projects, p))
    /\ projects' = Append(projects, p) /\ active' = p.id /\ project' = p
    /\ minted' = minted + 1 /\ UNCHANGED recovery

NewId == minted + 1

(***************************************************************************)
(* Hardware edits.                                                         *)
(***************************************************************************)
AddComponent(c) ==
    /\ c \notin project.comps
    /\ CommitGraph([project EXCEPT !.comps = @ \cup {c}])

RemoveComponent(c) ==
    CommitGraph([project EXCEPT !.comps = @ \ {c}, !.wires = {w \in @ : c \notin w},
                                !.docs = RestrictDomain(@, LAMBDA b : b # c)])

ConnectPorts(w) ==
    /\ w \subseteq project.comps /\ w \notin project.wires
    /\ CommitGraph([project EXCEPT !.wires = @ \cup {w}])

DisconnectPorts(w) == CommitGraph([project EXCEPT !.wires = @ \ {w}])

UpdateComponentProps == CommitGraph([project EXCEPT !.props = 1 - @])

RenameProject_OnlyList(i, name) ==
    LET p == [projects[i] EXCEPT !.name = UniqueName(name, projects[i].id)] IN
    /\ Persists(WithProject(p)) /\ projects' = WithProject(p)
    /\ UNCHANGED <<project, active, recovery, minted>>

RenameProject_AsGiven(i, name) ==
    LET p == [projects[i] EXCEPT !.name = name] IN
    /\ Persists(WithProject(p)) /\ projects' = WithProject(p)
    /\ project' = IF active = p.id THEN p ELSE project
    /\ UNCHANGED <<active, recovery, minted>>

RenameProject(i, name) ==
    LET p == [projects[i] EXCEPT !.name = UniqueName(name, projects[i].id)] IN
    /\ Persists(WithProject(p))
    /\ projects' = WithProject(p)
    /\ project' = IF active = p.id THEN p ELSE project
    /\ UNCHANGED <<active, recovery, minted>>

Clear ==
    LET p == EmptyProject(project.id, project.name) IN
    /\ PersistReduction(WithProject(p))
    /\ projects' = WithProject(p) /\ project' = p
    /\ UNCHANGED <<active, minted>>

\* loadProject: a blueprint replaces the graph, its plans and documents (none)
LoadProject(comps, name) ==
    Commit([EmptyProject(project.id, UniqueName(name, active)) EXCEPT !.comps = comps])

\* project.auto_layout loads the project itself with new positions
AutoLayout == CommitGraph(project)

(***************************************************************************)
(* Behavior Plans and code documents.                                      *)
(***************************************************************************)
Revision(q) == IF q \in DOMAIN project.plans THEN project.plans[q].rev ELSE None

WriteBehaviorPlan_KeepsGiven(q, body, expected) ==
    /\ expected = Revision(q)
    /\ Commit([project EXCEPT !.plans = [x \in DOMAIN @ \cup {q} |->
                  IF x = q THEN [rev |-> expected, body |-> body] ELSE @[x]]])

WriteBehaviorPlan_KeepsLinks(q, body, expected) ==
    /\ expected = Revision(q)
    /\ LET plan == [rev |-> IF expected = None THEN 1 ELSE expected + 1, body |-> body] IN
       Commit([project EXCEPT !.plans = [x \in DOMAIN @ \cup {q} |-> IF x = q THEN plan ELSE @[x]]])

StaleIfLinked(doc, q) ==
    IF doc.link.status # "unlinked" /\ doc.link.plan = q THEN MarkStale(doc, "plan") ELSE doc

WriteBehaviorPlan(q, body, expected) ==
    /\ expected = Revision(q)
    /\ LET plan == [rev |-> IF expected = None THEN 1 ELSE expected + 1, body |-> body] IN
       Commit([project EXCEPT
           !.plans = [x \in DOMAIN @ \cup {q} |-> IF x = q THEN plan ELSE @[x]],
           !.docs = [b \in DOMAIN @ |-> StaleIfLinked(@[b], q)]])

\* link # None: behaviorCommands has checked it against the exact plan and graph
WriteCodeDocument(b, body, link) ==
    /\ b \in project.comps
    /\ link \in DOMAIN project.plans \cup {None}
    /\ LET current == project.docs[b]
           known == b \in DOMAIN project.docs
           previewLink ==
               IF link # None THEN Link(project, link, body)
               ELSE IF ~known \/ current.link.status = "unlinked" THEN Unlinked
               ELSE IF current.link.content = body THEN current.link
               ELSE MarkStale(current, "code").link
           doc == [rev |-> IF known THEN current.rev + 1 ELSE 1, body |-> body, link |-> previewLink]
       IN  Commit([project EXCEPT !.docs = [x \in DOMAIN @ \cup {b} |-> IF x = b THEN doc ELSE @[x]]])

(***************************************************************************)
(* Projects.                                                               *)
(***************************************************************************)
CreateProject(name) == minted < MaxIds /\ Append1(EmptyProject(NewId, UniqueName(name, None)))

\* normalizeProject re-parents the copied plans and documents
DuplicateProject(i) ==
    /\ minted < MaxIds
    /\ Append1([projects[i] EXCEPT !.id = NewId,
                                   !.name = UniqueName(@ \o <<Copy>>, None),
                                   !.docs = MarkDocsStale(MarkDocsStale(@, "plan"), "project")])

ImportProject(i, name) ==
    /\ minted < MaxIds
    /\ Append1([projects[i] EXCEPT !.id = NewId, !.name = UniqueName(name, None),
                                   !.docs = MarkDocsStale(@, "project")])

SwitchProject(i) ==
    /\ recovery.failed \/ Persists(projects)
    /\ active' = projects[i].id /\ project' = projects[i]
    /\ UNCHANGED <<projects, recovery, minted>>

\* the project shown with activeProjectId id: the fallback is projects[0]
Shown(ps, id) ==
    IF \E i \in DOMAIN ps : ps[i].id = id THEN ps[CHOOSE i \in DOMAIN ps : ps[i].id = id] ELSE ps[1]

DeleteProject_KeepsActive(i) ==
    /\ Len(projects) > 1 /\ PersistReduction(RemoveAt(projects, i))
    /\ projects' = RemoveAt(projects, i) /\ project' = Shown(projects', active)
    /\ UNCHANGED <<active, minted>>

DeleteProject(i) ==
    /\ Len(projects) > 1
    /\ LET ps == RemoveAt(projects, i)
           next == IF active = projects[i].id THEN ps[1].id ELSE active
       IN  /\ PersistReduction(ps)
           /\ projects' = ps /\ active' = next /\ project' = Shown(ps, next)
           /\ UNCHANGED minted

(***************************************************************************)
(* What another tab of the room, in step with this one, may broadcast: it  *)
(* switched, deleted or cleared a project.  applyRemoteState ignores a     *)
(* room over the limits and leaves the recovery state alone.               *)
(***************************************************************************)
ApplyRemoteState(ps, id) ==
    /\ Fits(ps)
    /\ projects' = ps /\ project' = Shown(ps, id) /\ active' = Shown(ps, id).id
    /\ UNCHANGED <<recovery, minted>>

RemoteUpdate ==
    \E i \in DOMAIN projects :
        \/ ApplyRemoteState(projects, projects[i].id)
        \/ Len(projects) > 1 /\ \E j \in 1..(Len(projects) - 1) :
               LET ps == RemoveAt(projects, i) IN ApplyRemoteState(ps, ps[j].id)
        \/ ApplyRemoteState([projects EXCEPT ![i] = EmptyProject(@.id, @.name)], projects[i].id)

(***************************************************************************)
(* readStoredState: a room that fits, an older release's room over the     *)
(* limits, or a room beyond the recovery window, shown as a fresh project. *)
(***************************************************************************)
Fresh(n) == [i \in 1..n |-> EmptyProject(i, IF i = 1 THEN <<Untitled>> ELSE <<Untitled, i>>)]

Init ==
    /\ \/ projects = Fresh(1) /\ recovery \in {Normal, [failed |-> TRUE, baseline |-> None]}
       \/ /\ MaxProjects + 1 < MaxIds
          /\ projects = Fresh(MaxProjects + 2)
          /\ recovery = [failed |-> TRUE, baseline |-> Baseline(projects)]
    /\ project = projects[1] /\ active = 1
    /\ minted = Len(projects) /\ edits = 0

Mutation ==
    \/ \E c \in Comps : AddComponent(c) \/ RemoveComponent(c)
    \/ \E w \in Wires : ConnectPorts(w) \/ DisconnectPorts(w)
    \/ UpdateComponentProps
    \/ Clear
    \/ \E comps \in SUBSET Comps, name \in Names : LoadProject(comps, name)
    \/ AutoLayout
    \/ \E q \in PlanIds, body \in Bodies, expected \in 1..MaxEdits \cup {None} :
           WriteBehaviorPlan(q, body, expected)
    \/ \E b \in Boards, body \in Bodies, link \in PlanIds \cup {None} : WriteCodeDocument(b, body, link)
    \/ \E name \in Names : CreateProject(name)
    \/ \E i \in DOMAIN projects : DuplicateProject(i) \/ SwitchProject(i) \/ DeleteProject(i)
    \/ \E i \in DOMAIN projects, name \in Names : RenameProject(i, name) \/ ImportProject(i, name)
    \/ RemoteUpdate

Next == edits < MaxEdits /\ edits' = edits + 1 /\ Mutation

Spec == Init /\ [][Next]_vars

-----------------------------------------------------------------------------
Hash == Ids \X (SUBSET Comps) \X (0..1) \X (SUBSET Wires)
Plan == [rev : 1..(MaxEdits + 1), body : Bodies]
LinkRec == [status : {"linked", "stale"}, plan : PlanIds, planHash : Ids \X PlanIds \X Plan,
            graph : Hash, content : Bodies, changed : SUBSET {"code", "plan", "project"}]
Doc == [rev : Nat, body : Bodies, link : LinkRec \cup {Unlinked}]

ProjectType(p) ==
    /\ p.id \in Ids /\ p.comps \subseteq Comps /\ p.props \in 0..1 /\ p.wires \subseteq Wires
    /\ DOMAIN p.plans \subseteq PlanIds /\ \A q \in DOMAIN p.plans : p.plans[q] \in Plan
    /\ DOMAIN p.docs \subseteq Boards /\ \A b \in DOMAIN p.docs : p.docs[b] \in Doc

\* The store's variables keep their types; a room is never without a project.
TypeOK ==
    /\ Len(projects) >= 1 /\ \A i \in DOMAIN projects : ProjectType(projects[i])
    /\ active \in Ids /\ minted \in Ids /\ edits \in 0..MaxEdits
    /\ recovery.failed \in BOOLEAN
    /\ recovery.baseline = None \/ recovery.baseline \in [count : Nat, bytes : Nat]

\* The store keeps the active project twice (project, and its entry of
\* projects); no mutation, deletion or broadcast makes them differ.
ProjectIsListed ==
    \E i \in DOMAIN projects : projects[i] = project /\ project.id = active

\* A code document says "linked" only while its recorded hashes are those of
\* its own source, of the plan it names and of the graph of its project.
LinksTruthful ==
    \A i \in DOMAIN projects : \A b \in DOMAIN projects[i].docs :
        LET p == projects[i]
            doc == p.docs[b]
        IN  doc.link.status = "linked" =>
                /\ doc.link.content = doc.body
                /\ doc.link.graph = Fingerprint(p)
                /\ doc.link.plan \in DOMAIN p.plans
                /\ doc.link.planHash = PlanHash(p, doc.link.plan)

\* uniqueProjectName: whatever is created, copied, imported, loaded or
\* renamed, the projects of a room have different ids and names.
ProjectsDistinct ==
    \A i, j \in DOMAIN projects :
        projects[i].id = projects[j].id \/ projects[i].name = projects[j].name => i = j

\* Outside recovery the room is within the limits; in recovery with a baseline
\* it never exceeds that baseline.
RoomBounded ==
    /\ ~recovery.failed => Fits(projects)
    /\ recovery.baseline # None =>
           Len(projects) <= recovery.baseline.count /\ Bytes(projects) <= recovery.baseline.bytes

\* In recovery a step never grows a room that is over the limits, and recovery
\* ends only with a room that fits.
RecoveryStep ==
    recovery.failed =>
        /\ Fits(projects') \/ (Len(projects') <= Len(projects) /\ Bytes(projects') <= Bytes(projects))
        /\ ~recovery'.failed => Fits(projects')
RecoveryOnlyShrinks == [][RecoveryStep]_vars

-----------------------------------------------------------------------------
MCNames == {<<Untitled>>, <<Untitled, 2>>}
=============================================================================
