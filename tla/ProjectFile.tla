----------------------------- MODULE ProjectFile -----------------------------
(***************************************************************************)
(* A project on its way through files: the export and the import of        *)
(* utils/vllxFile.ts, the normalisation of store/useProjectStore.ts and    *)
(* store/behaviorPersistence.ts, and the two places that read files:       *)
(* components/import/ImportDialog.tsx and pages/SettingsPage.tsx.          *)
(*                                                                         *)
(* The file's reader refuses; the store's normaliser, which also reads     *)
(* stored workspaces, repairs or drops.  Both must agree: what the reader  *)
(* lets through, the normaliser must keep, and what the editor can make    *)
(* of a project, the reader must let through again.                        *)
(***************************************************************************)
EXTENDS Naturals, FiniteSets, SequencesExt

CONSTANTS
    None,
    Bytes,          \* source text -> its size
    SourceLimit,    \* MAX_PROJECT_SOURCE_BYTES, MAX_CODE_DOCUMENT_BYTES
    Files,          \* kind, project: files that other people made
    Plans,          \* ids of Behavior Plans
    MaxEdits, MaxReads, MaxComponents, MaxGenerations, \* bounds
    MaxProjects     \* projects a workspace has room for

VARIABLES
    project,    \* the active project
    made,       \* ids given out so far, of projects and of components
    exported,   \* the file that was exported last
    dialog,     \* open, mode, generation, choice, preview, loading, error
    reads,      \* files being read: by, generation, file
    imported,   \* (history) the last import: what the file held, what became of it
    edits       \* of MaxEdits

vars == <<project, made, exported, dialog, reads, imported, edits>>

Values(s, field) == {s[i][field] : i \in DOMAIN s}
Unique(s, field) == \A i, j \in DOMAIN s : s[i][field] = s[j][field] => i = j
Of(s, c) == CHOOSE x \in ToSet(s) : x.comp = c
SizeOf(s) == FoldLeft(LAMBDA n, x : n + Bytes[x.src], 0, s)
Without(s, c) == SelectSeq(s, LAMBDA x : x.comp # c)

Unlinked == [status |-> "unlinked"]

MarkStale(doc, what) ==
    IF doc.link = Unlinked THEN doc
    ELSE [doc EXCEPT !.link = [@ EXCEPT !.status = "stale", !.changed = @ \cup {what}]]

AllStale(docs, what) == [i \in DOMAIN docs |-> MarkStale(docs[i], what)]

EmptyProject(n) ==
    [id |-> n, comps |-> <<>>, wires |-> <<>>, targets |-> <<>>, plans |-> <<>>, docs |-> <<>>,
     legacy |-> [plans |-> {}, artifacts |-> {}]]

-----------------------------------------------------------------------------
(* What the reader of a file accepts.                                      *)

DefinitionOf(p, c) == (CHOOSE x \in ToSet(p.comps) : x.id = c).def
GraphIsWhole(p) ==
    /\ Unique(p.comps, "id") /\ Unique(p.wires, "id")
    /\ \A i \in DOMAIN p.wires : p.wires[i].ends \subseteq Values(p.comps, "id")

OnComponent(p, x) == x.comp \in Values(p.comps, "id") /\ x.def \in {None, DefinitionOf(p, x.comp)}
TargetsFit(p) ==
    /\ Unique(p.targets, "id") /\ Unique(p.targets, "comp")
    /\ \A t \in ToSet(p.targets) : OnComponent(p, t) /\ Bytes[t.src] <= SourceLimit

OfProject(p, x) == p.id = None \/ x.project = p.id

\* plans of a newer schema are let through unread, but their ids count
PlansFit(p) ==
    \A i \in DOMAIN p.plans :
        p.plans[i].schema = 1 =>
            /\ \A j \in 1..(i - 1) : p.plans[j].id # p.plans[i].id
            /\ OfProject(p, p.plans[i]) /\ p.plans[i].refs \subseteq Values(p.comps, "id")

LinkFits(p, link) ==
    \/ link = Unlinked
    \/ link.plan \in Values(p.plans, "id") /\ (link.status = "stale" => link.changed # {})
DocumentsFit(p) ==
    /\ Unique(p.docs, "id") /\ Unique(p.docs, "comp")
    /\ \A d \in ToSet(p.docs) :
        OfProject(p, d) /\ OnComponent(p, d) /\ d.def # None /\ LinkFits(p, d.link) /\ Bytes[d.src] <= SourceLimit
    /\ SizeOf(p.docs) <= SourceLimit

\* a source may be in both containers, but then twice the same
Legacy(p) == SelectSeq(p.targets, LAMBDA t : t.comp \notin Values(p.docs, "comp"))

SourcesFit_DocumentsOnly(p) ==
    /\ \A t \in ToSet(p.targets) : t.comp \in Values(p.docs, "comp") => Of(p.docs, t.comp).src = t.src
    /\ SizeOf(p.docs) <= SourceLimit
    /\ SizeOf(p.docs) + SizeOf(p.targets) <= 2 * SourceLimit

SourcesFit(p) ==
    /\ \A t \in ToSet(p.targets) : t.comp \in Values(p.docs, "comp") => Of(p.docs, t.comp).src = t.src
    /\ SizeOf(p.docs) + SizeOf(Legacy(p)) <= SourceLimit
    /\ SizeOf(p.docs) + SizeOf(p.targets) <= 2 * SourceLimit

ProjectFits(p) == GraphIsWhole(p) /\ TargetsFit(p) /\ PlansFit(p) /\ DocumentsFit(p) /\ SourcesFit(p)

\* unreadable: larger than 10 MB, no JSON, or more of it than the budget allows
ReadJsonFile(f) == f.kind # "unreadable"

\* a .vlx envelope, or a bare project of before there were envelopes
ParseSchematicProjectFile(f) == ReadJsonFile(f) /\ f.kind \in {"vlx", "bare"} /\ ProjectFits(f.project)

-----------------------------------------------------------------------------
(* What the store makes of a project that it reads.                        *)

\* the project that holds a record is the one it belongs to
NormalizeBehaviorPlan(q, id) == IF q.schema # 1 THEN None ELSE [q EXCEPT !.project = id]
NormalizeCodeDocument(d, id) == IF Bytes[d.src] > SourceLimit THEN None ELSE [d EXCEPT !.project = id]

\* documents in their order, up to the first one that is too much
Explicit(p) ==
    FoldLeft(LAMBDA acc, d :
                LET doc == NormalizeCodeDocument(d, p.id) IN
                IF acc.full \/ doc = None THEN acc
                ELSE IF SizeOf(acc.docs) + Bytes[doc.src] > SourceLimit THEN [acc EXCEPT !.full = TRUE]
                ELSE [acc EXCEPT !.docs = Append(@, doc)],
             [docs |-> <<>>, full |-> FALSE], p.docs).docs

CodeDocumentFromLegacyTarget(p, t) ==
    [id |-> <<"legacy", t.id>>, project |-> p.id, comp |-> t.comp, src |-> t.src, link |-> Unlinked,
     def |-> IF t.def # None THEN t.def ELSE IF t.comp \in Values(p.comps, "id") THEN DefinitionOf(p, t.comp) ELSE "unknown"]

\* a legacy target without a document gets one, unless it is too much
Documents(p) ==
    FoldLeft(LAMBDA docs, t :
                IF t.comp \in Values(docs, "comp") \/ SizeOf(docs) + Bytes[t.src] > SourceLimit THEN docs
                ELSE Append(docs, CodeDocumentFromLegacyTarget(p, t)),
             Explicit(p), p.targets)

\* plans of a newer schema and compiled artifacts are set aside, unread
Aside(p) ==
    LET newer == {q \in ToSet(p.plans) : q.schema # 1}
        compiled == {t \in ToSet(p.targets) : t.artifact}
    IN  [plans |-> IF newer = {} THEN p.legacy.plans ELSE {q.id : q \in newer},
         artifacts |-> IF compiled = {} THEN p.legacy.artifacts ELSE {t.id : t \in compiled}]

NormalizeProject(p) ==
    LET docs == Documents(p)
        plans == [i \in DOMAIN p.plans |-> NormalizeBehaviorPlan(p.plans[i], p.id)]
        Source(c) == IF c \in Values(docs, "comp") THEN Of(docs, c).src ELSE "empty"
    IN  [p EXCEPT !.docs = docs, !.legacy = Aside(p),
                  !.targets = [i \in DOMAIN @ |-> [@[i] EXCEPT !.artifact = FALSE, !.src = Source(p.targets[i].comp)]],
                  !.plans = SelectSeq(plans, LAMBDA q : q # None)]

\* the workspace has room for it, or persistState throws and nothing happens
CanImport == project.id < MaxProjects
ImportProject(p, n) ==
    LET q == NormalizeProject([p EXCEPT !.id = n]) IN [q EXCEPT !.docs = AllStale(@, "project")]

Imports(p) ==
    /\ made' = [made EXCEPT !.projects = @ + 1]
    /\ project' = ImportProject(p, made'.projects)
    /\ imported' = [from |-> p, to |-> project']

-----------------------------------------------------------------------------
(* Editing the active project.                                             *)

Edited(p) ==
    /\ edits < MaxEdits /\ edits' = edits + 1 /\ project' = p
    /\ UNCHANGED <<exported, dialog, reads, imported>>

AddComponent ==
    /\ Len(project.comps) < MaxComponents
    /\ made' = [made EXCEPT !.components = @ + 1]
    /\ Edited([project EXCEPT !.comps = Append(@, [id |-> made'.components, def |-> "uno"]), !.docs = AllStale(@, "project")])

Removed_KeepsTarget(p, c) ==
    [p EXCEPT !.comps = SelectSeq(@, LAMBDA x : x.id # c), !.wires = SelectSeq(@, LAMBDA w : c \notin w.ends),
              !.docs = AllStale(Without(@, c), "project")]

Removed(p, c) ==
    [p EXCEPT !.comps = SelectSeq(@, LAMBDA x : x.id # c), !.wires = SelectSeq(@, LAMBDA w : c \notin w.ends),
              !.targets = Without(@, c), !.docs = AllStale(Without(@, c), "project")]

RemoveComponent(c) == c \in Values(project.comps, "id") /\ Edited(Removed(project, c)) /\ UNCHANGED made

ConnectPorts(a, b) ==
    /\ a # b /\ {a, b} \subseteq Values(project.comps, "id") /\ {a, b} \notin Values(project.wires, "ends") /\ UNCHANGED made
    /\ Edited([project EXCEPT !.wires = Append(@, [id |-> {a, b}, ends |-> {a, b}]), !.docs = AllStale(@, "project")])

\* the plan goes to the end; documents that are linked to it become stale
WriteBehaviorPlan(id, refs) ==
    LET plan == [id |-> id, schema |-> 1, project |-> project.id, refs |-> refs]
        Linked(d) == d.link # Unlinked /\ d.link.plan = id
    IN  /\ refs \subseteq Values(project.comps, "id") /\ UNCHANGED made
        /\ Edited([project EXCEPT !.plans = Append(SelectSeq(@, LAMBDA q : q.id # id), plan),
                                  !.docs = [i \in DOMAIN @ |-> IF Linked(@[i]) THEN MarkStale(@[i], "plan") ELSE @[i]]])

\* the link that a caller asks for, or what the new source leaves of the old one
LinkAfter(current, src, plan) ==
    IF plan # None THEN [status |-> "linked", plan |-> plan, content |-> src, changed |-> {}]
    ELSE IF current = None \/ current.link = Unlinked THEN Unlinked
    ELSE IF current.link.content = src THEN current.link ELSE MarkStale(current, "code").link

\* the legacy target is written along
Mirrored_OnlyNew(targets, doc) ==
    IF doc.comp \in Values(targets, "comp") THEN targets
    ELSE Append(targets, [id |-> <<"fw", doc.comp>>, comp |-> doc.comp, def |-> doc.def, src |-> doc.src, artifact |-> FALSE])

Mirrored(targets, doc) ==
    IF doc.comp \in Values(targets, "comp")
    THEN [i \in DOMAIN targets |->
            IF targets[i].comp = doc.comp THEN [targets[i] EXCEPT !.src = doc.src, !.def = doc.def, !.artifact = FALSE] ELSE targets[i]]
    ELSE Append(targets, [id |-> <<"fw", doc.comp>>, comp |-> doc.comp, def |-> doc.def, src |-> doc.src, artifact |-> FALSE])

\* the document goes to the end
WriteCodeDocument(c, src, plan) ==
    LET current == IF c \in Values(project.docs, "comp") THEN Of(project.docs, c) ELSE None
        doc == [id |-> IF current = None THEN <<"code", c>> ELSE current.id, project |-> project.id,
                comp |-> c, def |-> DefinitionOf(project, c), src |-> src, link |-> LinkAfter(current, src, plan)]
    IN  /\ c \in Values(project.comps, "id") /\ plan \in Values(project.plans, "id") \cup {None}
        /\ SizeOf(Without(project.docs, c)) + Bytes[src] <= SourceLimit
        /\ Edited([project EXCEPT !.docs = Append(Without(@, c), doc), !.targets = Mirrored(@, doc)]) /\ UNCHANGED made

-----------------------------------------------------------------------------
(* Files.                                                                  *)

BuildVlxPayload == [kind |-> "vlx", project |-> project]
Export == exported' = BuildVlxPayload /\ exported' # exported /\ UNCHANGED <<project, made, dialog, reads, imported, edits>>

Closed(n) == [open |-> FALSE, mode |-> "project", generation |-> n, choice |-> None, preview |-> None, loading |-> FALSE, error |-> FALSE]
Opens == ~dialog.open /\ dialog.generation < MaxGenerations /\ dialog' = [dialog EXCEPT !.open = TRUE] /\ UNCHANGED <<project, made, exported, reads, imported, edits>>

\* unmounting bumps the generation, so that no read of this dialog still counts
Unmounted == Closed(dialog.generation + 1)
Closes == dialog.open /\ dialog' = Unmounted /\ UNCHANGED <<project, made, exported, reads, imported, edits>>

Available(f) == f # None /\ f \in Files \cup {exported}
StartsRead(by, n, f) ==
    /\ Cardinality(reads) < MaxReads /\ reads' = reads \cup {[by |-> by, generation |-> n, file |-> f]}

ChooseProjectFile(f) ==
    /\ dialog.open /\ dialog.mode = "project" /\ dialog.generation < MaxGenerations /\ Available(f)
    /\ dialog' = [dialog EXCEPT !.generation = @ + 1, !.choice = f, !.preview = None, !.loading = TRUE, !.error = FALSE]
    /\ StartsRead("dialog", dialog'.generation, f)
    /\ UNCHANGED <<project, made, exported, imported, edits>>

Counts_Any(r) == dialog.open

Counts(r) == r.generation = dialog.generation

\* the file is read, and its preview shown if no other choice was made since
DialogHasRead(r) ==
    /\ r.by = "dialog" /\ r \in reads /\ reads' = reads \ {r}
    /\ dialog' = IF ~Counts(r) THEN dialog
                 ELSE IF ParseSchematicProjectFile(r.file) THEN [dialog EXCEPT !.preview = r.file.project, !.loading = FALSE]
                 ELSE [dialog EXCEPT !.error = TRUE, !.loading = FALSE]
    /\ UNCHANGED <<project, made, exported, imported, edits>>

ToModels ==
    /\ dialog.open /\ dialog.mode = "project" /\ dialog.generation < MaxGenerations
    /\ dialog' = [dialog EXCEPT !.mode = "models", !.generation = @ + 1, !.loading = FALSE, !.error = FALSE]
    /\ UNCHANGED <<project, made, exported, reads, imported, edits>>
ToProject ==
    /\ dialog.open /\ dialog.mode = "models" /\ dialog' = [dialog EXCEPT !.mode = "project", !.error = FALSE]
    /\ UNCHANGED <<project, made, exported, reads, imported, edits>>

DoImportProject ==
    /\ dialog.open /\ dialog.mode = "project" /\ dialog.preview # None /\ ~dialog.loading
    /\ IF CanImport THEN Imports(dialog.preview) /\ dialog' = Unmounted
       ELSE dialog' = [dialog EXCEPT !.error = TRUE] /\ UNCHANGED <<project, made, imported>>
    /\ UNCHANGED <<exported, reads, edits>>

\* the settings page imports what it has read at once, whatever happened since
HandleImport(f) ==
    /\ Available(f) /\ StartsRead("settings", 0, f)
    /\ UNCHANGED <<project, made, exported, dialog, imported, edits>>
SettingsHaveRead(r) ==
    /\ r.by = "settings" /\ r \in reads /\ reads' = reads \ {r}
    /\ IF ParseSchematicProjectFile(r.file) /\ CanImport THEN Imports(r.file.project) ELSE UNCHANGED <<project, made, imported>>
    /\ UNCHANGED <<exported, dialog, edits>>

FileInit ==
    /\ project = EmptyProject(1) /\ made = [projects |-> 1, components |-> 10]
    /\ exported = None /\ dialog = Closed(0) /\ reads = {} /\ imported = None /\ edits = 0

FileNext ==
    \/ AddComponent \/ Export \/ Opens \/ Closes \/ ToModels \/ ToProject \/ DoImportProject
    \/ \E c \in Values(project.comps, "id") :
        \/ RemoveComponent(c)
        \/ \E b \in Values(project.comps, "id") : ConnectPorts(c, b)
        \/ \E src \in DOMAIN Bytes, plan \in Plans \cup {None} : WriteCodeDocument(c, src, plan)
    \/ \E id \in Plans, refs \in SUBSET Values(project.comps, "id") : WriteBehaviorPlan(id, refs)
    \/ \E f \in Files \cup {exported} : ChooseProjectFile(f) \/ HandleImport(f)
    \/ \E r \in reads : DialogHasRead(r) \/ SettingsHaveRead(r)

-----------------------------------------------------------------------------
(* Properties.                                                             *)

\* plans that name a component which is gone, links to a plan which is not there
Dangles(p) ==
    \/ \E q \in ToSet(p.plans) : ~(q.refs \subseteq Values(p.comps, "id"))
    \/ \E d \in ToSet(p.docs) : d.link # Unlinked /\ d.link.plan \notin Values(p.plans, "id")

\* Whatever was imported and edited, the project's export can be imported again,
\* but for plans that name a component, and links that name a plan, that is gone.
ExportsAreReadable == Dangles(project) \/ ParseSchematicProjectFile(BuildVlxPayload)

\* Saving the active project and reading it back changes nothing of it.
SurvivesReload == NormalizeProject(project) = project

\* An import keeps all that the file held: its graph, its plans (newer ones set
\* aside), the source of every board, in whichever container, and its links.
Sources(p) == {<<x.comp, x.src>> : x \in ToSet(p.docs) \cup ToSet(Legacy(p))}
Links(p) == {<<d.comp, IF d.link = Unlinked THEN None ELSE d.link.plan>> : d \in ToSet(p.docs)}
PlansOf(p) == {<<q.id, q.refs>> : q \in {x \in ToSet(p.plans) : x.schema = 1}}
ImportsAreComplete ==
    imported # None =>
        LET from == imported.from
            to == imported.to
            newer == {q.id : q \in {x \in ToSet(from.plans) : x.schema # 1}}
        IN  /\ to.comps = from.comps /\ to.wires = from.wires /\ PlansOf(to) = PlansOf(from)
            /\ Sources(to) = Sources(from) /\ Links(from) \subseteq Links(to)
            /\ newer \subseteq to.legacy.plans /\ (newer = {} => to.legacy.plans = from.legacy.plans)
            /\ \A d \in ToSet(to.docs) : d.project = to.id /\ d.link.status # "linked"

\* The dialog shows the file that was chosen last, and says that it reads only
\* while it does.
PreviewIsOfChoice ==
    /\ dialog.preview # None =>
        dialog.choice # None /\ ParseSchematicProjectFile(dialog.choice) /\ dialog.preview = dialog.choice.project
    /\ dialog.loading => \E r \in reads : r.by = "dialog" /\ r.generation = dialog.generation /\ r.file = dialog.choice
=============================================================================
