---------------------------- MODULE SourceEditor ----------------------------
(***************************************************************************)
(* components/editor/MonacoWorkspace.tsx: the editor of a board's source.  *)
(* Edits are kept as drafts that outlive the panel, one per account,       *)
(* project and component, and are saved a moment later, each over exactly  *)
(* the version it was started from (the store's writeCodeDocument).  Other *)
(* writers, a tool, an undo or another tab, change the same documents.     *)
(* A text is a number and the documents it is made from; all files of a    *)
(* document are one text.  The status line is left out.                    *)
(***************************************************************************)
EXTENDS Naturals, FiniteSets

CONSTANTS
    None,
    Users, Projects, Components,
    MaxDrafts,  \* MAX_SHARED_CODE_DRAFTS and MAX_SHARED_CODE_DRAFT_BYTES
    MaxTexts,   \* bound on the texts that are written
    MaxSwitches \* bound on the changes of account

VARIABLES
    user,       \* getCurrentUserId()
    documents,  \* project.codeDocuments of every room
    view,       \* the active project, the selected component, the panel
    drafts,     \* sharedCodeDrafts: key -> draft or None
    armed,      \* saveTimersRef
    screen,     \* code, what Monaco shows
    texts, turns,
    met,        \* ghost: the versions that were shown or offered, per document
    typed,      \* ghost: what the user typed last and neither saved nor gave up
    overwrote   \* ghost: the versions that the last step's saves replaced

editorVars == <<user, documents, view, drafts, armed, screen, texts, turns, met, typed, overwrote>>

Keys == Users \X Projects \X Components
Sketch == [n |-> 0, homes |-> {}]   \* DEFAULT_SKETCH
Texts == [n : 0..MaxTexts, homes : SUBSET Keys]
Conflict == [mine : Texts, newer : Texts \cup {None}]
Draft == [text : Texts, base : Texts \cup {None}, dirty : BOOLEAN, conflict : Conflict \cup {None},
          refused : BOOLEAN,    \* the store refused the last save, and the panel says so
          older : SUBSET Keys]  \* the drafts that were there before this one

EditorTypeOK ==
    /\ user \in Users /\ documents \in [Keys -> Texts \cup {None}]
    /\ view \in [project : Projects, component : Components \cup {None}, mounted : BOOLEAN]
    /\ drafts \in [Keys -> Draft \cup {None}] /\ armed \subseteq Keys /\ screen \in Texts
    /\ typed \in [Keys -> Texts \cup {None}] /\ met \in [Keys -> SUBSET Texts]

-----------------------------------------------------------------------------
Owned(ds, u) == {k \in Keys : k[1] = u /\ ds[k] # None}
Without(ds, ks) == [k \in Keys |-> IF k \in ks \/ ds[k] = None THEN None ELSE [ds[k] EXCEPT !.older = @ \ ks]]

EditorDocumentKey(u, v) == <<u, v.project, v.component>>
Shown == EditorDocumentKey(user, view)

\* more of an account's drafts than MaxDrafts: the oldest clean ones go
Surplus(ds, among, own) == {k \in among : Cardinality(among \cap ds[k].older) + MaxDrafts < Cardinality(own)}
Prune_Oldest(ds, u) ==     \* drafts with edits are evicted as well
    LET own == Owned(ds, u) IN Without(ds, Keys \ (own \ Surplus(ds, own, own)))
Prune(ds, u) ==
    LET own == Owned(ds, u)
        Clean == {k \in own : ~ds[k].dirty /\ ds[k].conflict = None}
    IN  Without(ds, Keys \ (own \ Surplus(ds, Clean, own)))

SetDraft(ds, key, d) == Prune([ds EXCEPT ![key] = d], user)

\* flushDraft writes the component's document of the project that is active.
Edited(key) == drafts[key] # None /\ drafts[key].dirty
MayFlush_AnyProject(key) == Edited(key) /\ key[1] = user
MayFlush(key) == Edited(key) /\ key[1] = user /\ key[2] = view.project
Target(key) == <<user, view.project, key[3]>>
IsCurrent_Unchecked(key) == drafts[key].dirty   \* no expectedContentSha256
IsCurrent(key) == documents[Target(key)] = drafts[key].base
Saves(key, refused) == MayFlush(key) /\ ~refused /\ IsCurrent(key)
Flushed(key, refused) ==
    IF Saves(key, refused) THEN [drafts[key] EXCEPT !.base = drafts[key].text, !.dirty = FALSE, !.conflict = None, !.refused = FALSE]
    ELSE IF refused THEN [drafts[key] EXCEPT !.refused = TRUE]
    ELSE [drafts[key] EXCEPT !.conflict = [mine |-> drafts[key].text, newer |-> documents[Target(key)]]]
Overwritten(key) == [key |-> Target(key), text |-> documents[Target(key)]]

\* The effect that follows a change of the document on screen, or a move to
\* another: a draft with edits or a conflict stays, a clean one gives way.
Synchronised(key, ds, timers, docs, moved) ==
    LET incoming == IF docs[key] = None THEN Sketch ELSE docs[key]
        d == ds[key]
        Kept == d # None /\ (d.text = incoming \/ d.dirty \/ d.conflict # None)
        Schedules == Kept /\ d.dirty /\ (d.text = incoming \/ d.conflict = None)
    IN  [drafts |-> IF Kept THEN ds ELSE Without(ds, {key}),
         armed |-> IF Schedules THEN timers \cup {key} ELSE timers,
         screen |-> IF ~Kept THEN incoming ELSE IF moved THEN d.text ELSE screen]

\* The panel after a step that leaves it on key with these drafts, timers and documents.
Renders(key, ds, timers, docs) ==
    LET moved == ~view.mounted \/ key # Shown
        next == IF key[3] = None THEN [drafts |-> ds, armed |-> timers, screen |-> Sketch]
                ELSE IF moved \/ docs[key] # documents[key] THEN Synchronised(key, ds, timers, docs, moved)
                ELSE [drafts |-> ds, armed |-> timers, screen |-> screen]
    IN  /\ drafts' = next.drafts /\ armed' = next.armed /\ screen' = next.screen
        /\ met' = IF key[3] = None THEN met ELSE [met EXCEPT ![key] = @ \cup {next.screen}]

-----------------------------------------------------------------------------
EditorInit ==
    /\ user \in Users /\ documents = [k \in Keys |-> None]
    /\ view \in [project : Projects, component : {None}, mounted : {FALSE}]
    /\ drafts = [k \in Keys |-> None] /\ armed = {} /\ screen = Sketch /\ texts = 0 /\ turns = 0
    /\ met = [k \in Keys |-> {}] /\ typed = [k \in Keys |-> None] /\ overwrote = {}

\* RightPanel mounts the editor on its Code tab; useSelectionStore.setActive;
\* switchProject, after which nothing is selected.
Moves(v) ==
    /\ view' = v
    /\ IF v.mounted THEN Renders(EditorDocumentKey(user, v), Prune(drafts, user), armed, documents)
       ELSE UNCHANGED <<drafts, armed, screen, met>>
    /\ overwrote' = {} /\ UNCHANGED <<user, documents, texts, turns, typed>>
OpenPanel == ~view.mounted /\ Moves([view EXCEPT !.mounted = TRUE])
Select == \E c \in Components \ {view.component} : Moves([view EXCEPT !.component = c])
SwitchProject == \E p \in Projects \ {view.project} : Moves([view EXCEPT !.project = p, !.component = None])

\* purgeForSessionChange, after the store moved to the account's own room.
ChangeUser ==
    /\ turns < MaxSwitches
    /\ \E u \in Users \ {user}, p \in Projects :
        LET v == [view EXCEPT !.project = p, !.component = None] IN
        /\ user' = u /\ view' = v /\ turns' = turns + 1
        /\ IF view.mounted THEN Renders(EditorDocumentKey(u, v), Prune(drafts, u), armed, documents)
           ELSE UNCHANGED <<drafts, armed, screen, met>>
        /\ typed' = [k \in Keys |-> None] /\ overwrote' = {} /\ UNCHANGED <<documents, texts>>

HandleCodeChange ==
    /\ view.mounted /\ view.component # None /\ texts < MaxTexts
    /\ LET key == Shown
           existing == drafts[key]
           new == [n |-> texts + 1, homes |-> screen.homes \cup {key}]
           conflict == IF existing = None \/ existing.conflict = None THEN None ELSE [existing.conflict EXCEPT !.mine = new]
           base == IF existing = None THEN documents[key] ELSE existing.base
           older == IF existing = None THEN {k \in Keys : drafts[k] # None} ELSE existing.older
       IN  /\ drafts' = SetDraft(drafts, key, [text |-> new, base |-> base, dirty |-> TRUE, conflict |-> conflict, refused |-> FALSE,
                                               older |-> older])
           /\ armed' = IF conflict = None THEN armed \cup {key} ELSE armed
           /\ screen' = new /\ met' = [met EXCEPT ![key] = @ \cup {new}]
           /\ typed' = [typed EXCEPT ![key] = new]
    /\ texts' = texts + 1 /\ overwrote' = {} /\ UNCHANGED <<user, documents, view, turns>>

\* The store refuses a write of its own accord: its persistence gate is closed,
\* the component is gone, or the project's sources would pass their limits.
TimerFires ==
    \E key \in armed, refused \in BOOLEAN :
        IF ~MayFlush(key)
        THEN /\ ~refused /\ armed' = armed \ {key} /\ overwrote' = {}
             /\ UNCHANGED <<user, documents, view, drafts, screen, texts, turns, met, typed>>
        ELSE LET docs == IF Saves(key, refused) THEN [documents EXCEPT ![Target(key)] = drafts[key].text] ELSE documents IN
             /\ documents' = docs
             /\ Renders(Shown, SetDraft(drafts, key, Flushed(key, refused)), armed \ {key}, docs)
             /\ overwrote' = IF Saves(key, refused) THEN {Overwritten(key)} ELSE {}
             /\ typed' = IF Saves(key, refused) THEN [typed EXCEPT ![key] = None] ELSE typed
             /\ UNCHANGED <<user, view, texts, turns>>

\* The panel closes: what may be saved is saved at once.
ClosePanel ==
    /\ view.mounted /\ view' = [view EXCEPT !.mounted = FALSE]
    /\ \E refused \in BOOLEAN :
        LET Saved == {k \in Keys : Saves(k, refused)}
        IN  /\ refused => \E k \in Keys : MayFlush(k)
            /\ documents' = [k \in Keys |-> IF \E j \in Saved : Target(j) = k THEN drafts[CHOOSE j \in Saved : Target(j) = k].text
                                            ELSE documents[k]]
            /\ drafts' = Prune([k \in Keys |-> IF MayFlush(k) THEN Flushed(k, refused) ELSE drafts[k]], user)
            /\ typed' = [k \in Keys |-> IF k \in Saved THEN None ELSE typed[k]]
            /\ overwrote' = {Overwritten(k) : k \in Saved}
    /\ armed' = {} /\ screen' = Sketch /\ UNCHANGED <<user, texts, turns, met>>

\* writeCodeDocument, undo or clear by a tool, the page or another tab of the room.
OtherWrites ==
    \E key \in {k \in Keys : k[1] = user} :
        \E new \in {None} \cup met[key] \cup (IF texts < MaxTexts THEN {[n |-> texts + 1, homes |-> {key}]} ELSE {}) :
            LET docs == [documents EXCEPT ![key] = new] IN
            /\ new # documents[key] /\ documents' = docs
            /\ IF view.mounted THEN Renders(Shown, drafts, armed, docs) ELSE UNCHANGED <<drafts, armed, screen, met>>
            /\ texts' = IF new # None /\ new.n > texts THEN texts + 1 ELSE texts
            /\ overwrote' = {} /\ UNCHANGED <<user, view, turns, typed>>

-----------------------------------------------------------------------------
\* A clean draft may be pruned as soon as its conflict is solved: the next edit then
\* starts from the document, although it has changed again and was not shown;
\* met counts that version as seen, so that the property below says what holds
\* everywhere else.
Unshown(ds) == IF ds[Shown] = None THEN {documents[Shown]} ELSE {}

\* The three buttons of the conflict that is shown.
Conflicting == IF view.mounted /\ view.component # None /\ drafts[Shown] # None THEN drafts[Shown].conflict ELSE None
Resolves(ds, timers, text) ==
    /\ drafts' = ds /\ armed' = timers /\ screen' = text
    /\ met' = [met EXCEPT ![Shown] = @ \cup (({text, Conflicting.newer} \cup Unshown(ds)) \ {None})]
    /\ overwrote' = {} /\ UNCHANGED <<user, documents, view, texts, turns>>

UseNewerConflictSource ==
    /\ Conflicting # None /\ Conflicting.newer # None
    /\ LET newer == Conflicting.newer IN
       Resolves(SetDraft(drafts, Shown, [drafts[Shown] EXCEPT !.text = newer, !.base = newer, !.dirty = FALSE, !.conflict = None]),
                armed \ {Shown}, newer)
    /\ typed' = [typed EXCEPT ![Shown] = None]

\* The recorded version is a deletion.  The sketch is shown even if there is a
\* document again, which met counts as seen too.
UseDeletedConflictSource ==
    /\ Conflicting # None /\ Conflicting.newer = None
    /\ Resolves(Without(Prune(drafts, user), {Shown}), armed \ {Shown}, Sketch)
    /\ typed' = [typed EXCEPT ![Shown] = None]

RestoreLocalConflictDraft ==
    /\ Conflicting # None
    /\ Resolves(SetDraft(drafts, Shown, [drafts[Shown] EXCEPT !.text = Conflicting.mine, !.dirty = TRUE]),
                armed \ {Shown}, Conflicting.mine)
    /\ UNCHANGED typed

RebaseLocalConflictDraft ==
    /\ Conflicting # None
    /\ Resolves(SetDraft(drafts, Shown, [drafts[Shown] EXCEPT !.text = Conflicting.mine, !.base = Conflicting.newer, !.dirty = TRUE,
                                                           !.conflict = None]),
                armed \cup {Shown}, Conflicting.mine)
    /\ UNCHANGED typed

EditorNext ==
    \/ OpenPanel \/ Select \/ SwitchProject \/ ChangeUser \/ HandleCodeChange \/ TimerFires \/ ClosePanel \/ OtherWrites
    \/ UseNewerConflictSource \/ UseDeletedConflictSource \/ RestoreLocalConflictDraft \/ RebaseLocalConflictDraft

EditorSpec == EditorInit /\ [][EditorNext]_editorVars

-----------------------------------------------------------------------------
\* What was typed for one account, project and component is never saved into
\* another's document, whichever timer, switch or sign-in comes in between.
SourceStaysHome == \A k \in Keys : documents[k] # None => documents[k].homes \subseteq {k}

\* A save replaces a version that the editor has shown, or has offered in a
\* conflict; no version that another writer made unnoticed is lost.
NothingUnseenIsLost == \A o \in overwrote : o.text # None => o.text \in met[o.key]

\* What the user typed is saved or still there as an unsaved draft, until the
\* user gives it up or signs out; and while it is on screen it waits for its
\* timer, for the user to solve a conflict, or the panel says it was refused.
UnsavedSourceIsKept ==
    /\ \A k \in Keys : typed[k] # None => Edited(k) /\ drafts[k].text = typed[k]
    /\ view.mounted /\ view.component # None /\ typed[Shown] # None =>
          Shown \in armed \/ drafts[Shown].conflict # None \/ drafts[Shown].refused
=============================================================================
