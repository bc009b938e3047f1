--------------------------- MODULE PreviewCommands ---------------------------
(***************************************************************************)
(* The Behavior Preview commands (application/behaviorCommands.ts), the    *)
(* preview store of the page (behavior/useBehaviorPreviewStore.ts), the    *)
(* adapter between them and the agent's preview tools                      *)
(* (webmcp/behaviorTools.ts).  Only preparing a plan may yield to other    *)
(* events, but every answer is a promise: tools called together, and the   *)
(* changes they make, come before the callers of the first of them resume. *)
(*                                                                         *)
(* world stands for the project, its graph and its plans; every change of  *)
(* them that the store subscription notices is a new world.                *)
(***************************************************************************)
EXTENDS Naturals, Sequences

CONSTANTS
    None,
    MaxWorlds,      \* bound: changes of graph, plan or project
    MaxLease,       \* bound: persistence leases
    MaxCommands     \* bound: commands issued

VARIABLES
    world, lease, hydrated,
    session,    \* activeSession, with what it was opened for
    status,     \* previewStatus
    opGen,      \* previewOperationGeneration
    prepares,   \* previewBehavior calls awaiting prepare()
    answers,    \* settled commands whose callers have not resumed yet, in order
    ui,         \* the preview store: status, snapshot, requestGeneration; history: who wrote it
    issued      \* commands issued so far: also the number of a preview request

previewVars == <<world, lease, hydrated, session, status, opGen, prepares, answers, ui, issued>>
room == <<world, lease, hydrated>>

Running(s) == s \in {"playing", "partial"}
Snapshot(s) == [req |-> s.req, world |-> s.world, lease |-> s.lease]

\* the result of a command, on its way to the UI (with the generation of its
\* request) or to the tool that called it
Ok(st, snap) == [ok |-> TRUE, status |-> st, snap |-> snap, keep |-> FALSE, drop |-> FALSE]
Closed == [ok |-> FALSE, status |-> "blocked", snap |-> None, keep |-> FALSE, drop |-> FALSE]
Refused == [Closed EXCEPT !.keep = TRUE]
Superseded == [Closed EXCEPT !.drop = TRUE]
Answer(by, gen, res) == answers' = Append(answers, [by |-> by, gen |-> gen, res |-> res])

Issue == issued < MaxCommands /\ issued' = issued + 1
UiGen == ui.gen + 1

(***************************************************************************)
(* previewBehavior, up to and after the await of prepare().                *)
(***************************************************************************)
BeginPreview(by, gen) ==
    /\ opGen' = opGen + 1 /\ session' = None
    /\ \/ /\ hydrated
          /\ prepares' = prepares \cup {[op |-> opGen + 1, req |-> issued', world |-> world,
                                         lease |-> lease, by |-> by, gen |-> gen]}
          /\ UNCHANGED <<answers, status>>
       \/ hydrated /\ status' = "blocked" /\ Answer(by, gen, Closed) /\ UNCHANGED prepares   \* no such plan
       \/ ~hydrated /\ Answer(by, gen, Closed) /\ UNCHANGED <<prepares, status>>
    /\ UNCHANGED room

MayInstall_AnyRequest(p) == p.world = world

\* requestIsCurrent
MayInstall(p) == p.op = opGen /\ p.world = world

InstallPreview(p, st) ==
    /\ hydrated /\ p.lease = lease /\ MayInstall(p)
    /\ session' = [req |-> p.req, world |-> p.world, lease |-> p.lease]
    /\ status' = st
    /\ prepares' = prepares \ {p} /\ Answer(p.by, p.gen, Ok(st, Snapshot(session')))
    /\ UNCHANGED <<room, opGen, ui, issued>>

BlockPreview(p) ==
    /\ hydrated /\ p.lease = lease /\ MayInstall(p)
    /\ status' = "blocked"
    /\ prepares' = prepares \ {p} /\ Answer(p.by, p.gen, Closed)
    /\ UNCHANGED <<room, session, opGen, ui, issued>>

DropPreview(p) ==
    /\ ~(hydrated /\ p.lease = lease /\ MayInstall(p))
    /\ prepares' = prepares \ {p}
    /\ Answer(p.by, p.gen, IF hydrated /\ p.lease = lease THEN Superseded ELSE Closed)
    /\ UNCHANGED <<room, session, status, opGen, ui, issued>>

(***************************************************************************)
(* The commands that settle without yielding.  ended: the logical time has *)
(* reached the duration.                                                   *)
(***************************************************************************)
Resume(gen, ended) ==
    /\ IF hydrated /\ session # None
       THEN status' = (IF ended THEN "ready" ELSE "playing") /\ Answer("ui", gen, Ok(status', Snapshot(session)))
       ELSE Answer("ui", gen, Closed) /\ UNCHANGED status
    /\ UNCHANGED <<room, session, opGen, prepares>>

Pause(gen) ==
    /\ IF ~hydrated THEN Answer("ui", gen, Refused) /\ UNCHANGED <<status, opGen>>
       ELSE /\ opGen' = opGen + 1
            /\ IF session = None THEN Answer("ui", gen, Ok("idle", None)) /\ UNCHANGED status
               ELSE status' = "paused" /\ Answer("ui", gen, Ok("paused", Snapshot(session)))
    /\ UNCHANGED <<room, session, prepares>>

Reset(gen) ==
    /\ opGen' = opGen + 1
    /\ status' = IF session = None THEN "idle" ELSE "ready"
    /\ Answer("ui", gen, Ok(status', IF session = None THEN None ELSE Snapshot(session)))
    /\ UNCHANGED <<room, session, prepares>>

Seek(gen, ended) ==
    /\ IF hydrated /\ session # None
       THEN /\ status' = IF Running(status) /\ ended THEN "ready" ELSE status
            /\ Answer("ui", gen, Ok(status', Snapshot(session)))
       ELSE Answer("ui", gen, Refused) /\ UNCHANGED status
    /\ UNCHANGED <<room, session, opGen, prepares>>

Invoke(by, gen) ==
    /\ IF hydrated /\ session # None
       THEN /\ status' = IF status = "idle" THEN "ready" ELSE status
            /\ Answer(by, gen, Ok(status', Snapshot(session)))
       ELSE Answer(by, gen, Refused) /\ UNCHANGED status
    /\ UNCHANGED <<room, session, opGen, prepares>>

(***************************************************************************)
(* The controls of the page, and the agent's tools.  A click is an event   *)
(* of its own: whatever settled before it has been answered.               *)
(***************************************************************************)
Event == answers = <<>>

StartPreview ==
    /\ Event /\ Issue
    /\ ui' = [ui EXCEPT !.status = "playing", !.gen = UiGen, !.shown = IF ui.status = "paused" THEN @ ELSE None]
    /\ \/ status = "paused" /\ \E ended \in BOOLEAN : Resume(UiGen, ended)
       \/ status # "paused" /\ BeginPreview("ui", UiGen)

PausePreview == Event /\ Issue /\ ui' = [ui EXCEPT !.status = "paused", !.gen = UiGen] /\ Pause(UiGen)
ResetPreview == Event /\ Issue /\ ui' = [ui EXCEPT !.status = "idle", !.gen = UiGen, !.shown = None] /\ Reset(UiGen)
SeekPreview == Event /\ Issue /\ ui' = [ui EXCEPT !.gen = UiGen] /\ \E ended \in BOOLEAN : Seek(UiGen, ended)
DispatchEvent == Event /\ Issue /\ UNCHANGED ui /\ Invoke("ui", ui.gen)

PreviewTool == Issue /\ UNCHANGED ui /\ BeginPreview("tool", 0)
InvokeTool == Issue /\ UNCHANGED ui /\ Invoke("tool", 0)

(***************************************************************************)
(* The caller resumes.                                                     *)
(***************************************************************************)
Shown(res) == IF res.keep THEN ui.shown ELSE res.snap

UiResumes_AnyGeneration(a) == ui' = [ui EXCEPT !.status = a.res.status, !.shown = Shown(a.res),
                                           !.by = IF a.res.keep THEN @ ELSE "ui"]

\* runCommand: an overtaken answer is dropped
UiResumes(a) ==
    IF a.gen = ui.gen THEN ui' = [ui EXCEPT !.status = a.res.status, !.shown = Shown(a.res),
                                           !.by = IF a.res.keep THEN @ ELSE "ui"]
    ELSE UNCHANGED ui

\* previewCommandResult writes the store whatever it holds by now
ToolResumes(a) ==
    IF a.res.drop THEN UNCHANGED ui
    ELSE ui' = [gen |-> UiGen, status |-> a.res.status, by |-> "tool",
                shown |-> IF a.res.ok THEN a.res.snap ELSE None]

CallerResumes ==
    /\ answers # <<>>
    /\ LET a == Head(answers) IN IF a.by = "ui" THEN UiResumes(a) ELSE ToolResumes(a)
    /\ answers' = Tail(answers)
    /\ UNCHANGED <<room, session, status, opGen, prepares, issued>>

(***************************************************************************)
(* The project, the plans or the room change.                              *)
(***************************************************************************)
ClearPreview_SameGeneration ==
    /\ opGen' = opGen + 1 /\ session' = None /\ status' = "idle"
    /\ ui' = [ui EXCEPT !.status = "idle", !.shown = None]

\* closeActiveSession, and setSnapshot(null) of the page's store
ClearPreview ==
    /\ opGen' = opGen + 1 /\ session' = None /\ status' = "idle"
    /\ ui' = [status |-> "idle", shown |-> None, gen |-> UiGen, by |-> "ui"]

ProjectChanges ==
    /\ world < MaxWorlds /\ world' = world + 1
    /\ ClearPreview
    /\ UNCHANGED <<lease, hydrated, prepares, answers, issued>>

ClearStalePreview ==
    /\ lease < MaxLease /\ lease' = lease + 1 /\ hydrated' = FALSE
    /\ ClearPreview
    /\ UNCHANGED <<world, prepares, answers, issued>>

RoomHydrated ==
    /\ ~hydrated /\ hydrated' = TRUE
    /\ UNCHANGED <<world, lease, session, status, opGen, prepares, answers, ui, issued>>

PreviewInit ==
    /\ world = 1 /\ lease = 1 /\ hydrated = TRUE
    /\ session = None /\ status = "idle" /\ opGen = 0
    /\ prepares = {} /\ answers = <<>> /\ issued = 0
    /\ ui = [status |-> "idle", shown |-> None, gen |-> 0, by |-> "ui"]

PreviewNext ==
    \/ StartPreview \/ PausePreview \/ ResetPreview \/ SeekPreview \/ DispatchEvent
    \/ PreviewTool \/ InvokeTool
    \/ \E p \in prepares : (\E st \in {"playing", "partial"} : InstallPreview(p, st)) \/ BlockPreview(p) \/ DropPreview(p)
    \/ CallerResumes
    \/ ProjectChanges \/ ClearStalePreview \/ RoomHydrated

PreviewSpec == PreviewInit /\ [][PreviewNext]_previewVars

-----------------------------------------------------------------------------
\* The reducer session is always one of the newest preview request, opened for
\* the project, plans and room lease that are current now: no prepare that was
\* overtaken by a request, an edit or an account change installs one.
SessionIsCurrent ==
    session # None =>
        /\ session.world = world /\ session.lease = lease
        /\ \A p \in prepares : p.req < session.req

\* The page never shows a snapshot of a project, plan or room that has been
\* replaced, as long as its own controls asked for it.
UiShowsCurrent ==
    ui.shown # None /\ ui.by = "ui" => ui.shown.world = world /\ ui.shown.lease = lease

\* With nothing in flight, a preview shown has a session behind it that the
\* controls can pause, seek and dispatch to.
ShownHasSession ==
    prepares = {} /\ answers = <<>> /\ ui.shown # None /\ ui.by = "ui" => session # None /\ session.req = ui.shown.req
=============================================================================
