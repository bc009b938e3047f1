------------------------- MODULE ProjectVerification -------------------------
(***************************************************************************)
(* verifyProject (application/projectVerification.ts) with                 *)
(* prepareBehaviorPlanReadiness (behaviorReadiness.ts) and the outcomes of *)
(* checkFirmware (firmwareCommands.ts).                                    *)
(*                                                                         *)
(* The report judges graph, bindings and plan of the project that was      *)
(* active when the call began, but asks the store for each board's source  *)
(* when its turn comes: after the plan was prepared, and after the check   *)
(* of every board before it.  In between, the project may be edited or     *)
(* another one may be opened.                                              *)
(***************************************************************************)
EXTENDS Naturals, FiniteSets, SequencesExt

CONSTANTS
    None,
    Components,
    Projects,   \* id, valid graph, mapped components, plans, boards, misbound targets, docs: component -> source
    MaxSeen     \* bound: projects that are active during a call

VARIABLES
    project,    \* useProjectStore's active project
    call,       \* pc, the project and targets it began with, stages and reports so far
    seen        \* (history) the projects that were active during the call

vars == <<project, call, seen>>

Idle == [pc |-> "idle"]

-----------------------------------------------------------------------------
(* The stages of a report.                                                 *)

\* getBehaviorPlan: an authored plan before the generated starter
Selected(p) ==
    LET authored == SelectSeq(p.plans, LAMBDA q : ~q.starter)
    IN  IF p.plans = <<>> THEN None ELSE Head(IF authored # <<>> THEN authored ELSE p.plans)

Covered_Any(p, plan) == p.mapped \cap plan.covers # {} \/ p.mapped = {}

Covered(p, plan) == p.mapped \subseteq plan.covers

\* the plan has been prepared against p
Behavior(p) ==
    LET plan == Selected(p) IN
    IF plan = None THEN IF p.mapped = {} THEN "not-applicable" ELSE "missing"
    ELSE IF plan.prepares = "blocked" THEN "blocked"
    ELSE IF plan.starter \/ plan.prepares = "partial" \/ ~Covered(p, plan) THEN "needs-review"
    ELSE "ready"

Lacking(targets) == {b \in targets : project.docs[b] = None}
Source(p, targets) ==
    IF targets = {} THEN "not-applicable"
    ELSE IF p.misbound # {} THEN "invalid-binding"
    ELSE IF Lacking(targets) # {} THEN "missing"
    ELSE IF \E b \in targets : project.docs[b].starter THEN "starter-source-present"
    ELSE "editable-source-present"

\* checkFirmware of a board with a source, in the project that is active now
CheckFirmware_TrustsBinding(b) ==
    IF b \notin project.boards THEN "not-board" ELSE project.docs[b].outcome

CheckFirmware(b) ==
    IF b \notin project.boards THEN "not-board"
    ELSE IF b \in project.misbound THEN "binding-invalid"
    ELSE project.docs[b].outcome

Failures == {"not-board", "binding-invalid", "preflight-failed"}

Browser(c, outcomes) ==
    IF c.targets = {} THEN "not-applicable"
    ELSE IF c.missing # {} THEN "not-run"
    ELSE IF outcomes \cap Failures # {} THEN "failed"
    ELSE IF "partial" \in outcomes THEN "partial"
    ELSE IF "unavailable" \in outcomes THEN "unavailable"
    ELSE "ready"

Preflight(c, outcomes) ==
    IF c.targets = {} THEN "not-applicable"
    ELSE IF c.missing # {} THEN "not-run"
    ELSE IF "preflight-failed" \in outcomes THEN "failed" ELSE "ready"

Overall(stages) ==
    IF stages \cap {"blocked", "invalid-binding", "failed"} # {} THEN "blocked"
    ELSE IF stages \cap {"missing", "needs-review", "starter-source-present", "partial", "unavailable", "not-run"} # {} THEN "needs-attention"
    ELSE "ready"

Report(c) ==
    LET outcomes == {c.reports[b] : b \in DOMAIN c.reports}
    IN  [pc |-> "reported", of |-> c.project, targets |-> c.targets,
         overall |-> Overall({IF c.project.valid THEN "ready" ELSE "blocked", c.behavior, c.source, Browser(c, outcomes), Preflight(c, outcomes)})]

-----------------------------------------------------------------------------
\* the boards that are left: those without a source now are passed over, the
\* first other one is checked and its answer awaited
Checking(c) ==
    LET present == {i \in DOMAIN c.left : project.docs[c.left[i]] # None}
        i == CHOOSE x \in present : \A y \in present : x <= y
        b == c.left[i]
    IN  IF present = {} THEN Report(c)
        ELSE [c EXCEPT !.pc = "checking", !.left = SubSeq(@, i + 1, Len(@)),
                       !.reports = [x \in DOMAIN @ \cup {b} |-> IF x = b THEN CheckFirmware(b) ELSE @[x]]]

\* the plan is prepared: the sources are listed and the checks begin
Continued(p, request) ==
    LET targets == IF request = None THEN p.boards ELSE p.boards \cap {request}
    IN  IF request # None /\ targets = {} THEN [pc |-> "refused"]
        ELSE Checking([pc |-> "checking", project |-> p, targets |-> targets, behavior |-> Behavior(p), source |-> Source(p, targets),
                       missing |-> Lacking(targets), left |-> SetToSeq(targets), reports |-> <<>>])

VerifyProject(request) ==
    /\ call = Idle /\ seen' = {project}
    /\ call' = IF Selected(project) # None THEN [pc |-> "preparing", project |-> project, request |-> request]
               ELSE Continued(project, request)
    /\ UNCHANGED project

PlanIsPrepared == call.pc = "preparing" /\ call' = Continued(call.project, call.request) /\ UNCHANGED <<project, seen>>
CheckReturns == call.pc = "checking" /\ call' = Checking(call) /\ UNCHANGED <<project, seen>>
ReportIsRead == call.pc \in {"reported", "refused"} /\ call' = Idle /\ seen' = {} /\ UNCHANGED project

\* an edit, another project, another tab or the room's stored workspace
ProjectBecomes(p) ==
    /\ p # project /\ project' = p
    /\ seen' = IF call.pc \in {"preparing", "checking"} THEN seen \cup {p} ELSE seen
    /\ Cardinality(seen') <= MaxSeen
    /\ UNCHANGED call

VerificationInit == project \in Projects /\ call = Idle /\ seen = {}

VerificationNext ==
    \/ \E request \in Components \cup {None} : VerifyProject(request)
    \/ PlanIsPrepared \/ CheckReturns \/ ReportIsRead
    \/ \E p \in Projects : ProjectBecomes(p)

-----------------------------------------------------------------------------
Passes(p, b) == b \in p.boards \ p.misbound /\ p.docs[b] # None /\ p.docs[b].outcome = "executed"
Intended(p) ==
    LET plan == Selected(p)
    IN  IF plan = None THEN p.mapped = {} ELSE ~plan.starter /\ plan.prepares = "ready" /\ p.mapped \subseteq plan.covers

\* A report says "ready" exactly when graph, plan and every board's own source
\* are, if nothing changes while it is made.  Whatever changes, it names a
\* project whose graph and plan were ready, and each of its boards passed its
\* check in a project that was active, or was without a source in one.
ReadyIsEarned ==
    call.pc = "reported" =>
        LET p == call.of
            ready == p.valid /\ Intended(p) /\ (call.targets # {} => p.misbound = {})
        IN  /\ seen = {p} =>
                 /\ call.overall = "ready" <=> ready /\ \A b \in call.targets : Passes(p, b) /\ ~p.docs[b].starter
                 /\ call.overall = "blocked" =>
                        ~p.valid \/ p.misbound # {} \/ Behavior(p) = "blocked" \/ \E b \in call.targets : ~Passes(p, b)
            /\ call.overall = "ready" =>
                 ready /\ \A b \in call.targets : \E q \in seen : Passes(q, b) \/ q.docs[b] = None
=============================================================================
