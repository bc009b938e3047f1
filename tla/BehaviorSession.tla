--------------------------- MODULE BehaviorSession ---------------------------
(***************************************************************************)
(* A Behavior Preview session (packages/behavior/src/session.ts): a        *)
(* reducer over logical time, with no timer of its own.  Every effect      *)
(* comes from the prepared plan (rules that start with the preview, at a   *)
(* time or on a component event; cues) or from a dispatch, which is        *)
(* retained and replayed when the user seeks.                              *)
(*                                                                         *)
(* A profile's reducer is the effect's name: the component states are the  *)
(* sequence of effects that made them.  A request is direct (an action)    *)
(* or an event; its payload is its size in bytes.                          *)
(***************************************************************************)
EXTENDS Integers, Sequences, FiniteSets, SequencesExt

CONSTANTS
    None,
    Plans,          \* plans as written: [project, rules, cues]; a rule is [ok, when, at, event, then], a cue
                    \* [at, order, action], an action [ok, name, emits]; ok: the profiles accept trigger or action
    Requests,       \* what callers dispatch: [kind, event, action, bytes]
    Times,          \* the logical times sought
    MaxHistory,     \* maxRetainedHistory
    MaxHistoryBytes,\* maxRetainedHistoryBytes, over the session's life
    MaxDispatched,  \* maxDispatchedEvents, since the last rebuild
    MaxDepth,       \* maxEventChainDepth
    MaxLogged       \* maxSessionLogLifetimeBytes, an entry being one

VARIABLES
    prepared,           \* the plan as prepared and the policy used, or None before a session is opened
    disposed, fresh,    \* fresh: the project of the caller still has the prepared fingerprint
    rt,                 \* the runtime: logicalTimeMs, dispatchCount, effects, appliedScheduleIds
    history,            \* retained requests with their logical time; their index is their order
    retainedBytes,      \* retainedHistoryBytes
    logBytes,           \* sessionLogLifetimeBytes
    granted             \* ghost: bytes of every dispatch ever retained, entries ever logged

sessionVars == <<prepared, disposed, fresh, rt, history, retainedBytes, logBytes, granted>>

\* an action: the name of its effect and the events its profile emits
Effect(r, action) == [r EXCEPT !.effects = Append(@, action.name)]
Logged(r) == [r EXCEPT !.log = @ + 1]

(***************************************************************************)
(* prepareBehaviorPlan: an action or cue that is not supported is left     *)
(* out, a rule whose trigger is not supported goes as a whole; anything    *)
(* left out blocks the plan under the policy "block".                      *)
(***************************************************************************)
Supported(actions) == SelectSeq(actions, LAMBDA a : a.ok)
Rejects(raw) ==
    \/ \E n \in DOMAIN raw.rules : ~raw.rules[n].ok \/ (\E k \in DOMAIN raw.rules[n].then : ~raw.rules[n].then[k].ok)
    \/ \E n \in DOMAIN raw.cues : ~raw.cues[n].action.ok
Blocked(raw, policy) == raw.project # "this" \/ (policy = "block" /\ Rejects(raw))

NormalizedRules_KeepsTrigger(rules) == [n \in DOMAIN rules |-> [rules[n] EXCEPT !.then = Supported(@)]]
NormalizedRules(rules) ==
    LET kept == SelectSeq(rules, LAMBDA rule : rule.ok)
    IN  [n \in DOMAIN kept |-> [kept[n] EXCEPT !.then = Supported(@)]]

Prepare(raw, policy) ==
    [rules |-> NormalizedRules(raw.rules), cues |-> SelectSeq(raw.cues, LAMBDA c : c.action.ok),
     status |-> IF Rejects(raw) THEN "partial" ELSE "ready", policy |-> policy, raw |-> raw]

Rules == prepared.rules
Cues == prepared.cues
EventRules(event) == SelectSeq(Rules, LAMBDA rule : rule.when = "event" /\ rule.event = event)

(***************************************************************************)
(* Dispatch within the runtime.  Events emitted by an action are dispatched *)
(* at once, one level deeper, while the operation counter lasts.           *)
(***************************************************************************)
RECURSIVE DispatchEvent(_, _, _)

DispatchEmittedEvents(r, emits, depth) ==
    FoldLeft(LAMBDA q, e : IF q.count >= MaxDispatched THEN q
                           ELSE DispatchEvent([q EXCEPT !.count = @ + 1], e, depth), r, emits)

ApplyAction(r, action, depth) == DispatchEmittedEvents(Logged(Effect(r, action)), action.emits, depth + 1)

ApplyRule(r, rule, depth) ==
    IF depth > MaxDepth THEN r ELSE FoldLeft(LAMBDA q, a : ApplyAction(q, a, depth), r, rule.then)

DispatchEvent(r, event, depth) ==
    IF depth > MaxDepth THEN r
    ELSE FoldLeft(LAMBDA q, rule : ApplyRule(q, rule, depth + 1), r,
                  EventRules(event))

DispatchInternal(r, req) ==
    IF req.kind = "event" THEN DispatchEvent(r, req.event, 0)
    ELSE DispatchEmittedEvents(Effect(r, req.action), req.action.emits, 1)

\* beginOperation, and the dispatch when it is allowed; either way it is logged
Operate(r, req) ==
    Logged(IF r.count >= MaxDispatched THEN r ELSE DispatchInternal([r EXCEPT !.count = @ + 1], req))

(***************************************************************************)
(* The timeline: time rules before cues before retained dispatches.        *)
(***************************************************************************)
Before(i, j) ==
    \/ i.at < j.at
    \/ i.at = j.at /\ i.kind < j.kind
    \/ i.at = j.at /\ i.kind = j.kind /\ i.order < j.order

TimeRules == { n \in DOMAIN Rules : Rules[n].when = "time" }
ScheduleItems ==
    { [at |-> Rules[n].at, kind |-> 0, order |-> n] : n \in TimeRules } \cup
    { [at |-> Cues[n].at, kind |-> 1, order |-> Cues[n].order] : n \in DOMAIN Cues }
External(h) == { [at |-> h[n].at, kind |-> 2, order |-> n] : n \in DOMAIN h }
Timeline(items) == SetToSortSeq(items, Before)
CueOf(i) == Cues[CHOOSE n \in DOMAIN Cues : Cues[n].at = i.at /\ Cues[n].order = i.order]

ScheduleStep(r, i) ==
    IF i \in r.applied THEN [r EXCEPT !.time = i.at]
    ELSE LET q == [r EXCEPT !.time = i.at]
         IN  [(IF i.kind = 0 THEN ApplyRule(q, Rules[i.order], 0) ELSE ApplyAction(q, CueOf(i).action, 0))
                 EXCEPT !.applied = @ \cup {i}]

\* one item of the timeline; h is the history it refers to
TimelineStep(h, r, i) == IF i.kind = 2 THEN Operate([r EXCEPT !.time = i.at], h[i.order].req) ELSE ScheduleStep(r, i)

Run(h, r, items, until) ==
    [FoldLeft(LAMBDA q, i : TimelineStep(h, q, i), r, Timeline(items)) EXCEPT !.time = until]

\* resetRuntime: the rules of the start, then the schedule of time zero
ResetRuntime(r) ==
    LET empty == [time |-> 0, count |-> 0, effects |-> <<>>, applied |-> {}, log |-> 0]
        started == FoldLeft(LAMBDA q, rule : ApplyRule(q, rule, 0), empty, SelectSeq(Rules, LAMBDA rule : rule.when = "start"))
    IN  Run(<<>>, started, { i \in ScheduleItems : i.at = 0 }, 0)

Forward_Inclusive(r, h, until) ==
    Run(h, r, { i \in ScheduleItems : i.at \in r.time..until } \cup { i \in External(h) : i.at \in r.time..until }, until)

\* applyForwardTimeline: the effects at r.time are already there
Forward(r, h, until) ==
    Run(h, r, { i \in ScheduleItems : i.at \in r.time..until } \cup { i \in External(h) : i.at \in (r.time + 1)..until }, until)

\* rebuildTo
Rebuild(r, h, until) ==
    Run(h, ResetRuntime(r), { i \in ScheduleItems \cup External(h) : i.at <= until }, until)

(***************************************************************************)
(* The log of the runtime is charged to a lifetime budget, an entry that   *)
(* no longer fits is omitted.                                              *)
(***************************************************************************)
Least(a, b) == IF a < b THEN a ELSE b
Charge(entries) ==
    LET kept == Least(entries, MaxLogged - logBytes)
    IN  /\ logBytes' = logBytes + kept
        /\ granted' = [granted EXCEPT !.log = @ + kept]

\* the runtime is installed with an empty log: what it logged has been charged
Installed(r) == [r EXCEPT !.log = 0]

\* ensureProject
Current == ~disposed /\ fresh
EnsureProject == disposed' = (disposed \/ ~fresh)

Dispatch(req) ==
    /\ prepared # None /\ EnsureProject
    /\ IF ~Current \/ Len(history) >= MaxHistory \/ retainedBytes > MaxHistoryBytes - req.bytes \/ rt.count >= MaxDispatched
       THEN Charge(1) /\ UNCHANGED <<rt, history, retainedBytes>>
       ELSE LET ran == Operate(rt, req)
                kept == Least(ran.log, MaxLogged - logBytes)
            IN  /\ rt' = Installed(ran)
                /\ history' = Append(history, [req |-> req, at |-> rt.time])
                /\ retainedBytes' = retainedBytes + req.bytes
                /\ logBytes' = logBytes + kept
                /\ granted' = [history |-> granted.history + req.bytes, log |-> granted.log + kept]
    /\ UNCHANGED <<prepared, fresh>>

Seek(until) ==
    /\ prepared # None /\ EnsureProject
    /\ IF ~Current THEN UNCHANGED <<rt, logBytes, granted>>
       ELSE LET ran == IF until < rt.time THEN Rebuild(rt, history, until) ELSE Forward(rt, history, until)
            IN  rt' = Installed(ran) /\ Charge(ran.log)
    /\ UNCHANGED <<prepared, fresh, history, retainedBytes>>

Reset_Refunds ==
    /\ prepared # None /\ EnsureProject
    /\ IF ~Current THEN UNCHANGED <<rt, history, logBytes, granted, retainedBytes>>
       ELSE LET ran == ResetRuntime(rt)
            IN  history' = <<>> /\ rt' = Installed(ran) /\ Charge(ran.log) /\ retainedBytes' = 0
    /\ UNCHANGED <<prepared, fresh>>

Reset ==
    /\ prepared # None /\ EnsureProject
    /\ IF ~Current THEN UNCHANGED <<rt, history, logBytes, granted>>
       ELSE LET ran == ResetRuntime(rt)
            IN  history' = <<>> /\ rt' = Installed(ran) /\ Charge(ran.log)
    /\ UNCHANGED <<prepared, fresh, retainedBytes>>

Dispose == prepared # None /\ disposed' = TRUE /\ UNCHANGED <<prepared, fresh, rt, history, retainedBytes, logBytes, granted>>

\* the caller edits the project, or undoes the edit
ProjectEdited == prepared # None /\ fresh' = ~fresh /\ UNCHANGED <<prepared, disposed, rt, history, retainedBytes, logBytes, granted>>

Nothing == [time |-> 0, count |-> 0, effects |-> <<>>, applied |-> {}, log |-> 0]
SessionInit ==
    /\ prepared = None /\ disposed = FALSE /\ fresh = TRUE
    /\ rt = Nothing /\ history = <<>> /\ retainedBytes = 0
    /\ logBytes = 0 /\ granted = [history |-> 0, log |-> 0]

\* createBehaviorPreviewSession materializes the runtime before it returns
Open(raw, policy) ==
    /\ prepared = None /\ ~Blocked(raw, policy)
    /\ prepared' = Prepare(raw, policy)
    /\ LET ran == ResetRuntime(Nothing)' IN rt' = Installed(ran) /\ Charge(ran.log)
    /\ UNCHANGED <<disposed, fresh, history, retainedBytes>>

SessionNext ==
    \/ \E raw \in Plans, policy \in {"block", "skip"} : Open(raw, policy)
    \/ \E req \in Requests : Dispatch(req)
    \/ \E t \in Times : Seek(t)
    \/ Reset \/ Dispose \/ ProjectEdited

SessionSpec == SessionInit /\ [][SessionNext]_sessionVars

-----------------------------------------------------------------------------
\* What the preview shows is a function of the retained dispatches and of the
\* time shown: after any dispatches, seeks to and fro and resets it equals a
\* replay from nothing, each schedule item and each dispatch taking effect once,
\* in the order of their times, even when the operation counter cut some off.
ReplayDeterministic ==
    prepared # None => rt = Installed(Rebuild(Nothing, history, rt.time))

\* A preview shows only what preparation accepted: nothing a rejected rule,
\* action or cue would have done ever takes effect, and a plan prepared under
\* "block" runs exactly as written.
OnlyAcceptedTakesEffect ==
    prepared # None =>
        /\ \A n \in DOMAIN prepared.raw.rules : LET rule == prepared.raw.rules[n] IN
               \A k \in DOMAIN rule.then :
                   ~rule.ok \/ ~rule.then[k].ok => \A i \in DOMAIN rt.effects : rt.effects[i] # rule.then[k].name
        /\ prepared.policy = "block" => Rules = prepared.raw.rules /\ Cues = prepared.raw.cues

\* Rewinding and resetting mint no new allowance: over the session's life no
\* more bytes of requests and entries of log are retained than the two budgets.
LifetimeBudgets == granted.history <= MaxHistoryBytes /\ granted.log <= MaxLogged
=============================================================================
