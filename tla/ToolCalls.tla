------------------------------ MODULE ToolCalls ------------------------------
(***************************************************************************)
(* Calls of the page's tools (executeToolWithActivity in webmcp/tools.ts)  *)
(* and the log of them that every tab shows (useWebMCPStore.ts).  A call   *)
(* that may change the project waits for the session, then needs the lease *)
(* of the room; sessions change, rooms hydrate and callers abort meanwhile.*)
(*                                                                         *)
(* The calls are made here; there is another tab, which hears of them over *)
(* a BroadcastChannel and may have another session for a while.            *)
(***************************************************************************)
EXTENDS Naturals, Sequences, FiniteSets

CONSTANTS
    Calls,          \* numbered as they begin: the newest has the largest number
    Users,          \* sessions; None is a hosted page without one
    MaxShown,       \* activities kept (80)
    MaxSwitches,
    MaxChannel,     \* bound: messages on their way when a call begins
    None

VARIABLES
    user,           \* each tab's current user
    lease, hydrated, \* of the project's persistence here
    call,
    shown,          \* each tab's activities
    channel,        \* messages on their way to the other tab
    switches

callVars == <<user, lease, hydrated, call, shown, channel, switches>>

Tabs == {"here", "there"}
Kinds == {"read", "search", "write"}    \* search is shopping.search, with a gate of its own
Unborn == [kind |-> "none", stage |-> "none", aborted |-> FALSE, lease |-> 0, applied |-> FALSE, answer |-> "none"]

CallsInit ==
    /\ \E u \in Users \cup {None} : user = [t \in Tabs |-> u]
    /\ lease = 0 /\ hydrated \in BOOLEAN
    /\ call = [c \in Calls |-> Unborn]
    /\ shown = [t \in Tabs |-> {}] /\ channel = <<>> /\ switches = 0

-----------------------------------------------------------------------------
(* The log. *)

Activity(c, room, status) == [call |-> c, room |-> room, status |-> status]
Newest(s) == {a \in s : Cardinality({b \in s : b.call > a.call}) < MaxShown}
Added(s, a) == Newest({b \in s : b.call # a.call} \cup {a})
Patched(s, c, room, status) == {IF a.call = c /\ a.room = room THEN [a EXCEPT !.status = status] ELSE a : a \in s}
Sent(type, c, status) == Append(channel, [type |-> type, room |-> user["here"], call |-> c, status |-> status])

BeginTool(c) ==
    /\ shown' = [shown EXCEPT !["here"] = Added(@, Activity(c, user["here"], "running"))]
    /\ channel' = Sent("add", c, "running")

\* an activity that a session change or the limit has removed does not return
Knows(c) == \E a \in shown["here"] : a.call = c /\ a.room = user["here"]
FinishTool(c, status) ==
    IF Knows(c)
    THEN /\ shown' = [shown EXCEPT !["here"] = Patched(@, c, user["here"], status)]
         /\ channel' = Sent("update", c, status)
    ELSE UNCHANGED <<shown, channel>>

ClearActivities ==
    /\ Len(channel) < MaxChannel
    /\ shown' = [shown EXCEPT !["here"] = {}]
    /\ channel' = Sent("clear", None, "none")
    /\ UNCHANGED <<user, lease, hydrated, call, switches>>

\* the other tab hears only what is of its own room
Heard(s, m) ==
    CASE m.type = "add" -> Added(s, Activity(m.call, m.room, m.status))
      [] m.type = "update" -> Patched(s, m.call, m.room, m.status)
      [] m.type = "clear" -> {}
Concerns_Any(m) == TRUE
Concerns(m) == m.room = user["there"]
Receives ==
    /\ channel # <<>> /\ channel' = Tail(channel)
    /\ shown' = [shown EXCEPT !["there"] = IF Concerns(Head(channel)) THEN Heard(@, Head(channel)) ELSE @]
    /\ UNCHANGED <<user, lease, hydrated, call, switches>>

-----------------------------------------------------------------------------
(* The calls. *)

Ends(c, answer) == call' = [call EXCEPT ![c].stage = "done", ![c].answer = answer]
Fails(c, answer) == Ends(c, answer) /\ FinishTool(c, "error")

\* An aborted call is not begun.  A reading tool waits for nothing.
Begins(c, kind, aborted) ==
    /\ call[c].stage = "none" /\ \A d \in Calls : d < c => call[d].stage # "none"
    /\ Len(channel) < MaxChannel
    /\ IF aborted
       THEN Ends(c, "throws") /\ UNCHANGED <<shown, channel>>
       ELSE /\ call' = [call EXCEPT ![c].kind = kind, ![c].stage = IF kind = "read" THEN "executing" ELSE "session"]
            /\ BeginTool(c)
    /\ UNCHANGED <<user, lease, hydrated, switches>>

\* getAuthSession answers, or throws because the caller has aborted
SessionArrives(c, hosted) ==
    /\ call[c].stage = "session"
    /\ CASE call[c].aborted -> Fails(c, "throws")
         [] ~call[c].aborted /\ hosted /\ user["here"] = None /\ call[c].kind = "write" -> Fails(c, "AUTH_REQUIRED")
         [] ~call[c].aborted /\ ~(hosted /\ user["here"] = None /\ call[c].kind = "write") /\ ~hydrated -> Fails(c, "PERSISTENCE_NOT_READY")
         [] ~call[c].aborted /\ ~(hosted /\ user["here"] = None /\ call[c].kind = "write") /\ hydrated ->
                call' = [call EXCEPT ![c].stage = "executing", ![c].lease = lease] /\ UNCHANGED <<shown, channel>>
    /\ UNCHANGED <<user, lease, hydrated, switches>>

\* The tool's own work: it changes the project at some time, which its lease
\* must still cover, or refuses.  Then execute settles.
Applies(c) ==
    /\ call[c].stage = "executing" /\ call[c].kind = "write" /\ ~call[c].applied /\ ~call[c].aborted
    /\ hydrated /\ call[c].lease = lease
    /\ call' = [call EXCEPT ![c].applied = TRUE]
    /\ UNCHANGED <<user, lease, hydrated, shown, channel, switches>>
Returns_ThrowsIfAborted(c) == IF call[c].aborted THEN Fails(c, "throws") ELSE Ends(c, "result") /\ FinishTool(c, "success")
Returns(c) == Ends(c, "result") /\ FinishTool(c, "success")
Settles(c, outcome) ==
    /\ call[c].stage = "executing"
    /\ CASE outcome = "result" -> Returns(c)
         [] outcome # "result" -> ~call[c].applied /\ Fails(c, outcome)
    /\ UNCHANGED <<user, lease, hydrated, switches>>

Aborts(c) ==
    /\ call[c].stage \in {"session", "executing"} /\ ~call[c].aborted
    /\ call' = [call EXCEPT ![c].aborted = TRUE]
    /\ UNCHANGED <<user, lease, hydrated, shown, channel, switches>>

\* a session change empties a tab's log; here it also revokes the lease
Emptied_Later(t) == shown
Emptied(t) == [shown EXCEPT ![t] = {}]
SessionChanges(t, u) ==
    /\ u # user[t] /\ switches < MaxSwitches /\ switches' = switches + 1
    /\ user' = [user EXCEPT ![t] = u]
    /\ shown' = Emptied(t)
    /\ IF t = "here" THEN lease' = lease + 1 /\ hydrated' = FALSE ELSE UNCHANGED <<lease, hydrated>>
    /\ UNCHANGED <<call, channel>>
Hydrates == ~hydrated /\ hydrated' = TRUE /\ UNCHANGED <<user, lease, call, shown, channel, switches>>

CallsNext ==
    \/ \E c \in Calls, kind \in Kinds, aborted \in BOOLEAN : Begins(c, kind, aborted)
    \/ \E c \in Calls, hosted \in BOOLEAN : SessionArrives(c, hosted)
    \/ \E c \in Calls, outcome \in {"result", "throws", "PERSISTENCE_NOT_READY"} : Settles(c, outcome)
    \/ \E c \in Calls : Applies(c) \/ Aborts(c)
    \/ \E t \in Tabs, u \in Users \cup {None} : SessionChanges(t, u)
    \/ Hydrates \/ ClearActivities \/ Receives

-----------------------------------------------------------------------------
\* No tab shows an activity of another account, here none that is over as
\* running, and a change that was made is never answered as a failure, however
\* late its caller aborts.
LogIsTrue ==
    /\ \A t \in Tabs : \A a \in shown[t] : a.room = user[t]
    /\ \A a \in shown["here"] : a.status = "running" => call[a.call].stage # "done"
    /\ \A c \in Calls : call[c].stage = "done" /\ call[c].applied => call[c].answer = "result"
=============================================================================
