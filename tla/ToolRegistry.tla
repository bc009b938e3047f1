---------------------------- MODULE ToolRegistry ----------------------------
(***************************************************************************)
(* Registration of the tools with the browser's model context              *)
(* (webmcp/tools.ts).  The host may inject its context late or replace it; *)
(* two entry points, a retry timer and the window's wake events all call   *)
(* ensureWebMCPRegistration.  A registration submits every tool at once,   *)
(* awaits the answers and then asks the host which tools it knows.         *)
(***************************************************************************)
EXTENDS Naturals, FiniteSets

CONSTANTS
    Contexts,       \* model contexts that a host injects
    MaxRetries,     \* delays of the late retry
    MaxRegistrations,
    None

VARIABLES
    host,           \* the native context that the document has now
    live,           \* tools as submitted and not aborted: context, generation, all of them
    generation,
    runs,           \* registrations under way
    inFlight,       \* the promise that later callers are given
    registered,     \* registeredNativeContext
    state, discovery,
    timer,          \* the late retry
    gap             \* whether working tools were ever withdrawn from their context

registryVars == <<host, live, generation, runs, inFlight, registered, state, discovery, timer, gap>>

Lost == {"fallback", "error"}
NoTimer == [generation |-> None, attempt |-> 0]
Retry(g, attempt) == IF attempt < MaxRetries THEN [generation |-> g, attempt |-> attempt] ELSE NoTimer

RegistryInit ==
    /\ host \in Contexts \cup {None}
    /\ live = {} /\ generation = 0 /\ runs = {} /\ inFlight = FALSE /\ registered = None
    /\ state = "checking" /\ discovery = "unavailable" /\ timer = NoTimer /\ gap = FALSE

-----------------------------------------------------------------------------
\* registerWebMCPTools up to its first await: the earlier tools are aborted and,
\* if there is a context, all tools are submitted to it
Register(pending) ==
    LET g == generation + 1 IN
    /\ generation < MaxRegistrations
    /\ generation' = g /\ discovery' = "unavailable"
    /\ gap' = (gap \/ \E x \in live : x.context = host /\ x.complete /\ \A r \in runs : r.outcome # "failed")
    /\ IF host = None
       THEN /\ live' = {} /\ state' = "fallback" /\ timer' = Retry(g, 0)
            /\ inFlight' = FALSE /\ UNCHANGED runs
       ELSE /\ live' = {[context |-> host, generation |-> g, complete |-> TRUE]}
            /\ runs' = runs \cup {[generation |-> g, context |-> host, outcome |-> "pending"]}
            /\ state' = "checking" /\ inFlight' = TRUE /\ timer' = pending
    /\ UNCHANGED <<host, registered>>

\* somebody asks for the tools to be registered
Idle == UNCHANGED <<host, live, generation, runs, inFlight, registered, state, discovery, gap>>
Done == host # None /\ host = registered /\ state = "native"
Ensured_Unguarded == Done
Ensured == Done \/ inFlight
EnsureWebMCPRegistration == IF Ensured THEN Idle /\ UNCHANGED timer ELSE Register(timer)

\* the answers of registerTool are there, and the registration goes on to ask
\* the host, unless a later one has taken over
Answered(r, ok) ==
    /\ r.outcome = "pending"
    /\ IF r.generation # generation
       THEN runs' = runs \ {r} /\ inFlight' = FALSE /\ UNCHANGED live
       ELSE /\ runs' = (runs \ {r}) \cup {[r EXCEPT !.outcome = IF ok THEN "all" ELSE "failed"]}
            /\ live' = {IF x.generation = r.generation THEN [x EXCEPT !.complete = ok] ELSE x : x \in live}
            /\ UNCHANGED inFlight
    /\ UNCHANGED <<host, generation, registered, state, discovery, timer, gap>>

\* getTools answers (or throws, or does not exist)
StateAfter_Optimistic(r) == "native"
StateAfter(r) == IF r.outcome = "all" THEN "native" ELSE "error"
Discovered(r, same) ==
    /\ r.outcome # "pending"
    /\ runs' = runs \ {r} /\ inFlight' = FALSE
    /\ registered' = IF r.outcome = "all" THEN r.context ELSE None
    /\ timer' = NoTimer
    /\ state' = StateAfter(r)
    /\ discovery' = IF same /\ r.outcome = "all" THEN "verified" ELSE "unverified"
    /\ UNCHANGED <<host, live, generation, gap>>

-----------------------------------------------------------------------------
\* focus, pageshow and visibilitychange; and the late retry
Wakes ==
    /\ host # None /\ (state \in Lost \/ (state = "native" /\ host # registered))
    /\ EnsureWebMCPRegistration
TimerFires ==
    /\ timer # NoTimer
    /\ CASE timer.generation # generation -> timer' = NoTimer /\ Idle
         [] timer.generation = generation /\ host # None /\ state \in Lost /\ ~Ensured -> Register(NoTimer)
         [] timer.generation = generation /\ host # None /\ state \in Lost /\ Ensured -> timer' = NoTimer /\ Idle
         [] timer.generation = generation /\ ~(host # None /\ state \in Lost) -> timer' = Retry(generation, timer.attempt + 1) /\ Idle

\* the panel asks the host which tools it knows; the answer is that of the
\* context at that time
Inspects(same) ==
    /\ host # None
    /\ discovery' = IF same /\ \E x \in live : x.context = host /\ x.complete THEN "verified" ELSE "unverified"
    /\ UNCHANGED <<host, live, generation, runs, inFlight, registered, state, timer, gap>>

HostChanges(c) == c # host /\ host' = c /\ UNCHANGED <<live, generation, runs, inFlight, registered, state, discovery, timer, gap>>

RegistryNext ==
    \/ EnsureWebMCPRegistration \/ Wakes \/ TimerFires
    \/ \E r \in runs, ok \in BOOLEAN : Answered(r, ok) \/ Discovered(r, ok)
    \/ \E same \in BOOLEAN : Inspects(same)
    \/ \E c \in Contexts \cup {None} : HostChanges(c)

-----------------------------------------------------------------------------
\* "Native" means that every tool is registered with the context that it names,
\* and tools that work are never withdrawn to register them once more.
RegistrationIsTrue ==
    /\ state = "native" => \E x \in live : x.context = registered /\ x.complete
    /\ ~gap
=============================================================================
