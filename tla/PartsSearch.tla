----------------------------- MODULE PartsSearch -----------------------------
(***************************************************************************)
(* The browser's client of the parts search (partsSearchClient.ts): one    *)
(* search runs at a time, equal ones are shared, outcomes are kept in      *)
(* memory and, per user, in localStorage.                                  *)
(*                                                                         *)
(* A run is one requestPartsSearch: it waits for the token and the         *)
(* response, a second time if the first answer is a 401.  The response is  *)
(* a choice of what normalizeShoppingDiscovery makes of it.                *)
(***************************************************************************)
EXTENDS Naturals, Sequences, FiniteSets

CONSTANTS
    Callers,    \* calls of submit
    Queries,    \* lookups, up to case and blanks
    Users,      \* signed-in users of the page
    MaxRuns,    \* bound: requests sent
    None        \* no run, no answer

VARIABLES
    user,       \* the current user id
    calls,      \* each caller's lookup, the run it awaits and its answer
    runs,       \* the requests made, in order
    active,     \* the coordinator's active search; inFlight holds it alone
    cache,      \* lookups whose outcome is in memory
    kept        \* each user's lookups in localStorage

searchVars == <<user, calls, runs, active, cache, kept>>

\* what a request ends with: candidates with and without a price, an envelope
\* that says "rate limited", no usable envelope
Responses == {"priced", "unpriced", "limited", "failed"}
Cancelled == "cancelled"
Cacheable == Responses \ {"failed"}

SearchInit ==
    /\ user \in Users
    /\ calls = [c \in Callers |-> None]
    /\ runs = <<>> /\ active = None
    /\ cache = [q \in Queries |-> None]
    /\ kept = [u \in Users |-> {}]

Waiting(c) == calls[c] # None /\ calls[c].answer = None
Answered(c, q, answer) == [calls EXCEPT ![c] = [query |-> q, run |-> None, own |-> FALSE, answer |-> answer]]
Joined(c, q, r, own) == [calls EXCEPT ![c] = [query |-> q, run |-> r, own |-> own, answer |-> None]]

Tell_OwnerOnly(waiting, r, answer) ==
    [c \in Callers |-> IF waiting[c] # None /\ waiting[c].run = r /\ waiting[c].own
                       THEN [waiting[c] EXCEPT !.answer = answer] ELSE waiting[c]]
\* the promise of a run settles: everybody who still waits for it is told
Tell(waiting, r, answer) ==
    [c \in Callers |-> IF waiting[c] # None /\ waiting[c].answer = None /\ waiting[c].run = r
                       THEN [waiting[c] EXCEPT !.answer = answer] ELSE waiting[c]]

Aborted(r) == [runs EXCEPT ![r].aborted = TRUE]

-----------------------------------------------------------------------------
Shares(q) == active # None /\ runs[active].query = q /\ ~runs[active].aborted
\* submit shares the search that runs for the same lookup
Share(c, q) ==
    /\ Shares(q)
    /\ calls' = Joined(c, q, active, FALSE)
    /\ UNCHANGED <<user, runs, active, cache, kept>>

\* submit answers from memory and leaves a search for something else alone
CacheHit(c, q) ==
    /\ ~Shares(q) /\ cache[q] # None
    /\ calls' = Answered(c, q, cache[q])
    /\ UNCHANGED <<user, runs, active, cache, kept>>

Overtakes_NotForced(q, force) == active # None /\ runs[active].query # q
\* whom a new search replaces
Overtakes(q, force) == active # None /\ (runs[active].query # q \/ force)

\* submit starts a request; a lookup kept for this user needs no response
Start(c, q, force) ==
    /\ Len(runs) < MaxRuns
    /\ runs' = Append(IF Overtakes(q, force) THEN Aborted(active) ELSE runs,
                      [query |-> q, aborted |-> FALSE,
                       stage |-> IF ~force /\ q \in kept[user] THEN "kept" ELSE "first"])
    /\ active' = Len(runs) + 1
    /\ calls' = Joined(c, q, Len(runs) + 1, TRUE)
    /\ UNCHANGED <<user, cache, kept>>

Submit(c, q, force) ==
    /\ calls[c] = None
    /\ \/ ~force /\ (Share(c, q) \/ CacheHit(c, q))
       \/ (force \/ (~Shares(q) /\ cache[q] = None)) /\ Start(c, q, force)

\* A caller's own signal: it stops waiting, and if the search is its own, the
\* request is aborted for everybody.
AbortCall(c) ==
    /\ Waiting(c)
    /\ IF calls[c].own
       THEN runs' = Aborted(calls[c].run) /\ UNCHANGED calls
       ELSE calls' = [calls EXCEPT ![c].answer = Cancelled] /\ UNCHANGED runs
    /\ UNCHANGED <<user, active, cache, kept>>

\* cancel() of the coordinator
Cancel ==
    /\ active # None
    /\ runs' = Aborted(active) /\ active' = None
    /\ UNCHANGED <<user, calls, cache, kept>>

-----------------------------------------------------------------------------
Running(r) == runs[r].stage # "over"

\* the first answer is a 401: ask for a new token and send again
Retry(r) ==
    /\ runs[r].stage = "first" /\ ~runs[r].aborted
    /\ runs' = [runs EXCEPT ![r].stage = "second"]
    /\ UNCHANGED <<user, calls, active, cache, kept>>

\* what the run's promise resolves to: an overtaken one's response is dropped
Outcome(r, response) == IF active # r \/ runs[r].aborted THEN Cancelled ELSE response

\* The run ends.  The user whose storage keeps a priced outcome is the one
\* signed in now; the memory keeps it for everybody.
Respond(r, response) ==
    LET outcome == Outcome(r, response) IN
    /\ Running(r)
    /\ runs[r].stage = "kept" => response = "priced"
    /\ runs' = [runs EXCEPT ![r].stage = "over"]
    /\ kept' = IF runs[r].stage # "kept" /\ ~runs[r].aborted /\ response = "priced"
               THEN [kept EXCEPT ![user] = @ \union {runs[r].query}] ELSE kept
    /\ cache' = IF outcome \in Cacheable THEN [cache EXCEPT ![runs[r].query] = outcome] ELSE cache
    /\ active' = IF active = r THEN None ELSE active
    /\ calls' = Tell(calls, r, outcome)
    /\ UNCHANGED user

\* the time to live of the memory, the maximum age in storage and a new user
ForgetCached(q) == cache[q] # None /\ cache' = [cache EXCEPT ![q] = None] /\ UNCHANGED <<user, calls, runs, active, kept>>
ForgetKept(u, q) == q \in kept[u] /\ kept' = [kept EXCEPT ![u] = @ \ {q}] /\ UNCHANGED <<user, calls, runs, active, cache>>
SwitchUser(u) == u # user /\ user' = u /\ UNCHANGED <<calls, runs, active, cache, kept>>

SearchNext ==
    \/ \E c \in Callers, q \in Queries, force \in BOOLEAN : Submit(c, q, force)
    \/ \E c \in Callers : AbortCall(c)
    \/ Cancel
    \/ \E r \in DOMAIN runs : Retry(r)
    \/ \E r \in DOMAIN runs, response \in Responses : Respond(r, response)
    \/ \E q \in Queries : ForgetCached(q)
    \/ \E u \in Users, q \in Queries : ForgetKept(u, q)
    \/ \E u \in Users : SwitchUser(u)

\* fetch settles: the signal of a request times out after 60 seconds
RunEnds(r) == r \in DOMAIN runs /\ \E response \in Responses : Respond(r, response)

-----------------------------------------------------------------------------
\* Searches never overlap: a request that was not aborted is the active one,
\* so the answer of an overtaken search cannot come after its successor's.
OneSearchRuns == \A r \in DOMAIN runs : Running(r) /\ ~runs[r].aborted => active = r

\* Every caller of submit is answered, whoever overtakes, aborts or shares.
EveryCallEnds == \A c \in Callers : Waiting(c) ~> ~Waiting(c)
=============================================================================
