--------------------------- MODULE ListingsRoute ---------------------------
(***************************************************************************)
(* The backend's parts search (app/api/routes/parts.py): requests for the  *)
(* same listings share one task while it runs, and what it found is kept   *)
(* in a cache of limited size for a while.  A handler awaits nothing       *)
(* between its look at the cache and the start of a task (the lock is      *)
(* never held over an await); when the task is done, its waiters resume    *)
(* one after the other, and new requests may come between them.            *)
(*                                                                         *)
(* A key is a query up to case, its quantity and the settings; a task's    *)
(* outcome is a choice of what the provider's answer comes to.  Handlers   *)
(* are cancelled only when the server stops, which is left out.            *)
(***************************************************************************)
EXTENDS Naturals, Sequences, SequencesExt

CONSTANTS
    Keys,       \* what may be searched for
    MaxCached,  \* _MAX_CACHE_ENTRIES
    MaxCalls,   \* bound: requests
    None        \* no request, task or answer

VARIABLES
    calls,      \* the requests in their order: key, awaited task, answer
    runs,       \* the tasks that _provider_search was started in
    inflight,   \* _inflight: the task of a key
    cache       \* _cache, the least recently used entry first

routeVars == <<calls, runs, inflight, cache>>

\* Status 200 are "listed", candidates or none, and "unprintable", a candidate
\* with a number that JSON has no word for; "failed" is an error response or an
\* exception that _provider_search does not catch.
Outcomes == {"listed", "unprintable", "failed"}
Successes == Outcomes \ {"failed"}

RouteInit ==
    /\ calls = <<>> /\ runs = <<>>
    /\ inflight = [k \in Keys |-> None] /\ cache = <<>>

Done(r) == runs[r].outcome # None
Entries(k) == {i \in DOMAIN cache : cache[i].key = k}
Without(k) == IF Entries(k) = {} THEN cache ELSE RemoveAt(cache, CHOOSE i \in Entries(k) : TRUE)

\* what the client is told: a response that cannot be rendered is an error
Rendered(r) == IF runs[r].outcome = "listed" THEN "listed" ELSE "error"

\* since (history): the tasks that were done when the request came
Awaits(k, r) ==
    Append(calls, [key |-> k, run |-> r, cached |-> FALSE, answer |-> None, since |-> {s \in DOMAIN runs : Done(s)}])
Answered(k, r, answer) ==
    Append(calls, [key |-> k, run |-> r, cached |-> TRUE, answer |-> answer, since |-> {}])

-----------------------------------------------------------------------------
\* a request without its id or without a query
Refuse ==
    /\ Len(calls) < MaxCalls
    /\ calls' = Answered(None, None, "refused")
    /\ UNCHANGED <<runs, inflight, cache>>

\* _cached finds an entry within its time, which becomes the most recently used
Hit(k) ==
    \E i \in Entries(k) :
        /\ cache' = Append(Without(k), cache[i])
        /\ calls' = Answered(k, cache[i].run, Rendered(cache[i].run))
        /\ UNCHANGED <<runs, inflight>>

Joinable_Finished(k) == inflight[k] # None
\* the key's task, unless it is done already
Joinable(k) == inflight[k] # None /\ ~Done(inflight[k])

\* _cached finds no entry, or one whose time is over, which it drops; the
\* request joins the task or starts one
Miss(k) ==
    /\ cache' = Without(k)
    /\ IF Joinable(k)
       THEN calls' = Awaits(k, inflight[k]) /\ UNCHANGED <<runs, inflight>>
       ELSE /\ runs' = Append(runs, [key |-> k, payload |-> "json", outcome |-> None])
            /\ inflight' = [inflight EXCEPT ![k] = Len(runs) + 1]
            /\ calls' = Awaits(k, Len(runs) + 1)

Search(k) == Len(calls) < MaxCalls /\ (Hit(k) \/ Miss(k))

-----------------------------------------------------------------------------
\* _fetch_brightdata: the first payload is answered with 400 or 422
TryNextPayload(r) ==
    /\ ~Done(r) /\ runs[r].payload = "json"
    /\ runs' = [runs EXCEPT ![r].payload = "raw"]
    /\ UNCHANGED <<calls, inflight, cache>>

Settle(r, outcome) ==
    /\ ~Done(r)
    /\ runs' = [runs EXCEPT ![r].outcome = outcome]
    /\ UNCHANGED <<calls, inflight, cache>>

Remember_Any(k, r) == Append(Without(k), [key |-> k, run |-> r])
\* only a status of 200 is remembered, and the least recently used entry leaves
Remember(k, r) ==
    LET longer == Append(Without(k), [key |-> k, run |-> r]) IN
    IF runs[r].outcome \notin Successes THEN cache
    ELSE IF Len(longer) > MaxCached THEN Tail(longer) ELSE longer

\* the handler resumes after asyncio.shield(task): it takes the task out of
\* _inflight, unless a newer one is there, remembers and answers
Resume(c) ==
    LET k == calls[c].key  r == calls[c].run IN
    /\ calls[c].answer = None /\ Done(r)
    /\ inflight' = IF inflight[k] = r THEN [inflight EXCEPT ![k] = None] ELSE inflight
    /\ cache' = Remember(k, r)
    /\ calls' = [calls EXCEPT ![c].answer = Rendered(r)]
    /\ UNCHANGED runs

RouteNext ==
    \/ Refuse
    \/ \E k \in Keys : Search(k)
    \/ \E r \in DOMAIN runs : TryNextPayload(r)
    \/ \E r \in DOMAIN runs, outcome \in Outcomes : Settle(r, outcome)
    \/ \E c \in DOMAIN calls : Resume(c)

\* a waiter is resumed when its task is done; the provider is given up at a
\* timeout or a limit of bytes
Resumes(c) == c \in DOMAIN calls /\ Resume(c)
RunEnds(r) == r \in DOMAIN runs /\ \E outcome \in Outcomes : Settle(r, outcome)

-----------------------------------------------------------------------------
\* One task at a time asks the provider for a key, and the cache has one entry
\* for it and no more entries than it may.
LookupsAreShared ==
    /\ \A r, s \in DOMAIN runs : runs[r].key = runs[s].key /\ ~Done(r) /\ ~Done(s) => r = s
    /\ \A i, j \in DOMAIN cache : cache[i].key = cache[j].key => i = j
    /\ Len(cache) <= MaxCached

\* A request is answered with listings of its own key, and is told no failure
\* from before it came.  (A listing that cannot be rendered is remembered
\* all the same, and fails until its entry ends.)
AnswersAreFresh ==
    \A c \in DOMAIN calls :
        calls[c].run # None =>
            /\ runs[calls[c].run].key = calls[c].key
            /\ calls[c].run \notin calls[c].since
            /\ calls[c].cached => runs[calls[c].run].outcome \in Successes

Waiting(c) == c \in DOMAIN calls /\ calls[c].answer = None
=============================================================================
