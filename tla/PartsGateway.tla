---------------------------- MODULE PartsGateway ----------------------------
(***************************************************************************)
(* The server side of the parts search (functions/api/parts): one of the   *)
(* live shopping provider, the public sources or a chain of configured     *)
(* providers answers, each behind its cache, its quota and its pause.      *)
(*                                                                         *)
(* Times are abstracted: an entry ages, a window passes and a pause ends   *)
(* at any time.  What a source says is a choice of what its normalisation  *)
(* makes of the payload: candidates, none, or a failure.  An iteration of  *)
(* the loop over public sources is a step of its own, which only adds      *)
(* interleavings to those of the code.                                     *)
(***************************************************************************)
EXTENDS Naturals, Sequences, FiniteSets

CONSTANTS
    Requests,       \* calls of the route
    Subjects,       \* authenticated users
    Words, Numbers, \* lookups in free words, and those that name a product
    Quantities,
    Chain,          \* the configured providers, in their order
    UserLimit,      \* a user's requests in a window
    SourceLimit,    \* calls of a source in a window
    None

VARIABLES
    mode,       \* which branch the deployment's environment selects
    req,        \* the requests
    memo,       \* the caches: what is known of a key, and how old it is
    flight,     \* the searches in flight that others share
    fetches,    \* upstream calls under way
    spent,      \* the quota counters
    failures,   \* of a public source since its last success
    paused      \* sources with an open circuit, or a blocked provider

gatewayVars == <<mode, req, memo, flight, fetches, spent, failures, paused>>

Modes == {"brightdata", "public", "chain", "unset"}
Queries == Words \union Numbers
Public == {"jlcsearch", "adafruit"}
SharedKeys == ({"brightdata"} \union Public) \X Queries
Keys == SharedKeys \union ({"chain"} \X Queries \X Quantities)
Counters == ({"user", "burst"} \X Subjects) \union ({"source"} \X ({"brightdata"} \union Public))
MaxFailures == 3

GatewayInit ==
    /\ mode \in Modes
    /\ req = [r \in Requests |-> None]
    /\ memo = [k \in Keys |-> None]
    /\ flight = [k \in SharedKeys |-> None]
    /\ fetches = [k \in SharedKeys |-> 0]
    /\ spent = [b \in Counters |-> 0]
    /\ failures = [s \in Public |-> 0]
    /\ paused = {}

-----------------------------------------------------------------------------
Result(found, quantity, why) == [found |-> found, quantity |-> quantity, why |-> why]
Known(found, quantity) == [result |-> Result(found, quantity, "ok"), age |-> "fresh"]
IsFresh(k) == memo[k] # None /\ memo[k].age = "fresh"
IsStale(k) == memo[k] # None /\ memo[k].age = "stale"

ForQuantity_Shared(result, n) == result
\* a shared or cached result is handed out with the caller's own quantity
ForQuantity(result, n) == [result EXCEPT !.quantity = n]

NewRequest(q, n, u) == [query |-> q, quantity |-> n, subject |-> u, stage |-> "source", at |-> 1, key |-> None, answer |-> None]
Answer(r, result) == [req EXCEPT ![r].stage = "answered", ![r].answer = result, ![r].key = None]
AwaitKey(request, k) == [request EXCEPT !.stage = "awaiting", !.key = k]
Spend(buckets) == [b \in Counters |-> IF b \in buckets THEN spent[b] + 1 ELSE spent[b]]
Limit(b) == IF b[1] = "source" THEN SourceLimit ELSE UserLimit
MaySpend(buckets) == \A b \in buckets : spent[b] < Limit(b)

\* everybody who awaits the key resumes, in the order of the loop
Resumed(k, result) ==
    [r \in Requests |->
        IF req[r] # None /\ req[r].stage = "awaiting" /\ req[r].key = k
        THEN IF result.found \/ k[1] = "brightdata"
             THEN [req[r] EXCEPT !.stage = "answered", !.key = None, !.answer = ForQuantity(result, req[r].quantity)]
             ELSE [req[r] EXCEPT !.stage = "source", !.key = None, !.at = @ + 1]
        ELSE req[r]]

-----------------------------------------------------------------------------
\* searchBrightData: the cache, a search in flight, the pause, the quotas, the call
SearchBrightData(r, q, n, u) ==
    LET k == <<"brightdata", q>>
        buckets == {<<"user", u>>, <<"source", "brightdata">>}
        arrives == NewRequest(q, n, u)
        Answers(result) == req' = [req EXCEPT ![r] = [arrives EXCEPT !.stage = "answered", !.answer = result]]
    IN  CASE IsFresh(k) -> Answers(ForQuantity(memo[k].result, n)) /\ UNCHANGED <<flight, fetches, spent>>
          [] ~IsFresh(k) /\ flight[k] # None -> req' = [req EXCEPT ![r] = AwaitKey(arrives, k)] /\ UNCHANGED <<flight, fetches, spent>>
          [] ~IsFresh(k) /\ flight[k] = None /\ "brightdata" \in paused -> Answers(Result(FALSE, n, "paused")) /\ UNCHANGED <<flight, fetches, spent>>
          [] ~IsFresh(k) /\ flight[k] = None /\ "brightdata" \notin paused /\ ~MaySpend(buckets) ->
                Answers(Result(FALSE, n, "limited")) /\ UNCHANGED <<flight, fetches, spent>>
          [] OTHER ->
                /\ req' = [req EXCEPT ![r] = AwaitKey(arrives, k)]
                /\ spent' = Spend(buckets)
                /\ flight' = [flight EXCEPT ![k] = [quantity |-> n, format |-> "json"]]
                /\ fetches' = [fetches EXCEPT ![k] = @ + 1]

\* the provider refuses the format: ask once more for the raw page
BrightDataRefuses(k) ==
    /\ k[1] = "brightdata" /\ flight[k] # None /\ flight[k].format = "json"
    /\ flight' = [flight EXCEPT ![k].format = "raw"]
    /\ UNCHANGED <<mode, req, memo, fetches, spent, failures, paused>>

\* what the provider answers: listings (found), an empty page, a refusal that
\* pauses the search (429, 401, 403), or any other failure or timeout
BrightDataAnswers(k, outcome) ==
    LET result == Result(outcome = "found", flight[k].quantity, IF outcome \in {"found", "empty"} THEN "ok" ELSE outcome)
    IN  /\ k[1] = "brightdata" /\ flight[k] # None
        /\ memo' = IF outcome \in {"found", "empty"} THEN [memo EXCEPT ![k] = Known(outcome = "found", flight[k].quantity)] ELSE memo
        /\ paused' = IF outcome = "refused" THEN paused \union {"brightdata"} ELSE paused
        /\ flight' = [flight EXCEPT ![k] = None]
        /\ fetches' = [fetches EXCEPT ![k] = @ - 1]
        /\ req' = Resumed(k, result)
        /\ UNCHANGED <<mode, spent, failures>>

-----------------------------------------------------------------------------
Order(q) == IF q \in Numbers THEN <<"adafruit", "jlcsearch">> ELSE <<"jlcsearch", "adafruit">>

\* searchPublicParts up to its loop: a user's requests and bursts are limited
SearchPublicParts(r, q, n, u) ==
    LET buckets == {<<"user", u>>, <<"burst", u>>} IN
    /\ IF MaySpend(buckets)
       THEN req' = [req EXCEPT ![r] = NewRequest(q, n, u)] /\ spent' = Spend(buckets)
       ELSE /\ req' = [req EXCEPT ![r] = [NewRequest(q, n, u) EXCEPT !.stage = "answered", !.answer = Result(FALSE, n, "limited")]]
            /\ UNCHANGED spent
    /\ UNCHANGED <<flight, fetches>>

\* One iteration: a source that does not apply, a fresh entry, a paused or
\* exhausted source with or without a stale entry, or the wait before a call.
VisitSource(r) ==
    LET q == req[r].query
        n == req[r].quantity
        s == Order(q)[req[r].at]
        k == <<s, q>>
        next == [req EXCEPT ![r].at = @ + 1]
        FromMemo == req' = IF memo[k].result.found THEN Answer(r, ForQuantity(memo[k].result, n)) ELSE next
        buckets == {<<"source", s>>}
        unusable == s \in paused \/ ~MaySpend(buckets)
    IN  /\ mode = "public" /\ req[r] # None /\ req[r].stage = "source" /\ req[r].at <= 2
        /\ IF s = "adafruit" /\ q \notin Numbers
           THEN req' = next /\ UNCHANGED spent
           ELSE \/ IsFresh(k) /\ FromMemo /\ UNCHANGED spent
                \/ ~IsFresh(k) /\ unusable /\ IsStale(k) /\ FromMemo /\ UNCHANGED spent
                \/ ~IsFresh(k) /\ unusable /\ ~IsStale(k) /\ req' = next /\ UNCHANGED spent
                \/ /\ ~IsFresh(k) /\ ~unusable
                   /\ req' = [req EXCEPT ![r].stage = "spacing", ![r].key = k] /\ spent' = Spend(buckets)
        /\ UNCHANGED <<mode, memo, flight, fetches, failures, paused>>

SourceLookup_Unshared(k) == FALSE
\* somebody's call for the key is under way
SourceLookup(k) == flight[k] # None

\* The cooldown of the source is over: sourceLookup joins a call for the same
\* key, finds what another request cached meanwhile, or calls.
Call(r) ==
    LET k == req[r].key IN
    /\ req[r] # None /\ req[r].stage = "spacing"
    /\ IF ~SourceLookup(k) /\ IsFresh(k)
       THEN /\ req' = IF memo[k].result.found THEN Answer(r, ForQuantity(memo[k].result, req[r].quantity))
                      ELSE [req EXCEPT ![r].stage = "source", ![r].key = None, ![r].at = @ + 1]
            /\ UNCHANGED <<flight, fetches>>
       ELSE /\ req' = [req EXCEPT ![r] = AwaitKey(@, k)]
            /\ IF SourceLookup(k) THEN UNCHANGED <<flight, fetches>>
               ELSE /\ flight' = [flight EXCEPT ![k] = [quantity |-> req[r].quantity, format |-> "json"]]
                    /\ fetches' = [fetches EXCEPT ![k] = @ + 1]
    /\ UNCHANGED <<mode, memo, spent, failures, paused>>

\* A public source answers (cached, and its circuit closes) or fails: a stale
\* entry serves, otherwise the third failure in a row pauses the source.
SourceAnswers(k, outcome) ==
    LET s == k[1]
        ok == outcome \in {"found", "empty"}
        failed == IF failures[s] < MaxFailures THEN failures[s] + 1 ELSE MaxFailures
    IN  /\ s \in Public /\ flight[k] # None
        /\ flight' = [flight EXCEPT ![k] = None]
        /\ fetches' = [fetches EXCEPT ![k] = @ - 1]
        /\ IF ok
           THEN /\ memo' = [memo EXCEPT ![k] = Known(outcome = "found", flight[k].quantity)]
                /\ failures' = [failures EXCEPT ![s] = 0] /\ paused' = paused \ {s}
                /\ req' = Resumed(k, Result(outcome = "found", flight[k].quantity, "ok"))
           ELSE /\ UNCHANGED memo
                /\ IF memo[k] # None
                   THEN req' = Resumed(k, memo[k].result) /\ UNCHANGED <<failures, paused>>
                   ELSE /\ failures' = [failures EXCEPT ![s] = failed]
                        /\ paused' = IF failed = MaxFailures THEN paused \union {s} ELSE paused
                        /\ req' = Resumed(k, Result(FALSE, flight[k].quantity, "failed"))
        /\ UNCHANGED <<mode, spent>>

\* no source is left: the response hands the lookup to the agent
NothingFound(r) ==
    /\ mode = "public" /\ req[r] # None /\ req[r].stage = "source" /\ req[r].at > 2
    /\ req' = Answer(r, Result(FALSE, req[r].quantity, "handoff"))
    /\ UNCHANGED <<mode, memo, flight, fetches, spent, failures, paused>>

-----------------------------------------------------------------------------
\* the chain of configured providers, behind one cache per lookup and quantity
SearchChain(r, q, n, u) ==
    LET k == <<"chain", q, n>>
        arrives == NewRequest(q, n, u)
    IN  /\ req' = [req EXCEPT ![r] = IF IsFresh(k) THEN [arrives EXCEPT !.stage = "answered", !.answer = memo[k].result]
                                     ELSE [arrives EXCEPT !.stage = "chain"]]
        /\ UNCHANGED <<flight, fetches, spent>>

\* callProvider returns: its candidates end the chain, anything else (empty,
\* error, timeout, a missing token) moves on; the outcome is cached either way
ProviderAnswers(r, found) ==
    LET k == <<"chain", req[r].query, req[r].quantity>>
        last == found \/ req[r].at = Len(Chain)
        known == Known(found, req[r].quantity)
    IN  /\ req[r] # None /\ req[r].stage = "chain"
        /\ req' = IF last THEN Answer(r, known.result) ELSE [req EXCEPT ![r].at = @ + 1]
        /\ memo' = IF last THEN [memo EXCEPT ![k] = known] ELSE memo
        /\ UNCHANGED <<mode, flight, fetches, spent, failures, paused>>

\* nothing is configured
NotConfigured(r, q, n, u) ==
    /\ req' = [req EXCEPT ![r] = [NewRequest(q, n, u) EXCEPT !.stage = "answered", !.answer = Result(FALSE, n, "handoff")]]
    /\ UNCHANGED <<flight, fetches, spent>>

\* the route: an authenticated request with a query, dispatched by environment
Search(r, q, n, u) ==
    /\ req[r] = None
    /\ \/ mode = "brightdata" /\ SearchBrightData(r, q, n, u)
       \/ mode = "public" /\ SearchPublicParts(r, q, n, u)
       \/ mode = "chain" /\ SearchChain(r, q, n, u)
       \/ mode = "unset" /\ NotConfigured(r, q, n, u)
    /\ UNCHANGED <<mode, memo, failures, paused>>

-----------------------------------------------------------------------------
\* an entry's time passes, or a newer one evicts it; a public one is kept stale
EntryAges(k) ==
    /\ memo[k] # None
    /\ \/ memo' = [memo EXCEPT ![k] = None]
       \/ k[1] \in Public /\ memo[k].age = "fresh" /\ memo' = [memo EXCEPT ![k].age = "stale"]
    /\ UNCHANGED <<mode, req, flight, fetches, spent, failures, paused>>
WindowPasses(b) == spent[b] > 0 /\ spent' = [spent EXCEPT ![b] = 0] /\ UNCHANGED <<mode, req, memo, flight, fetches, failures, paused>>
PauseEnds(s) == s \in paused /\ paused' = paused \ {s} /\ UNCHANGED <<mode, req, memo, flight, fetches, spent, failures>>

\* what the payload of a source comes to, once read and normalised
PublicOutcomes == {"found", "empty", "failed"}
BrightDataOutcomes == {"found", "empty", "failed", "refused"}
ProviderFinds == BOOLEAN

GatewayNext ==
    \/ \E r \in Requests, q \in Queries, n \in Quantities, u \in Subjects : Search(r, q, n, u)
    \/ \E k \in SharedKeys : BrightDataRefuses(k)
    \/ \E k \in SharedKeys, outcome \in BrightDataOutcomes : BrightDataAnswers(k, outcome)
    \/ \E r \in Requests : VisitSource(r) \/ Call(r) \/ NothingFound(r)
    \/ \E k \in SharedKeys, outcome \in PublicOutcomes : SourceAnswers(k, outcome)
    \/ \E r \in Requests, found \in ProviderFinds : ProviderAnswers(r, found)
    \/ \E k \in Keys : EntryAges(k)
    \/ \E b \in Counters : WindowPasses(b)
    \/ \E s \in paused : PauseEnds(s)

\* what the runtime guarantees: upstream calls settle (they time out), timers
\* fire and resumed code runs
RequestRuns(r) == VisitSource(r) \/ Call(r) \/ NothingFound(r) \/ \E found \in ProviderFinds : ProviderAnswers(r, found)
CallSettles(k) ==
    \/ \E outcome \in BrightDataOutcomes : BrightDataAnswers(k, outcome)
    \/ \E outcome \in PublicOutcomes : SourceAnswers(k, outcome)

-----------------------------------------------------------------------------
\* Equal lookups at one time cost one upstream call, and yet each caller is
\* answered for the quantity that it asked for.
SharedLookupsAreSound ==
    /\ \A k \in SharedKeys : fetches[k] <= 1
    /\ \A r \in Requests : req[r] # None /\ req[r].answer # None => req[r].answer.quantity = req[r].quantity

Unanswered(r) == req[r] # None /\ req[r].answer = None

\* Every request is answered, also when the call that it shares fails.
EveryRequestEnds == \A r \in Requests : Unanswered(r) ~> ~Unanswered(r)
=============================================================================
