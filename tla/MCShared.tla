-------------------------------- MODULE MCShared --------------------------------
(***************************************************************************)
(* Work that several calls share, one component after the other: part says *)
(* which of them runs, and the variables of the others rest.  Theorems     *)
(* hold for every value of the constants; the runs of MCServices, which    *)
(* adds further parts, give them values.                                   *)
(*   search          PartsSearch                                           *)
(*   listings        ListingsRoute                                         *)
(*   words           PartsGateway                                          *)
(*   shared          CompileJobs                                           *)
(*   registry        ToolRegistry                                          *)
(***************************************************************************)
EXTENDS MCPage

CONSTANTS
    Searchers, SearchQueries, SearchUsers, MaxRuns,                         \* of the search
    ListingKeys, MaxCached, MaxCalls,                                       \* of the listings
    PartsRequests, PartsWords, Numbers, Quantities, ProviderChain, UserLimit, SourceLimit,  \* of the gateway, and Subjects
    Compilations, OneWorkerForAll, MaxNoise,                                \* of the compile jobs
    Contexts, MaxRetries, MaxRegistrations                                  \* of the registry

\* how much the server's cache may hold, and that None is no outcome of a task
\* and no refusal
ASSUME ListingsAssumption == MaxCached \in Nat /\ None \notin {"listed", "unprintable", "failed", "refused"}

\* the searches in flight of the gateway; None is no search
GatewayFlights == [quantity : Quantities, format : {"json", "raw"}]
ASSUME GatewayAssumption == None \notin GatewayFlights

ASSUME CompileAssumption == OneWorkerForAll \in BOOLEAN

VARIABLES
    calls, runs, active, cache, kept,
    mode, req, memo, flight, fetches, spent, failures, paused,
    job, worker, handler, noise,
    host, live, generation, inFlight, registered, state, discovery, timer, gap \* and runs

searchOnly == <<kept>>
lookupsOnly == <<calls, active, cache>>
gatewayOnly == <<mode, req, memo, flight, fetches, spent, failures, paused>>
jobsOnly == <<job, worker, handler, noise>>
registryOnly == <<host, live, generation, inFlight, registered, state, discovery, timer, gap>>
sharedVars == <<part, user, runs, searchOnly, lookupsOnly, gatewayOnly, jobsOnly, registryOnly>>

-----------------------------------------------------------------------------
Search == INSTANCE PartsSearch WITH Callers <- Searchers, Queries <- SearchQueries, Users <- SearchUsers
Route == INSTANCE ListingsRoute WITH Keys <- ListingKeys, inflight <- active
InWords == INSTANCE PartsGateway WITH Requests <- PartsRequests, Words <- PartsWords, Chain <- ProviderChain
OneWorker == INSTANCE CompileJobs WITH Jobs <- Compilations, Shared <- OneWorkerForAll
Registry == INSTANCE ToolRegistry

\* the parts that have the same variables, those with other bounds included
GatewayParts == {"words", "numbers"}
CompileParts == {"own", "shared"}

SharedRests ==
    /\ part # "search" => kept = None
    /\ part \notin {"search", "listings"} => calls = None /\ active = None /\ cache = None
    /\ part \notin GatewayParts =>
        /\ mode = None /\ req = None /\ memo = None /\ flight = None
        /\ fetches = None /\ spent = None /\ failures = None /\ paused = None
    /\ part \notin CompileParts => job = None /\ worker = None /\ handler = None /\ noise = None
    /\ part # "registry" =>
        /\ host = None /\ live = None /\ generation = None /\ inFlight = None /\ registered = None
        /\ state = None /\ discovery = None /\ timer = None /\ gap = None
    /\ part \notin {"search", "listings", "registry"} => runs = None

SharedStays ==
    /\ UNCHANGED part
    /\ part # "search" => UNCHANGED searchOnly
    /\ part \notin {"search", "listings"} => UNCHANGED lookupsOnly
    /\ part \notin GatewayParts => UNCHANGED gatewayOnly
    /\ part \notin CompileParts => UNCHANGED jobsOnly
    /\ part # "registry" => UNCHANGED registryOnly
    /\ part \notin {"search", "listings", "registry"} => UNCHANGED runs

SharedStarts ==
    \/ part = "search" /\ Search!SearchInit
    \/ part = "listings" /\ Route!RouteInit
    \/ part = "words" /\ InWords!GatewayInit
    \/ part = "shared" /\ OneWorker!JobsInit
    \/ part = "registry" /\ Registry!RegistryInit

SharedNext ==
    \/ part = "search" /\ SharedStays /\ Search!SearchNext
    \/ part = "listings" /\ SharedStays /\ Route!RouteNext
    \/ part = "words" /\ SharedStays /\ InWords!GatewayNext
    \/ part = "shared" /\ SharedStays /\ OneWorker!JobsNext
    \/ part = "registry" /\ SharedStays /\ Registry!RegistryNext

SharedInit == SharedStarts /\ SharedRests
SharedSpec == SharedInit /\ [][SharedNext]_sharedVars

-----------------------------------------------------------------------------
\* Calls that equal or simultaneous ones share, a search, an upstream lookup or
\* a compiler, get their own answer, once, and leave nothing of them behind.
SharedWorkIsSound ==
    /\ part = "search" => Search!OneSearchRuns
    /\ part = "listings" => Route!LookupsAreShared /\ Route!AnswersAreFresh
    /\ part = "words" => InWords!SharedLookupsAreSound
    /\ part = "shared" => OneWorker!AnswersAreOwn /\ OneWorker!NothingStaysBehind
    /\ part = "registry" => Registry!RegistrationIsTrue
=============================================================================
