-------------------------------- MODULE MCPage --------------------------------
(***************************************************************************)
(* What an account's page shows and a server keeps for it, one component   *)
(* after the other: part says which of them runs, and the variables of the *)
(* others rest.  Theorems hold for every value of the constants; the runs  *)
(* of MCServices, which adds further parts, give them values.              *)
(*   desk            PartsDesk                                             *)
(*   studio          StudioPage                                            *)
(*   calls           ToolCalls                                             *)
(*   graphs          GraphChecks, in the tabs of a browser                 *)
(*   rooms           SourceEditor                                          *)
(*   simulations     SimulationSessions                                    *)
(*   sign-ins        SessionServer                                         *)
(*   verification    ProjectVerification                                   *)
(*   chosen          ProjectFile                                           *)
(***************************************************************************)
EXTENDS Naturals, Sequences, FiniteSets

CONSTANTS
    None, Accounts,
    DeskQueries, Designs, Listings, MaxQuantity, MaxUndo, MaxLease, MaxLookups, MaxCart,        \* of the desk
    StudioProjects, StudioParts, StudioEnds, StudioGraphs,                                      \* of the studio
    PageUsers,                                                                                  \* of studio and calls
    PageCalls, MaxShown, MaxSwitches, MaxChannel,                                               \* of the calls; of the graphs
    BrowserTabs, Catalog, Attempts, Loaded, MaxConnections, MaxIssues, MaxIds,                  \* of the graphs
    EditedProjects, Components, MaxDrafts, MaxTexts, MaxTurns,                                  \* of the editor
    Simulated, SimulationIds, InputValues, MaxSessions, MaxTime,                                \* of the simulations
    Configs, Subjects, Ttl, TicketTtl, CacheTtl, MaxTickets, MaxIssued, MaxClock, MaxRotations, \* of the sign-ins
    VerifiedParts, VerifiedProjects, MaxSeen,                                                   \* of the verification
    SourceSizes, ProjectBytes, ProjectFiles, FilePlans, MaxEdits, MaxReads, MaxComponents, MaxGenerations, MaxProjects \* of the files

\* there is an account, a cart line has a quantity, and no lookup is numbered None
ASSUME DeskAssumption == Accounts # {} /\ MaxQuantity \in Nat \ {0} /\ None \notin Nat

\* the texts of the editor are numbered from the sketch, 0, on
ASSUME TextsAssumption == MaxTexts \in Nat

\* the lifetimes of tokens, tickets and cached keys; a token lives a while
ASSUME SignInAssumption ==
    /\ Ttl \in Nat \ {0} /\ TicketTtl \in Nat /\ CacheTtl \in Nat /\ MaxRotations \in Nat
    /\ \A c \in Configs : c.mode \in {"chatgpt-sites", "cloudflare-access", "development"}

\* what is kept of a simulation, and that a server keeps a number of them
SimulationResults == [project : Simulated, input : InputValues \cup {None}, time : 0..MaxTime]
SessionValues == [owner : Accounts, project : Simulated, input : InputValues \cup {None}, time : 0..MaxTime, shows : SimulationResults]
ASSUME SessionsAssumption == MaxSessions \in Nat /\ MaxTime \in Nat /\ None \notin SessionValues

VARIABLES
    part,
    room,       \* of PartsDesk, or of GraphChecks
    lease, hydrated, \* of PartsDesk, or of ToolCalls
    user,       \* of ToolCalls, or of SourceEditor
    last,       \* of SimulationSessions, or of SessionServer
    desk, stored, design, page, lookups, answered, abandoned,
    account, ready, graphs, current, selected, focus, picked, route, tab, menus, primed, done,
    call, shown, channel, switches,
    graph, verdict, told, updates, ids, changes,
    documents, view, drafts, armed, screen, texts, turns, met, typed, overwrote,
    server, sessions, order, default, socket,
    config, clock, secret, key, retired, cached, issued, tickets, opened,
    project,    \* of ProjectVerification, or of ProjectFile
    seen,
    made, exported, dialog, reads, imported, edits

deskOnly == <<desk, stored, design, page, lookups, answered, abandoned>>
studioOnly == <<account, ready, graphs, current, selected, focus, picked, route, tab, menus, primed, done>>
callsOnly == <<shown, channel, switches>>
checksOnly == <<graph, verdict, told, updates, ids, changes>>
editorOnly == <<documents, view, drafts, armed, screen, texts, turns, met, typed, overwrote>>
simulationsOnly == <<server, sessions, order, default, socket>>
signInsOnly == <<config, clock, secret, key, retired, cached, issued, tickets, opened>>
verificationOnly == <<seen>>
filesOnly == <<made, exported, dialog, reads, imported, edits>>
pageShared == <<room, lease, hydrated, user, last, call, project>>
pageVars == <<part, pageShared, deskOnly, studioOnly, callsOnly, checksOnly, editorOnly, simulationsOnly, signInsOnly, verificationOnly, filesOnly>>

-----------------------------------------------------------------------------
Desk == INSTANCE PartsDesk WITH Rooms <- Accounts, Queries <- DeskQueries
Studio == INSTANCE StudioPage WITH Users <- PageUsers, Projects <- StudioProjects, Parts <- StudioParts, Ends <- StudioEnds, Graphs <- StudioGraphs
Tools == INSTANCE ToolCalls WITH Users <- PageUsers, Calls <- PageCalls
Checks == INSTANCE GraphChecks WITH Rooms <- Accounts, Tabs <- BrowserTabs
Editor == INSTANCE SourceEditor WITH Users <- Accounts, Projects <- EditedProjects, MaxSwitches <- MaxTurns
Simulations == INSTANCE SimulationSessions WITH Owners <- Accounts, Ids <- SimulationIds, Projects <- Simulated, Values <- InputValues
SignIns == INSTANCE SessionServer
Verification == INSTANCE ProjectVerification WITH Components <- VerifiedParts, Projects <- VerifiedProjects
Chosen == INSTANCE ProjectFile WITH Bytes <- SourceSizes, SourceLimit <- ProjectBytes, Files <- ProjectFiles, Plans <- FilePlans

\* the cache of drafts has a size, and None is no text, no conflict and no draft
ASSUME DraftsAssumption == MaxDrafts \in Nat /\ None \notin Editor!Texts \cup Editor!Conflict \cup Editor!Draft

\* a project has finitely many boards, a sketch is checked with one of four
\* outcomes, and a plan is prepared with one of three
ASSUME VerificationAssumption ==
    \A p \in VerifiedProjects :
        /\ IsFiniteSet(p.boards)
        /\ \A b \in p.boards : p.docs[b] # None => p.docs[b].outcome \in {"executed", "partial", "preflight-failed", "unavailable"}
        /\ Verification!Selected(p) # None => Verification!Selected(p).prepares \in {"ready", "blocked", "partial"}

\* the parts that have the same variables, those with other bounds included
Desks == {"desk", "cart", "returns"}
ToolParts == {"calls", "switches"}
GraphParts == {"wired", "loaded", "graphs"}
EditorParts == {"sources", "rooms", "versions"}
FileParts == {"chosen", "exchanged"}

DeskRests ==
    /\ desk = None /\ stored = None /\ design = None /\ page = None
    /\ lookups = None /\ answered = None /\ abandoned = None
StudioRests ==
    /\ account = None /\ ready = None /\ graphs = None /\ current = None /\ selected = None /\ focus = None
    /\ picked = None /\ route = None /\ tab = None /\ menus = None /\ primed = None /\ done = None
CallsRest == shown = None /\ channel = None /\ switches = None
ChecksRest == graph = None /\ verdict = None /\ told = None /\ updates = None /\ ids = None /\ changes = None
EditorRests ==
    /\ documents = None /\ view = None /\ drafts = None /\ armed = None /\ screen = None
    /\ texts = None /\ turns = None /\ met = None /\ typed = None /\ overwrote = None
SimulationsRest == server = None /\ sessions = None /\ order = None /\ default = None /\ socket = None
SignInsRest ==
    /\ config = None /\ clock = None /\ secret = None /\ key = None /\ retired = None
    /\ cached = None /\ issued = None /\ tickets = None /\ opened = None

FilesRest == made = None /\ exported = None /\ dialog = None /\ reads = None /\ imported = None /\ edits = None

PageRests ==
    /\ part \notin Desks => DeskRests
    /\ part # "studio" => StudioRests
    /\ part \notin ToolParts => CallsRest
    /\ part \notin GraphParts => ChecksRest
    /\ part \notin EditorParts => EditorRests
    /\ part # "simulations" => SimulationsRest
    /\ part # "sign-ins" => SignInsRest
    /\ part \notin {"simulations", "sign-ins"} => last = None
    /\ part \notin ToolParts \cup EditorParts \cup {"search"} => user = None
    /\ part \notin ToolParts \cup Desks => lease = None /\ hydrated = None
    /\ part \notin GraphParts \cup Desks => room = None
    /\ part \notin ToolParts \cup {"verification"} => call = None
    /\ part # "verification" => seen = None
    /\ part \notin FileParts => FilesRest
    /\ part \notin FileParts \cup {"verification"} => project = None

PageStays ==
    /\ UNCHANGED part
    /\ part \notin Desks => UNCHANGED deskOnly
    /\ part # "studio" => UNCHANGED studioOnly
    /\ part \notin ToolParts => UNCHANGED callsOnly
    /\ part \notin GraphParts => UNCHANGED checksOnly
    /\ part \notin EditorParts => UNCHANGED editorOnly
    /\ part # "simulations" => UNCHANGED simulationsOnly
    /\ part # "sign-ins" => UNCHANGED signInsOnly
    /\ part \notin {"simulations", "sign-ins"} => UNCHANGED last
    /\ part \notin ToolParts \cup EditorParts \cup {"search"} => UNCHANGED user
    /\ part \notin ToolParts \cup Desks => UNCHANGED <<lease, hydrated>>
    /\ part \notin GraphParts \cup Desks => UNCHANGED room
    /\ part \notin ToolParts \cup {"verification"} => UNCHANGED call
    /\ part # "verification" => UNCHANGED verificationOnly
    /\ part \notin FileParts => UNCHANGED filesOnly
    /\ part \notin FileParts \cup {"verification"} => UNCHANGED project

PageStarts ==
    \/ part = "desk" /\ Desk!DeskInit
    \/ part = "studio" /\ Studio!StudioInit
    \/ part = "calls" /\ Tools!CallsInit
    \/ part = "graphs" /\ Checks!ChecksInit
    \/ part = "rooms" /\ Editor!EditorInit
    \/ part = "simulations" /\ Simulations!SessionsInit
    \/ part = "sign-ins" /\ SignIns!ServerInit
    \/ part = "verification" /\ Verification!VerificationInit
    \/ part = "chosen" /\ Chosen!FileInit

PageNext ==
    \/ part = "desk" /\ PageStays /\ Desk!DeskNext
    \/ part = "studio" /\ PageStays /\ Studio!StudioNext
    \/ part = "calls" /\ PageStays /\ Tools!CallsNext
    \/ part = "graphs" /\ PageStays /\ Checks!ChecksNext
    \/ part = "rooms" /\ PageStays /\ Editor!EditorNext
    \/ part = "simulations" /\ PageStays /\ Simulations!SessionsNext
    \/ part = "sign-ins" /\ PageStays /\ SignIns!ServerNext
    \/ part = "verification" /\ PageStays /\ Verification!VerificationNext
    \/ part = "chosen" /\ PageStays /\ Chosen!FileNext

PageInit == PageStarts /\ PageRests
PageSpec == PageInit /\ [][PageNext]_pageVars

-----------------------------------------------------------------------------
\* Listings and cart, on screen and in storage, are those of their room; a cart
\* line names a listing that is there, and no listing has two lines; the
\* candidates shown are those of the design the page looked up last; and the
\* status says "searching" only while a lookup runs that will end it.  (Left out
\* are a cart that an undo or an alternative has just broken, and a search that
\* was abandoned: CartIsListed, SearchingIsAlive.)
DeskIsSound ==
    part = "desk" => Desk!DeskIsOfRoom /\ Desk!CartIsListed /\ Desk!CandidatesOfDesign /\ Desk!SearchingIsAlive

\* (violated) An answer of shopping.search holds candidates of its own query.
AnswerIsOfQuery == part = "desk" => Desk!AnswerIsOfQuery

\* What the user confirms or trusts is what the page shows: a deletion hits what
\* was there when its button was armed, whatever agents, other tabs and menus did
\* between the two clicks; the project that an import would add is the one in the
\* file chosen last; and a project is called ready when its graph, its plan and
\* its boards are.
ConfirmedAsShown ==
    /\ part = "studio" => Studio!ConfirmedAsShown
    /\ part = "chosen" => Chosen!PreviewIsOfChoice
    /\ part = "verification" => Verification!ReadyIsEarned

\* What the page shows an account and saves for it is the account's own: the log
\* of the tools that were called, the verdict of its graph, the source it types,
\* which is kept until it is saved and replaces no version unseen.
AccountsAreSeparate ==
    /\ part = "calls" => Tools!LogIsTrue
    /\ part = "graphs" => Checks!VerdictIsOfRoom /\ Checks!VerdictIsCurrent
    /\ part = "rooms" => Editor!EditorTypeOK /\ Editor!SourceStaysHome /\ Editor!UnsavedSourceIsKept /\ Editor!NothingUnseenIsLost

\* What a server gives an account is its own and lasts as long as it should:
\* simulations and their capacity, sign-ins and tickets.
ServersKeepApart ==
    /\ part = "simulations" => Simulations!AnswersAreOwn /\ Simulations!SessionsAreBounded
    /\ part = "sign-ins" => SignIns!SignInsAreBounded
=============================================================================
