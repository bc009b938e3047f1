SPECIFICATION MCSpec
CONSTANTS
    None = None
    Accounts = {"ana", "ben"}
    DeskQueries = {{"relay"}}
    Designs = {{}, {"led"}}
    Listings <- MCListings
    MaxQuantity = 1
    MaxUndo = 0
    MaxLease = 1
    MaxLookups = 2
    MaxCart = 1
    StudioProjects = {"p", "q"}
    StudioParts = {"a", "b"}
    StudioEnds <- MCStudioEnds
    StudioGraphs <- MCStudioGraphs
    PageUsers = {"ana"}
    PageCalls = {1, 2}
    MaxShown = 1
    MaxSwitches = 1
    MaxChannel = 1
    BrowserTabs = {"left", "right"}
    Catalog <- MCCatalog
    Attempts = {}
    Loaded <- MCLoaded
    MaxConnections = 1
    MaxIssues = 1
    MaxIds = 0
    EditedProjects = {"lamp"}
    Components = {"uno"}
    MaxDrafts = 1
    MaxTexts = 2
    MaxTurns = 2
    Simulated <- MCSimulated
    SimulationIds = {"s", "t"}
    InputValues = {"high"}
    MaxSessions = 1
    MaxTime = 1
    Configs <- MCConfigs
    Subjects = {"ana"}
    Ttl = 3
    TicketTtl = 1
    CacheTtl = 1
    MaxTickets = 1
    MaxIssued = 2
    MaxClock = 3
    MaxRotations = 1
    VerifiedParts = {"left", "right", "lamp"}
    VerifiedProjects <- MCVerified
    MaxSeen = 2
    SourceSizes <- Size
    ProjectBytes = 3
    ProjectFiles <- MCFiles
    FilePlans = {}
    MaxEdits = 0
    MaxReads = 2
    MaxComponents = 0
    MaxGenerations = 3
    MaxProjects = 2
    Searchers = {1, 2, 3}
    SearchQueries = {"led", "relay"}
    SearchUsers = {"ana", "ben"}
    MaxRuns = 2
    ListingKeys = {"led", "relay"}
    MaxCached = 1
    MaxCalls = 3
    PartsRequests = {1, 2}
    PartsWords = {"red led"}
    Numbers = {}
    Quantities = {1, 2}
    ProviderChain <- MCProviders
    UserLimit = 2
    SourceLimit = 1
    Compilations = {1, 2}
    OneWorkerForAll = TRUE
    MaxNoise = 0
    Contexts = {"first", "second"}
    MaxRetries = 2
    MaxRegistrations = 4
CHECK_DEADLOCK FALSE
INVARIANT AnswerIsOfQuery
