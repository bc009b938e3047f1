SPECIFICATION RepositorySpec
CONSTANTS
    None = None
    c1 = c1
    c2 = c2
    Clients = {c1, c2}
    Requests <- MCRequests
    ProjectSet <- MCProjects
    MaxProjects = 2
    MaxCalls = 4
SYMMETRY TabsAlike
CHECK_DEADLOCK FALSE
INVARIANT RepositoryIInv
PROPERTY RepositoryIsAtomic
