SPECIFICATION MCSpec
CONSTANTS
    board = board
    component = component
    starter = starter
    calculator = calculator
    scaffold = scaffold
    Comps = {board, component}
    Boards = {board}
    PlanIds = {starter, calculator}
    Bodies = {scaffold}
    Starter = starter
    Calculator = calculator
    Scaffold = scaffold
    Names <- MCNames
    None = None
    MaxProjects = 2
    MaxBytes = 6
    MaxIds = 2
    MaxEdits = 4
    MaxHistory = 2
    MaxLeases = 1
    x = x
    y = y
    planA = planA
    s1 = s1
    s2 = s2
    LinkEdits = 5
    RoomBytes = 4
    RoomIds = 5
    RoomEdits = 8
    Slots = {s1, s2}
    PlanEdits = 3
    PlanLeases = 2
    MaxWorlds = 2
    MaxLease = 2
    MaxCommands = 4
    left = left
    right = right
    Tabs = {left, right}
    Local = {"showGrid"}
    Options = {x, y}
    Heights = {1, 5}
    MinHeight = 2
    MaxHeight = 3
    unusable = unusable
    Damaged = unusable
    MaxSets = 3
    l1 = l1
    l2 = l2
    Loads = {l1, l2}
    Contents = {x, y, planA}
    Assets <- MCAssets
    MaxDamage = 1
CHECK_DEADLOCK FALSE
INVARIANTS
    RoomIsConsistent
    LinksStayTruthful
    AnswersAreTrue
    NoLostUpdate
    SessionIsCurrent
    PageShowsCurrent
PROPERTIES
    RecoveryShrinks
    ProposalAppliesWhole
