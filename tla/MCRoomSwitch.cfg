SPECIFICATION Spec
CONSTANTS
    ada = ada
    anon = anon
    t1 = t1
    Tabs = {t1}
    Rooms = {anon, ada}
    Anon = anon
    BigRooms = {}
    Failing = {"save", "preserve", "migrate", "probe"}
    Pending = Pending
    None = None
    MaxEdits = 3
    MaxGen = 4
    MaxBoots = 1
    Remounts = TRUE
INVARIANTS
    RoomIsolation
    LeaseMatchesRoom
    SavedIsDurable
PROPERTIES
    NoBlindOverwrite
