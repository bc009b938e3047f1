SPECIFICATION FairSpec
CONSTANTS
    ada = ada
    anon = anon
    t1 = t1
    Tabs = {t1}
    Rooms = {anon, ada}
    Anon = anon
    BigRooms = {anon, ada}
    Failing = {"load", "local", "save", "preserve", "migrate", "probe"}
    Pending = Pending
    None = None
    MaxEdits = 1
    MaxGen = 4
    MaxBoots = 1
    Remounts = TRUE
INVARIANTS
    RecoveryFreezesSaver
PROPERTIES
    HydrationCompletes
