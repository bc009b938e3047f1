SPECIFICATION Spec
CONSTANTS
    ada = ada
    anon = anon
    t1 = t1
    Tabs = {t1}
    Rooms = {anon, ada}
    Anon = anon
    BigRooms = {anon}
    Failing = {}
    Pending = Pending
    None = None
    MaxEdits = 1
    MaxGen = 4
    MaxBoots = 0
    Remounts = TRUE
PROPERTIES
    NoBlindOverwrite
