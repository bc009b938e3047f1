SPECIFICATION Spec
CONSTANTS
    ada = ada
    anon = anon
    t1 = t1
    Tabs = {t1}
    Rooms = {anon, ada}
    Anon = anon
    BigRooms = {}
    Failing = {}
    Pending = Pending
    None = None
    MaxEdits = 2
    MaxGen = 4
    MaxBoots = 1
    Remounts = TRUE
PROPERTIES
    NewerLocalSurvives
