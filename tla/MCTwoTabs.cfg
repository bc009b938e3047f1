SPECIFICATION Spec
CONSTANTS
    ada = ada
    anon = anon
    t1 = t1
    t2 = t2
    Tabs = {t1, t2}
    Rooms = {anon, ada}
    Anon = anon
    BigRooms = {}
    Failing = {}
    Pending = Pending
    None = None
    MaxEdits = 1
    MaxGen = 3
    MaxBoots = 0
    Remounts = FALSE
SYMMETRY TabSymmetry
INVARIANTS
    IInv
