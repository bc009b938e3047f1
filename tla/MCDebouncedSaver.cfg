SPECIFICATION FairSpec
CONSTANTS
    MaxSchedules = 3
    Flushers = {f1, f2, f3}
INVARIANTS
    OneSaveInFlight
    NoLostSnapshot
    PendingIsHonest
    IInv
PROPERTIES
    FlushDrains
    DurableOnlyAdvances
    EveryCallerAnswered
    KeepsContract
