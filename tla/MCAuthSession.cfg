SPECIFICATION FairSpec
CONSTANTS
    c1 = c1
    h1 = h1
    ada = ada
    bob = bob
    c2 = c2
    Callers = {c1, c2, h1}
    Hooks = {h1}
    Subjects = {ada, bob}
    Null = Null
    Undefined = Undefined
    Unmounted = Unmounted
    MaxSeq = 4
    MaxEpoch = 1
INVARIANTS
    HooksAgree
    NoOrphanWait
    IInv
PROPERTIES
    CacheOnlyAdvances
    AnswersAreCurrent
    EveryCallerAnswered
