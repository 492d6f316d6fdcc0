SPECIFICATION FairSpec
CONSTANTS
    Mails = {m1, m2}
    Workers = {w1, w2}
    Attempts = 3
    MaxStalled = 1
    None = None
INVARIANTS
    TypeOK
    CallsAreBounded
    FailuresAreLogged
PROPERTY KeepsPromise
CHECK_DEADLOCK FALSE
