SPECIFICATION FairSpec
CONSTANTS
    f1 = f1
    f2 = f2
    f3 = f3
    f4 = f4
    f5 = f5
    m1 = m1
    m2 = m2
    None = None
    Fetches = {f1, f2, f3, f4, f5}
    Agent <- SomeAgents
    Quota <- QuotaOfTwo
    Blocked = {f5}
    Workers = 2
    Remote = {m1, m2}
    OnLoop = {m1}
    Connected = TRUE
    MaxCalls = 3
INVARIANTS
    QuotaServed
    EffectsOnce
PROPERTY CarriedOut
CHECK_DEADLOCK FALSE
