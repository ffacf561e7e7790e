SPECIFICATION BackendsSpec
CONSTANTS
    None = None
    Unit = 16
    Machines <- SomeMachines
    Prefer <- AnyBackend
    Specs <- SomeSpecs
    KVTokens = 100
    Requests = {r1, r2}
    Hidden = 2
    Asked = {None, 1, 3, 9}
    Trained = {0, 3, 9}
    Least = 2
    Default = 4
    Cap = 5
    MaxPrompt = 3
    MaxFed = 4
    MaxCalls = 3
SYMMETRY AnyRequest
INVARIANTS
    PlanFits
    OwnContext
CHECK_DEADLOCK FALSE
