SPECIFICATION Spec
CONSTANTS
    w1 = w1
    w2 = w2
    w3 = w3
    Root = Root
    None = None
    Workers <- Two
    NumLayers = 3
    NumHeads = 4
    Homogeneous = FALSE
    PreferredMode = "automatic"
    Tasks = {1}
    MaxHellos = 3
    OrderedControl = TRUE
    MaxFaults = 1
SYMMETRY Symmetry
INVARIANTS
    WorkersFollowPlan
    PeersMatchRange
    PlanCuts
CHECK_DEADLOCK FALSE
