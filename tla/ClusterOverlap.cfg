SPECIFICATION FairSpec
CONSTANTS
    w1 = w1
    w2 = w2
    w3 = w3
    Root = Root
    None = None
    Workers <- Two
    NumLayers = 3
    NumHeads = 4
    Homogeneous = FALSE
    PreferredMode = "automatic"
    Tasks = {1, 2}
    MaxHellos = 2
    OrderedControl = TRUE
    MaxFaults = 0
INVARIANTS
    PlanAdmissible
PROPERTY SilentLeavesPlan
CHECK_DEADLOCK FALSE
