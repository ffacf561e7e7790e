SPECIFICATION FabricSpec
CONSTANTS
    p1 = p1
    p2 = p2
    Processes = {p1, p2}
    Stores = {"notes", "whiteboard"}
    Board = "whiteboard"
    Sides = {"drafts"}
    Asked <- SomePolicies
    Agents = {"a", "b"}
    MaxCalls = 4
SYMMETRY AnyProcess
INVARIANTS
    PolicyHasStore
    NeverWidened
    TurnsKeepRights
    PostsKept
