SPECIFICATION Spec
CONSTANTS
    main = main
    agent = agent
    k1 = k1
    v1 = v1
    v2 = v2
    None = None
    Garbled = Garbled
    Main = main
    Branches = {main, agent}
    BranchOrder <- TwoBranches
    Keys = {k1}
    Values = {v1, v2}
    Snapshots <- AllExports
    MaxCommits = 6
    MaxStrays = 1
SYMMETRY Symmetry
VIEW View
INVARIANTS
    CleanBetweenCalls
PROPERTIES
    HistoryGrows
    OthersUntouched
    ImplementsSpaces
