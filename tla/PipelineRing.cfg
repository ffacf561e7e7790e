SPECIFICATION FairSpec
CONSTANTS
    None = None
    Ranks <- Three
    Load <- TwoThenOne
    Keys <- EdgesAndResult
    Requests = {1, 2}
    Tokens = 1
    MaxLinks = 3
    MaxFaults <- OneThenNone
    FaultLoad <- OneThenNone
INVARIANTS
    AnswersInStep
    ErrorsExplained
PROPERTY RunEnds
CHECK_DEADLOCK FALSE
