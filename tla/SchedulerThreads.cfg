SPECIFICATION MCSpec
CONSTANTS
    r1 = r1
    r2 = r2
    r3 = r3
    r4 = r4
    None = None
    Requests <- Four
    MaxTokens <- UniformTokens
    SafetyCap = 2
    MaxRunning = 2
    MaxWaiting = 2
    TotalBlocks = 3
    BlockSize = 2
    Recompute = TRUE
    Callers = 2
SYMMETRY Symmetry
INVARIANTS
    TypeOK
    QueueBound
    RunningBound
    ScanInsideQueue
    HeldExactlyOnce
    LedgerCoversAlone
PROPERTY NoOvertakingAlone
