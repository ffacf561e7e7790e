SPECIFICATION MCSpec
CONSTANTS
    r1 = r1
    r2 = r2
    None = None
    Requests <- Two
    NumLayers = 1
    MaxBlocks = 2
    DeviceBlocks = 2
    HostBlocks = 1
    MaxGrow = 1
    MaxSpill = 1
    Writers = {r1}
INVARIANTS
    DevicePool
    BackedUntilSpill
PROPERTY PagesKept
