SPECIFICATION MCSpec
CONSTANTS
    r1 = r1
    r2 = r2
    None = None
    Requests <- Two
    NumLayers = 1
    MaxBlocks = 2
    DeviceBlocks = 2
    HostBlocks = 2
    MaxGrow = 0
    MaxSpill = 0
    Writers = {}
INVARIANT PagesPrivate
