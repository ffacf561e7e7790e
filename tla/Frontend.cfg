SPECIFICATION Spec
CONSTANTS
    None = None
    Odd = Odd
    Requests = {r1, r2, r3, r4}
    Setups <- SomeSetups
    Load <- TwoOrFour
    Client <- OneClient
    Window = 2
    MaxTime = 5
    Cap = 100
    Bodies <- SomeBodies
    Bounds <- OneAndThree
    Latencies = {1, 2, 5}
    MaxPages <- TwoOrNone
SYMMETRY AnyRequest
INVARIANTS
    Burst
    RegistryDrained
    CountsAgree
    PageAgrees
CHECK_DEADLOCK FALSE
