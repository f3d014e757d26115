SPECIFICATION RepairSpec
CONSTANTS
    NULL = NULL
    Requests = {r1, r2}
    Paths = {"p"}
    Options <- GarageLink
    Backends = {"garage"}
    Sizes = {1}
    MaxFiles = 2
    MaxRowId = 2
    MaxClock = 1
    MaxCrashes = 0
SYMMETRY AnyRequest
INVARIANTS
    RepairHeals
