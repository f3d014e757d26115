SPECIFICATION Spec
CONSTANTS
    NULL = NULL
    Requests = {r1, r2}
    Paths = {"p"}
    Options <- LocalLink
    Backends = {"local_fs"}
    Sizes = {0, 1}
    MaxFiles = 2
    MaxRowId = 3
    MaxClock = 1
    MaxCrashes = 0
SYMMETRY AnyRequest
INVARIANTS
    PublishedIntact
PROPERTIES
    UsedIsFinal
