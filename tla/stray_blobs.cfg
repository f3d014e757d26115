SPECIFICATION FairSpec
CONSTANTS
    NULL = NULL
    Requests = {r1, r2}
    Paths = {"p"}
    Options <- LocalLink
    Backends = {"local_fs"}
    Sizes = {1}
    MaxFiles = 1
    MaxRowId = 2
    MaxClock = 2
    MaxCrashes = 0
PROPERTIES
StrayBlobsGo
