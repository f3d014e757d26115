SPECIFICATION Spec
CONSTANTS
    NULL = NULL
    Requests = {r1, r2}
    Paths = {"p"}
    Options <- LocalLinks
    Backends = {"local_fs"}
    Sizes = {0, 1}
    MaxFiles = 1
    MaxRowId = 3
    MaxClock = 2
    MaxCrashes = 1
SYMMETRY AnyRequest
INVARIANTS
    PublishedIntact
    TypeOK
    CompletedIffMetadata
    UniqueLiveTokenIfContentOutlives
PROPERTIES
    RowOutlivesBlob
    ImplementsDropBox
