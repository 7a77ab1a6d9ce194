SPECIFICATION Spec
CONSTANTS
    main = main
    mirror = mirror
    file = file
    invalid = invalid
    config = config
    path = path
    etag1 = etag1
    etag2 = etag2
    NoTag = NoTag
    NoLoad = NoLoad
    Loads = {l1, l2, l3}
    Sources = {main}
    LocalSources = {}
    InvalidSources = {}
    Keys = {config}
    KeyOf <- MCKeyOf
    CacheOf <- MCSameCache
    TimeoutOf <- MCTimeouts
    Tags = {etag1, etag2, NoTag}
    TagOf <- MCTagOf
    MaxVersion = 2
    MaxTime = 4
SYMMETRY LoadSymmetry
INVARIANTS
    TypeOK
    FetchIsCurrent
    MonotonicReads
    BoundedStaleness
PROPERTY KeepsPromise
