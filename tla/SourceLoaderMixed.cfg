SPECIFICATION Spec
CONSTANTS
    main = main
    mirror = mirror
    file = file
    invalid = invalid
    config = config
    path = path
    etag1 = etag1
    etag2 = etag2
    NoTag = NoTag
    NoLoad = NoLoad
    Loads = {l1, l2, l3}
    Sources = {main, mirror}
    LocalSources = {}
    InvalidSources = {}
    Keys = {config}
    KeyOf <- MCKeyOf
    CacheOf <- MCMixedCache
    TimeoutOf <- MCTimeouts
    Tags = {etag1, etag2, NoTag}
    TagOf <- MCTagOf
    MaxVersion = 2
    MaxTime = 2
SYMMETRY LoadSymmetry
INVARIANTS LeaderOwnsKey NoLostWaiter
