SPECIFICATION FairSpec
CONSTANTS
    main = main
    mirror = mirror
    file = file
    invalid = invalid
    config = config
    path = path
    etag1 = etag1
    etag2 = etag2
    NoTag = NoTag
    NoLoad = NoLoad
    Loads = {l1, l2, l3}
    Sources = {main, mirror, file, invalid}
    LocalSources = {file}
    InvalidSources = {invalid}
    Keys = {config, path}
    KeyOf <- MCKeyOf
    CacheOf <- MCSameCache
    TimeoutOf <- MCTimeouts
    Tags = {etag1, etag2, NoTag}
    TagOf <- MCTagOf
    MaxVersion = 1
    MaxTime = 1
PROPERTY EveryLoadReturns
