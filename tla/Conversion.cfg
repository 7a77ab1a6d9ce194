SPECIFICATION FairSpec
CONSTANTS
    home = home
    work = work
    sub = sub
    base = base
    extra = extra
    own = own
    UnknownName = UnknownName
    NoFormat = NoFormat
    Undecodable = Undecodable
    Requests = {r1}
    Keys = {sub, base, extra, own}
    Subscriptions = {home, work}
    Formats = {"sing-box", "base64"}
    Encoders = {"sing-box"}
    MaxVersion = 3
    BuiltinPolicies <- MCBuiltin
    Traffic <- MCTraffic
    GeoTags = {}
    SourceOf <- MCSourceOf
    GlobalPatches <- MCGlobal
    LocalPatches <- MCLocal
    DocumentOf <- MCDocumentOf
    PatchOf <- MCPatchOf
INVARIANTS
    TypeOK
    PriorityKept
    LatestDefinitionsKept
    ReferencesKept
    ReadsAreComplete
PROPERTY EveryRequestAnswered
