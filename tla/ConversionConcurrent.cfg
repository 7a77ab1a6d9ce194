SPECIFICATION Spec
CONSTANTS
    home = home
    work = work
    sub = sub
    base = base
    extra = extra
    own = own
    UnknownName = UnknownName
    NoFormat = NoFormat
    Undecodable = Undecodable
    Requests = {r1, r2}
    Keys = {sub, base, own}
    Subscriptions = {home, work}
    Formats = {"sing-box", "base64"}
    Encoders = {"sing-box"}
    MaxVersion = 2
    BuiltinPolicies <- MCBuiltin
    Traffic <- MCTraffic
    GeoTags = {}
    SourceOf <- MCSourceOf
    GlobalPatches <- MCOneGlobal
    LocalPatches <- MCLocal
    DocumentOf <- MCDocumentOf
    PatchOf <- MCPatchOf
SYMMETRY RequestSymmetry
INVARIANT RequestsNeverRollBack
