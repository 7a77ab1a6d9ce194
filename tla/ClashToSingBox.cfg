SPECIFICATION Pipeline
CONSTANTS
    Configs <- MCConfigs
    Offered <- MCOffered
    Unavailable = Unavailable
    Renamed <- MCRenamed
    GeoTags = {"geoip-cn", "geosite-cn"}
    ClashGroupTypes <- MCGroupTypes
    Traffic = {"query", "lan", "web", "mail"}
    Domains = {"home", "video", "blocked"}
    DnsTag <- MCDnsTag
    Target <- MCBase
    Tags = {"direct", "proxy", "reject"}
    DirectNames = {"DIRECT", "direct"}
    RejectNames = {"REJECT", "reject"}
    DropNames = {"REJECT-DROP"}
    ProxyNames = {"proxy", "Proxy"}
    DnsTraffic = {"query"}
    PrivateTraffic = {"lan"}
    TagRenamed <- MCTagRenamed
    Numbered <- MCNumbered
    Hop <- MCHop
INVARIANTS
    FirstDefinitionWins
    ProvidedMembers
    NothingMissing
    PatchesAreStrict
    NamesAnsweredAsMeant
    ServersDefined
    HandedAsWanted
    TrafficKept
    NoResolutionLoop
