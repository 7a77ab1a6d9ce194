SPECIFICATION Spec
CONSTANTS
    Setups <- MCSetups
    FormatOf <- MCFormatOf
    PatchFormatsOf <- MCPatchFormatsOf
    Normal <- MCNormal
    NameIsValid <- MCNameIsValid
    Home <- MCHome
    Counted <- MCCounted
    Traffic = {"query", "lan", "web", "mail"}
    GeoTags = {}
    Tags = {"direct", "proxy", "reject"}
    DirectNames = {"DIRECT", "direct"}
    RejectNames = {"REJECT", "reject"}
    DropNames = {"REJECT-DROP"}
    ProxyNames = {"proxy", "Proxy"}
    DnsTraffic = {"query"}
    PrivateTraffic = {"lan"}
    TagRenamed <- MCTagRenamed
    Numbered <- MCCounted
    Hop <- MCHop
INVARIANTS
    SourcesAreFiles
    NodesNamedOnce
    EveryURIHasItsOutbound
    PatchesObeyed
    ListenersAsGiven
PROPERTIES
    DetectionIsOrderFree
    ReplacedNeverDetected
