SPECIFICATION Spec
CONSTANTS
    Documents <- MCDocuments
    Tags <- MCTags
    DirectNames <- MCDirect
    RejectNames <- MCReject
    DropNames <- MCDrop
    ProxyNames <- MCProxy
    GeoTags <- MCGeo
    Traffic <- MCTraffic
    Dns <- MCDns
    Private <- MCPrivate
    Renamed <- MCRenamed
    Numbered <- MCNumbered
    Hop <- MCHop
INVARIANT RulesComeFirst
