SPECIFICATION AllSpec
CONSTANTS
    Areas <- MCAreas
    Ranges = {"r1", "r2"}
    RouterIds = {"id1"}
    Numbers = {0, 5}
    Redistributed = {"bgp"}
    Times = {4, 20, 60}
    Priorities = {0, 7}
    Md5Ids = {1}
    AuthKeys = {"k1", "k2"}
    VlinkAreas = {"a1"}
    Peers = {"p1", "p2"}
    MaxVlinks = 2
    VlinkTimes = {20, 60}
    VlinkMd5Ids = {1}
    VlinkKeys = {"k1"}
    ShownAreas <- MCShownAreas
    ShownIds <- MCShownIds
    Interfaces = {"1"}
    RoutePrefixes <- MCPrefixes
    MaxRows = 2
    MaxSettings = 2
    VRF_ENABLE = TRUE
    Parent <- MCParent
    StartsWith <- MCStartsWith
    Vrfs = {"vrf_default", "red"}
    Physical = {"1", "2"}
    Subs = {"1.1", "1.2", "2.1"}
    Loopbacks = {"loopback1"}
    Vlans = {"vlan5"}
    Lag = "lag1"
    LagMembers = {"2"}
    SplitChildren <- MCSplit
    Addresses <- MCAddresses
    Ip6 = {"s1"}
    Invalid = {"lo"}
    LoopbackNet = {"lo"}
    Tags = {5, 9}
    InternalTags = {9}
    MaxSubs = 2
    MaxLoopbacks = 1
    MaxPorts = 3
CONSTRAINT Few
VIEW AllView
INVARIANTS PortsConsistent OspfConsistent ConfigurationRestores ShowsAgree
PROPERTIES SettingsStay
CHECK_DEADLOCK FALSE
