SPECIFICATION AllSpec
CONSTANTS
    ListSeqs = {5, 31}
    MaxBits = 3
    IntMax = 15
    MaxEntries = 2
    MaxExtras = 1
    MaxApplied = 1
    MapNames = {"A", "B"}
    Prefs = {1, 2, 3}
    MaxPref = 3
    Values = {"v1", "v2"}
    Limit = 1
    MaxClauses = 3
    MaxParts = 2
    MaxDrift = 1
    Indexes = {0, 1}
    Hours = 2
    MaxDay = 3
    Years = {1, 2}
    Summer = {8, 9}
    Durations = {1}
    as1 = as1
    as2 = as2
    ASN = {as1, as2}
    RouterIds = {"0.0.0.0", "1.1.1.1"}
    Times = {2, 9}
    AddrBits = 1
    Protocols = {"connected"}
    RouteMapNames = {"rm"}
    None = None
    p1 = p1
    p2 = p2
    g1 = g1
    Peers = {p1, p2}
    Groups = {g1}
    GroupWords = {p1, p2, g1}
    RemoteAs = {1, 2}
    FilterNames = {"l1", "l2"}
    Filters = {"l1"}
    Directions = {"in", "out"}
    MaxSettings = 2
    MaxNames = 3
    ListNames = {"x"}
    Seqs = {5, 10}
    INT_MAX = 7
    PrefixLens <- MCPrefixLens
    Lengths = {0, 24, 32, 128}
    Lines = {"l1", "l2"}
    Args = {"a"}
    MaxListEntries = 2
    MaxMapClauses = 2
CONSTRAINT Few
VIEW AllView
SYMMETRY Symmetry
INVARIANTS ListsFilter MapsApply KeysValid LibraryRestores BgpConsistent PolicyConsistent PolicyRestores
CHECK_DEADLOCK FALSE
