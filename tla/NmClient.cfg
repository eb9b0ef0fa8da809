SPECIFICATION Spec
CONSTANTS
    Conns = {x, y, z}
    NoConn = NoConn
    Ssids = {s, t}
    NoSsid = NoSsid
    Paths = {p1, p2}
    NoPath = NoPath
SYMMETRY Symmetry
INVARIANTS
    ReadingWasTrue
    StableWifiIsFound
    SavedListIsRight
    NetworkIsReused
