SPECIFICATION Spec
CONSTANTS
    Conns = {a, b}
    NoConn = NoConn
    Clients = {c}
    ProfileChoices <- OnlyAutoKill
    RetryTicks = 1
    Events <- LifecycleEvents
SYMMETRY Symmetry
INVARIANTS
    TunnelFollowsReading
PROPERTIES
    ImplementsSteeredTunnel
    KillSwitchHolds
