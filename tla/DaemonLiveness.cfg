SPECIFICATION FairSpec
CONSTANTS
    Conns = {a}
    NoConn = NoConn
    Clients = {c}
    ProfileChoices <- OnlyAutoKill
    RetryTicks = 1
    Events <- LivenessEvents
PROPERTIES
    CallsAreAnswered
    ShutdownCompletes
    WifiLossStops
    DeathIsNoticed
    ProxyRecovers
    RemovedProfileStops
