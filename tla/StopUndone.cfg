SPECIFICATION HistorySpec
CONSTANTS
    Conns = {a, b}
    NoConn = NoConn
    Clients = {c}
    ProfileChoices <- OnlyAutoKill
    RetryTicks = 2
    Events <- RoamEvents
PROPERTIES
    ManualStopSticks
