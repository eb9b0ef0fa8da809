SPECIFICATION HistorySpec
CONSTANTS
    Conns = {a}
    NoConn = NoConn
    Clients = {c, d}
    ProfileChoices <- KillProfiles
    RetryTicks = 2
    Events <- FaultEvents
SYMMETRY Symmetry
INVARIANTS
    SettledStateIsTrue
    SnapshotIsHonest
PROPERTIES
    StartReportsFailure
    ManualStopSticks
    ManualStartSticks
    PollerBacksOff
