SPECIFICATION Spec
CONSTANTS
    Conns = {a}
    NoConn = NoConn
    Clients = {c}
    ProfileChoices <- OnlyAutoKill
    RetryTicks = 2
    Events <- SignalEvents
INVARIANTS
    NothingLeftBehind
