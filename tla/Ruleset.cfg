SPECIFICATION Spec
CONSTANT ParamChoices <- AllParams
INVARIANTS
    TypeOK
    KillSwitchCloses
    QueriesGoToForwarder
    Ipv6DoesNotLeak
    EngineReachesProxy
    BlockedUdpIsRejected
CHECK_DEADLOCK FALSE
