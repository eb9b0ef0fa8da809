SPECIFICATION FairSpec
CONSTANTS
    Queries = {q1, q2}
    Upstreams = 2
    MAX_IN_FLIGHT = 1
INVARIANTS
    EngineTypeOK
    PermitsAreConserved
    AtMostOneReply
    NothingIsLeft
    NothingInTheWay
    TunnelIsAsConfigured
PROPERTIES
    LastUpstreamAnswers
    EngineComesBack
