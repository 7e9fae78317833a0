CONSTANTS
    MaxCalls = 3
    MaxConn = 2
SPECIFICATION FairSpec
INVARIANT TypeOK
INVARIANT LiveIsKnown
INVARIANT LiveHasBreaker
PROPERTY ClosesGracefully
PROPERTY SettlementSpec
PROPERTY EveryCallEnds
CHECK_DEADLOCK FALSE
