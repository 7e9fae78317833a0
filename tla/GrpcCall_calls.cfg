CONSTANT MaxCalls = 2
SPECIFICATION FairSpec
INVARIANT TypeOK
INVARIANT SuccessIsWhole
INVARIANT SentIsGuarded
PROPERTY SettlementSpec
PROPERTY EveryCallEnds
PROPERTY CloseEnds
CHECK_DEADLOCK FALSE
