CONSTANTS
    Addr = {a1, a2}
    Default = 3
    Least = 1
    Divisor = 3
    Factor = 2
    IsolatedPercent = 40
    EnableThreshold = 1
    MinPool = 1
    MaxPool = 2
    InitPool = 1
    MaxPushes = 2
SPECIFICATION FairSpec
INVARIANT TypeOK
INVARIANT FaultsAreInUse
PROPERTY ZeroOnlyWithoutConnection
PROPERTY Reconnects
PROPERTY ShareRecovers
