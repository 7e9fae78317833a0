CONSTANTS
    c1 = c1
    c2 = c2
    p1 = p1
    p2 = p2
    NoOne = NoOne
    Caller = {c1, c2}
    Process = {p1, p2}
    Home <- TwoProcesses
    Key = {1, 2}
    Batch = 1
    MaxDup = 1
    MaxFaults = 1
SPECIFICATION FairSpec
PROPERTY EveryRowHandedOver
