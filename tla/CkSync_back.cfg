CONSTANTS
    NoOne = NoOne
    None = None
    Caller = {c1, c2}
    Key = {1}
    MaxStamp = 1
    MaxResets = 0
    MaxFaults = 1
SPECIFICATION FairSpec
PROPERTY RowsComeBack
