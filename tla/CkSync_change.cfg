CONSTANTS
    NoOne = NoOne
    None = None
    Caller = {c1}
    Key = {1, 2}
    MaxStamp = 2
    MaxResets = 0
    MaxFaults = 0
SPECIFICATION Spec
INVARIANT RoundBringsEveryChange
