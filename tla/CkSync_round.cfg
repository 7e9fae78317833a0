CONSTANTS
    NoOne = NoOne
    None = None
    Caller = {c1, c2}
    Key = {1, 2}
    MaxStamp = 1
    MaxResets = 1
    MaxFaults = 1
SPECIFICATION Spec
INVARIANT TypeOK
INVARIANT NoDuplicatesAtRest
INVARIANT RoundBringsEveryRow
INVARIANT RoundReplacesNewerRows
SYMMETRY Symmetry
