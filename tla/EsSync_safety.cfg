CONSTANTS
    c1 = c1
    c2 = c2
    p1 = p1
    p2 = p2
    NoOne = NoOne
    Caller = {c1, c2}
    Process = {p1}
    Home <- OneProcess
    Key = {1, 2, 3}
    Batch = 2
    MaxDup = 1
    MaxFaults = 1
SPECIFICATION Spec
INVARIANT TypeOK
INVARIANT CursorNeverSkips
INVARIANT ReplyIsTrue
INVARIANT TaskSound
PROPERTY FeedSpec
SYMMETRY Symmetry
