CONSTANTS
    None = None
    Req = {r1, r2, r3}
    Transport = "rpc"
    NumBuckets = 3
    Threshold = 3
    ErrorPercent = 50
    MaxPerBucket = 3
SPECIFICATION Spec
INVARIANT TypeOK
INVARIANT StatusMatchesOpened
INVARIANT HalfOpenAwaitsProbe
PROPERTY AdmissionSpec
PROPERTY TripsOnFreshErrors
SYMMETRY Symmetry
