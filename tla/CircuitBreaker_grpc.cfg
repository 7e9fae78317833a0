CONSTANTS
    None = None
    Req = {r1, r2}
    Transport = "grpc"
    NumBuckets = 2
    Threshold = 2
    ErrorPercent = 50
    MaxPerBucket = 3
SPECIFICATION FairSpec
PROPERTY OnlyTimeoutsReopen
PROPERTY ClosesWhenHealthy
