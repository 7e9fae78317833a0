CONSTANTS
    f1 = f1
    f2 = f2
    Ctx = {c1, c2}
    Consumer = consumer
    Foreign = {f1, f2}
    Info <- MCInfo
    Wanted <- MCWanted
    MaxTime = 2
    MaxEvents = 1
SPECIFICATION Spec
CHECK_DEADLOCK FALSE
INVARIANT WithdrawnIsGone
