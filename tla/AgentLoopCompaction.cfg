SPECIFICATION Safety
CONSTANTS
    MaxIter = 5
    Cap <- SmallCap
    SpecReserve = 1
    DefaultReserve = 8
    Charges <- MCCharges
    Threshold = 2
    MaxSignals = 2
    MaxCalls = 2
    HeadKeep = 2
    TailKeep = 2
    MinMiddle = 2
    HasChecks = TRUE
    NoGrace = FALSE
    Hints = {h1}
    h1 = h1
    h2 = h2
INVARIANT CallsAreAnswered
\* A run that is over stops.
CHECK_DEADLOCK FALSE
