SPECIFICATION Spec
CONSTANTS
    Producers = {p1}
    Subs = {s1}
    Cap = 1
    MaxEvents = 2
CHECK_DEADLOCK FALSE
INVARIANT SurvivesDisconnect
