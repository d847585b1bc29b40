SPECIFICATION GateSafety
CONSTANTS
    Loops = {l1}
    Answerers = {c1}
    Asks = {a1, a2}
    Keys = {k1, k2, NoKey}
    NoKey = NoKey
    NoAsk = NoAsk
    Answers <- AllAnswers
    Calls <- Chains
    SpecRule <- AllAsked
    l1 = l1
    k1 = k1
    k2 = k2
    a1 = a1
    a2 = a2
    c1 = c1
INVARIANTS AlwaysDenyHolds
\* A loop that has made its last call stops.
CHECK_DEADLOCK FALSE
