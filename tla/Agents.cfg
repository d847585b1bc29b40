SPECIFICATION AgentsSpec
CONSTANTS
    MaxIter = 5
    Cap <- SmallCap
    SpecReserve = 1
    DefaultReserve = 8
    Charges <- MCCharges
    Threshold = 2
    MaxSignals = 2
    MaxCalls = 1
    HeadKeep = 2
    TailKeep = 2
    MinMiddle = 2
    HasChecks = TRUE
    NoGrace = FALSE
    Hints = {h1, h2}
    Loops = {l1}
    Answerers = {c1, c2}
    Asks = {a1, a2}
    Keys = {k1, k2, NoKey}
    NoKey = NoKey
    NoAsk = NoAsk
    Answers <- FewAnswers
    Calls <- ChainedCalls
    SpecRule <- MCSpecRule
    Children = {e1, e2}
    Roots = {root}
    RootOf <- MCRootOf
    LabelOf <- MCLabelOf
    MaxPerRoot = 1
    Waiters = {w1, w2}
    Nobody = Nobody
    MaxRestarts = 2
    h1 = h1
    h2 = h2
    l1 = l1
    k1 = k1
    k2 = k2
    a1 = a1
    a2 = a2
    c1 = c1
    c2 = c2
    root = root
    e1 = e1
    e2 = e2
    w1 = w1
    w2 = w2
INVARIANTS TurnsAlternate StatusFitsUse HintsComeOnce PendingIsOpen RunsOnConsent AskedOncePerSession FirstAnswerStands SlotsAddUp
PROPERTIES NoTurnTooMany RunEnds EveryWaitReturns KeepsPromise KeepsPool
\* A run that is over stops, and so do calls, subagents and waits that are.
CHECK_DEADLOCK FALSE
