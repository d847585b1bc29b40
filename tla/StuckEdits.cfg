SPECIFICATION StuckSpec
CONSTANTS
    f1 = f1
    Turns <- MCTurns
    SameResult = 4
    SameError = 3
    TalkLimit = 3
    PingPong = 6
    NoProgressThreshold = 4
    OscillationCap = 2
    Window = 200
    StuckLimit = 3
    MaxIters = 6
INVARIANT EditingIsNotStuck
CHECK_DEADLOCK FALSE
