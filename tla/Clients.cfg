SPECIFICATION ClientsSpec
CONSTANTS
    Producers = {p1, p2}
    Subs = {s1, s2}
    Cap = 2
    LogRuns = {g1, g2}
    LogRoom = 2
    BufferRoom = 4
    MaxLogged = 3
    Writers <- MCWriters
    Stores = {"the run's", "its own"}
    StoreOf <- MCStoreOf
    Rules = {r1, r2}
    MaxEvents = 3
    ReplRoom = 2
    MaxLines = 3
    MaxReplParts = 4
    MaxSubmits = 2
    MaxChatParts = 3
    Watched = {n1, n2}
    NoSession = NoSession
    MaxTails = 2
    MaxFeed = 2
INVARIANTS NothingLostSilently DeliveredOnce RealTimeOrder ClientsShowWhatTheyRead FilesTellTheTruth
PROPERTIES AppendNeverBlocks ReplTurnEnds
CHECK_DEADLOCK FALSE
