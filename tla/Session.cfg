SPECIFICATION Spec
CONSTANTS
    Callers = {c1, c2}
    MaxTurns = 2
    MaxAsks = 1
    Prompts = {p1, p2}
    Files = {f1, f2}
    f1 = f1
    f2 = f2
    Absent = Absent
    Lines = {"a", "b"}
    MaxCalls = 2
    Contents <- MCContents
    Snippets <- MCSnippets
    Patches <- MCPatches
    Keys = {"k1", "k2"}
    Verifiers = {v1}
    MaxSteps = 2
    MaxPlans = 2
    Freezes = {s1, s2}
    Readers = {r1, r2}
    NoFile = NoFile
    Empty = Empty
    Torn = Torn
    NoSeal = NoSeal
    ChatCalls = {p1, p2}
    RunCalls = {n1}
    Servers = {m1, m2}
    NoSet = NoSet
    Clients = {g1, g2}
    MaxIds = 2
    MaxAsked = 1
    Room = 1
    Turns <- MCTurns
    SameResult = 4
    SameError = 3
    TalkLimit = 3
    PingPong = 6
    NoProgressThreshold = 4
    OscillationCap = 2
    Window = 18
    StuckLimit = 3
    MaxIters = 5
    Sessions = {n1, n2}
    Questions = {q1, q2}
    Answers = {w1, w2}
    Nobody = Nobody
    EditFiles = {"a.go", "b/c"}
    Dotted = {"y.z"}
    Gone = Gone
    Trees <- MCTrees
    EditLists <- MCEditLists
    Paths = {"one", "two"}
    NoText = NoText
    Shelves <- MCShelves
    Demands <- MCDemands
    Docs = {"one", "two"}
    NoDoc = NoDoc
    ToAdd = ToAdd
    Drafts = {x}
    Viewers = {v1}
    MaxCommits = 3
    Runs = {n1, n2}
    ItemLists <- MCItemLists
    NewItem = NewItem
    MaxVersion = 3
    MaxOverlap = 2
INVARIANTS TypeOK SendsWhatItMay DiffTellsTruth StatusIsEarned VerdictsSurvive LoadsWhatWasFrozen OneSetOfServers AnswersFindCalls SignalsAreRight QuestionsAreHeard EditsLandAsMeant PatchLandsInOrder
PROPERTIES EverythingReturns RestoreGoesBack TheItemItSaw
CHECK_DEADLOCK FALSE
