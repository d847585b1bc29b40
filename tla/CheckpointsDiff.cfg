SPECIFICATION CheckpointsSpec
CONSTANTS
    Docs = {"one", "two"}
    NoDoc = NoDoc
    ToAdd = ToAdd
    Drafts = {x}
    Viewers = {v1}
    MaxCommits = 2
PROPERTIES DiffLeavesCheckpoints
CHECK_DEADLOCK FALSE
