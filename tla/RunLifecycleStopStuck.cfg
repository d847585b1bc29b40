SPECIFICATION Spec
CONSTANTS
    Runs = {r1, r2}
    Freezers = {f1}
    Deleters = {d1}
    Restorers = {x1}
    NoRun = NoRun
    r1 = r1
    r2 = r2
    f1 = f1
    d1 = d1
    x1 = x1
PROPERTY StopUnblocks
