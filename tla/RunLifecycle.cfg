SPECIFICATION Spec
CONSTANTS
    Runs = {r1, r2}
    Freezers = {f1, f2}
    Deleters = {d1}
    Restorers = {x1}
    NoRun = NoRun
    r1 = r1
    r2 = r2
    f1 = f1
    f2 = f2
    d1 = d1
    x1 = x1
INVARIANTS RowMatchesRun RunsAlone AccountedFor
PROPERTIES StatusMachine EveryRunReports
