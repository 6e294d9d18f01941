\* Runs that overlap because the session holding the lock was lost.
SPECIFICATION OverlapSpec
CONSTANTS
    l1 = l1
    l2 = l2
    r1 = r1
    r2 = r2
    r3 = r3
    Laws = {l1}
    Runs = {r1, r2}
    NoRun = NoRun
    MaxVersion = 3
    MaxEdition = 0
    Concurrency = 1
    Modes = {"refresh"}
    AsOfs = {3}
    InitKinds = {"seeded", "synced"}
CHECK_DEADLOCK FALSE
SYMMETRY Symmetry
INVARIANTS
    ActiveIsCurrent
    ObservedWasShown
PROPERTIES
    CurrentNeverGoesBack
