\* Two runs, dated today or earlier, over two laws that a check has recorded before.
SPECIFICATION Spec
CONSTANTS
    l1 = l1
    l2 = l2
    r1 = r1
    r2 = r2
    r3 = r3
    Laws = {l1, l2}
    Runs = {r1, r2}
    NoRun = NoRun
    MaxVersion = 2
    MaxEdition = 0
    Concurrency = 2
    Modes = {"refresh"}
    AsOfs = {1, 2}
    InitKinds = {"synced"}
CHECK_DEADLOCK FALSE
SYMMETRY Symmetry
INVARIANT
    CurrentIsInPublishedPackage
