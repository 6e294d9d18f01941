\* A law without a current revision.
SPECIFICATION Spec
CONSTANTS
    l1 = l1
    l2 = l2
    r1 = r1
    Laws = {l1}
    Runs = {r1}
    NoRun = NoRun
    MaxVersion = 1
    MaxEdition = 0
    Concurrency = 1
    Modes = {"refresh"}
    AsOfs = {1}
    InitKinds = {"empty"}
CHECK_DEADLOCK FALSE
PROPERTY RefusedOnlyAfterSwitch
