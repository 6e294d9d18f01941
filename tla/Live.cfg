\* One run over two laws that share one worker; two revisions of a law and one
\* page of it with a retry.
SPECIFICATION LiveSpec
CONSTANTS
    l1 = l1
    l2 = l2
    r1 = r1
    Laws = {l1, l2}
    Runs = {r1}
    NoRun = NoRun
    MaxVersion = 2
    MaxEdition = 0
    Concurrency = 1
    Modes = {"refresh"}
    AsOfs = {2}
    InitKinds = {"synced"}
    MaxRevision = 2
    MaxCache = 1
    MaxRequests = 3
    MaxVisits = 1
    NoDocument = NoDocument
CHECK_DEADLOCK FALSE
PROPERTIES
    RunEnds
    LockComesBack
    LoadingEnds
