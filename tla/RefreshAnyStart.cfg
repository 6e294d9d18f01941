\* One law in any state the catalogue leaves it in, two runs of any mode and date.
SPECIFICATION Spec
CONSTANTS
    l1 = l1
    l2 = l2
    r1 = r1
    r2 = r2
    r3 = r3
    Laws = {l1}
    Runs = {r1, r2}
    NoRun = NoRun
    MaxVersion = 2
    MaxEdition = 1
    Concurrency = 1
    Modes = {"check", "dry-run", "refresh"}
    AsOfs = {1, 2}
    InitKinds = {"empty", "seeded", "synced"}
CHECK_DEADLOCK FALSE
SYMMETRY Symmetry
INVARIANTS
    TypeOK
    StagedNeverPublic
    ObservedIsCurrent
    ReportMatchesDatabase
PROPERTY
    PublicationSpec
