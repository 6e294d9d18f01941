SPECIFICATION CatalogSpec
CONSTANTS
    NoNode = NoNode
    NoReview = NoReview
    GuardShare = 20
    FullLaw = full
    ExcerptLaw = excerpt
    OutsideLaw = outside
    NoRevision = NoRevision
    Articles = 2
    InBook = {1}
    BatchSize = 1
    MaxScripts = 4
CHECK_DEADLOCK FALSE
INVARIANT BackfillCoversRanges
