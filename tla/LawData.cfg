\* Three calls of put; a document of five elements; two revisions of a law with
\* three numbers and two texts; two laws of two articles and four scripts;
\* a law of seven elements and a text of three places with two links.
SPECIFICATION LawDataSpec
CONSTANTS
    Writers = {w1, w2, w3}
    Documents = {d1, d2}
    NoDocument = NoDocument
    Levels = {article, row}
    TableLevels = {row}
    Labels = {x, y}
    MaxNodes = 5
    NoNode = NoNode
    NoReview = NoReview
    GuardShare = 20
    Parents = {main}
    Numbers = {1, 2, 3}
    Bodies = {b1, b2}
    MaxNodesSeen = 3
    MaxRevisions = 2
    FullLaw = full
    ExcerptLaw = excerpt
    OutsideLaw = outside
    NoRevision = NoRevision
    Articles = 2
    InBook = {1}
    BatchSize = 1
    MaxScripts = 4
    MaxElements = 7
    TextLength = 3
    MaxLinks = 2
SYMMETRY StoreSymmetry
INVARIANTS
    OneDocument
    SameContentIsIdempotent
    StoredIsThere
    KeysNameNodes
    NothingMovesUnseen
    ShownStaysInBook
    ResolvedTextIsWhole
    TextIsShownOnce
PROPERTIES
    CatalogKeepsCurrent
CHECK_DEADLOCK FALSE
