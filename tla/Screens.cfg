SPECIFICATION ScreensSpec
CONSTANTS
  Articles = {a1, a2}
  NoArticle = NoArticle
  ProjectCount = 2
  MaxFocus = 2
  MaxSent = 2
  MaxOpens = 2
  MaxRevision = 2
  MaxCache = 1
  MaxRequests = 4
  MaxVisits = 2
  NoDocument = NoDocument
  BookLaws <- MCBookLaws
  Half = 1
  PageSize = 2
  MaxOpenings = 2
  NoCursor = 0
  Entries <- MCEntries
  View = 3
  MaxTasks = 2
CONSTRAINT OneBuild
INVARIANTS
  MenuIsCoherent
  ShownIsAsked
  
  NothingLoadedTwice
  ReadingOnSkipsNothing
  ReadingPlaceIsKept
CHECK_DEADLOCK FALSE
