SPECIFICATION ServerSpec
CONSTANTS
  Requests = {r1, r2, r3}
  first = first
  amended = amended
  announced = announced
  doubled = doubled
  article1 = article1
  article2 = article2
  Documents = {first, amended, announced, doubled}
  NoDocument = NoDocument
  Kinds = {"ingest", "cli", "publish"}
  PathsOf <- MCPathsOf
  ValidFrom <- MCValidFrom
  Clean <- MCClean
  Doubled <- MCDoubled
  Operator = operator
  newcomer = newcomer
  namesake = namesake
  Persons <- MCPersons
  EmailOf <- MCEmailOf
  Browsers = {b1, b2}
  Organizations = {"DEFAULT", "SYSTEM"}
  GrantableRoles = {"RESEARCHER", "SYSTEM_ADMIN"}
  NoSession = NoSession
  MaxAdminCalls = 2
  MaxNumber = 12345
  Nums <- MCNums
  Titles <- MCTitles
  MaxElements = 4
SYMMETRY ServerSymmetry
INVARIANTS CorpusTypeOK IngestedOnce PublishedOnce RawKept EmptySessionsAreExplained PathsNameProvisions NumeralsReadBack
CHECK_DEADLOCK FALSE
