SPECIFICATION PracticePartsSpec
CONSTANTS
  Requests = {r1, r2, r3}
  Projects = {p1, p2}
  Cap = 1
  MaxUsers = 2
  None = None
  Numbers = {n1}
  Unnumbered = Unnumbered
  HistoryCap = 1
  MaxEdits = 2
  MaxImports = 2
  MaxSwitches = 1
  Tokens <- MCTokens
  MaxMade = 2
  Calls = {r1, r2, r3}
  a1 = a1
  a2 = a2
  a3 = a3
  Articles = {a1, a2, a3}
  Edges <- MCEdges
  MaxSwitched = 1
  MaxAttempts = 2
  Absent = Absent
SYMMETRY PracticeSymmetry
INVARIANTS
  SerialActivationKeepsOne
  MarksAreWhatWasSelected
  RelationsAreReviewed
PROPERTIES
  SomeProjectStaysActive
  RestoreBringsBack
  NewestSearchSurvives
CHECK_DEADLOCK FALSE
