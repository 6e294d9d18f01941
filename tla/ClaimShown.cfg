SPECIFICATION Spec
CONSTANTS
  Requests = {r1, r2}
  first = first
  amended = amended
  announced = announced
  doubled = doubled
  article1 = article1
  article2 = article2
  Documents = {first, amended, announced, doubled}
  NoDocument = NoDocument
  Kinds = {"ingest", "cli", "publish"}
  PathsOf <- MCPathsOf
  ValidFrom <- MCValidFrom
  Clean <- MCClean
  Doubled <- MCDoubled
INVARIANT ShownIsPublished
CHECK_DEADLOCK FALSE
