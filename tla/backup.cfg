SPECIFICATION Spec

CONSTANTS
  h1 = h1
  h2 = h2
  Handlers = {h1, h2}
  MaxId = 3
  MaxBorn = 6
  MaxExports = 1
  MaxRestores = 2
  MaxRequests = 2
  MaxCrashes = 1
  Archive <- Earlier

INVARIANTS
  TypeOK
  TornOnlyByCreation
  LinksKeepTheirMeaning

PROPERTIES
  RestoreIsExact
  NewIdsAreFree

SYMMETRY HandlerSymmetry

CHECK_DEADLOCK FALSE
