SPECIFICATION Spec

CONSTANTS
  h1 = h1
  h2 = h2
  t1 = t1
  t2 = t2
  a1 = a1
  a2 = a2
  v1 = v1
  v2 = v2
  c1 = c1
  c2 = c2
  f1 = f1
  g1 = g1
  g2 = g2
  Collector = Collector
  Handlers = {h1}
  Tenants = {t1}
  Accounts = {a1, a2}
  InitAccounts = {a1}
  Restored = {}
  VMs = {v1, v2}
  Clusters = {c1}
  Folders = {}
  Tags = {g1}
  AccountOf <- OneAccount
  MaxRequests = 2
  MaxMoves = 2
  MaxFaults = 0

INVARIANTS
  TypeOK
  OnlyEverSelected
  Provenance

PROPERTIES
  ImplementsOwnership

SYMMETRY VMSymmetry
