SPECIFICATION Spec

CONSTANTS
  h1 = h1
  h2 = h2
  a1 = a1
  a2 = a2
  v1 = v1
  v2 = v2
  Handlers = {h1}
  Collector = Collector
  Accounts = {a1, a2}
  Restored = {a2}
  VMs = {v1, v2}
  CollectorInterval = 2
  SyncInterval = 2
  Hour = 4
  MaxTime = 4
  MaxRequests = 1
  MaxChanges = 1
  MaxCrashes = 1
  AccountOf <- BothInFirst

INVARIANTS
  TypeOK
  BlocksDisjoint
  OnSinceBlockBegan

PROPERTIES
  UnracedIsComplete
  FailuresAreIsolated

SYMMETRY VMSymmetry

CHECK_DEADLOCK FALSE
