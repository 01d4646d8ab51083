SPECIFICATION Spec

CONSTANTS
  h1 = h1
  h2 = h2
  a1 = a1
  a2 = a2
  v1 = v1
  v2 = v2
  Handlers = {h1}
  Collector = Collector
  Accounts = {a1, a2}
  Restored = {a2}
  VMs = {v1}
  CollectorInterval = 2
  SyncInterval = 2
  Hour = 4
  MaxTime = 4
  MaxRequests = 2
  MaxChanges = 1
  MaxCrashes = 0
  AccountOf <- BothInFirst

PROPERTIES
  EveryAccountAttempted

CHECK_DEADLOCK FALSE
