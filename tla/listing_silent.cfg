SPECIFICATION MCSpec

CONSTANTS
  v1 = v1
  v2 = v2
  v3 = v3
  h1 = h1
  h2 = h2
  c1 = c1
  c2 = c2
  f1 = f1
  f2 = f2
  None = None
  VMs = {v1, v2, v3}
  Hosts = {h1, h2}
  Clusters = {c1, c2}
  Folders = {f1, f2}
  Own = {v3}
  NamesParents = {v2}
  PageSize = 1
  MaxChanges = 0
  MaxExpiries = 0
  MaxFaults = 2

INVARIANTS
  NoSilentEmptiness

CHECK_DEADLOCK FALSE
