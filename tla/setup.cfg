SPECIFICATION Spec

CONSTANTS
  h1 = h1
  h2 = h2
  Handlers = {h1, h2}
  Logins = {"kim"}
  Tenants = {"t1"}
  None = "none"
  MaxId = 3
  MaxBorn = 3
  MaxRequests = 4
  MaxCrashes = 1

INVARIANTS
  TypeOK
  AdministratorRemains
  OwnerIsMeant

PROPERTIES
  MigrationIsFaithful

SYMMETRY HandlerSymmetry

CHECK_DEADLOCK FALSE
