SPECIFICATION Spec

CONSTANTS
  p1 = p1
  p2 = p2
  v1 = v1
  v2 = v2
  t1 = t1
  t2 = t2
  Projects = {p1, p2}
  VMs = {v1, v2}
  Tenants = {t1, t2}
  TenantOf <- TwoTenants
  Cards <- ReportCards
  FirstCard <- WeightedCard
  Kinds <- SomeKinds
  Time <- Blocks
  Start = 2
  End = 4
  KST = 1
  Day = 2
  Nobody = Nobody
  Unknown = Unknown
  MaxSamples = 2
  MaxCommits = 1

INVARIANTS
  TypeOK
  BilledWasOwned
  PeriodsAbut
  DailyAddsUp
  WeightsAreBounded
  QuietReportIsExact

SYMMETRY ReportSymmetry

CHECK_DEADLOCK FALSE
