SPECIFICATION Spec
CONSTANTS
  None = None
  p1 = p1
  u1 = u1
  t1 = t1
  Tenants = {t1}
  PropertyIds = {p1}
  UnitIds = {u1}
  PropertyOf <- MCPropertyOf
  UnitOf <- MCUnitOf
  WantedUnit <- MCWantedUnit
  TenantOf <- MCTenantOf
  LeaseOf <- MCLeaseOf
  q1 = q1
  q2 = q2
  l1 = l1
  Procs = {q1, q2}
  LeaseIds = {l1}
  RequestIds = {}
  RenewalIds = {}
  LastDay = 2
  Ops = {"CreateLeaseRead", "ActivateLock", "EditImagesRead"}
PROPERTY OnlyLeaseFlowFreesUnits
