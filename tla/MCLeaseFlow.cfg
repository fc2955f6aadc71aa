SPECIFICATION Spec
CONSTANTS
  None = None
  p1 = p1
  u1 = u1
  t1 = t1
  Tenants = {t1}
  PropertyIds = {p1}
  UnitIds = {u1}
  PropertyOf <- MCPropertyOf
  UnitOf <- MCUnitOf
  WantedUnit <- MCWantedUnit
  TenantOf <- MCTenantOf
  LeaseOf <- MCLeaseOf
  q1 = q1
  q2 = q2
  l1 = l1
  l2 = l2
  w1 = w1
  Procs = {q1, q2}
  LeaseIds = {l1, l2}
  RequestIds = {}
  RenewalIds = {w1}
  LastDay = 4
  Ops = {"CreateLeaseRead", "ActivateLock", "Terminate", "Renew", "RequestRenewal", "ApproveRenewal", "RejectRenewal", "CancelRenewal", "RemoveCount"}
SYMMETRY Interchangeable
INVARIANT TypeOK
INVARIANT RentedIffActive
INVARIANT NoDoubleBooking
INVARIANT PendingRenewalsAreOpen
PROPERTY LeaseLifecycle
PROPERTY TenancyEndsWhole
PROPERTY DecisionsAreFinal
PROPERTY UnitsAreHeld
