SPECIFICATION Spec
CONSTANTS
  None = None
  q1 = q1
  q2 = q2
  q3 = q3
  l1 = l1
  l2 = l2
  r1 = r1
  u1 = u1
  Procs = {q1, q2, q3}
  UnitIds = {u1}
  LeaseIds = {l1, l2}
  RequestIds = {r1}
  UnitOf <- OneUnit
  Keys <- MCKeys
  Forever = 2
  CacheTtl = 1
SYMMETRY Interchangeable
INVARIANT TypeOK
 
INVARIANT RemovedUnitsHaveNoHistory
INVARIANT StaleAnswersHaveACause
