SPECIFICATION Spec
CONSTANTS
  None = None
  q1 = q1
  q2 = q2
  t1 = t1
  t2 = t2
  t3 = t3
  f1 = f1
  f2 = f2
  Procs = {q1, q2}
  TokenIds = {t1, t2, t3}
  FamilyIds = {f1, f2}
  Roles = {"TENANT"}
  LastPassword = 2
  Ops = {"Register", "VerifyEmail", "LoginRead", "RefreshRead", "ResetRead"}
SYMMETRY Interchangeable
PROPERTY RevocationsEndSessions
