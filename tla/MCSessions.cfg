SPECIFICATION Spec
CONSTANTS
  None = None
  q1 = q1
  q2 = q2
  t1 = t1
  t2 = t2
  t3 = t3
  f1 = f1
  f2 = f2
  Procs = {q1, q2}
  TokenIds = {t1, t2, t3}
  FamilyIds = {f1, f2}
  Roles = {"TENANT"}
  LastPassword = 2
  Ops = {"Register", "VerifyEmail", "GoogleRead", "SetStatusRead", "SetRoleRead", "EditSelfRead", "LoginRead", "RefreshRead", "Logout", "ResetRead", "ChangeRead"}
SYMMETRY Interchangeable
INVARIANT TypeOK
INVARIANT OneLiveTokenPerFamily
PROPERTY DeadFamiliesStayDead
PROPERTY PasswordChangeEndsTokens
PROPERTY SpentTokensAreKept
PROPERTY PasswordNeverReverts
PROPERTY SessionsAreChains
