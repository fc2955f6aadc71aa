SPECIFICATION Spec
CONSTANTS
  q1 = q1
  q2 = q2
  Procs = {q1, q2}
  Keys <- MCKeys
  Forever = 9
  CodeTtl = 4
  CooldownTtl = 1
  MaxAttempts = 3
  Window = 2
  Limit = 2
  LastCode = 3
INVARIANT TypeOK
INVARIANT UsedCodesAreGone
INVARIANT AdmittedPerWindow
PROPERTY GuessBudget
PROPERTY LockoutsEnd
