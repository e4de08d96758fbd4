SPECIFICATION Spec
CONSTANTS
  n1 = n1
  n2 = n2
  u1 = u1
  u2 = u2
  Phones = {n1, n2}
  Users = {u1, u2}
  Procs = {p1, p2}
  Codes = {c1, c2}
  Tokens = {t1, t2}
  MaxAttempts = 1
  RegisteredPhone <- OneAccount
  NoPhone = NoPhone
  NoUser = NoUser
  NoCode = NoCode
  NoToken = NoToken
SYMMETRY Interchangeable
INVARIANTS
  TypeOK
  PhoneIsProved
  OneAccountPerVerification
  NoReplay
PROPERTIES
  VerificationKept
  EveryCodeLimited
CHECK_DEADLOCK FALSE
