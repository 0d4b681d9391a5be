SPECIFICATION Spec
CONSTANTS
  Requests = {r1, r2, r3, r4}
  Offered <- MCOffered
  NoUser = NoUser
  NoCode = NoCode
  MaxAttempts = 2
  LockTime = 1
  BanTime = 1
  OtpTime = 1
  MaxTime = 2
  Concurrency = 2
SYMMETRY RequestSymmetry
INVARIANTS
  TypeOK
  LimitMeansLocked
  AttemptsAreLimited
  CodeBelongsToPassword
  DeactivationLasts
  LogoutInvalidates
PROPERTIES
  OnlyLocksInForceRefuse
  AccessOnlyWhenVerified
