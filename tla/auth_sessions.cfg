\* One user on several devices: three pairs of tokens, two handlers.
CONSTANTS
  u1 = u1
  u2 = u2
  u3 = u3
  u4 = u4
  User = {u1, u2, u3, u4}
  Role <- OneOfEach
  MaxSid = 3
  Request = {r1, r2}
  MaxFaults = 1
  Null = Null
SPECIFICATION Spec
INVARIANTS
  TypeOK
  RefreshOnce
  RotationEndsOld
  UntouchedIsAccepted
PROPERTIES
  SessionSpec
  LogoutEndsRefresh
CONSTRAINT OneUser
SYMMETRY Symmetry
\* All pairs issued and expired: nothing is left to do.
CHECK_DEADLOCK FALSE
