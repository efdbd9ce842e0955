\* A dispatcher or a company user logs in and switches company.
CONSTANTS
  u1 = u1
  u2 = u2
  u3 = u3
  u4 = u4
  User = {u1, u2, u3, u4}
  Role <- OneOfEach
  MaxSid = 2
  Request = {r1}
  MaxFaults = 0
  Null = Null
SPECIFICATION Spec
INVARIANTS
  SwitchedIsAccepted
CONSTRAINT OneUser
SYMMETRY Symmetry
\* All pairs issued and expired: nothing is left to do.
CHECK_DEADLOCK FALSE
