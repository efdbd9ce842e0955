\* One connection of each user, two broadcasts at a time, under fairness.
CONSTANTS
  u1 = u1
  u2 = u2
  k1 = k1
  k2 = k2
  k3 = k3
  User = {u1, u2}
  Conn = {k1, k2}
  Of <- TwoOwners
  Request = {r1}
  Capacity = 1
  MaxLoops = 2
  MaxFaults = 1
  Null = Null
SPECIFICATION Spec
PROPERTIES
  BrokenIsReaped
\* Connections are used up: nothing is left to do.
CHECK_DEADLOCK FALSE
