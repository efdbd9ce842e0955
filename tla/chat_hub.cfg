\* Two connections of one user, one of the other, one broadcast at a time.
CONSTANTS
  u1 = u1
  u2 = u2
  k1 = k1
  k2 = k2
  k3 = k3
  User = {u1, u2}
  Conn = {k1, k2, k3}
  Of <- ThreeOwners
  Request = {r1}
  Capacity = 1
  MaxLoops = 1
  MaxFaults = 1
  Null = Null
SPECIFICATION Spec
INVARIANTS
  TypeOK
  OnlyParticipants
  SendUndisturbed
  PresenceFollowsHub
SYMMETRY Symmetry
\* Connections are used up: nothing is left to do.
CHECK_DEADLOCK FALSE
