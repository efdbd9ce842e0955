\* Two handlers and one failure in each of the two modules.
CONSTANTS
  Request = {r1, r2}
  MaxFaults = 1
  Null = Null
\* Two accounts and two phones of every kind in turn.
  Id = {a1, a2}
  Phone = {p1, p2}
  Session = {s1}
  Ticket = {t1}
  Onboarding = {a1}
\* Two users, one role above the other.
  User = {p1, p2}
  RoleName = {"Owner", "CEO"}
  Invite = {i1}
SPECIFICATION PeopleSpec
INVARIANTS
  TypeOK
  PhoneOwned
  SessionRegistersOnce
  ApprovedIsFull
  RegistrationWhole
  
PROPERTIES
  StatusKept
  ArchivedIsFrozen
SYMMETRY Symmetry
\* Every session, ticket and token is used up: nothing is left to do.
CHECK_DEADLOCK FALSE
