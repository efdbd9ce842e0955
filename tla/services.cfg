\* Two handlers and one failure wherever there are any.
CONSTANTS
  Request = {r1, r2}
  MaxFaults = 1
  Null = Null
\* One key of every kind in turn.
  Key = {k1}
  MaxCode = 2
  MaxAttempts = 2
  SendLimit = 1
  IpLimit = 1
  TryLimit = 2
\* One driver between two dispatchers and a company.
  Driver = {d1}
  Dispatcher = {x1, x2}
  Company = {c1}
  Invite = {i1}
\* A dispatcher with one cargo too many, and a pool two edits can exhaust.
  Cargo = {x1, x2}
  Lister = {l1}
  Terms = {m1, m2}
  First = m1
  CargoLimit = 1
  Conns = 2
\* A conversation of three messages, read two at a time.
  MaxMessage = 3
  MaxTime = 2
  PageLimit = 2
SPECIFICATION ServiceSpec
INVARIANTS
  TypeOK
  SpentStaysSpent
  GuessesCounted
  CountersExpire
  
  InvitationOnce
  LimitKept
  TermsKept
  
  PagesComplete
SYMMETRY Symmetry
\* All codes and tokens are used up: nothing is left to do.
CHECK_DEADLOCK FALSE
