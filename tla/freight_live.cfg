\* Every handler runs to its end: no failures, weak fairness.
CONSTANTS
  c1 = c1
  d1 = d1
  Cargo = {c1}
  Offer = {o1}
  Trip = {t1}
  Carrier = {d1, x1}
  Driver = {d1}
  Request = {r1, r2}
  DispatcherCargo = {c1}
  Colleagues <- OneColleague
  MayFail = FALSE
  Null = Null
SPECIFICATION FairSpec
INVARIANTS
  NoLostAward
PROPERTIES
  AwardBecomesTrip
\* All ids used and every trip closed: nothing is left to do.
CHECK_DEADLOCK FALSE
