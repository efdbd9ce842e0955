\* Two offers compete for one cargo; carrier x1 is not a registered driver.
CONSTANTS
  c1 = c1
  d1 = d1
  Cargo = {c1}
  Offer = {o1, o2}
  Trip = {t1}
  Carrier = {d1, x1}
  Driver = {d1}
  Request = {r1, r2}
  DispatcherCargo = {c1}
  Colleagues <- OneColleague
  MayFail = TRUE
  Null = Null
SPECIFICATION Spec
INVARIANTS
  TypeOK
  
  TripBacked
  RecommendationBacked
PROPERTIES
  AcceptedIsFinal
SYMMETRY Symmetry
\* All ids used and every trip closed: nothing is left to do.
CHECK_DEADLOCK FALSE
