\* Two requests accept the same offer.
CONSTANTS
  c1 = c1
  d1 = d1
  Cargo = {c1}
  Offer = {o1}
  Trip = {t1, t2}
  Carrier = {d1}
  Driver = {d1}
  Request = {r1, r2}
  DispatcherCargo = {}
  Colleagues <- OneColleague
  MayFail = FALSE
  Null = Null
SPECIFICATION Spec
INVARIANTS
  OneTripPerOffer
SYMMETRY Symmetry
\* All ids used and every trip closed: nothing is left to do.
CHECK_DEADLOCK FALSE
