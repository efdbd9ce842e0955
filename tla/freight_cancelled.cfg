\* One request at a time: a pending offer outlives the cancellation.
CONSTANTS
  c1 = c1
  d1 = d1
  Cargo = {c1}
  Offer = {o1}
  Trip = {t1}
  Carrier = {d1}
  Driver = {d1}
  Request = {r1}
  DispatcherCargo = {}
  Colleagues <- OneColleague
  MayFail = FALSE
  Null = Null
SPECIFICATION Spec
PROPERTIES
  CancelledIsFinal
SYMMETRY Symmetry
\* All ids used and every trip closed: nothing is left to do.
CHECK_DEADLOCK FALSE
