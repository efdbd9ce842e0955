\* One trip and two drivers who are assigned, refuse, confirm and report.
CONSTANTS
  c1 = c1
  d1 = d1
  Cargo = {c1}
  Offer = {o1}
  Trip = {t1}
  Carrier = {d1, d2}
  Driver = {d1, d2}
  Request = {r1, r2}
  DispatcherCargo = {c1}
  Colleagues <- OneColleague
  MayFail = TRUE
  Null = Null
SPECIFICATION Spec
INVARIANTS
  NoDriverlessHaul
PROPERTIES
  CrewFrozen
  DeletedIsFrozen
  ContractSpec
SYMMETRY Symmetry
\* All ids used and every trip closed: nothing is left to do.
CHECK_DEADLOCK FALSE
