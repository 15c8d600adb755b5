SPECIFICATION Spec
CONSTANTS
  o1 = o1
  o2 = o2
  c1 = c1
  c2 = c2
  Ops = {o1, o2}
  Transfers = {o1}
  OwnCredits = {o2}
  Connections = {c1, c2}
  MaxFaults = 1
INVARIANTS TypeOK WrongOnlyForACause
PROPERTIES ClosedStreamsEnd PageReconnects
CHECK_DEADLOCK FALSE
