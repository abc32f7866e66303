SPECIFICATION Spec
CONSTANTS
  x = x
  y = y
  z = z
  Confs <- MCConfs
INVARIANTS TypeOK InFlightUnwritten NothingAfterEnd
PROPERTIES ImplementsStream EndsOrFails
CHECK_DEADLOCK FALSE
