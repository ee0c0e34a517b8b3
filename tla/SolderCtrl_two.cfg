SPECIFICATION Spec
CONSTANTS
  e1 = e1
  e2 = e2
  Equips = {e1, e2}
  Nobody = Nobody
  Builds <- TwoBuilds
  MaxCommands = 2
PROPERTIES CommandReachesItsDevice
CHECK_DEADLOCK FALSE
