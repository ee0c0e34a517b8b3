SPECIFICATION FairSpec
CONSTANTS
  e1 = e1
  e2 = e2
  Equips = {e1}
  Nobody = Nobody
  Builds <- OneBuild
  MaxCommands = 4
INVARIANTS TypeOK ResultIsWhole DeviceInTurn ReadyWhenFree
PROPERTIES EveryCommandGetsResult
CHECK_DEADLOCK FALSE
