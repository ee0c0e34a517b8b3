SPECIFICATION FairSpec
CONSTANTS
  MaxBytes = 4
  Units = 2
  Room = 1
  MaxMessages = 2
  MaxTimers = 2
INVARIANTS TypeOK OneWayBack BacklogIsWritten
PROPERTIES FramesAreWhole Reconnects
CHECK_DEADLOCK FALSE
