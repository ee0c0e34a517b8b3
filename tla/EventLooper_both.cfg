\* Both flags of the interface.  A one-shot timer that is not listed aborts
\* the process, which then stops.
SPECIFICATION Spec
CONSTANTS
  Flags = {"TF_FIRE_ONCE", "TF_FIRE_PERIODICALLY"}
  MaxTimers = 4
INVARIANTS TypeOK ListedOwnsItsEvent OneCancellableTimer NoDeadOneShotListed
PROPERTY ImplementsTimerService
CHECK_DEADLOCK FALSE
