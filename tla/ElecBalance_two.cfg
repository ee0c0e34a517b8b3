SPECIFICATION FairSpec
CONSTANTS
  Balances = {b1, b2}
  Late = {b1}
  MaxQueries = 2
  MaxTimers = 5
INVARIANTS TypeOK PolledIsBusy AnswersAreAwaited PolledWhileUnsteady
PROPERTIES UnsteadyEnds
CHECK_DEADLOCK FALSE
