\* One function's balance is in time and its failed writes have no effect; the
\* other's balance answers when it likes and its failed writes may be executed.
SPECIFICATION FairSpec
CONSTANTS
  Fns = {f1, f2}
  NoFn = NoFn
  MaxFaults = 2
  InTime = {f2}
  LostReplies = {f1}
INVARIANTS TypeOK NothingOutlastsItsCommand
PROPERTIES EveryCommandAnswered ImplementsPlcProtocol
