SPECIFICATION Spec
CONSTANTS
  c1 = c1
  c2 = c2
  Sessions = {c1}
  NoSession = NoSession
  NTrans = 2
  Subs <- OneSubs
  Cmds = {"weigh", "spit"}
  Knows <- OwnKnows
  Handles <- OwnKnows
  SlotTaken = FALSE
  InStep = TRUE
  MaxFrames = 4
  MaxConnects = 1
PROPERTIES ErrorCommandMeansUnknown
CHECK_DEADLOCK FALSE
