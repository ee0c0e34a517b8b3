SPECIFICATION FairSpec
CONSTANTS
  c1 = c1
  c2 = c2
  Sessions = {c1, c2}
  NoSession = NoSession
  NTrans = 2
  Subs <- SharedSubs
  Cmds = {"weigh", "spit"}
  Knows <- SharedKnows
  Handles <- SharedHandles
  SlotTaken = FALSE
  InStep = FALSE
  MaxFrames = 2
  MaxConnects = 3
INVARIANTS BusyIsTimed
CHECK_DEADLOCK FALSE
PROPERTIES BusyEnds
