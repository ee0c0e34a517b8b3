SPECIFICATION FairSpec
CONSTANTS
  c1 = c1
  c2 = c2
  Sessions = {c1}
  NoSession = NoSession
  NTrans = 1
  Subs <- OneSubs
  Cmds = {"weigh", "spit"}
  Knows <- OneKnows
  Handles <- OneKnows
  SlotTaken = FALSE
  InStep = TRUE
  MaxFrames = 4
  MaxConnects = 1
INVARIANTS TypeOK ReplyNamesItsRequest OneCommandAtATime
PROPERTIES EveryCommandReplied ImplementsRequestReply
CHECK_DEADLOCK FALSE
