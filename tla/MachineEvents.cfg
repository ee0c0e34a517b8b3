SPECIFICATION FairSpec
CONSTANTS
  NumEvents = 3
  HeartBeat = 2
  Yields = {3}
  Impatient = {3}
  SequenceIds = 3
  MaxRestarts = 1
INVARIANTS TypeOK 
  
