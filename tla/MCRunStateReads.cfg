CONSTANTS
  o1 = o1
  o2 = o2
  s1 = s1
  r1 = r1
  r2 = r2
  Operators <- TwoOperators
  Speakers <- OneSpeaker
  Readers <- OneReader
  MaxOperations = 2
  MaxWords = 1
SPECIFICATION FairSpec
INVARIANTS TypeOK SlotHasOneHolder WaitersAreOwedAWakeup
PROPERTIES ReadersReturn
CHECK_DEADLOCK FALSE
