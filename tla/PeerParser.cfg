SPECIFICATION FairSpec
CONSTANTS
  t1 = t1  t2 = t2  k1 = k1  w1 = w1  w2 = w2
  None = None
  Tables <- MCTables
  Keys <- MCKeys
  Words <- MCWords
  Frames <- MCFrames
  MaxFrames = 4
INVARIANTS TypeOK PushedAsSent FailureExplained NothingHeldBack
PROPERTY AllParsed
CHECK_DEADLOCK FALSE
