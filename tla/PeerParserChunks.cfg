SPECIFICATION Spec
CONSTANTS
  t1 = t1  t2 = t2  k1 = k1  w1 = w1  w2 = w2
  None = None
  Tables <- MCTables
  Keys <- MCKeys
  Words <- MCWords
  Frames <- GoodFrames
  MaxFrames = 2
INVARIANT IncompleteIsNull
CHECK_DEADLOCK FALSE
