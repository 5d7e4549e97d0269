SPECIFICATION Spec
CONSTANTS
  c1 = c1
  c2 = c2
  a = a
  b = b
  k1 = k1
  None = None
  Null = Null
  Conns <- MCConns
  MaxConnections = 2
  MaxWritten = 3
  Names <- TwoNames
  Keys <- MCKeys
  Words <- MCWords
  Counters <- MCCounters
  Rates = {}
  Arrays <- MCArrays
  Dictionaries <- MCDictionaries
  Latests = {}
  Definitions <- TwoTables
  Updates <- WordUpdates
  MaxUpdates = 1
INVARIANT LessonsAreWhole
