SPECIFICATION Spec
CONSTANTS
  c1 = c1
  c2 = c2
  a = a
  b = b
  k1 = k1
  None = None
  Null = Null
  Conns <- MCConns
  MaxConnections = 2
  MaxWritten = 3
  Names <- OneName
  Keys <- MCKeys
  Words <- MCWords
  Counters <- MCCounters
  Rates = {}
  Arrays <- MCArrays
  Dictionaries <- MCDictionaries
  Latests = {}
  Definitions <- TwoPeers
  Updates <- WordUpdates
  MaxUpdates = 2
SYMMETRY Symmetry
INVARIANTS TypeOK StatusFirst TimersEnd AckedIsApplied UpdatesUnderOwnTable LessonsReadable LessonsResolve
