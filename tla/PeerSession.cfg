SPECIFICATION FairSpec
CONSTANTS
  s1 = s1
  s2 = s2
  feeder = feeder
  a = a
  k1 = k1
  None = None
  Null = Null
  Sockets <- MCSockets
  Feeder = feeder
  MaxConnections = 2
  MaxWritten = 8
  Names <- MCNames
  Keys <- MCKeys
  Words <- MCWords
  Counters <- MCCounters
  Rates = {}
  Arrays = {}
  Dictionaries <- MCDictionaries
  Latests = {}
  Definitions <- MCDefinitions
  Updates <- MCUpdates
  MaxUpdates = 1
INVARIANT AnsweredOnce
PROPERTIES Synchronizes SynchronizationSettles SessionsEnd
