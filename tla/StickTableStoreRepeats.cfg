SPECIFICATION Spec
CONSTANTS
  a = a  b = b  k1 = k1  k2 = k2  p1 = p1  p2 = p2
  Names <- MCNames
  Keys <- MCKeys
  Peers <- TwoPeers
  Words <- MCWords
  Counters <- MCCounters
  Rates <- MCRates
  Arrays <- MCArrays
  Dictionaries <- MCDictionaries
  Latests <- MCLatests
  Definitions <- MCDefinitions
  Updates <- MCUpdates
  MaxUpdates = 2
  Null = Null
INVARIANT CountersSumPeers
