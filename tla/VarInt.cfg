SPECIFICATION Spec
CONSTANTS
  Ints <- MCInts
  Tails <- MCTails
INVARIANTS TypeOK RoundTrip OnlyCutsThrow
