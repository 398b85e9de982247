SPECIFICATION SpecOfPart
CONSTANTS
  Slot = {c1, c2}
  MaxWishes = 2
  MaxTroubles = 2
  Device = {d1, d2}
  MaxPuts = 3
  MaxErrors = 2
INVARIANTS OneLink StaysHidden NewestKept StopKeepsAll
PROPERTIES NeverBack Settles StaysMuted Persisted
