SPECIFICATION Spec
CONSTANTS
  Account = {a1, a2}
  Device = {d1, d2, d3}
  Request = {p1, p2}
  LinkTTL = 1
  NoOne = NoOne
SYMMETRY Symmetry
INVARIANTS RevokedHasNoSay SessionHasRoom
