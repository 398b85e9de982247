SPECIFICATION SpecOfPart
CONSTANTS
  Account = {a1, a2, a3}
  Room = {r1}
  Request = {p1, p2}
  InviteTTL = 1
  MaxNow = 3
  d1 = d1
  d2 = d2
  d3 = d3
  b1 = b1
  b2 = b2
  Device = {d1, d2, d3}
  User = {b1, b2}
  AccountOf <- TwoOfOne
  Subscriber = {s1}
  QueueSize = 2
  ReplayMaxAge = 1
  MaxEvents = 3
  Member = {me, bob, ann}
  Me = me
  Writer = {me, bob}
  GroupLimit = 2
  DmLimit = 1
  ChatMax = 2
  MaxMessages = 3
  MaxTroubles = 1
INVARIANTS OneOwner RequestsStayJustified InOrder CaughtUp ShownOnce NothingMissed
PROPERTIES ImplementsMembership DoorsClose NewestStay
CHECK_DEADLOCK FALSE
