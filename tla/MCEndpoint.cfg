SPECIFICATION FairSpec
CONSTANTS
  d1 = d1
  d2 = d2
  a1 = a1
  a2 = a2
  Device = {d1}
  User = {a1}
  AccountOf <- One
  Subscriber = {c1, c2}
  QueueSize = 1
  ReplayMaxAge = 0
  MaxEvents = 1
  Recheck = 1
  MaxDbErrors = 1
INVARIANTS CutWithinRecheck NoOrphanSubscriber
PROPERTIES SilentWhenCut SubscriptionEnds
