SPECIFICATION FairSpec
CONSTANTS
  a1 = a1
  a2 = a2
  a3 = a3
  f1 = f1
  f2 = f2
  u1 = u1
  Alerts = {a1, a2, a3, f1, f2, u1}
  RequireAck = {}
  Timed = {}
  FullScreen = {f1, f2}
  Unbuildable = {u1}
  MaxCards = 2
INVARIANTS
  TypeOK
  PlacesWellUsed
  EveryAlertAccountedFor
PROPERTIES
  GoneForGood
  NobodyWaitsForEver
