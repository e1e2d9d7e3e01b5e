SPECIFICATION FairSpec
CONSTANTS
  a1 = a1
  a2 = a2
  c1 = c1
  k1 = k1
  k2 = k2
  None = None
  Alerts = {a1}
  RequireAck = {a1}
  Timed = {}
  FullScreen = {}
  Unbuildable = {}
  MaxEvents = 9
  MaxCards = 1
  Clients = {c1}
  Conns = {k1, k2}
  Audience <- Everyone
  Recallable = {a1}
  Expiring = {}
  MaxSession = 1
  MaxCrash = 0
  MaxFault = 0
  MaxInbox = 1
PROPERTIES
  RecallClearsScreens
CHECK_DEADLOCK FALSE
