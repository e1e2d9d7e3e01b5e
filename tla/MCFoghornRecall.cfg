SPECIFICATION Spec
CONSTANTS
  a1 = a1
  a2 = a2
  c1 = c1
  k1 = k1
  k2 = k2
  None = None
  Alerts = {a1, a2}
  RequireAck = {a1}
  Timed = {a2}
  FullScreen = {}
  Unbuildable = {}
  MaxEvents = 9
  MaxCards = 1
  Clients = {c1}
  Conns = {k1}
  Audience <- Everyone
  Recallable = {a1}
  Expiring = {}
  MaxSession = 1
  MaxCrash = 0
  MaxFault = 0
  MaxInbox = 1
INVARIANTS
  RecallFinal
PROPERTIES
  ImplementsLedger
CHECK_DEADLOCK FALSE
