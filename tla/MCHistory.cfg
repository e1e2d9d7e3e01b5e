SPECIFICATION CrashFirst
CONSTANTS
  c1 = c1
  p1 = p1
  p2 = p2
  g1 = g1
  Nil = Nil
  Alerts = {1, 2, 3}
  RequireAck = {}
  Timed = {}
  FullScreen = {}
  MaxEvents = 1
  Letters <- SomeLetters
  Lower <- LowerCase
  Networks <- NoNetworks
  Clients = {c1}
  Polls = {p1, p2}
  Records = {1, 2, 3}
  Groups = {g1}
  Facts <- SomeFacts
  RuleSets <- SomeRules
  Targets <- SomeTargets
  Events = {"acknowledged"}
  MaxOdd = 3
  MaxKept = 2
  MaxWithDeliveries = 1
INVARIANTS
  TypeOK
  HistoryKept
  DeliveredAsMeant
  RecallIsTold
  PollingIsHeld
PROPERTIES
  TotalsKept
CONSTRAINT Focus
SYMMETRY Symmetry
CHECK_DEADLOCK FALSE
