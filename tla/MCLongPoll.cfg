SPECIFICATION FairSpec
CONSTANTS
  c1 = c1
  c2 = c2
  p1 = p1
  p2 = p2
  p3 = p3
  w1 = w1
  w2 = w2
  Clients = {c1, c2}
  Polls <- WidePolls
  ClientOf <- WideClientOf
  Holding <- WideHolding
  Writers = {w1, w2}
  Audience <- WideAudience
INVARIANTS
  TypeOK
  NoLostWakeup
  ShutdownReleases
PROPERTIES
  NewsReachesHeldPoll
  ShutdownDrains
CHECK_DEADLOCK FALSE
