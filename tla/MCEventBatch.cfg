SPECIFICATION Spec
CONSTANTS
  a1 = a1
  a2 = a2
  Alerts = {a1, a2}
  RequireAck = {a1}
  Timed = {}
  FullScreen = {}
  MaxEvents = 2
  MaxBatch = 3
INVARIANTS
  TypeOK
  LoopIsAfterBatch
  SendingTwiceIsHarmless
CHECK_DEADLOCK FALSE
