SPECIFICATION FairSpec
CONSTANTS
  h = h
  saver = saver
  main_ = main_
  Files = {1, 2}
  Requests = {h}
  Saver = saver
  Main = main_
  ClientsFile = 2
  MaxChange <- Changes
  MaxError = 1
  MaxCrash = 1
INVARIANTS
  TypeOK
  AloneNeverHalfWritten
  AloneNotForgotten
PROPERTIES
  AloneForward
  AloneReachesDisk
CHECK_DEADLOCK FALSE
