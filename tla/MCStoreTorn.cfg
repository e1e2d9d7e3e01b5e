SPECIFICATION Spec
CONSTANTS
  h = h
  saver = saver
  main_ = main_
  Files = {1, 2}
  Requests = {h}
  Saver = saver
  Main = main_
  ClientsFile = 2
  MaxChange <- Changes
  MaxError = 0
  MaxCrash = 0
INVARIANTS
  NeverHalfWritten
CHECK_DEADLOCK FALSE
