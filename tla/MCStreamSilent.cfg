SPECIFICATION StreamSpec
CONSTANTS
  StoreWriters = {p}
  Consoles = {c}
  FrameBuffer = 2
  MaxSubscribers = 1
  MaxStoreWrites = 2
  MaxCuts = 0
INVARIANT ConsolesSeeEveryChange
CHECK_DEADLOCK FALSE
