SPECIFICATION Spec
CONSTANTS
  Transfers = {1, 2}
  MaxParallel = 1
  Lanes = {1, 2}
  Folders = {f1, f2}
  Home = f1
  Requests = {"pause", "resume", "cancel", "remove", "retry", "repair", "archive", "redirect", "pauseAll", "resumeAll"}
  Callers = {c1}
  MaxRequests = 2
  MaxStops = 1
CHECK_DEADLOCK FALSE
INVARIANTS TypeOK PoolBound InHandOnce DoneIsPlaced
PROPERTY PausedQueueStartsNothing
