SPECIFICATION FairSpec
CONSTANTS
  Transfers = {1, 2}
  MaxParallel = 2
  Lanes = {1, 2}
  Folders = {f1, f2}
  Home = f1
  Requests = {"pause", "resume", "cancel", "remove", "retry", "repair", "archive", "redirect", "pauseAll", "resumeAll"}
  Callers = {c1}
  MaxRequests = 1
  MaxStops = 0
CHECK_DEADLOCK FALSE
INVARIANT NoRivals
PROPERTIES RunsEnd QueueMoves
