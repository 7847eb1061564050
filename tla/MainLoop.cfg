SPECIFICATION FairSpec
CONSTANTS
  Threads = {m, t}
  Main = m
  NoThread = NoThread
  Loops = {l1, l2}
  NoLoop = NoLoop
  Contexts = {c, d}
  Ctx <- OneContext
  Home <- Homes
  OtherRuns = {t}
  MaxNest = 2
  MaxSignals = 2
  PipeSize = 1
INVARIANTS Restored
PROPERTIES SignalSeen InterruptEnds QuitEndsAlone
CHECK_DEADLOCK FALSE
