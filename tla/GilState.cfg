SPECIFICATION FairSpec
CONSTANTS
  PyThreads = {m, p}
  Main = m
  NativeThreads = {n}
  NoThread = NoThread
  MaxDepth = 3
  Disciplined = TRUE
INVARIANTS MutualExclusion NoFatal Restored Counted
PROPERTIES Served
