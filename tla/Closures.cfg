SPECIFICATION MCSpec
CONSTANTS
  Threads = {t1, t2}
  NoThread = NoThread
  NativeThreads = {t2}
  Ids = {c1, c2}
  NoClosure = NoClosure
  Funcs = {f1, f2}
  Bound = {f1}
  MaxDepth = 2
  MaxBlocks = 1
INVARIANTS CallbacksKept
PROPERTIES Released
CHECK_DEADLOCK FALSE
