SPECIFICATION Spec
CONSTANTS
  Threads = {t1, t2}
  Wrappers = {w1, w2}
  NoThread = NoThread
  NoWrapper = NoWrapper
  InitiallyUnowned = TRUE
  HasSinkFunc = TRUE
  Resurrects = FALSE
  Overlaps = TRUE
  MaxRef = 9
INVARIANT OneWrapper
