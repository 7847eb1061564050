SPECIFICATION FairSpec
CONSTANTS
  Threads = {t1, t2, t3}
  Wrappers = {w1, w2}
  NoThread = NoThread
  NoWrapper = NoWrapper
  InitiallyUnowned = TRUE
  HasSinkFunc = TRUE
  Resurrects = FALSE
  Overlaps = FALSE
  MaxRef = 9
INVARIANTS NoSurplus InUseLive OneWrapper ToggleBalanced
PROPERTIES KeepsLifetime Reclaimed
