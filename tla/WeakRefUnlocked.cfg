SPECIFICATION Spec
CONSTANTS
  Threads = {t1, t2}
  NoThread = NoThread
  Callbacks = {TRUE}
  Unlocked = TRUE
  Uninitialised = {FALSE}
INVARIANTS StaysAlive
CHECK_DEADLOCK FALSE
