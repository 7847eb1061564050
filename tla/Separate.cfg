SPECIFICATION SeparateSpec
CONSTANTS
  Threads = {t1, t2, t3}
  NoThread = NoThread
  Callbacks = {FALSE, TRUE}
  Unlocked = FALSE
  Uninitialised = {FALSE}
  Groups = {g1, g2}
  OptionContexts = {c1, c2}
  Null = Null
  Readers = {r1, r2}
  Length = 5
  LineEnds = {2, 3}
  Chunk = 2
  MaxCounts <- MCMaxCounts
  Width = 4
INVARIANTS StaysAlive Counted EndKnown GroupCallable GroupKept InBuffer Conserved
PROPERTIES UnrefIsFinal Freed
CHECK_DEADLOCK FALSE
