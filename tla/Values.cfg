SPECIFICATION ValuesSpec
CONSTANTS
  w1 = w1
  w2 = w2
  Wrappers = {w1, w2}
  Cells = {c1, c2, c3, c4}
  Lists <- MCLists
  Limits <- MCLimits
  CNumbers <- MCCNumbers
  CharSign = 1
  IntSign = 2
  LongSign = 8
  Null = Null
SYMMETRY Symmetry
INVARIANTS BoxedOwned Faithful
CHECK_DEADLOCK FALSE
