SPECIFICATION FairSpec
CONSTANTS
  Threads = {t1, t2}
  Datas = {d1, d2, d3}
  NoData = NoData
  MaxAttach = 2
  MaxNest = 3
INVARIANTS CallsLive Balanced
PROPERTIES NotCalledAgain Freed
CHECK_DEADLOCK FALSE
