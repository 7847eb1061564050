SPECIFICATION Spec
CONSTANTS
  Classes = {c0, c1, c2}
  RootClass = c0
  CTypes = {GObject, Widget}
  Root = GObject
  Interfaces = {i1}
  Bases = {n}
  Tries = 2
  Declarations <- MCDeclarations
  Null = Null
  Threads = {t1}
  Objects = {o1, o2}
  Wrappers = {w1, w2}
SYMMETRY Symmetry
INVARIANTS Hierarchy Complete OwnObject InitOnce
CHECK_DEADLOCK FALSE
