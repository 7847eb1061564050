SPECIFICATION FairSpec
CONSTANTS
  Notifies = {n1, n2}
  fun = fun
  other = other
  Objects = {fun, other}
  Callable = {fun}
  Null = Null
  Arguments <- SomeArguments
  Failures <- OneFailure
INVARIANTS ExactlyOwned UsableByGIO
PROPERTIES Released
