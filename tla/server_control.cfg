SPECIFICATION Spec
CONSTANTS
  Callers = {c1, c2}
  Operators = {c1}
  Pids = {p1, p2, p3}
  NoPid = NoPid
  Missing = Missing
  Empty = Empty
INVARIANTS
  TypeOK
  OneServer
  KnownServer
  StopMeansStopped
