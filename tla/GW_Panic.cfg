SPECIFICATION Spec
CONSTANTS
  None = None
  Conns = {k1, k2}
  Requests = {r1}
  Streams = {}
  Budget <- FaultOnce
INVARIANTS
  NoPanic
CHECK_DEADLOCK FALSE
