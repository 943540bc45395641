SPECIFICATION Spec
CONSTANTS
  a = a
  b = b
  r1 = r1
  r2 = r2
  Services = {a, b}
  Revisions = {r1, r2}
  ServicesOf <- MCServicesOf
  Starts = {r1}
  None = None
  Genesis = genesis
  Found = found
  Calls = {o1, o2}
  Kinds = {"deploy", "start", "stop", "restart", "delete"}
  Runners = {s1}
  Budget <- Restart
  MaxPasses = 1
  MaxCalls = 1
INVARIANT NothingLeftBehind
INVARIANT DeletedIsGone
PROPERTY AppliedIsThere
