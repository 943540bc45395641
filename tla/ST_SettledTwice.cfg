SPECIFICATION Spec
CONSTANTS
  a = a
  b = b
  r1 = r1
  r2 = r2
  Services = {a, b}
  Revisions = {r1, r2}
  ServicesOf <- MCServicesOf
  Starts = {r1}
  None = None
  Genesis = genesis
  Found = found
  Calls = {o1, o2}
  Kinds = {"deploy", "stop"}
  Runners = {s1}
  Budget <- NoFault
  MaxPasses = 1
  MaxCalls = 1
PROPERTY SettledOnce
