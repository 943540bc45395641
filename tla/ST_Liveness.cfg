SPECIFICATION FairSpec
CONSTANTS
  a = a
  b = b
  r1 = r1
  r2 = r2
  Services = {a, b}
  Revisions = {r1, r2}
  ServicesOf <- MCServicesOf
  Starts = {r1}
  None = None
  Genesis = genesis
  Found = found
  Calls = {o1}
  Kinds = {"deploy", "start", "stop", "delete"}
  Runners = {s1}
  Budget <- Losses
  MaxPasses = 2
  MaxCalls = 1
PROPERTY EveryAttemptSettles
