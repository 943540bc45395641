SPECIFICATION ProgressSpec
CONSTANTS
  None = None
  Conns = {k1, k2}
  Requests = {}
  Streams = {}
  Budget <- FaultAndRevocation
  Machines = {m1}
  Pollers = {p1, p2}
  MaxTickets = 1
  MaxTokens = 1
  MaxKeys = 2
  Renewable = {1}
  MaxMishaps = 1
  Browsers = {b1}
  Calls = {q1, q2}
  MaxSessions = 2
  Uses = {"read", "logout", "setup", "confirm"}
  MaxCodeSets = 1
  MaxTokensOf = 1
  MaxTrouble = 1
  Viewers = {v1}
  Attempts = {a1, a2}
  OperatorOf <- OneOperator
  MaxTotal = 2
  MaxPerUser = 1
  MaxUpsets = 2
INVARIANTS
  CompletedOnce
PROPERTIES
  RevokedIsCutOff
  ConnectedAgain
  SetupCompletes
  BrowserFindsOut
  WithdrawnIsEnded
  
CHECK_DEADLOCK FALSE
