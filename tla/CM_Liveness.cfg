SPECIFICATION FairSpec
CONSTANTS
  None = None
  Genesis = Genesis
  c1 = c1
  c2 = c2
  n1 = n1
  n2 = n2
  o1 = o1
  o2 = o2
  s1 = s1
  Managed = {c1}
  Names = {n1, n2}
  NameOf <- NameEach
  Runners = {s1}
  Containers = {c1}
  Ops = {o1}
  Kinds = {"replace", "remove"}
  Budget <- NobodyInterferes
  MaxPasses = 1
PROPERTIES
  EveryOperationSettles
