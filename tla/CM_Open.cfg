SPECIFICATION Spec
CONSTANTS
  None = None
  Genesis = Genesis
  c1 = c1
  c2 = c2
  n1 = n1
  n2 = n2
  o1 = o1
  o2 = o2
  s1 = s1
  Managed = {c1}
  Names = {n1, n2}
  NameOf <- NameEach
  Runners = {s1}
  Containers = {c1, c2}
  Ops = {o1, o2}
  Kinds = {"create", "replace"}
  Budget <- Meddled
  MaxPasses = 1
INVARIANTS
  OneOwner
  CandidatesAreOpen
  CurrentWasBuilt
