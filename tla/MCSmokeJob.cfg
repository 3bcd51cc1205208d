CONSTANTS
  c1 = c1
  c2 = c2
  None = None
  Clients   <- MCClients
  Slug      <- MCSlugs
  Config    <- MCConfigs
  MaxSecond <- MCSeconds
SYMMETRY MCSymmetry
SPECIFICATION Spec
INVARIANTS
  SuccessIsTrue
  CleansUp
PROPERTIES
  GoodRunIsSuccess
CHECK_DEADLOCK FALSE
