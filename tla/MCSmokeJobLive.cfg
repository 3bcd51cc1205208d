CONSTANTS
  c1 = c1
  c2 = c2
  None = None
  Clients   <- MCOneClient
  Slug      <- MCSlugs
  Config    <- MCConfigs
  MaxSecond <- MCSeconds
SPECIFICATION FairSpec
PROPERTIES
  GpuIsReleased
  JobsAreSwept
  ScriptEnds
CHECK_DEADLOCK FALSE
