CONSTANTS
  Arguments <- MCArguments
  Order     <- MCOrder
  Tokens    <- MCTokens
  Entropy   <- MCEntropy
  SEED      = "seed"
  BATCH_SIZE = 2
  MaxLaunch = 2
  MaxRow    = 2
SPECIFICATION Spec
INVARIANTS
  EqualRowsEqualWork
  EnergyIsPerUnit
  AcceptedIsRecorded
  LongestRepeatIsExact
  ComparisonIsTrue
CHECK_DEADLOCK FALSE
