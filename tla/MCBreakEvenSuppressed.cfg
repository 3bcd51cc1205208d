CONSTANTS
  Cards          <- MCCards
  EmbodiedRanges <- MCRanges
  Intensity      <- MCIntensity
  Declines       <- MCDeclines
  Whole          <- MCWhole
  SecondsPerYear <- MCSeconds
  JPerKwh        <- MCJPerKwh
  IdleSpread     <- MCSpread
  MaxYears       <- MCYears
SPECIFICATION BSpec
INVARIANT SuppressedAsAlike
CHECK_DEADLOCK FALSE
