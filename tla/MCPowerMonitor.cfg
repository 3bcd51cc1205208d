CONSTANTS
  MaxTime  <- MCMaxTime
  MaxUses  <- MCMaxUses
  Interval <- MCInterval
SPECIFICATION FairSpec
INVARIANTS
  TypeOK
  SamplerHoldsNvml
  SamplerAlive
  TraceOrdered
  WindowCoversRegion
  CounterCoversTrace
  TraceFinal
PROPERTY
  StopReturns
CHECK_DEADLOCK FALSE
