CONSTANTS
  p1 = p1
  p2 = p2
  Pods      <- MCPods
  Pid       <- MCPids
  Repeats   <- MCRepeats
  MaxLaunch <- MCLaunches
  MaxSecond <- MCSeconds
SPECIFICATION Spec
INVARIANTS
  TypeOK
  TraceIsOwn
  SuccessIsComplete
PROPERTY
  ImplementsLog
CHECK_DEADLOCK FALSE
