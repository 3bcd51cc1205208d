CONSTANTS
  p1 = p1
  p2 = p2
  Pods      <- MCPods
  Pid       <- MCOnePid
  Repeats   <- MCRepeats
  MaxLaunch <- MCLaunches
  MaxSecond <- MCSeconds
SPECIFICATION Spec
INVARIANT ReportedIsKept
CHECK_DEADLOCK FALSE
