------------------------------ MODULE MCRunner ------------------------------
(* Runner for TLC: two pods on one volume.                                 *)
EXTENDS Runner, TLC

CONSTANTS p1, p2

MCPods     == {p1, p2}
(* Two processes of one PID namespace ...                                  *)
MCPids     == p1 :> 1 @@ p2 :> 2
(* ... and two containers, where the image's ENTRYPOINT is process 1.      *)
MCOnePid   == p1 :> 1 @@ p2 :> 1
MCRepeats  == 2
MCLaunches == p1 :> 2 @@ p2 :> 1
MCSeconds  == 1
=============================================================================
