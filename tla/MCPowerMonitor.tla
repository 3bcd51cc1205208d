--------------------------- MODULE MCPowerMonitor ---------------------------
(* PowerMonitor for TLC: two monitors one after the other.                 *)
EXTENDS PowerMonitor

MCMaxTime  == 2
MCMaxUses  == 2
MCInterval == 1
=============================================================================
