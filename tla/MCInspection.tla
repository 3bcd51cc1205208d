---------------------------- MODULE MCInspection ----------------------------
(* Preflight and Census for TLC in one run.  The card check runs in a pod  *)
(* and the two census tools on a laptop; they share no state.  A behaviour *)
(* here is one of the first with the cluster at rest or one of the second  *)
(* with no card under test, so that every state of either is visited.      *)
EXTENDS MCPreflight, MCCensus

RestingNodes == [n \in Nodes |-> Healthy("L4")]
RestingCard  == CHOOSE c \in Cards : TRUE

ClusterRests == node = RestingNodes /\ events = 0 /\ snapshot = <<>> /\ feed = <<>>
NoCheckRuns  == card = RestingCard /\ stage = "torch"

IInit == PInit /\ Init /\ (ClusterRests \/ NoCheckRuns)

INext == \/ ClusterRests /\ PNext /\ UNCHANGED vars
         \/ NoCheckRuns /\ Next /\ UNCHANGED pvars

ISpec == IInit /\ [][INext]_<<pvars, vars>>
=============================================================================
