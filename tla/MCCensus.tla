------------------------------ MODULE MCCensus ------------------------------
(* Census for TLC: three nodes, each any of the kinds of node object the   *)
(* census was written for, and a model that needs two nodes.               *)
EXTENDS Census, TLC

CONSTANTS n1, n2, n3

Healthy(m) ==
  [product |-> m, labelled |-> TRUE, keyed |-> TRUE, cap |-> 2, alloc |-> 2, mig |-> FALSE,
   migAlloc |-> 0, ready |-> TRUE, cordoned |-> FALSE, taints |-> {"soft"}]

MCNodes  == {n1, n2, n3}
MCModels == {"L4", "A100-MIG"}
MCMig    == {"A100-MIG"}
MCKinds  ==
  {Healthy("L4"), Healthy("A100-MIG"),
   [Healthy("L4") EXCEPT !.taints = {"soft", "reserved"}],
   [Healthy("L4") EXCEPT !.ready = FALSE, !.taints = {"lifecycle"}],
   [Healthy("L4") EXCEPT !.alloc = 0],
   [Healthy("L4") EXCEPT !.keyed = FALSE, !.cap = 0, !.alloc = 0],
   [Healthy("L4") EXCEPT !.cap = 0, !.alloc = 0, !.mig = TRUE, !.migAlloc = 3],
   [Healthy("L4") EXCEPT !.labelled = FALSE],
   [Healthy("L4") EXCEPT !.labelled = FALSE, !.cap = 0, !.alloc = 0],
   [Healthy("L4") EXCEPT !.labelled = FALSE, !.keyed = FALSE, !.cap = 0, !.alloc = 0,
                         !.mig = TRUE, !.migAlloc = 3]}

MCCoverage  == 2
MCMaxEvents == 2
Symmetry    == Permutations(Nodes)
=============================================================================
