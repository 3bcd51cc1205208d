------------------------------- MODULE Census -------------------------------
(***************************************************************************)
(* The two tools that say which cards the cluster has: summarize_census,   *)
(* which reads a snapshot of the node objects, and nrp_availability, which *)
(* reads the portal's feed of free GPUs.  The cluster changes under both.  *)
(*                                                                         *)
(* A node object keeps what the two tools read of it.  product is what     *)
(* GPU feature discovery calls the card; the label may be absent.  keyed   *)
(* is "nvidia.com/gpu" in status.capacity, mig is the presence of          *)
(* nvidia.com/mig-* keys there and migAlloc their allocatable sum.         *)
(***************************************************************************)
EXTENDS Integers, FiniteSets, Sums

CONSTANTS
  Nodes,
  Models,         (* gpu.product values                                     *)
  MigModels,      (* those with "MIG" in them                               *)
  Kinds,          (* the node objects the cluster starts with               *)
  CoverageNodes,  (* nodes a model needs not to be a coverage risk: 3       *)
  MaxEvents       (* changes of the cluster: bounds the model               *)

(* soft: PreferNoSchedule, on essentially every GPU node.  reserved: an    *)
(* institution's NoSchedule.  lifecycle: the NoSchedule or NoExecute that  *)
(* Kubernetes puts on a node that is not ready or is cordoned.             *)
Taints == {"soft", "reserved", "lifecycle"}

Object ==
  [product : Models, labelled : BOOLEAN, keyed : BOOLEAN, cap : Nat, alloc : Nat,
   mig : BOOLEAN, migAlloc : Nat, ready : BOOLEAN, cordoned : BOOLEAN, taints : SUBSET Taints]

ASSUME KindAssumption ==
  /\ IsFiniteSet(Nodes) /\ MigModels \subseteq Models /\ Kinds \subseteq Object
  /\ CoverageNodes \in Nat \ {0} /\ MaxEvents \in Nat
  /\ \A o \in Kinds : /\ o.alloc <= o.cap /\ (o.cap > 0 => o.keyed)
                      /\ o.migAlloc > 0 => o.mig

VARIABLES
  node,     (* the API server's node objects                                *)
  used,     (* GPUs held by pods on each node                               *)
  fresh,    (* of "snapshot" and "feed", those taken since the last change  *)
  snapshot, (* nodes_<UTC>.json                                             *)
  feed,     (* fetch_nodes' records: object and GPUAvailable                *)
  events

vars == <<node, used, fresh, snapshot, feed, events>>

----------------------------------------------------------------------------
(* summarize_census.                                                       *)

has_blocking_taint(o) == o.taints \cap {"reserved", "lifecycle"} # {}

is_mig(o) == (o.labelled /\ o.product \in MigModels) \/ o.migAlloc > 0

schedulable(o)          == o.ready /\ ~o.cordoned /\ ~has_blocking_taint(o)
schedulable_with_gpu(o) == schedulable(o) /\ o.alloc > 0
tainted_but_ready(o)    == o.ready /\ ~o.cordoned /\ has_blocking_taint(o)

(* Mutation: a node whose devices are all sliced gives no signal.          *)
SignalNoMig(o) == o.labelled \/ o.keyed

has_gpu_signal(o) == o.labelled \/ o.keyed \/ o.mig

(* Mutation: what is withheld is not capacity.                             *)
UnlabeledAllocatable(o) == ~o.labelled /\ has_gpu_signal(o) /\ o.alloc > 0

Unlabeled(o) == ~o.labelled /\ has_gpu_signal(o) /\ (o.cap > 0 \/ o.alloc > 0 \/ o.mig)
Orphan(o)    == ~o.labelled /\ has_gpu_signal(o) /\ ~Unlabeled(o)

(* The rows derive makes of snapshot s that satisfy a predicate.           *)
Rows(s, P(_)) == {n \in Nodes : P(s[n])}

Members(s, m) == {n \in Nodes : s[n].labelled /\ s[n].product = m}

(* Mutation: the risk keys off reachable nodes, whatever they advertise.   *)
OpenlyAny(s, m) == Cardinality(Members(s, m) \cap Rows(s, schedulable))

Openly(s, m) == Cardinality(Members(s, m) \cap Rows(s, schedulable_with_gpu))

(* build_fleet's row of a model.                                           *)
FleetRow(s, m) ==
  LET M == Members(s, m) IN
  [node_count              |-> Cardinality(M),
   ready_nodes             |-> Cardinality({n \in M : s[n].ready}),
   openly_schedulable      |-> Cardinality(M \cap Rows(s, schedulable)),
   tainted_but_ready       |-> Cardinality(M \cap Rows(s, tainted_but_ready)),
   allocatable_gpu_sum     |-> Total([n \in Nodes |-> s[n].alloc], M),
   allocatable_gpu_sum_swg |->
     Total([n \in Nodes |-> s[n].alloc], M \cap Rows(s, schedulable_with_gpu)),
   measurement_viable      |-> \A n \in M : ~is_mig(s[n]),
   coverage_risk           |-> Openly(s, m) < CoverageNodes]

Fleet(s) == {m \in Models : Members(s, m) # {}}

(* print_gap_analysis: why a labelled node has nothing allocatable, and    *)
(* the buckets it prints.                                                  *)
Bucket(o) ==
  CASE o.mig \/ o.product \in MigModels -> "mig"
    [] ~o.ready   -> "NotReady"
    [] o.cordoned -> "Cordoned (ready)"
    [] o.cap > 0  -> "withheld"
    [] OTHER      -> "never advertised"

PrintedBuckets == {"mig", "NotReady", "Cordoned (ready)", "withheld", "never advertised"}

Zero(o)           == o.labelled /\ o.alloc = 0
LabeledWithGpu(o) == o.labelled /\ o.alloc > 0

total_advertising(s) ==
  Cardinality(Rows(s, LabeledWithGpu)) + Cardinality(Rows(s, Unlabeled))

----------------------------------------------------------------------------
(* nrp_availability, on the feed's records.                                *)

(* Mutation: only the taints are looked at.                                *)
BlockedByTaint(o) == o.taints \cap {"reserved", "lifecycle"} # {}

is_blocked(o) == o.cordoned \/ o.taints \cap {"reserved", "lifecycle"} # {}

(* GPUType is the product label, blank without it.                         *)
FeedMembers(f, m) == {n \in Nodes : f[n].object.labelled /\ f[n].object.product = m}

OpenNodesFor(f, m) == {n \in FeedMembers(f, m) : ~is_blocked(f[n].object) /\ f[n].free > 0}

(* summarize's row of a model.                                             *)
FeedRow(f, m) ==
  [gpu_free             |-> Total([n \in Nodes |-> f[n].free], FeedMembers(f, m)),
   gpu_free_open        |->
     Total([n \in Nodes |-> f[n].free],
           {n \in FeedMembers(f, m) : ~is_blocked(f[n].object)}),
   nodes_open_with_free |-> Cardinality(OpenNodesFor(f, m))]

----------------------------------------------------------------------------
(* The cluster, outside the repository: what Kubernetes, the GPU operator  *)
(* and other users do to the nodes while the tools are in use.             *)

Free(n) == IF used[n] < node[n].alloc THEN node[n].alloc - used[n] ELSE 0

(* The scheduler puts a pod that asks for one GPU of a model and tolerates *)
(* nothing on a node; it looks at taints and free devices, not at Ready.   *)
Suits(n, m) ==
  /\ node[n].labelled /\ node[n].product = m
  /\ ~node[n].cordoned /\ node[n].taints \subseteq {"soft"}

Accepts(n, m) == Suits(n, m) /\ Free(n) > 0

(* Readiness and the cordon have reached the node's taints.                *)
Settled(n) == "lifecycle" \in node[n].taints <=> ~node[n].ready \/ node[n].cordoned

Event == events < MaxEvents /\ events' = events + 1 /\ fresh' = {} /\ UNCHANGED <<snapshot, feed>>

Becomes(n, o) == Event /\ node' = [node EXCEPT ![n] = o] /\ UNCHANGED used

(* Feature discovery loses or restores the label.                          *)
Relabel(n)  == Becomes(n, [node[n] EXCEPT !.labelled = ~@])
ReadyFlips(n) == Becomes(n, [node[n] EXCEPT !.ready = ~@])
Cordon(n)   == Becomes(n, [node[n] EXCEPT !.cordoned = ~@])
Reserve(n)  ==
  Becomes(n, [node[n] EXCEPT !.taints = IF "reserved" \in @ THEN @ \ {"reserved"}
                                                            ELSE @ \cup {"reserved"}])
(* The taint follows, some time after.                                     *)
LifecycleTaint(n) ==
  /\ ~Settled(n)
  /\ Becomes(n, [node[n] EXCEPT !.taints = IF "lifecycle" \in @ THEN @ \ {"lifecycle"}
                                                                 ELSE @ \cup {"lifecycle"}])
(* Devices turn unhealthy, or healthy again.                               *)
Withhold(n) ==
  /\ node[n].cap > 0
  /\ Becomes(n, [node[n] EXCEPT !.alloc = IF @ = 0 THEN node[n].cap ELSE 0])

PodStarts(n, m) ==
  /\ Accepts(n, m)
  /\ used' = [used EXCEPT ![n] = @ + 1]
  /\ Event /\ UNCHANGED node

PodEnds(n) ==
  /\ used[n] > 0
  /\ used' = [used EXCEPT ![n] = @ - 1]
  /\ Event /\ UNCHANGED node

(* The tools: inventory.sh's snapshot, and fetch_nodes.                    *)
TakeSnapshot ==
  /\ snapshot' = node /\ fresh' = fresh \cup {"snapshot"}
  /\ UNCHANGED <<node, used, feed, events>>

fetch_nodes ==
  /\ feed' = [n \in Nodes |-> [object |-> node[n], free |-> Free(n)]]
  /\ fresh' = fresh \cup {"feed"}
  /\ UNCHANGED <<node, used, snapshot, events>>

Init ==
  /\ node \in [Nodes -> Kinds] /\ used = [n \in Nodes |-> 0]
  /\ fresh = {} /\ snapshot = <<>> /\ feed = <<>> /\ events = 0

Next ==
  \/ TakeSnapshot \/ fetch_nodes
  \/ \E n \in Nodes :
       \/ Relabel(n) \/ ReadyFlips(n) \/ Cordon(n) \/ Reserve(n)
       \/ LifecycleTaint(n) \/ Withhold(n) \/ PodEnds(n)
       \/ \E m \in Models : PodStarts(n, m)

Spec == Init /\ [][Next]_vars

----------------------------------------------------------------------------
(* The ready nodes that are in neither of the two columns beside           *)
(* ready_nodes.                                                            *)
ReadyCordoned(o) == o.ready /\ o.cordoned

(* The census loses no card and counts none twice (main, build_fleet,      *)
(* print_gap_analysis): every node with a sign of a GPU is in the fleet,   *)
(* among the unlabelled or among the orphans, an orphan has nothing to     *)
(* give, each column of ready nodes adds up, and the five buckets that are *)
(* printed hold every labelled node with nothing allocatable.              *)
CountedOnce ==
  snapshot # <<>> =>
    /\ \A n \in Nodes : snapshot[n].alloc > 0 \/ snapshot[n].migAlloc > 0 =>
         \/ snapshot[n].labelled
         \/ n \in Rows(snapshot, Unlabeled)
    /\ Total([m \in Models |-> FleetRow(snapshot, m).node_count], Fleet(snapshot))
         + Cardinality(Rows(snapshot, Unlabeled)) + Cardinality(Rows(snapshot, Orphan))
       = Cardinality(Rows(snapshot, has_gpu_signal))
    /\ \A m \in Fleet(snapshot) :
         LET r == FleetRow(snapshot, m) IN
         r.ready_nodes = r.openly_schedulable + r.tainted_but_ready
                         + Cardinality(Members(snapshot, m) \cap Rows(snapshot, ReadyCordoned))
    /\ \A n \in Rows(snapshot, Zero) : Bucket(snapshot[n]) \in PrintedBuckets

(* What the printed reconciliation says (print_gap_analysis): the          *)
(* GPU-advertising total does not move, it only splits by the presence of  *)
(* the label.  But a labelled node is in it for what is allocatable and an *)
(* unlabelled one for its capacity or its slices too.                      *)
TotalDoesNotMove ==
  [][\A n \in Nodes : Relabel(n) => total_advertising(node') = total_advertising(node)]_vars

(* How far the printed line is true, where TotalDoesNotMove is not: a      *)
(* label's coming or going leaves the total alone exactly when the node    *)
(* has something allocatable, or neither capacity nor slices.              *)
RelabelSplits ==
  [][\A n \in Nodes :
       Relabel(n) =>
         (total_advertising(node') = total_advertising(node) <=>
            node[n].alloc > 0 \/ (node[n].cap = 0 /\ ~node[n].mig))]_vars

(* A model without the coverage flag has its repetitions: on the cluster   *)
(* the snapshot shows, at least CoverageNodes nodes would take a plain pod *)
(* if they were idle.  A flagged model has fewer, once Kubernetes has put  *)
(* its taints on the nodes that are not ready.  On a viable model's node   *)
(* the pod gets a whole card.                                              *)
CoverageIsTrue ==
  "snapshot" \in fresh =>
    \A m \in Fleet(snapshot) :
      LET r == FleetRow(snapshot, m)
          places == {n \in Nodes : Suits(n, m) /\ node[n].alloc > 0} IN
      /\ ~r.coverage_risk => Cardinality(places) >= CoverageNodes
      /\ r.coverage_risk /\ (\A n \in Nodes : Settled(n)) => Cardinality(places) < CoverageNodes
      /\ r.measurement_viable => \A n \in places : m \notin MigModels /\ node[n].migAlloc = 0

(* Each figure of the feed is true until something changes.  The nodes it  *)
(* lists for a model are those on which a probe pod would land, and        *)
(* gpu_free_open is the number of such pods that fit.  Of a settled        *)
(* cluster the census, which looks at Ready where the feed does not, calls *)
(* as much reachable, less only what pods hold.                            *)
FeedIsTrue ==
  "feed" \in fresh =>
    \A m \in Models :
      LET r    == FeedRow(feed, m)
          held == Total(used, Members(node, m)) IN
      /\ OpenNodesFor(feed, m) = {n \in Nodes : Accepts(n, m)}
      /\ r.gpu_free_open = Total([n \in Nodes |-> Free(n)], {n \in Nodes : Suits(n, m)})
      /\ r.gpu_free_open <= r.gpu_free
      /\ "snapshot" \in fresh /\ (\A n \in Nodes : Settled(n)) =>
           FleetRow(snapshot, m).allocatable_gpu_sum_swg - r.gpu_free_open \in 0 .. held
=============================================================================
