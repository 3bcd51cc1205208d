---------------------------- MODULE FleetAnalysis ----------------------------
(***************************************************************************)
(* From the rows of runs.jsonl to the replacements the carbon model        *)
(* reports: run_once's row, fleet_subset's select, summarize_runs'         *)
(* aggregate, and carbon_model's load_card_energy, _pairs and main.        *)
(*                                                                         *)
(* The file grows a row at a time, in any order; the analysis is a         *)
(* function of it.  A mean is kept as a sum and a count, and a figure per  *)
(* job as a numerator and a denominator, so that nothing is rounded.       *)
(***************************************************************************)
EXTENDS Integers, Sequences, SequencesExt, Sums

CONSTANTS
  Pods,          (* what each pod runs, and on what: see PodAssumption      *)
  Energies,      (* energy_j of one repetition                              *)
  ModelOrder,    (* gpu_model names as sorted() orders them, blank first    *)
  ConfigOrder,   (* and config_ids                                          *)
  KEEP_CONFIGS,  (* fleet_subset's current sizings                          *)
  Embodied,      (* the models the embodied-carbon table has a row for      *)
  MaxRows        (* rows in the file: bounds the model                      *)

Blank == ""
None  == -1

(* idle is the pod's idle_post_context_avg_w, or None where it could not   *)
(* be measured. Two pods never read the same float.                        *)
ASSUME PodAssumption ==
  /\ Pods \subseteq [config : Range(ConfigOrder), model : Range(ModelOrder) \ {Blank},
                     inner : Nat \ {0}, hash : STRING \ {Blank}, runtime : Nat \ {0}, idle : Nat \cup {None}]
  /\ \A p, q \in Pods : p.idle = q.idle => p = q \/ p.idle = None
  /\ Energies \subseteq Nat
  /\ ModelOrder \in Seq(STRING) \ {<<>>} /\ Head(ModelOrder) = Blank
  /\ MaxRows \in Nat

VARIABLE file    (* runs.jsonl, with the pod that wrote each row            *)

Row ==
  [pod : Pods, config : Range(ConfigOrder) \cup {Blank}, model : Range(ModelOrder),
   inner : Nat, hash : STRING, energy : Energies \cup {None}, runtime : Nat \cup {None},
   idle : Nat \cup {None}, window : {"region", "full_run", Blank},
   below_30s_floor : {"true", "false", Blank}, exclusion_reason : BOOLEAN]

----------------------------------------------------------------------------
(* run_once's row for each way in which a repetition ends.  seen is        *)
(* whether _observed_hardware could read the card's name.                  *)

Identity(p, seen) == IF seen THEN p.model ELSE Blank

MeasuredRow(p, e, seen) ==
  [pod |-> p, config |-> p.config, model |-> Identity(p, seen), inner |-> p.inner,
   hash |-> p.hash, energy |-> e, runtime |-> p.runtime, idle |-> p.idle,
   window |-> "region", below_30s_floor |-> "false", exclusion_reason |-> FALSE]

(* Mutation: a short window is only flagged.                               *)
ShortRowKept(p, e, seen) ==
  [MeasuredRow(p, e, seen) EXCEPT !.below_30s_floor = "true"]

(* Its power window is under the floor.                                    *)
ShortRow(p, e, seen) ==
  [MeasuredRow(p, e, seen) EXCEPT !.below_30s_floor = "true", !.exclusion_reason = TRUE]

(* The benchmark raised: nothing it would have returned is there.          *)
FailedRow(p, e, seen) ==
  [MeasuredRow(p, e, seen) EXCEPT
     !.config = Blank, !.inner = 0, !.hash = Blank, !.runtime = None,
     !.window = "full_run", !.exclusion_reason = TRUE]

(* --no-power: neither power nor hardware is looked at.                    *)
UnpoweredRow(p) ==
  [MeasuredRow(p, None, FALSE) EXCEPT
     !.idle = None, !.window = Blank, !.below_30s_floor = Blank]

PossibleRows ==
  {UnpoweredRow(p) : p \in Pods} \cup
  {MeasuredRow(p, e, seen) : p \in Pods, e \in Energies, seen \in BOOLEAN} \cup
  {ShortRow(p, e, seen) : p \in Pods, e \in Energies, seen \in BOOLEAN} \cup
  {FailedRow(p, e, seen) : p \in Pods, e \in Energies, seen \in BOOLEAN}

Init == file = <<>>

AppendRow(row) ==
  /\ Len(file) < MaxRows
  /\ file' = Append(file, row)

Next == \E row \in PossibleRows : AppendRow(row)

Spec == Init /\ [][Next]_file

----------------------------------------------------------------------------
(* fleet_subset.select: the rows of the current sizings that can be        *)
(* trusted, as positions in the file.                                      *)
select(runs) ==
  {i \in DOMAIN runs :
     /\ runs[i].config \in KEEP_CONFIGS
     /\ ~runs[i].exclusion_reason
     /\ runs[i].below_30s_floor = "false"}

(* summarize_runs.aggregate: valid rows are grouped by configuration and   *)
(* observed model, and a group that disagrees on work_hash is refused.     *)
Key(row) == <<row.config, row.model>>

Valid(runs) == {i \in DOMAIN runs : ~runs[i].exclusion_reason}

Members(runs, key) == {i \in Valid(runs) : Key(runs[i]) = key}

Numeric(runs, I, field) == {i \in I : runs[i][field] # None}

fmean(runs, I, field) ==
  LET J == Numeric(runs, I, field)
  IN  [sum |-> Total([i \in J |-> runs[i][field]], J), count |-> Cardinality(J)]

(* Mutation: the mean of idle over rows.                                   *)
idle_mean_of_rows(runs, I) == fmean(runs, I, "idle")

(* Idle was measured once per pod and stands on each of its rows: only     *)
(* distinct values count.                                                  *)
idle_mean(runs, I) ==
  LET values == {runs[i].idle : i \in Numeric(runs, I, "idle")}
  IN  [sum |-> Total([x \in values |-> x], values), count |-> Cardinality(values)]

Summary(runs, key) ==
  LET I == Members(runs, key)
  IN  [config_id   |-> key[1],
       gpu_model   |-> key[2],
       work_hash   |-> runs[Min(I)].hash,
       inner_iters |-> {runs[i].inner : i \in I} \ {0},
       energy      |-> fmean(runs, I, "energy"),
       runtime     |-> fmean(runs, I, "runtime"),
       idle        |-> idle_mean(runs, I)]

(* Mutation: no group is refused.                                          *)
SameWorkAlways(runs, key) == TRUE

SameWork(runs, key) == Cardinality({runs[i].hash : i \in Members(runs, key)}) = 1

aggregate(runs) ==
  {Summary(runs, key) : key \in {k \in {Key(runs[i]) : i \in Valid(runs)} : SameWork(runs, k)}}

(* carbon_model.load_card_energy: rows without an energy per job, as those *)
(* of mixed inner_iters, are skipped. A job is one inner iteration.        *)
Usable(row) ==
  /\ row.energy.count > 0
  /\ row.runtime.count > 0
  /\ Cardinality(row.inner_iters) = 1

CardEnergy(row) ==
  LET inner == CHOOSE n \in row.inner_iters : TRUE
  IN  [gpu_model   |-> row.gpu_model,
       config_id   |-> row.config_id,
       inner_iters |-> inner,
       energy_j_per_job  |-> <<row.energy.sum, row.energy.count * inner>>,
       runtime_s_per_job |-> <<row.runtime.sum, row.runtime.count * inner>>,
       idle_w      |-> IF row.idle.count = 0 THEN <<0, 1>> ELSE <<row.idle.sum, row.idle.count>>,
       work_hash   |-> row.work_hash]

load_card_energy(table) == {CardEnergy(row) : row \in {r \in table : Usable(r)}}

(* _pairs: within a configuration, each card by a lower energy per job, or *)
(* by a later name where they are equal.                                   *)
Above(x, y) == x[1] * y[2] > y[1] * x[2]

ModelRank(card) == CHOOSE i \in DOMAIN ModelOrder : ModelOrder[i] = card.gpu_model
ConfigRank(card) == CHOOSE i \in DOMAIN ConfigOrder : ConfigOrder[i] = card.config_id

SortsBefore(c, d) ==
  \/ Above(c.energy_j_per_job, d.energy_j_per_job)
  \/ /\ ~Above(d.energy_j_per_job, c.energy_j_per_job)
     /\ ModelRank(c) < ModelRank(d)

_pairs(cards) ==
  {pair \in cards \X cards :
     pair[1].config_id = pair[2].config_id /\ SortsBefore(pair[1], pair[2])}

(* The order in which main comes to them.                                  *)
ComesFirst(x, y) ==
  \/ ConfigRank(x[1]) < ConfigRank(y[1])
  \/ /\ ConfigRank(x[1]) = ConfigRank(y[1])
     /\ SortsBefore(x[1], y[1]) \/ (x[1] = y[1] /\ SortsBefore(x[2], y[2]))

(* Mutation: cards are compared whatever they did.                         *)
_comparableAlways(old, new) == TRUE

(* _comparable: break_even_jobs raises on different work ...               *)
_comparable(old, new) ==
  \/ old.work_hash = Blank \/ new.work_hash = Blank
  \/ old.work_hash = new.work_hash

(* ... and main, which skips a new card without an embodied figure, ends   *)
(* at the first pair that raises.                                          *)
ReportedFor(runs, models) ==
  LET considered == {pair \in _pairs(load_card_energy(aggregate(runs))) :
                       pair[2].gpu_model \in models}
  IN  {pair \in considered :
         \A q \in considered :
           (q = pair \/ ComesFirst(q, pair)) => _comparable(q[1], q[2])}

Reported(runs) == ReportedFor(runs, Embodied)

----------------------------------------------------------------------------
(* The rows behind a card's energy figure.                                 *)
Behind(card) == Numeric(file, Members(file, <<card.config_id, card.gpu_model>>), "energy")

(* A reported replacement compares like with like: all rows on both sides  *)
(* did the same work under one configuration and were summed up over a     *)
(* timed region, and those behind one figure looped equally often.         *)
OneWorkPerFigure ==
  \A pair \in Reported(file) :
    LET rows(I) == {file[i] : i \in I}
        all == rows(Behind(pair[1]) \cup Behind(pair[2]))
    IN  /\ \A r, s \in all : r.config = s.config /\ r.pod.hash = s.pod.hash
        /\ \A r \in all : r.window = "region"
        /\ \A card \in {pair[1], pair[2]} :
             \A r \in rows(Behind(card)) : r.pod.inner = card.inner_iters

(* What is reported does not depend on the order in which the pods wrote.  *)
OrderIrrelevant ==
  LET table == aggregate(file)
      pairs == Reported(file)
  IN  \A i \in 1 .. Len(file) - 1 :
        LET swapped == [file EXCEPT ![i] = file[i + 1], ![i + 1] = file[i]]
        IN  aggregate(swapped) = table /\ Reported(swapped) = pairs

(* A pod weighs the same in a card's idle power however many repetitions   *)
(* it ran: the figure is the mean over the pods that measured one.         *)
IdleWeightsPods ==
  \A row \in aggregate(file) :
    LET pods == {file[i].pod : i \in Numeric(file, Members(file, <<row.config_id, row.gpu_model>>), "idle")}
    IN  /\ row.idle.count = Cardinality(pods)
        /\ row.idle.sum = Total([p \in pods |-> p.idle], pods)

(* The two readers of the file agree: for a sizing in use, the rows behind *)
(* a card's energy are exactly those that fleet_subset selects for it.     *)
FleetAgrees ==
  \A card \in load_card_energy(aggregate(file)) :
    card.config_id \in KEEP_CONFIGS =>
      Behind(card) = {i \in select(file) : Key(file[i]) = <<card.config_id, card.gpu_model>>}
=============================================================================
