----------------------------- MODULE Preflight -----------------------------
(***************************************************************************)
(* preflight.py: the checks run once on each card before its data is       *)
(* trusted.  They run one after the other and each keeps its failure to    *)
(* itself, so that the record is printed whatever is wrong with the card.  *)
(* The power probe is a use of PowerMonitor without a marked region; its   *)
(* trace is TraceIntegral's.                                               *)
(***************************************************************************)
EXTENDS TraceIntegral

CONSTANT Cards    (* what the process finds: see CardAssumption            *)

(* An entry of torch's arch list: sm_86 is 86, sm_90a has a tail.  CUDA    *)
(* builds of torch start at sm_20, and no generation has reached 20.       *)
Arch == [sm : 20 .. 199, tail : BOOLEAN]

(* computes is what the matrix product gives, and binding whether pynvml   *)
(* can be imported; the driver answers NVML or does not.                   *)
ASSUME CardAssumption ==
  \A c \in Cards :
    /\ DOMAIN c = {"cuda", "major", "minor", "archs", "computes", "binding", "driver", "counter", "skip_power"}
    /\ c.major \in Nat \ {0, 1} /\ c.minor \in 0 .. 9 /\ c.archs \subseteq Arch
    /\ c.computes \in {"finite", "nan", "raises"}
    /\ {c.cuda, c.binding, c.driver, c.counter, c.skip_power} \subseteq BOOLEAN

VARIABLES
  card, stage,
  record,    (* what is printed; "" stands for None or an absent key       *)
  printed,   (* PREFLIGHT_JSON is in the pod's log                         *)
  refs,      (* nvmlInit calls without their nvmlShutdown                  *)
  sampling,  (* a monitor's thread is running                              *)
  exit       (* the process's exit status                                  *)

pvars == <<samples, card, stage, record, printed, refs, sampling, exit>>

None == -1
YesNo(b) == IF b THEN "yes" ELSE "no"

Empty ==
  [cuda_available |-> "", capability_exact_match |-> "", capability_supported |-> "",
   matmul_ok |-> "", nvml_import_ok |-> "", energy_counter_supported |-> "",
   nvidia_smi |-> "", power_probe_ok |-> "", energy_j |-> None, n_power_samples |-> None,
   distinct_power_values |-> None, min_observed_step_w |-> None, power_range_w |-> <<>>]

----------------------------------------------------------------------------
(* _torch_facts' reading of an arch's name: it begins with the card's      *)
(* major, and what follows the first digit is a number.                    *)
OfGeneration(a, c) ==
  IF c.major >= 10 THEN a.sm \div 10 = c.major
  ELSE (IF a.sm >= 100 THEN a.sm \div 100 ELSE a.sm \div 10) = c.major

AfterFirstDigit(a) == IF a.sm >= 100 THEN a.sm % 100 ELSE a.sm % 10

(* Mutation: a cubin must be for the card's own capability.                *)
CompatibleExact(c) == {a \in c.archs : a.sm = 10 * c.major + c.minor}

Compatible(c) == {a \in c.archs : OfGeneration(a, c) /\ AfterFirstDigit(a) <= c.minor}

ToRecord(facts, next) == record' = facts /\ stage' = next

(* What nothing catches ends the process without a record.                 *)
Uncaught ==
  /\ stage \in {"torch", "matmul"}
  /\ stage' = "done" /\ exit' = 1
  /\ UNCHANGED <<samples, card, record, printed, refs, sampling>>

_torch_facts ==
  /\ stage = "torch"
  /\ card.cuda => \A a \in card.archs : OfGeneration(a, card) => ~a.tail
  /\ ToRecord([record EXCEPT
                 !.cuda_available = YesNo(card.cuda),
                 !.capability_exact_match =
                   IF card.cuda
                   THEN YesNo(\E a \in card.archs : a.sm = 10 * card.major + card.minor /\ ~a.tail)
                   ELSE "",
                 !.capability_supported = IF card.cuda THEN YesNo(Compatible(card) # {}) ELSE ""],
              "matmul")
  /\ UNCHANGED <<samples, card, printed, refs, sampling, exit>>

_matmul_smoke ==
  /\ stage = "matmul"
  /\ ToRecord([record EXCEPT !.matmul_ok = YesNo(card.cuda /\ card.computes = "finite")], "nvml")
  /\ UNCHANGED <<samples, card, printed, refs, sampling, exit>>

(* _nvml_facts.  A query that raises after nvmlInit skips nvmlShutdown.    *)
_nvml_facts ==
  /\ stage = "nvml"
  /\ \E queried \in IF card.binding /\ card.driver THEN BOOLEAN ELSE {FALSE} :
       /\ ToRecord([record EXCEPT
                      !.nvml_import_ok = YesNo(card.binding),
                      !.energy_counter_supported = IF queried THEN YesNo(card.counter) ELSE ""],
                   "smi")
       /\ refs' = IF card.binding /\ card.driver /\ ~queried THEN refs + 1 ELSE refs
  /\ UNCHANGED <<samples, card, printed, sampling, exit>>

nvidia_smi ==
  /\ stage = "smi"
  /\ \E out \in {"answer", "failed"} :
       ToRecord([record EXCEPT !.nvidia_smi = out], IF card.skip_power THEN "print" ELSE "probe")
  /\ UNCHANGED <<samples, card, printed, refs, sampling, exit>>

----------------------------------------------------------------------------
(* _power_probe: monitor.start(), a load while the thread samples, and     *)
(* monitor.stop().  Whatever raises is put into the record; what a raise   *)
(* leaves behind is the reference of nvmlInit and, if it came from the     *)
(* load, the thread.                                                       *)
ProbeFails == ToRecord([record EXCEPT !.power_probe_ok = "no"], "print")

StartRaises ==
  /\ stage = "probe" /\ ProbeFails
  /\ refs' \in IF card.binding /\ card.driver THEN {refs, refs + 1} ELSE {refs}
  /\ UNCHANGED <<samples, card, printed, sampling, exit>>

Start ==
  /\ stage = "probe" /\ card.binding /\ card.driver
  /\ stage' = "load" /\ sampling' = TRUE /\ refs' = refs + 1
  /\ UNCHANGED <<samples, card, record, printed, exit>>

Sample ==
  /\ stage = "load" /\ TakeSample
  /\ UNCHANGED <<card, stage, record, printed, refs, sampling, exit>>

LoadRaises ==
  /\ stage = "load" /\ ProbeFails
  /\ samples' = <<>>
  /\ UNCHANGED <<card, printed, refs, sampling, exit>>

StopRaises ==
  /\ stage = "load" /\ ProbeFails
  /\ samples' = <<>> /\ sampling' = FALSE
  /\ UNCHANGED <<card, printed, refs, exit>>

watts == {samples[i].p : i \in DOMAIN samples}

(* The differences of neighbours in the sorted list of distinct readings.  *)
steps == {Min({v \in watts : v > w}) - w : w \in watts \ {IF watts = {} THEN 0 ELSE Max(watts)}}

(* The full_run branch of stop(), and what the probe adds to it.           *)
probe_record ==
  [record EXCEPT
     !.power_probe_ok = YesNo(samples # <<>>),
     !.energy_j = integrate_energy(samples),
     !.n_power_samples = Len(samples),
     !.distinct_power_values = Cardinality(watts),
     !.min_observed_step_w = IF steps # {} THEN Min(steps) ELSE None,
     !.power_range_w = IF watts = {} THEN <<>> ELSE <<Min(watts), Max(watts)>>]

Stop ==
  /\ stage = "load"
  /\ ToRecord(probe_record, "print")
  /\ samples' = <<>> /\ sampling' = FALSE /\ refs' = refs - 1
  /\ UNCHANGED <<card, printed, exit>>

(* main: the record is printed, then the hard failures set the status.     *)
failures ==
  {check \in {"cuda_available", "capability_supported", "matmul_ok", "nvml_import_ok"} :
     record[check] = "no" \/ (check # "capability_supported" /\ record[check] = "")}

Gate ==
  /\ stage = "print"
  /\ printed' = TRUE /\ exit' = IF failures = {} THEN 0 ELSE 1
  /\ stage' = "done"
  /\ UNCHANGED <<samples, card, record, refs, sampling>>

PInit ==
  /\ samples = <<>> /\ card \in Cards /\ stage = "torch" /\ record = Empty
  /\ printed = FALSE /\ refs = 0 /\ sampling = FALSE /\ exit = None

PNext ==
  \/ Uncaught \/ _torch_facts \/ _matmul_smoke \/ _nvml_facts \/ nvidia_smi
  \/ StartRaises \/ Start \/ Sample \/ LoadRaises \/ StopRaises \/ Stop \/ Gate

PSpec == PInit /\ [][PNext]_pvars

----------------------------------------------------------------------------
(* What CUDA promises: a cubin runs on its own generation from its minor   *)
(* revision on, and one with a tail on its own capability only.            *)
RunsOn(a, c) ==
  /\ a.sm \div 10 = c.major
  /\ IF a.tail THEN a.sm % 10 = c.minor ELSE a.sm % 10 <= c.minor

(* Zero means that a record was printed, that the card computes, that the  *)
(* build has code for it and that NVML can be used; a printed record of a  *)
(* card of which all of that is true ends in zero; it holds every check    *)
(* that was to be made, whatever failed; and a probe that counts as made   *)
(* has left no thread behind.  Of code for the card this speaks only of    *)
(* generations with one digit: what follows the first digit of sm_120 is   *)
(* read as its minor revision, and a sound card of that kind is refused.   *)
PassIsSound ==
  stage = "done" =>
    LET built == \E a \in card.archs : RunsOn(a, card)
        good  == card.cuda /\ card.computes = "finite" /\ card.binding IN
    /\ exit = 0 => printed /\ good
    /\ exit = 0 /\ card.major < 10 => built
    /\ printed /\ good /\ built /\ card.major < 10 => exit = 0
    /\ printed => /\ record.matmul_ok # "" /\ record.nvidia_smi # ""
                  /\ record.power_probe_ok = "" <=> card.skip_power
                  /\ record.power_probe_ok = "yes" => ~sampling

(* The figures made of a trace are true of it, whenever stop() comes.  Over *)
(* a window, clipping and integrating is integrating the power.  In what   *)
(* the probe reports, no two distinct readings are closer than             *)
(* min_observed_step_w and two are as close, and the energy lies between   *)
(* the range's ends held for the duration (energies here are in halves).   *)
TraceFiguresAreExact ==
  /\ ClipIsExact
  /\ stage = "load" /\ Len(samples) > 1 =>
       LET r    == probe_record
           gaps == {v - w : v, w \in watts} \cap (Nat \ {0})
           span == samples[Len(samples)].t - samples[1].t IN
       /\ IF gaps = {} THEN r.min_observed_step_w = None /\ r.distinct_power_values = 1
          ELSE r.min_observed_step_w = Min(gaps)
       /\ r.distinct_power_values <= r.n_power_samples
       /\ 2 * span * r.power_range_w[1] <= r.energy_j
       /\ r.energy_j <= 2 * span * r.power_range_w[2]
=============================================================================
