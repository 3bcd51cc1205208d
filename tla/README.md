# A TLA+ model of gpu-retirement-analysis

The repository asks whether replacing an old GPU by a newer one repays the
carbon embodied in the new one. It measures fixed workloads on shared cards of
a Kubernetes cluster, collects one row per repetition on a shared volume, and
computes break-even points from the rows. These modules model the parts in
which an unlucky order of events, a crash, or a boundary of the arithmetic
would corrupt a measurement without anyone noticing.

## 1. The system

| part | code | state | operations |
|---|---|---|---|
| power monitor | `measurement/power_monitor.py` | NVML handle, `_samples`, `_stop`, region marks | `start`, `mark_region_start/end`, `_sample_loop`, `stop` |
| timed region | `benchmarks/_context.py` | `region_start_s`, `region_stop_s` | `timed_region` |
| energy integral | `measurement/power_monitor.py` | none | `integrate_energy`, `_interp_power`, `clip_samples` |
| runner | `measurement/runner.py` | repetition, row, `run_id` | `measure_idle`, `run_once`, `_write_power_trace`, `_append_jsonl`, `main` |
| results volume | `k8s/results-pvc.yaml` | `runs.jsonl`, trace files | append, create |
| benchmarks | `benchmarks/matmul.py`, `resnet_train.py`, `llm_inference.py` | torch's generator, the data iterator | `run(ctx)` returning a `WorkloadResult` |
| result contract | `benchmarks/_result.py`, `_precision.py` | none | `WorkloadResult`, `extra_fields` |
| smoke runner | `k8s/run_llm_smoke.sh`, manifests | one Job, log and result file | submit, poll, stream, collect, clean up |
| reaper | `k8s/reap_aidan.sh` | none | delete labelled Jobs |
| run summary, fleet subset | `analysis/summarize_runs.py`, `fleet_subset.py` | none | select, group, average |
| carbon model | `analysis/carbon_model.py`, `grid_intensity.py`, `data/embodied/embodied_carbon.py` | the published tables | `break_even_jobs`, `payback_curve`, `main` |
| preflight | `measurement/preflight.py` | the record, NVML, a monitor | the checks, the power probe, the exit status |
| census and feed | `k8s/inventory.sh`, `summarize_census.py`, `nrp_availability.py` | a snapshot, a feed | count nodes by model, find where a pod fits |
| comparison | `k8s/compare_llm_runs.py` | none | group records, compare hashes, locate a divergence |

How they interact. The runner creates a monitor, hands it to the benchmark
through a `RunContext`, and the benchmark's `timed_region` marks it; the
monitor's thread samples meanwhile. `llm_inference` uses the NVML library
itself in the same process. Pods share nothing but the results volume. The
smoke runner and the reaper act on Jobs that the cluster's controllers also
act on. Before a sweep the census and the feed say which cards there are and
which are free, and the preflight accepts each card a pod lands on; after a
smoke run the comparison says whether two cards generated the same tokens. The
analysis reads what the volume holds once the pods are done: rows
are selected and grouped by the `config_id` and `work_hash` the benchmark gave
them, averaged, and compared pair by pair.

What is hard about it: two threads over one trace, one clock and one driver
library with a reference count; exceptions from anywhere in the workload, which
pass through two `finally` blocks; pods that are killed between any two steps
and launched again; appends by several pods to one file; names made from a
clock with a resolution of one second; client scripts that are interrupted while
the API server still carries out their requests; algebra whose cases depend
on signs and on what fits in a year; a cluster that changes under the tools that
count it; and rows of failed, short or unidentified
runs that one reader of the file drops and another may not. Each is listed in `PROJECT.json` under
"hazards" with its line and the properties that would catch it.

## 2. The modules

| module | models | instantiated by |
|---|---|---|
| `PowerMonitor` | one runner process: main thread, sampling thread, NVML | `MCPowerMonitor` |
| `PowerMonitorProofs` | the proofs of its safety properties | - |
| `TraceIntegral` | the integral over a clipped trace | `Preflight` |
| `Preflight` | the checks of a card, with its power probe | `MCPreflight`, `MCInspection` |
| `ResultsLog` | the abstract promise of the results volume | `Runner` |
| `Runner` | several runner pods on one volume | `MCRunner` |
| `RunnerProofs` | the proofs of its safety properties and of the refinement | - |
| `SmokeJob` | smoke clients, Jobs, controllers, reaper | `MCSmokeJob` |
| `SmokeProofs` | the proofs of its safety properties | - |
| `Workload` | the three benchmarks and the records they leave | `CompareRuns` |
| `WorkloadProofs` | the proofs about arguments, rows, units and the comparison | - |
| `CompareRuns` | the comparison of those records | `MCWorkload` |
| `FleetAnalysis` | from the rows to the pairs that are compared | `Quotes` |
| `Quotes` | what the command line prints of the pairs, and calls sourced | `MCFleetAnalysis`, `MCCarbonModel` |
| `FleetProofs` | the proofs about `FleetAnalysis` and `Quotes` | - |
| `BreakEven` | the threshold, the search, and the years they speak of | `MCBreakEven`, `MCCarbonModel` |
| `BreakEvenProofs` | the proofs of all that is checked of it | - |
| `Census` | the census and the feed on a cluster that changes | `MCCensus`, `MCInspection` |
| `InspectionProofs` | the proofs about `Preflight`, its trace, and `Census` | - |
| `Sums` | the sum of a function over a finite set | `Census`, `FleetAnalysis`, `TraceIntegral` |
| `SumProofs` | its laws, and induction on numbers and finite sets | - |

They follow the data: `PowerMonitor` is inside a repetition, `Runner` around
repetitions, `Workload` is what a repetition does, `FleetAnalysis` begins with
the rows `Runner` appends, and `BreakEven` with the pairs `FleetAnalysis`
reports. `Census` and `Preflight` come before all of it. Where one program uses
another's state, its module extends the other's: the probe's trace is
`TraceIntegral`'s, `CompareRuns` reads the rows `Workload` leaves, `Quotes`
prints the pairs of `FleetAnalysis`. Composing them in one state space would multiply interleavings that
never meet: `run_once` is sequential, and the analysis starts when the pods are
done. What one module takes from the one before it is said below.

**PowerMonitor.** `main` is the main thread's place in `_sample_idle_window` or
`run_once`, `sampler` the thread's place in `_sample_loop`; each action is the
code between two points at which the other thread, the clock or an exception
can come in. `marks` holds the monitor's `_start_energy_mj`, `_region_*` fields
and `whole_end_mj`; `nvml` is the library's reference count. A power value is
irrelevant here, so a sample is its timestamp and the instant the driver was
read; the energy counter only grows, so a reading of it is identified with its
instant, and `None` is a card without the counter or a failed read. Any driver
call may fail where the code catches it, and any statement of the workload may
raise.

**TraceIntegral.** `clip_samples`, `_interp_power` and `integrate_energy` in
exact integer arithmetic. The reference is the piecewise linear power function
summed over unit cells, on each of which it is linear. It has no behaviour of
its own but `TakeSample`, a turn of the sampling loop.

**Preflight.** One action per check of `main`, in the code's order; `record` is
what will be printed, `refs` and `sampling` what is left of NVML and of the
monitor's thread. Each check that catches its exceptions puts the failure into
the record; what `_torch_facts` and `_matmul_smoke` do not catch ends the
process without one. A card is what the process finds, and an entry of torch's
arch list a number with or without a tail, read as the code parses its name.
Energies are in the integral's units.

**Runner.** One action per step of `run_once` that another pod or a kill can
come between: the workload, the naming of the row, `open(path, "w")`, the
samples, the append, the return. The benchmark, and so that part of the
`run_id`, is the same in every pod. `runs.jsonl` is a sequence of pieces, a
torn one being what an interrupted append leaves. `named` is history: the runs
that each `run_id` was given to, which the code keeps nowhere and the properties
compare traces with. What it does to the workload's
exceptions follows the code: those of `run()` leave a row, those of
`monitor.start()` and `monitor.stop()` end the process without one.

**ResultsLog** is what the volume promises: each repetition is recorded at most
once, no record is taken back, and a repetition is reported only once recorded.
`Runner` implements it under `recorded <- {r.run : r \in Rows}`.

**SmokeJob.** `at` is the client's place in the script; `cleanup` and `delete`
are the trap. An arm is the Job a client's `apply` created together with its
one pod (`backoffLimit: 0`). The API server, controllers and kubelet are
modelled from how the script and the manifest use them and are marked external.
Timeouts may fire at any time. The settle loop's is split by what its reads saw:
`SettleTimeout` is two minutes of reads that were answered, which is longer than
a pod takes to close; `SettleUnread` is two minutes of blank phases, and gives up
on a pod in any state. The script says "run did not succeed" in both; `code`
keeps them apart as "notSucceeded" and "unread". The trap exits with the `$?` it
found, which an interrupted command may have left at anything and a `sleep` that
ended at zero: `Signal` and `SignalAgain` choose either status (`TrapStatus`), and
`code` keeps a zero of that kind apart, as "interrupted", from that of a script
which ran to its end, "ok". Only a whole `RESULT_JSON` line is modelled, not a
torn one.

**Workload.** A process runs one benchmark with one set of arguments, again and
again. A unit of work is the samples of a batch, the token rows of one
`generate()`, or the shape of a multiplication; `warm` and `work` are the units
before and in the timed region, and `did` in a row is history: what was really
done, for the properties to compare with what the row says. A hash is what is
hashed and a `config_id` its parts, so distinct inputs have distinct hashes.
`generate()` may return any tokens, and fewer than asked for; a unit of any
benchmark may raise. `rng` is torch's default generator as a seed and the draws
since, with an unknown state at the start of a process. Left out: the precision
and the seeds (equal in every run here), keys of `extra` that a workload writes
out itself, argument types (`argparse` and `--set` give integers), and a region
of no duration.

**CompareRuns.** `Records` are the LLM rows in `Workload`'s order, and the
sidecars that are still there a subset of them. The tool is a pure function of
both, so it is a set of operators over `Workload`'s states.

**FleetAnalysis.** The variable is the file; `PossibleRows` is every row
`run_once` can write for a pod: measured, under the floor, failed (with a blank
`config_id` and energy of the whole run), without power, and each with or
without a readable card name. A failed run may also have a region's energy when
it failed after the region; it is excluded all the same. A mean is a sum and a
count, so that comparisons are exact. Left out: `gpu_uuid` and the count of
physical cards, standard deviations, the idle window before the context, notes.
A torn line is not part of it: both readers raise there, which `runner_lost`
is about.

**Quotes.** The published embodied tables are computed from `GPUS` in exact
integers, and `MCFleetAnalysis` asserts that they are the committed ones. An
invocation is the arguments `main` is called with; `Printed` is what it prints
for the file: nothing when the region is unknown, the decline out of range, the
gate closed or the override inverted. A name is a sequence of words, blanks and
hyphens (`Spelling`), and `_normalise_gpu_model` is the code's function on it:
hyphens to blanks, lower case, blanks dropped. A card's label is its NVML name
with a hyphen for each blank (`Hyphenated`), as feature discovery writes it and as
the committed tables have it.

**BreakEven.** The variables are one replacement lived through year by year,
with `annual_energy_j` and `at_year`. `break_even_jobs`, its snapshot form and
`payback_curve` are operators, at either end of the embodied range; a job count
is a fraction. Only rates of work that
fit in the year on both cards are lived through, since `annual_energy_j` raises
on others. A saving is counted as the code counts it (`counted_j`): of a suppressed
idle differential a whole year's idling is left out (`scatter_j`), while its share
in the price of each job stays.

**Census.** A node object keeps what the two tools read of it. The cluster is
external: labels come and go, kubelets stop answering, nodes are cordoned and
reserved, devices are withheld, pods of others take and give back cards, and the
lifecycle taint follows some time after its cause. `snapshot` and `feed` are
what each tool fetched; `fresh` says whether anything has changed since. The
tables are operators on them. A product label that is the empty string, which
would fall outside all three lists of nodes, is left out: feature discovery
writes none.

## 3. What each run checks

| run | question | bounds | result |
|---|---|---|---|
| `power_monitor` | the trace, its window and NVML's lifetime; `stop` returns | 2 monitors, clock 0..2, interval 1 | holds |
| `inspection` | the preflight's exit status is true of the card, its figures of the trace | 22 cards of 7 generations, 3 builds; 4 samples, gaps up to 3, powers {0,1,3}, every window | holds |
| | the census loses no card and counts none twice; reachable is where a pod fits | 3 nodes of 10 kinds, 2 models, 2 changes, any number of queries | holds |
| `runner` | the volume implements the log; traces and exit codes are true | 2 pods with PIDs of their own, 2 repetitions, one relaunch, 2 seconds | holds |
| `runner_lost` | a reported repetition keeps its row or its trace | the same, both process 1 | violated |
| `smoke_job` | exit statuses, records and cleanup | 2 clients for one card, 2 seconds | holds |
| `smoke_namesakes` | who deletes another's Job does not exit zero for it | as above | violated |
| `smoke_job_live` | cards, Jobs and scripts end | 1 client | holds |
| `workload` | rows that look alike did alike work, as much as they say; the comparison of them is true | 2 processes, 2 rows, 7 samples in batches of 2, 2 tokens, up to 6 of them | holds |
| `carbon_model` | like is compared with like, in any order of rows; what is printed as sourced is | 3 rows of 65 possible, 5 pods, 2 energies, 6 invocations | holds |
| | threshold and search against the years, at both ends of the range | 3 years, 20 cards, all pairs and feasible rates, 2 ranges, 2 declines | holds |
| `break_even_suppressed` | a suppressed idle differential counts as that of cards idling alike | as above | violated |
| `fleet_unmeasured` | what is printed as sourced was measured | as `carbon_model` | violated |
| `census_relabel` | the printed total keeps still under any relabelling | as `inspection` | violated |

Two runs hold two halves each. `MCInspection` has the preflight beside the
census, `MCCarbonModel` the pairs beside the years. The halves of a run have no
variable in common and neither reads the other's, so a property of one half is
true of all behaviours if it is true of those in which the other half rests;
only those are explored, which is the sum of the two state spaces instead of
their product.

Why the bounds are enough. Two monitors are the least number with which a stale
field, thread or reference of the first could reach the second; a clock of three
instants lets every pair of reads be ordered either way, and the proofs cover
all others. Two pods, one of them launched twice, are the least with which
appends interleave, names collide and a relaunch meets its own earlier rows; two
seconds give names that differ and names that do not. The clients of `smoke_job`
are for one card with one manifest, so that two that start in one second share a
name and the apply of one may find the other's Job; clients for different cards
never meet. An apply that is refused because the manifests differ is, to
everything checked here, an apply that fails, which it may at any time; the
proofs are for any manifests. Liveness is checked of one client, since no
fairness is asked of another.
Two rows are what the properties of `workload` compare, two processes let them
come from one process or from two, and its arguments surround every limit: plans
that end before, at and after a dataset that batches do not divide, generations
with equally many tokens in different shapes, no units, no warmup, negative
warmup. Two tokens and six places make every pattern of overlapping repeats.
Three rows are a pair of cards with one row more, which is what a mixed group,
a swap, a second repetition of a pod, and a second pod of a model need.
Three years give the declining grid room to bend the sum, and the cards cover
both signs of both linear terms, suppressed, kept and zero idle differentials.
The cards of `inspection` are sound or broken in one way each, on builds that have
exactly, nearly, and not their code. There the coverage flag asks for two
nodes (for three in the code), and three are one more; two changes let a label,
a cordon or a device change with its taint still to come.

`CHECK_DEADLOCK FALSE` is given everywhere but in `census_relabel`: processes
exit, scripts end, clocks are bounded and years run out.

Fairness. `PowerMonitor`: weak fairness of the thread's loop and of `stop`'s
steps, which are scheduled threads making driver calls that return; none of the
workload, which may hang. `SmokeJob`: weak fairness of each controller, of the
kubelet's phase update and of a script that nothing happens to; none of
scheduling (a card may never be free), of the container, of the user who starts
a script or of the reaper.

## 4. What the violated runs show

Three of the five properties join two promises in one: each is broken only
where both are, so that one run shows the two.

- `runner_lost` (`ReportedIsKept`). The PID in `run_id` (`runner.py:415`)
  tells processes of one PID namespace apart. Pods are containers, where the
  image's ENTRYPOINT is process 1, so two pods that end the same repetition in
  the same second name their traces alike and one is overwritten. And
  `_append_jsonl` (`runner.py:338`) protects a reported row from the preemption
  of its own pod, but another pod's torn line before it takes it along. The
  repetition of the run loses both its row and its trace.
- `smoke_namesakes` (`WrongDeleteFails`). `delete_ours` (`run_llm_smoke.sh:105`,
  `:115`) knows its Job by the slug and the second, so of two clients for one
  card that start in the same second each takes the other's Job for its own.
  And `cleanup` (`:137`) exits with the `$?` it found, which after a `sleep` or a
  `kubectl` that went well is zero, where the last line of the script (`:277`)
  keeps zero for a run that succeeded. The client of the run is interrupted,
  deletes the other's Job and exits zero.
- `fleet_unmeasured` (`SourcedIsMeasured`). `load_card_energy`
  (`carbon_model.py:387`) reads a blank idle figure as 0 W, so a card whose idle
  window failed competes as one that draws nothing, where the tests call a
  missing figure a gap (`test_idle_power.py:70`). And the answer is tagged as
  sourced, where the docstrings say that all output stays provisional
  (`carbon_model.py:12`, `:429`, `:1020`): they were written before the grid's
  presets had sources.
- `break_even_suppressed` (`SuppressedAsAlike`). A suppressed idle differential
  is said to be treated as zero, the cards idling alike (`carbon_model.py:723`).
  It is dropped from the idle term only; its share of a job's price stays, and
  where the new card idles higher the answer is too optimistic.
- `census_relabel` (`TotalDoesNotMove`). The printed total of nodes that
  advertise a GPU is said not to move with a label (`summarize_census.py:290`).
  It does for a node whose devices are withheld or sliced: it is in the total
  only while it has no label.

The passing runs state what holds, and where that is less than one would like
the property says so:

- `PassIsSound` speaks, of code for the card, only of generations with one
  digit. Those with two are misread (`preflight.py:75`): `sm_120` is taken for
  revision 20, so a sound card of capability 12.0 on a build for it is refused,
  though the same record says that the capability matches. An entry such as
  `sm_90a` on a card 9.x raises, and no record is printed. A matrix product that
  is finite but wrong passes.
- `RelabelSplits` says for which nodes the census' printed claim is true, the
  claim itself being violated in `census_relabel`.
- `BreakEvenIsExact` and `CurveIsFirstYear` compare with the saving that counts:
  of a suppressed pair, as every pair the fleet has measured is, a year's idling
  of the differential is left out. That the counted saving is what two such cards
  really save is not said.
- `SuppressionErrsOneWay` says how far off a suppressed answer can be. It is
  never too optimistic where the old card idles higher, nor too pessimistic where
  the new one does; no text of the repository says so, and
  `break_even_suppressed` shows that more is not true.
- `CurveIsFirstYear` leaves out the case in which a job saves nothing and the
  idle differential alone repays the card: the answer of zero jobs is then taken
  to be reached by every utilisation (`carbon_model.py:926`), though each job
  takes some of the saving back, and the year named is wrong.
- `EqualRowsEqualWork` and `EnergyIsPerUnit` leave out rows of `llm_inference`
  that say their iterations differ, which the code logs as no fixed work
  (`llm_inference.py:634`). `aggregate` does not look at that flag
  (`summarize_runs.py:155`) and averages such rows with others of one
  `work_hash`, which covers the last iteration only.
- `SuccessIsTrue` is about scripts that run to their end, and of the record only
  where no other client has the name. `GoodRunIsSuccess` is about phases that
  could be read: after two minutes of blank ones the script reports any run as
  one that did not succeed (`run_llm_smoke.sh:233`).
- `CoverageIsTrue` and `FeedIsTrue` hold of what has not changed since it was
  fetched; nothing in the code bounds how stale it may be.
- `ComparisonIsTrue`: two runs whose later batch rows differ are called a
  mismatch without an index; a run whose own iterations differ is compared all
  the same.
- `QuoteIsSourced`: `--annual-decline` is an assumption without a citation and
  leaves the tag at "sourced". That the two tables meet on a card is for labels
  that are names with hyphens for blanks.
- Not a property: the threshold is checked against the hours of the new card
  only (`carbon_model.py:760`).

## 5. What is proved

`PowerMonitorProofs` proves, for every length of the clock, number of monitors
and interval (`MonitorAssumption`), that `Spec` implies each safety property
the run `power_monitor` checks: `TypeCorrect`, `SamplerSafe`,
`SamplerStaysAlive`, `TraceIsOrdered`, `RegionIsCovered`, `TraceIsCovered` and
`TraceStaysFinal`.

None of them is inductive by itself. `IInv` joins seven named parts. `ThreadInv`
relates the two program counters: from `launch` to the join the thread is alive,
and it has exited wherever `stop` is past the join. `NvmlInv` says how many
references the main thread's place accounts for, from which a live thread finds
the driver up. `TraceInv` orders the samples and bounds the thread's local
timestamp by them and the clock. `MarksInv` orders the marks by where the main
thread is in its region, `CounterInv` places the first counter reading before
every sample and the last after them, and `ResultInv` carries these facts into
the summary. Each part has a lemma that every action preserves it; the theorems
follow by temporal induction. `IInv` itself was checked with TLC before it was
proved.

`RunnerProofs` proves, for any pods, PIDs, repetitions and launches
(`RunnerAssumption`), `RunnerTypeCorrect`, `ZeroExitIsComplete` and
`VolumeImplementsLog`, the refinement of `ResultsLog`. Its `IInv` joins
`TypeOK` and three parts. `NameInv`: a pod between naming and appending holds a
name of a second that has come, of its own repetition and PID. `PastInv`: a row
is of a run its pod is past, so that it can be appended only once, and what is
reported is in the file. `CompleteInv`: a pod goes on from a repetition only
with its row in the file, which is what a zero exit adds up. `TraceStaysOwn`
needs three parts more, and nothing of the PIDs. `SecondInv`: a launch names its
runs in later seconds than those before it. `NamedInv`: a trace holds only runs
that were given its name. `OwnInv`: a trace between its opening and its row is
its run's own as long as no other pod's run was given the name. The theorem is
`OwnUnlessNameIsShared`, which is what `run_id` guarantees whether or not PIDs
differ; `TraceIsOwn`, which the run checks for PIDs that do, fails for
containers. A relaunch in a later second is a guard of the model: a pod takes
longer than that to be scheduled.

`SmokeProofs` proves the three safety properties of `SmokeJob`, for any number of
clients, seconds, slugs and manifests, two clients of one name included
(`SmokeAssumption`). The `IInv` of `ClientInvariant` joins `TypeOK` and
`CleansUp` with what they rest on: a pod's phase fits the way its container
ended (`ArmInv`); a name in the cluster stands for the Job of a client that took
it and keeps it (`Named(jobs)`), and so in the log and result files (`FileInv`);
a client past its search follows some pod (`FollowInv`), one of a client of its
own name (`PodInv`); and "ok" was said of an arm that exited zero (`CodeInv`).
`CleanupIsComplete` is part of it; `GoodRunsSucceed` follows by what each step
may do to `code`; `ZeroExitIsTrue` adds that a name which one client has alone
stands for what is its own (`OneHolder`).

`InspectionProofs` is about the tools that only look. Its first part proves
`PassIsTrue`: for every card and every build of torch (`CardAssumption`) the
preflight's exit status is what `PassIsSound` says, which of code for the card
is said of generations with one digit only. Its `IInv` has four parts. `EndInv` keeps the status for the end and zero for a
printed record, `FoundInv` has each check that is over leave its finding in the
record, `ProbeInv` ties the probe's answer to the thread, and `StatusInv` makes
the status of the record. What is left is arithmetic on names: `ParseIsExact`,
that for a card of one digit's generation the comparison of the code is what
CUDA promises, and `RunsOnGeneration`, that no entry it passes over would run.

Its second part proves `FiguresAreExact`, for traces of any length, gap and
power (`TraceAssumption`). `TraceInv` orders the samples and makes every power a
multiple of `Scale`, so that between two neighbours the power changes by a whole
number a second (`SlopeExists`) and the division of `_interp_power` is exact
(`InterpIsExact`). On a stretch without a sample inside the power is a line, and
the unit cells come to the trapezoid of its ends (`Segment`). `clip_samples` is
then followed sample by sample (`Reaches`): what has been clipped comes to the
power's energy up to its last point, and the last sample of the window is never
passed over. The probe's figures rest on the least difference of two readings
being one of neighbours (`StepsAre`), and the energy on each trapezoid lying
between the range's ends (`EnergyIsBetween`).

Its third part is the cluster. `ClusterInv` says that a node is one that
Kubernetes keeps (`Sane`) and that what was read is what there was as long as
nothing has changed since (`ReadInv`). From it follow, for any nodes, kinds and
models (`KindAssumption`), `NoneIsLost`, `CoverageHolds`, `FeedHolds` and, for a
relabelling, `SplitsExactly`: the tables are cardinalities and sums over nodes,
and each is compared part by part with the set it counts (`FleetSharesOut`,
`ThreeParts`, `ReachableIsFreeOrHeld`).

`WorkloadProofs` proves, for any dataset without repeats, batch size, vocabulary
and arguments (`WorkloadAssumption`), `ChecksSuffice`, `PooledRowsAreAlike` and
`UnitsAreAlike`. The `IInv` there says how far `run()` has come (`PlaceInv`),
that the batches so far are the plan's and the loader holds the rest of it
(`PlanInv`), what a unit of the other two benchmarks is (`UnitInv`), and that
each row is of accepted arguments and holds what they determine (`RowInv`). Two
steps need arithmetic that no solver finds by itself and stand as lemmas:
`Takes`, that a loader with units left to give has a whole batch, and
`HashIsTokens`, that the flat list of tokens determines its rows once their shape
is known, which it is from `config_id`. That no sample occurs twice is a count,
`SamplesDiffer`, by a bijection with the positions of the plan.

It also proves `LongestIsExact` and `ComparisonHolds`. That a sequence of n
tokens occurs twice is monotonic in n, so the lengths that do are those up to a
longest one (`LongestExists`); the search by halves has an answer for every range
(`SearchIsDefined`) and keeps the longest in its range (`SearchFinds`, by
induction on the range's length). In a comparison, records of one `config_id`
are generations of one shape (`OneConfig`), so their hashes differ exactly when
their tokens do.

`BreakEvenProofs` proves everything `carbon_model` checks of `BreakEven`, for any cards, embodied
range, decline and number of years (`BreakEvenAssumption`). What a pair saves in
a year, counted as the code counts it, is linear in the jobs (`LinearForm`), and
its saving after some years is that times the cumulative intensity, which a recursive definition sums
(`CumulativeIsSum`); this is the invariant `SavedIsAccounted`, the years lived
through against the closed form. `ClosedFormIsExact`, `CurveFindsTheYear`,
`LowEndPaysFirst`, `SuppressionIsOneSided` and `FormsAreOne` are then a matter
of signs: where a linear form crosses the debt, which grows from the low end to
the high (`ReachedIsMonotonic`, `HoursAreMonotonic`).

`FleetProofs` proves everything `carbon_model` checks of the other half, for any pods, any number
of rows and any order of them. The invariant is `RowsAreWritten`, that each row
is one `run_once` can write, from which a row's flags say what its figures are
(`RowShapes`). `LikeWithLike` and `ReadersAgree` follow a figure back to the rows
behind it, `AnyOrder` carries each sum over a permutation of the rows,
`PodsWeighAlike` makes the idle mean a sum over pods, and `SourcedIsPublished`
follows a printed range back to the table.

`SumProofs` is what they share. The library's induction theorems take a predicate,
which the provers here cannot instantiate; for induction on numbers (`UpTo`) and
on the subsets of a finite set (`SubsetInduction`) the predicate is given as the
set of what satisfies it. `TotalTypes`, `TotalRemoves` and `TotalOfUnion` are the
laws of the sum that the modules use.

What the assumptions on constants say beyond types, and why the code justifies
it. `TraceAssumption`: `Scale` is a multiple of every gap, which makes the exact
arithmetic of the model possible; the code's is in floating point.
`PodAssumption`: a `work_hash` is not blank, since `WorkloadResult` requires it;
`ModelOrder` begins with the blank, as Python's sort does; no two pods measured the
same idle average, by which `_distinct_numeric` tells them apart: it is what the
code relies on, and `PodsWeighAlike` is false without it. `QuoteAssumption`: the table's labels are the
NVML names with hyphens for blanks, as in the committed tables, and no two cards
have names that differ in case and separators only; that the tables then meet is
proved of the code's string function (`SourcedIsPublished`). `KindAssumption`: a node
allocates no more than it has. `BreakEvenAssumption`: an embodied range is
positive and its low end is its lower one.

Only model-checked are the liveness, `StopReturns`, `GpuIsReleased`,
`JobsAreSwept` and `ScriptEnds`, for the prover has no fairness or ENABLED, and
`TraceIsOwn`, of which `TraceStaysOwn` is the form that needs no assumption on
PIDs. Every other property of a passing run has a theorem. The five violated
properties are of course not theorems.

## 6. Not modelled

The benchmarks' numerical work and torch's flags compute a value from constants.
Sites, regions, drivers and versions are columns that are copied. Of the carbon
model, notes, the `interpretable` flag and `EmbodiedEstimate.scaled` (which
nothing calls) are left out; of the analysis, the flat table and standard
deviations; of the command lines, parsing. The manifests that no script
submits and the image are data. `PROJECT.json` lists each part with its reason.

## 7. Plan

Done: every module, and a proof of every safety property that a passing run
checks but `TraceIsOwn`. Next, in this order:

1. The threshold against the hours of the old card (`carbon_model.py:756`): the
   answer may ask for more jobs than the old card has hours for. A property of
   `BreakEven` would say how much the check on the new card alone lets through.
2. `monitor.start()` and `stop()` outside the `try` of `run_once`
   (`runner.py:381`), as a property of `Runner` about what a process that ends
   there leaves on the volume.
3. Rows without a readable card name (`summarize_runs.py:158`), which are pooled
   under one blank name.
4. The cases section 4 says a property leaves out, each as a property that the
   code breaks: `payback_curve` where a job takes back (`carbon_model.py:926`),
   averaged rows whose iterations differ (`summarize_runs.py:155`), and cards of
   two-digit generations (`preflight.py:75`).
