------------------------------- MODULE Runner -------------------------------
(***************************************************************************)
(* measurement/runner.py in several pods at once, all of them writing to   *)
(* one results volume (k8s/results-pvc.yaml): one runs.jsonl that every    *)
(* repetition appends a row to, and one trace file per run_id.             *)
(*                                                                         *)
(* A pod measures idle power once and then runs its repetitions.  It can   *)
(* be killed at any moment (preemption, eviction, a job's deadline) and    *)
(* launched again by the operator, from repetition 1.                      *)
(*                                                                         *)
(* A run is a launch's repetition; its run_id is what the code calls it.   *)
(* runs.jsonl is a sequence of pieces: a whole row ends in a newline, a    *)
(* torn one is what a write cut short leaves, without a newline, so the    *)
(* piece after it continues its line.                                      *)
(***************************************************************************)
EXTENDS Naturals, Sequences

CONSTANTS
  Pods,        (* the pods of the sweep                                     *)
  Pid,         (* os.getpid() of the runner in each pod                     *)
  Repeats,     (* --repeats                                                 *)
  MaxLaunch,   (* launches of each pod: bounds the model                    *)
  MaxSecond    (* the last second of the clock: bounds the model            *)

ASSUME RunnerAssumption ==
  /\ Pid \in [Pods -> Nat]
  /\ Repeats \in Nat \ {0}
  /\ MaxLaunch \in [Pods -> Nat \ {0}]
  /\ MaxSecond \in Nat

VARIABLES
  second,      (* the wall clock, at run_id's resolution                    *)
  at,          (* where each pod's runner is                                *)
  launch,      (* which launch of the pod this is                           *)
  rep,         (* the repetition it is in                                   *)
  outcome,     (* how that repetition's workload ended                      *)
  id,          (* the run_id it was given                                   *)
  traced,      (* row["power_trace_path"] is set                            *)
  since,       (* the second the pod was killed in                          *)
  traces,      (* the trace files: the runs written into each since it was  *)
               (* last truncated                                            *)
  named,       (* history: the runs that were given each run_id             *)
  file,        (* runs.jsonl                                                *)
  reported     (* history: the runs a runner has moved on from              *)

podVars == <<launch, rep, outcome, id, traced>>
volume  == <<traces, named, file>>
vars == <<second, at, podVars, since, volume, reported>>

Outcomes == {"ok", "raised"}
RunIds   == (0 .. MaxSecond) \X (1 .. Repeats) \X {Pid[p] : p \in Pods}
NoId     == <<0, 0, 0>>
Runs     == UNION {{p} \X (1 .. MaxLaunch[p]) \X (1 .. Repeats) : p \in Pods}
Run(p)   == <<p, launch[p], rep[p]>>

Running ==
  {"rep", "working", "stamp", "trace", "tracing", "append", "appended"}
Places == Running \cup {"succeeded", "failed", "killed"}

Init ==
  /\ second = 0
  /\ at = [p \in Pods |-> "rep"]
  /\ launch = [p \in Pods |-> 1]
  /\ rep = [p \in Pods |-> 1]
  /\ outcome = [p \in Pods |-> "ok"]
  /\ id = [p \in Pods |-> NoId]
  /\ traced = [p \in Pods |-> FALSE]
  /\ since = [p \in Pods |-> 0]
  /\ traces = [i \in RunIds |-> {}] /\ named = [i \in RunIds |-> {}]
  /\ file = <<>>
  /\ reported = {}

Goto(p, from, to) == at[p] = from /\ at' = [at EXCEPT ![p] = to]

ClockTick ==
  /\ second < MaxSecond
  /\ second' = second + 1
  /\ UNCHANGED <<at, podVars, since, volume, reported>>

(* run_once up to the workload, after measure_idle in a launch's first     *)
(* (which catches whatever it raises).  monitor.start() and the imports    *)
(* stand before the try block: what they raise ends the process there and  *)
(* then, and the repetition leaves no row.                                 *)
StartRep(p) ==
  /\ Goto(p, "rep", "working")
  /\ UNCHANGED <<second, podVars, since, volume, reported>>

StartRaises(p) ==
  /\ Goto(p, "rep", "failed")
  /\ UNCHANGED <<second, podVars, since, volume, reported>>

(* The workload returns, or raises (a result that is no WorkloadResult is  *)
(* raised as well), and monitor.stop() in the finally block sums its power *)
(* up. A window below the floor only changes the row's exclusion_reason.   *)
WorkloadEnds(p) ==
  /\ Goto(p, "working", "stamp")
  /\ \E o \in Outcomes : outcome' = [outcome EXCEPT ![p] = o]
  /\ UNCHANGED <<second, launch, rep, id, traced, since, volume, reported>>

(* What stop() raises replaces the workload's own failure and leaves       *)
(* run_once before the row is built.                                       *)
StopRaises(p) ==
  /\ Goto(p, "working", "failed")
  /\ UNCHANGED <<second, podVars, since, volume, reported>>

(* Mutation: the run_id leaves the process out.                            *)
RunIdNoPid(p) == <<second, rep[p], CHOOSE n \in {Pid[q] : q \in Pods} : TRUE>>

(* run_id: the second, the repetition and the process. The benchmark is    *)
(* the same for every pod here, which is when the others must tell.        *)
RunId(p) == <<second, rep[p], Pid[p]>>

(* The row is built and named; a trace is written if any sample was taken. *)
StampRow(p) ==
  /\ id' = [id EXCEPT ![p] = RunId(p)]
  /\ named' = [named EXCEPT ![RunId(p)] = @ \cup {Run(p)}]
  /\ \E sampled \in BOOLEAN :
       /\ Goto(p, "stamp", IF sampled THEN "trace" ELSE "append")
       /\ traced' = [traced EXCEPT ![p] = sampled]
  /\ UNCHANGED <<second, launch, rep, outcome, since, traces, file, reported>>

(* _write_power_trace: open(path, "w") empties the file of that name ...   *)
OpenTrace(p) ==
  /\ Goto(p, "trace", "tracing")
  /\ traces' = [traces EXCEPT ![id[p]] = {}]
  /\ UNCHANGED <<second, podVars, since, named, file, reported>>

(* ... and the samples are written into it.                                *)
WriteTrace(p) ==
  /\ Goto(p, "tracing", "append")
  /\ traces' = [traces EXCEPT ![id[p]] = @ \cup {Run(p)}]
  /\ UNCHANGED <<second, podVars, since, named, file, reported>>

Piece(p, whole) ==
  [run |-> Run(p), id |-> id[p], outcome |-> outcome[p], traced |-> traced[p],
   whole |-> whole]

(* Mutation: runs.jsonl is opened for writing, not for appending.          *)
AppendRowAnew(p) ==
  /\ Goto(p, "append", "appended")
  /\ file' = <<Piece(p, TRUE)>>
  /\ UNCHANGED <<second, podVars, since, traces, named, reported>>

(* _append_jsonl: one write, flushed and synced, to the end of the file.   *)
AppendRow(p) ==
  /\ Goto(p, "append", "appended")
  /\ file' = Append(file, Piece(p, TRUE))
  /\ UNCHANGED <<second, podVars, since, traces, named, reported>>

(* run_once's local variables are gone once it has left.                   *)
Leave(p) ==
  /\ outcome' = [outcome EXCEPT ![p] = "ok"]
  /\ id' = [id EXCEPT ![p] = NoId]
  /\ traced' = [traced EXCEPT ![p] = FALSE]

(* Mutation: a failed repetition is logged and the loop goes on.           *)
FinishRepSwallow(p) ==
  /\ at[p] = "appended"
  /\ reported' = reported \cup {Run(p)}
  /\ at' = [at EXCEPT ![p] = IF rep[p] = Repeats THEN "succeeded" ELSE "rep"]
  /\ rep' = [rep EXCEPT ![p] = IF @ = Repeats THEN @ ELSE @ + 1]
  /\ Leave(p)
  /\ UNCHANGED <<second, launch, since, volume>>

(* Mutation: the loop runs one repetition too many.                        *)
FinishRepOnceMore(p) ==
  /\ at[p] = "appended"
  /\ reported' = reported \cup {Run(p)}
  /\ LET fails == outcome[p] = "raised"
         last  == rep[p] > Repeats
     IN  /\ at' = [at EXCEPT ![p] = IF fails THEN "failed" ELSE IF last THEN "succeeded" ELSE "rep"]
         /\ rep' = [rep EXCEPT ![p] = IF fails \/ last THEN @ ELSE @ + 1]
  /\ Leave(p)
  /\ UNCHANGED <<second, launch, since, volume>>

(* run_once returns and main's loop goes on, or it raises the workload's   *)
(* failure and the process exits non-zero.                                 *)
FinishRep(p) ==
  /\ at[p] = "appended"
  /\ reported' = reported \cup {Run(p)}
  /\ LET fails == outcome[p] = "raised"
         last  == rep[p] = Repeats
     IN  /\ at' = [at EXCEPT ![p] = IF fails THEN "failed" ELSE IF last THEN "succeeded" ELSE "rep"]
         /\ rep' = [rep EXCEPT ![p] = IF fails \/ last THEN @ ELSE @ + 1]
  /\ Leave(p)
  /\ UNCHANGED <<second, launch, since, volume>>

(* The pod is killed. A write in progress may have reached the volume in   *)
(* part.                                                                   *)
Kill(p) ==
  /\ at[p] \in Running
  /\ at' = [at EXCEPT ![p] = "killed"]
  /\ since' = [since EXCEPT ![p] = second]
  /\ file' \in {file} \cup (IF at[p] = "append" THEN {Append(file, Piece(p, FALSE))} ELSE {})
  /\ Leave(p)
  /\ UNCHANGED <<second, launch, rep, traces, named, reported>>

(* The operator launches a killed pod again, seconds later at the least.   *)
(* The runner knows nothing of the earlier launch and begins at 1.         *)
Relaunch(p) ==
  /\ Goto(p, "killed", "rep")
  /\ second > since[p]
  /\ launch[p] < MaxLaunch[p]
  /\ launch' = [launch EXCEPT ![p] = @ + 1]
  /\ rep' = [rep EXCEPT ![p] = 1]
  /\ UNCHANGED <<second, outcome, id, traced, since, volume, reported>>

RunnerStep(p) ==
  \/ StartRep(p) \/ StartRaises(p) \/ WorkloadEnds(p)
  \/ StopRaises(p) \/ StampRow(p) \/ OpenTrace(p) \/ WriteTrace(p)
  \/ AppendRow(p) \/ FinishRep(p)

Next ==
  \/ ClockTick
  \/ \E p \in Pods : RunnerStep(p) \/ Kill(p) \/ Relaunch(p)

Spec == Init /\ [][Next]_vars

----------------------------------------------------------------------------
(* The rows a reader of the file finds: whole, and alone on their line.    *)
Parses(i) == file[i].whole /\ (i = 1 \/ file[i - 1].whole)
Rows      == {file[i] : i \in {j \in DOMAIN file : file[j].whole}}
Readable  == {file[i].run : i \in {j \in DOMAIN file : Parses(j)}}

(* Type invariant.                                                         *)
PieceType ==
  [run : Runs, id : RunIds, outcome : Outcomes, traced : BOOLEAN, whole : BOOLEAN]

TypeOK ==
  /\ second \in 0 .. MaxSecond
  /\ at \in [Pods -> Places]
  /\ launch \in [Pods -> Nat] /\ \A p \in Pods : launch[p] \in 1 .. MaxLaunch[p]
  /\ rep \in [Pods -> 1 .. Repeats]
  /\ outcome \in [Pods -> Outcomes]
  /\ id \in [Pods -> RunIds \cup {NoId}]
  /\ traced \in [Pods -> BOOLEAN]
  /\ since \in [Pods -> 0 .. MaxSecond]
  /\ traces \in [RunIds -> SUBSET Runs] /\ named \in [RunIds -> SUBSET Runs]
  /\ file \in Seq(PieceType)
  /\ reported \subseteq Runs

(* The volume keeps what the abstract log promises, kills and all.         *)
Log == INSTANCE ResultsLog WITH recorded <- {r.run : r \in Rows}
ImplementsLog == Log!Spec

(* A row's trace is that repetition's own, complete, and no one else's.    *)
(* It is where the processes that share the volume have PIDs of their own; *)
(* those of containers are all process 1, and there it is not.             *)
TraceIsOwn == \A r \in Rows : r.traced => traces[r.id] = {r.run}

(* What the name guarantees whatever the PIDs.  A trace holds what runs of *)
(* its name wrote, and it is the row's own, complete, unless a run of      *)
(* another pod was given the name too: one with the PID, in the second and *)
(* the repetition.  What a pod did before, in this launch or an earlier    *)
(* one, never mixes with it.                                               *)
OwnUnlessNameIsShared ==
  \A r \in Rows : r.traced =>
    /\ traces[r.id] \subseteq named[r.id]
    /\ (\A run \in named[r.id] : run[1] = r.run[1]) => traces[r.id] = {r.run}

(* A pod that exits zero has left a row for each of its repetitions, and   *)
(* none of them failed.                                                    *)
SuccessIsComplete ==
  \A p \in Pods : at[p] = "succeeded" =>
    \A k \in 1 .. Repeats :
      \E r \in Rows : r.run = <<p, launch[p], k>> /\ r.outcome # "raised"

(* A repetition that was reported as complete keeps what it measured: its  *)
(* row can still be read or, failing that, the trace the row names is its  *)
(* own.  Where the runners share a PID, a torn line of another pod costs   *)
(* it the one and a run of the same name the other.                        *)
ReportedIsKept ==
  \A r \in Rows : (r.traced /\ r.run \in reported) =>
    r.run \in Readable \/ traces[r.id] = {r.run}
=============================================================================
