---------------------------- MODULE PowerMonitor ----------------------------
(***************************************************************************)
(* One runner process measuring one GPU: the main thread that starts,      *)
(* marks and stops a measurement/power_monitor.py monitor, and the daemon  *)
(* thread that samples power in between.                                   *)
(*                                                                         *)
(* A monitor is used in two ways, and a process uses several, one after    *)
(* the other, each a new object:                                           *)
(*   "idle"  _sample_idle_window: start, sleep, stop; no region is marked. *)
(*   "run"   run_once: the workload enters RunContext.timed_region, which  *)
(*           marks the monitor at both ends, and may raise anywhere.       *)
(*                                                                         *)
(* Power values are abstracted away: a sample keeps when its timestamp was *)
(* taken and when the driver was read, and a reading of NVML's energy      *)
(* counter, which only grows, is identified with the instant it was taken. *)
(* What the integral makes of a trace is module TraceIntegral.             *)
(***************************************************************************)
EXTENDS Naturals, Integers, Sequences

CONSTANTS
  MaxTime,   (* the last instant of the clock: bounds the model             *)
  MaxUses,   (* the monitors one process creates: bounds the model          *)
  Interval   (* the sampling interval, in ticks of the clock                *)

ASSUME MonitorAssumption ==
  /\ MaxTime \in Nat
  /\ MaxUses \in Nat
  /\ Interval \in Nat

VARIABLES
  clock,     (* time.perf_counter()                                         *)
  nvml,      (* NVML's reference count: nvmlInit calls not yet shut down    *)
  uses,      (* monitors created so far                                     *)
  use,       (* what the current monitor is used for                        *)
  main,      (* where the main thread is                                    *)
  raised,    (* an exception is on its way out of the workload              *)
  sampler,   (* where the sampling thread is                                *)
  stopSet,   (* the _stop event                                             *)
  stamp,     (* the sampling thread's local t                               *)
  wakeAt,    (* when the sampling thread's _stop.wait(interval) times out   *)
  samples,   (* _samples                                                    *)
  failed,    (* _failed_samples                                             *)
  marks,     (* _start_energy_mj, the four _region_ fields, whole_end_mj    *)
  ctx,       (* RunContext.region_start_s and region_stop_s                 *)
  result     (* what stop() returned                                        *)

threadVars == <<sampler, stamp, wakeAt, samples, failed>>
mainVars   == <<uses, use, main, raised, stopSet, marks, ctx, result>>
vars == <<clock, nvml, mainVars, threadVars>>

None    == -1
Instant == Nat \cup {None}

MainSteps ==
  {"idle", "init", "launch", "sleep", "setup", "enterMj", "enterCtx", "region",
   "exitSync", "exitClock", "exitMj", "report", "query", "reported",
   "stopping", "join", "wholeMj", "shutdown", "exited"}

(* The steps during which start() has launched the thread and stop() has   *)
(* not yet asked it to end.                                                *)
Monitoring ==
  {"sleep", "setup", "enterMj", "enterCtx", "region", "exitSync", "exitClock",
   "exitMj", "report", "query", "reported", "stopping"}

SamplerSteps == {"none", "loop", "stamp", "reading", "waiting", "exited"}

Sample   == [t : Nat, at : Nat]
Marks    == [startMj : Instant, t0 : Instant, t1 : Instant,
             mj0 : Instant, mj1 : Instant, endMj : Instant]
Ctx      == [start : Instant, stop : Instant]
Results  == [window : {"none", "region", "full_run"}, lo : Instant, hi : Instant,
             mjLo : Instant, mjHi : Instant, readings : Seq(Sample)]

NoMarks  == [startMj |-> None, t0 |-> None, t1 |-> None,
             mj0 |-> None, mj1 |-> None, endMj |-> None]
NoCtx    == [start |-> None, stop |-> None]
NoResult == [window |-> "none", lo |-> None, hi |-> None,
             mjLo |-> None, mjHi |-> None, readings |-> <<>>]

Init ==
  /\ clock = 0
  /\ nvml = 0
  /\ uses = 0
  /\ use = "idle"
  /\ main = "idle"
  /\ raised = FALSE
  /\ sampler = "none"
  /\ stopSet = FALSE
  /\ stamp = 0
  /\ wakeAt = 0
  /\ samples = <<>>
  /\ failed = 0
  /\ marks = NoMarks
  /\ ctx = NoCtx
  /\ result = NoResult

(* The clock is read by both threads and moves between any two of their    *)
(* steps: a thread may be descheduled for any time at all.                 *)
Tick ==
  /\ clock < MaxTime
  /\ main # "exited"
  /\ clock' = clock + 1
  /\ UNCHANGED <<nvml, mainVars, threadVars>>

(* A read of the energy counter: its value now, or none when the call      *)
(* raises, as it always does on a card without the counter.                *)
CounterReading == {clock, None}

----------------------------------------------------------------------------
(* The main thread.                                                        *)

(* Where the main thread goes once a monitor is done: measure_idle carries *)
(* on whatever happened, main() ends the process when run_once raises.     *)
AfterUse(raises) == IF use = "run" /\ raises THEN "exited" ELSE "idle"

Goto(from, to) == main = from /\ main' = to

(* PowerMonitor(): a new object, all of its fields unset.                  *)
Create(u) ==
  /\ uses < MaxUses
  /\ Goto("idle", "init")
  /\ uses' = uses + 1
  /\ use' = u
  /\ raised' = FALSE
  /\ stopSet' = FALSE
  /\ sampler' = "none"
  /\ samples' = <<>>
  /\ failed' = 0
  /\ marks' = NoMarks
  /\ ctx' = NoCtx
  /\ result' = NoResult
  /\ stamp' = 0
  /\ wakeAt' = 0
  /\ UNCHANGED <<clock, nvml>>

(* start(): nvmlInit and the device handle.                                *)
Connect ==
  /\ Goto("init", "launch")
  /\ nvml' = nvml + 1
  /\ UNCHANGED <<clock, uses, use, raised, stopSet, marks, ctx, result, threadVars>>

(* start() raises: in nvmlInit, or in the handle query after it, which     *)
(* leaves the reference nvmlInit took.                                     *)
ConnectFails ==
  /\ Goto("init", AfterUse(TRUE))
  /\ nvml' \in {nvml, nvml + 1}
  /\ UNCHANGED <<clock, uses, use, raised, stopSet, marks, ctx, result, threadVars>>

(* start(), the rest: the counter's first value, then the thread.          *)
Launch ==
  /\ Goto("launch", IF use = "idle" THEN "sleep" ELSE "setup")
  /\ \E mj \in CounterReading : marks' = [NoMarks EXCEPT !.startMj = mj]
  /\ samples' = <<>>
  /\ failed' = 0
  /\ stopSet' = FALSE
  /\ sampler' = "loop"
  /\ UNCHANGED <<clock, nvml, uses, use, raised, ctx, result, stamp, wakeAt>>

(* The idle window's time.sleep ends.                                      *)
SleepEnds ==
  /\ Goto("sleep", "stopping")
  /\ UNCHANGED <<clock, nvml, uses, use, raised, stopSet, marks, ctx, result, threadVars>>

(* The workload raises before its timed region: a bad argument, a failed   *)
(* load or warm-up, or the sync on entry.                                  *)
SetupRaises ==
  /\ Goto("setup", "stopping")
  /\ raised' = TRUE
  /\ UNCHANGED <<clock, nvml, uses, use, stopSet, marks, ctx, result, threadVars>>

(* timed_region on entry: mark_region_start reads the clock and then the   *)
(* counter, and only then is region_start_s taken.                         *)
EnterClock ==
  /\ Goto("setup", "enterMj")
  /\ marks' = [marks EXCEPT !.t0 = clock]
  /\ UNCHANGED <<clock, nvml, uses, use, raised, stopSet, ctx, result, threadVars>>

EnterCounter ==
  /\ Goto("enterMj", "enterCtx")
  /\ \E mj \in CounterReading : marks' = [marks EXCEPT !.mj0 = mj]
  /\ UNCHANGED <<clock, nvml, uses, use, raised, stopSet, ctx, result, threadVars>>

EnterCtx ==
  /\ Goto("enterCtx", "region")
  /\ ctx' = [ctx EXCEPT !.start = clock]
  /\ UNCHANGED <<clock, nvml, uses, use, raised, stopSet, marks, result, threadVars>>

(* The measured loop ends or raises; the finally block runs either way.    *)
RegionEnds ==
  /\ Goto("region", "exitSync")
  /\ raised' \in BOOLEAN
  /\ UNCHANGED <<clock, nvml, uses, use, stopSet, marks, ctx, result, threadVars>>

(* Mutation: the monitor is marked whatever the sync did.                  *)
ExitSyncRaisesMarked ==
  /\ Goto("exitSync", "exitClock")
  /\ raised' = TRUE
  /\ UNCHANGED <<clock, nvml, uses, use, stopSet, marks, ctx, result, threadVars>>

(* The sync on exit raises, so nothing after it in the finally block runs. *)
ExitSyncRaises ==
  /\ Goto("exitSync", "stopping")
  /\ raised' = TRUE
  /\ UNCHANGED <<clock, nvml, uses, use, stopSet, marks, ctx, result, threadVars>>

(* timed_region on exit, the other way round: region_stop_s, then the      *)
(* monitor's clock, then the counter.                                      *)
ExitCtx ==
  /\ Goto("exitSync", "exitClock")
  /\ ctx' = [ctx EXCEPT !.stop = clock]
  /\ UNCHANGED <<clock, nvml, uses, use, raised, stopSet, marks, result, threadVars>>

ExitClock ==
  /\ Goto("exitClock", "exitMj")
  /\ marks' = [marks EXCEPT !.t1 = clock]
  /\ UNCHANGED <<clock, nvml, uses, use, raised, stopSet, ctx, result, threadVars>>

ExitCounter ==
  /\ Goto("exitMj", IF raised THEN "stopping" ELSE "report")
  /\ \E mj \in CounterReading : marks' = [marks EXCEPT !.mj1 = mj]
  /\ UNCHANGED <<clock, nvml, uses, use, raised, stopSet, ctx, result, threadVars>>

(* llm_inference queries NVML itself after its region, with the sampler    *)
(* still running: an nvmlInit of its own, shut down in a finally.          *)
QueryOpen ==
  /\ Goto("report", "query")
  /\ nvml' = nvml + 1
  /\ UNCHANGED <<clock, uses, use, raised, stopSet, marks, ctx, result, threadVars>>

(* Mutation: the exception path and the finally both shut NVML down.       *)
QueryCloseTwice ==
  /\ Goto("query", "reported")
  /\ nvml' = nvml - 2
  /\ UNCHANGED <<clock, uses, use, raised, stopSet, marks, ctx, result, threadVars>>

QueryClose ==
  /\ Goto("query", "reported")
  /\ nvml' = nvml - 1
  /\ UNCHANGED <<clock, uses, use, raised, stopSet, marks, ctx, result, threadVars>>

(* run() returns its WorkloadResult, or raises while building it.          *)
ReportEnds ==
  /\ main \in {"report", "reported"}
  /\ main' = "stopping"
  /\ raised' \in BOOLEAN
  /\ UNCHANGED <<clock, nvml, uses, use, stopSet, marks, ctx, result, threadVars>>

(* Mutation: stop() joins the thread without having asked it to end.       *)
StopSetForgotten ==
  /\ Goto("stopping", "join")
  /\ UNCHANGED <<clock, nvml, uses, use, raised, stopSet, marks, ctx, result, threadVars>>

(* stop(): ask the thread to end, wait for it without a timeout, read the  *)
(* counter over the whole window, shut NVML down and summarise.            *)
StopSet ==
  /\ Goto("stopping", "join")
  /\ stopSet' = TRUE
  /\ UNCHANGED <<clock, nvml, uses, use, raised, marks, ctx, result, threadVars>>

(* Mutation: stop() does not wait for the thread.                          *)
JoinAtOnce ==
  /\ Goto("join", "wholeMj")
  /\ UNCHANGED <<clock, nvml, uses, use, raised, stopSet, marks, ctx, result, threadVars>>

Join ==
  /\ sampler = "exited"
  /\ Goto("join", "wholeMj")
  /\ UNCHANGED <<clock, nvml, uses, use, raised, stopSet, marks, ctx, result, threadVars>>

WholeCounter ==
  /\ Goto("wholeMj", "shutdown")
  /\ \E mj \in CounterReading :
       /\ marks.startMj = None => mj = None
       /\ marks' = [marks EXCEPT !.endMj = mj]
  /\ UNCHANGED <<clock, nvml, uses, use, raised, stopSet, ctx, result, threadVars>>

(* A counter delta needs both of its snapshots.                            *)
Delta(from, to) == IF from # None /\ to # None THEN <<from, to>> ELSE <<None, None>>

(* Mutation: an unfinished region's first snapshot taken for the start.    *)
WholeDeltaFromMark == Delta(marks.mj0, marks.endMj)

WholeDelta  == Delta(marks.startMj, marks.endMj)
RegionDelta == Delta(marks.mj0, marks.mj1)

(* The window stop() reports on: lo and hi bound the integral, mjLo and    *)
(* mjHi the counter delta.                                                 *)
Summary ==
  LET marked == marks.t0 # None /\ marks.t1 # None
      delta  == IF marked THEN RegionDelta ELSE WholeDelta
      traced == Len(samples) > 1
  IN  [window   |-> IF marked THEN "region" ELSE "full_run",
       lo       |-> IF marked THEN marks.t0 ELSE IF traced THEN samples[1].t ELSE 0,
       hi       |-> IF marked THEN marks.t1 ELSE IF traced THEN samples[Len(samples)].t ELSE 0,
       mjLo     |-> delta[1],
       mjHi     |-> delta[2],
       readings |-> samples]

Shutdown ==
  /\ Goto("shutdown", AfterUse(raised))
  /\ nvml' = nvml - 1
  /\ result' = Summary
  /\ UNCHANGED <<clock, uses, use, raised, stopSet, marks, ctx, threadVars>>

----------------------------------------------------------------------------
(* The sampling thread.                                                    *)

(* Mutation: t is taken once, before the loop.                             *)
LoopTestStale ==
  /\ sampler = "loop"
  /\ sampler' = IF stopSet THEN "exited" ELSE IF samples = <<>> THEN "stamp" ELSE "reading"
  /\ UNCHANGED <<clock, nvml, mainVars, stamp, wakeAt, samples, failed>>

LoopTest ==
  /\ sampler = "loop"
  /\ sampler' = IF stopSet THEN "exited" ELSE "stamp"
  /\ UNCHANGED <<clock, nvml, mainVars, stamp, wakeAt, samples, failed>>

Stamp ==
  /\ sampler = "stamp"
  /\ sampler' = "reading"
  /\ stamp' = clock
  /\ UNCHANGED <<clock, nvml, mainVars, wakeAt, samples, failed>>

(* nvmlDeviceGetPowerUsage answers, for which NVML must still be up.       *)
SampleTaken ==
  /\ sampler = "reading"
  /\ nvml > 0
  /\ sampler' = "waiting"
  /\ samples' = Append(samples, [t |-> stamp, at |-> clock])
  /\ wakeAt' = clock + Interval
  /\ UNCHANGED <<clock, nvml, mainVars, stamp, failed>>

(* Mutation: a failed read ends the thread, as it did before the move.     *)
SampleFailsFatal ==
  /\ sampler = "reading"
  /\ sampler' = "exited"
  /\ failed' = failed + 1
  /\ UNCHANGED <<clock, nvml, mainVars, stamp, wakeAt, samples>>

(* It raises: the sample is skipped and the thread carries on.             *)
SampleFails ==
  /\ sampler = "reading"
  /\ sampler' = "waiting"
  /\ failed' = failed + 1
  /\ wakeAt' = clock + Interval
  /\ UNCHANGED <<clock, nvml, mainVars, stamp, samples>>

(* _stop.wait(interval) returns: on the event, or after the interval.      *)
Wake ==
  /\ sampler = "waiting"
  /\ stopSet \/ clock >= wakeAt
  /\ sampler' = "loop"
  /\ UNCHANGED <<clock, nvml, mainVars, stamp, wakeAt, samples, failed>>

Sampler == LoopTest \/ Stamp \/ SampleTaken \/ SampleFails \/ Wake

----------------------------------------------------------------------------
Starting == Connect \/ ConnectFails \/ Launch

Workload ==
  \/ SetupRaises \/ EnterClock \/ EnterCounter \/ EnterCtx \/ RegionEnds
  \/ ExitSyncRaises \/ ExitCtx \/ ExitClock \/ ExitCounter
  \/ QueryOpen \/ QueryClose \/ ReportEnds

Stopping == StopSet \/ Join \/ WholeCounter \/ Shutdown

Next ==
  \/ Tick
  \/ \E u \in {"idle", "run"} : Create(u)
  \/ Starting \/ SleepEnds \/ Workload \/ Stopping \/ Sampler

Spec == Init /\ [][Next]_vars

(* The two threads are scheduled and every NVML call returns. Nothing is   *)
(* assumed of the workload, which may hang for ever.                       *)
FairSpec == Spec /\ WF_vars(Stopping) /\ WF_vars(Sampler)

----------------------------------------------------------------------------
(* Type invariant.                                                         *)
TypeOK ==
  /\ clock \in Nat
  /\ nvml \in Nat
  /\ uses \in Nat
  /\ use \in {"idle", "run"}
  /\ main \in MainSteps
  /\ raised \in BOOLEAN
  /\ sampler \in SamplerSteps
  /\ stopSet \in BOOLEAN
  /\ stamp \in Nat
  /\ wakeAt \in Nat
  /\ samples \in Seq(Sample)
  /\ failed \in Nat
  /\ marks \in Marks
  /\ ctx \in Ctx
  /\ result \in Results

(* The thread never queries a driver that has been shut down, whichever of *)
(* the three users of NVML in the process shuts it down and when.          *)
SamplerHoldsNvml == sampler \in {"stamp", "reading"} => nvml > 0

(* However many reads fail, the thread outlives the run: it ends only      *)
(* after stop() asked it to, so no run ends on a silently truncated trace. *)
SamplerAlive == main \in Monitoring => sampler \in SamplerSteps \ {"none", "exited"}

(* Each timestamp is taken before the read it labels and after the read    *)
(* before it, so the trace is sorted, which _interp_power needs.           *)
TraceOrdered ==
  \A i \in 1 .. Len(samples) :
    /\ samples[i].t <= samples[i].at
    /\ i < Len(samples) => samples[i].at <= samples[i + 1].t

(* The summary is of the region exactly when the timed region completed,   *)
(* and then both energy figures cover everything that was timed.           *)
WindowCoversRegion ==
  result.window # "none" =>
    /\ result.window = "region" <=> ctx.stop # None
    /\ result.window = "region" =>
         /\ result.lo <= ctx.start /\ ctx.stop <= result.hi
         /\ result.mjHi # None => result.mjLo <= ctx.start /\ ctx.stop <= result.mjHi

(* Where no region was marked, the counter delta spans every sample the    *)
(* integral is made of, so it never cross-checks a shorter stretch.        *)
CounterCoversTrace ==
  (result.window = "full_run" /\ result.mjHi # None) =>
    \A i \in 1 .. Len(samples) :
      result.mjLo <= samples[i].t /\ samples[i].at <= result.mjHi

(* What stop() returned is the whole trace: no sample arrives after it.    *)
TraceFinal == result.window # "none" => result.readings = samples

(* stop() returns: it joins the thread with no timeout, so the thread must *)
(* notice the event from wherever in its loop it is.                       *)
StopReturns == main = "join" ~> main \in {"idle", "exited"}
=============================================================================
