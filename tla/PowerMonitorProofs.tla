-------------------------- MODULE PowerMonitorProofs --------------------------
(***************************************************************************)
(* Proofs about PowerMonitor for every bound on time and on the number of  *)
(* monitors, and every sampling interval.  IInv is the inductive           *)
(* strengthening: what each place of the main thread says about the        *)
(* sampling thread, about NVML, and about which marks have been taken.     *)
(***************************************************************************)
EXTENDS PowerMonitor, TLAPS

Awake == SamplerSteps \ {"none", "exited"}

(* The thread exists and has not been told to stop exactly while the main  *)
(* thread is between start() and stop(), and is gone once joined.          *)
ThreadInv ==
  /\ main \in Monitoring => sampler \in Awake /\ ~stopSet
  /\ main = "join" => sampler # "none"
  /\ main \in {"wholeMj", "shutdown"} => sampler = "exited"
  /\ main \in {"idle", "init", "launch", "exited"} => sampler \in {"none", "exited"}

(* start() and stop() bracket one reference to NVML; a query holds another.*)
NvmlInv ==
  /\ main \in Monitoring \cup {"launch", "join", "wholeMj", "shutdown"} => nvml >= 1
  /\ main = "query" => nvml >= 2

(* Reads are labelled in order, and the next label follows the last read.  *)
TraceInv ==
  /\ stamp <= clock
  /\ \A i \in 1 .. Len(samples) :
       /\ samples[i].t <= samples[i].at
       /\ samples[i].at <= clock
       /\ sampler = "reading" => samples[i].at <= stamp
  /\ \A i \in 1 .. Len(samples) :
       i < Len(samples) => samples[i].at <= samples[i + 1].t

(* The marks already taken at each place, and their order.                 *)
MarksInv ==
  /\ main \in {"init", "launch", "sleep", "setup"} =>
       marks.t0 = None /\ marks.mj0 = None
  /\ main \in {"init", "launch", "sleep", "setup", "enterMj", "enterCtx"} =>
       ctx.start = None
  /\ main \in {"init", "launch", "sleep", "setup", "enterMj", "enterCtx", "region",
               "exitSync"} => ctx.stop = None
  /\ main \in {"init", "launch", "sleep", "setup", "enterMj", "enterCtx", "region",
               "exitSync", "exitClock"} => marks.t1 = None
  /\ main \in {"init", "launch", "sleep", "setup", "enterMj", "enterCtx", "region",
               "exitSync", "exitClock", "exitMj"} => marks.mj1 = None
  /\ main \in {"enterMj", "enterCtx"} => marks.t0 # None
  /\ main \in {"region", "exitSync", "exitClock", "exitMj"} => ctx.start # None
  /\ main = "exitMj" => marks.t1 # None
  /\ main # "exitClock" => (ctx.stop # None => marks.t1 # None)
  /\ marks.t0 <= clock /\ marks.mj0 <= clock
  /\ ctx.start <= clock /\ ctx.stop <= clock
  /\ main = "exitClock" => ctx.stop # None
  /\ ctx.start # None => /\ marks.t0 # None /\ marks.t0 <= ctx.start
                         /\ marks.mj0 <= ctx.start
  /\ ctx.stop # None => ctx.start # None
  /\ marks.t1 # None => ctx.stop # None /\ ctx.stop <= marks.t1
  /\ marks.mj1 # None => ctx.stop # None /\ ctx.stop <= marks.mj1

(* The whole-window counter readings enclose the trace.                    *)
CounterInv ==
  /\ marks.startMj <= clock
  /\ sampler = "reading" => marks.startMj <= stamp
  /\ \A i \in 1 .. Len(samples) : marks.startMj <= samples[i].t
  /\ marks.endMj # None =>
       /\ main \in {"shutdown", "idle", "exited"}
       /\ \A i \in 1 .. Len(samples) : samples[i].at <= marks.endMj
  /\ main \in {"init", "launch"} => samples = <<>>

(* A summary exists only between one monitor and the next, and is of it.   *)
ResultInv ==
  result.window # "none" =>
    /\ main \in {"idle", "exited"}
    /\ result = Summary

IInv ==
  /\ TypeOK
  /\ ThreadInv
  /\ NvmlInv
  /\ TraceInv
  /\ MarksInv
  /\ CounterInv
  /\ ResultInv

-----------------------------------------------------------------------------
(* Steps. *)
(* The unset values have their types, and setting one field keeps them.     *)
LEMMA Records ==
  /\ NoMarks \in Marks /\ NoCtx \in Ctx /\ NoResult \in Results
  /\ \A m \in Marks, x \in Instant :
       /\ [m EXCEPT !.startMj = x] \in Marks /\ [m EXCEPT !.endMj = x] \in Marks
       /\ [m EXCEPT !.t0 = x] \in Marks /\ [m EXCEPT !.t1 = x] \in Marks
       /\ [m EXCEPT !.mj0 = x] \in Marks /\ [m EXCEPT !.mj1 = x] \in Marks
  /\ \A c \in Ctx, x \in Instant :
       [c EXCEPT !.start = x] \in Ctx /\ [c EXCEPT !.stop = x] \in Ctx
  /\ clock \in Nat => CounterReading \subseteq Instant
BY DEF NoMarks, NoCtx, NoResult, Marks, Ctx, Results, Instant, None, CounterReading

(* What stop() returns has the type of a result.                           *)
LEMMA SummaryType == TypeOK => Summary \in Results
<1> SUFFICES ASSUME TypeOK PROVE Summary \in Results
  OBVIOUS
<1>1. WholeDelta \in Instant \X Instant /\ RegionDelta \in Instant \X Instant
  BY DEF TypeOK, WholeDelta, RegionDelta, Delta, Marks, Instant, None
<1>2. marks.t0 \in Instant /\ marks.t1 \in Instant /\ 0 \in Instant
  BY DEF TypeOK, Marks, Instant
<1>4. samples \in Seq(Sample) /\ Len(samples) \in Nat
  BY DEF TypeOK
<1>3. Len(samples) > 1 => samples[1].t \in Instant /\ samples[Len(samples)].t \in Instant
  <2>1. ASSUME Len(samples) > 1 PROVE samples[1] \in Sample /\ samples[Len(samples)] \in Sample
    BY <1>4, <2>1
  <2> QED
    BY <2>1 DEF Sample, Instant
<1> QED
  BY <1>1, <1>2, <1>3, <1>4 DEF Summary, Results

(* Every step keeps every variable in its type; closing a query or the      *)
(* monitor cannot take NVML's count below zero.                            *)
LEMMA TypeStep == TypeOK /\ NvmlInv /\ [Next]_vars => TypeOK'
<1> SUFFICES ASSUME TypeOK, NvmlInv, [Next]_vars PROVE TypeOK'
  OBVIOUS
<1> USE MonitorAssumption DEF TypeOK, MainSteps, Monitoring, SamplerSteps, NvmlInv
<1>a. clock \in Instant
  BY DEF Instant
<1>b. [t |-> stamp, at |-> clock] \in Sample
  BY DEF Sample
<1>c. <<>> \in Seq(Sample)
  OBVIOUS
<1>d. NoMarks \in Marks /\ NoCtx \in Ctx /\ NoResult \in Results
  BY Records
<1>1. CASE Tick
  BY <1>1 DEF Tick, mainVars, threadVars
<1>2. CASE \E u \in {"idle", "run"} : Create(u)
  <2> PICK u \in {"idle", "run"} : Create(u)
    BY <1>2
  <2>1. samples' \in Seq(Sample) /\ marks' \in Marks /\ ctx' \in Ctx /\ result' \in Results
    BY <1>c, <1>d DEF Create, Goto
  <2>2. /\ clock' \in Nat /\ nvml' \in Nat /\ uses' \in Nat /\ failed' \in Nat
        /\ stamp' \in Nat /\ wakeAt' \in Nat
    BY DEF Create, Goto
  <2>3. use' \in {"idle", "run"} /\ main' \in MainSteps /\ sampler' \in SamplerSteps
    BY DEF Create, Goto
  <2>4. raised' \in BOOLEAN /\ stopSet' \in BOOLEAN
    BY DEF Create, Goto
  <2> QED
    BY <2>1, <2>2, <2>3, <2>4
<1>3. CASE Starting
  <2>1. CASE Connect
    BY <2>1 DEF Connect, Goto, threadVars
  <2>2. CASE ConnectFails
    BY <2>2 DEF ConnectFails, Goto, AfterUse, threadVars
  <2>3. CASE Launch
    BY <2>3, Records, <1>c DEF Launch, Goto
  <2> QED
    BY <1>3, <2>1, <2>2, <2>3 DEF Starting
<1>4. CASE SleepEnds
  BY <1>4 DEF SleepEnds, Goto, threadVars
<1>5. CASE Workload
  <2>1. CASE SetupRaises
    BY <2>1 DEF SetupRaises, Goto, threadVars
  <2>2. CASE EnterClock
    BY <2>2, Records, <1>a DEF EnterClock, Goto, threadVars
  <2>3. CASE EnterCounter
    BY <2>3, Records DEF EnterCounter, Goto, CounterReading, threadVars
  <2>4. CASE EnterCtx
    BY <2>4, Records, <1>a DEF EnterCtx, Goto, threadVars
  <2>5. CASE RegionEnds
    BY <2>5 DEF RegionEnds, Goto, threadVars
  <2>6. CASE ExitSyncRaises
    BY <2>6 DEF ExitSyncRaises, Goto, threadVars
  <2>7. CASE ExitCtx
    BY <2>7, Records, <1>a DEF ExitCtx, Goto, threadVars
  <2>8. CASE ExitClock
    BY <2>8, Records, <1>a DEF ExitClock, Goto, threadVars
  <2>9. CASE ExitCounter
    BY <2>9, Records DEF ExitCounter, Goto, CounterReading, threadVars
  <2>10. CASE QueryOpen
    BY <2>10 DEF QueryOpen, Goto, threadVars
  <2>11. CASE QueryClose
    BY <2>11 DEF QueryClose, Goto, threadVars
  <2>12. CASE ReportEnds
    BY <2>12 DEF ReportEnds, threadVars
  <2> QED
    BY <1>5, <2>1, <2>2, <2>3, <2>4, <2>5, <2>6, <2>7, <2>8, <2>9, <2>10, <2>11, <2>12 DEF Workload
<1>6. CASE Stopping
  <2>1. CASE StopSet
    BY <2>1 DEF StopSet, Goto, threadVars
  <2>2. CASE Join
    BY <2>2 DEF Join, Goto, threadVars
  <2>3. CASE WholeCounter
    BY <2>3, Records DEF WholeCounter, Goto, CounterReading, threadVars
  <2>4. CASE Shutdown
    BY <2>4, SummaryType DEF Shutdown, Goto, AfterUse, threadVars
  <2> QED
    BY <1>6, <2>1, <2>2, <2>3, <2>4 DEF Stopping
<1>7. CASE Sampler
  <2>1. CASE LoopTest
    BY <2>1 DEF LoopTest, mainVars
  <2>2. CASE Stamp
    BY <2>2 DEF Stamp, mainVars
  <2>3. CASE SampleTaken
    BY <2>3, <1>b DEF SampleTaken, mainVars
  <2>4. CASE SampleFails
    BY <2>4 DEF SampleFails, mainVars
  <2>5. CASE Wake
    BY <2>5 DEF Wake, mainVars
  <2> QED
    BY <1>7, <2>1, <2>2, <2>3, <2>4, <2>5 DEF Sampler
<1>8. CASE UNCHANGED vars
  BY <1>8 DEF vars, mainVars, threadVars
<1>9. QED
  BY <1>1, <1>2, <1>3, <1>4, <1>5, <1>6, <1>7, <1>8 DEF Next

(* Every step keeps the references to NVML that the main thread's place      *)
(* stands for.                                                             *)
LEMMA NvmlStep == TypeOK /\ NvmlInv /\ [Next]_vars => NvmlInv'
<1> SUFFICES ASSUME TypeOK, NvmlInv, [Next]_vars PROVE NvmlInv'
  OBVIOUS
<1> USE MonitorAssumption DEF TypeOK, MainSteps, Monitoring, SamplerSteps, NvmlInv
<1>1. CASE Tick
  BY <1>1 DEF Tick, mainVars, threadVars
<1>2. CASE \E u \in {"idle", "run"} : Create(u)
  BY <1>2 DEF Create, Goto
<1>3. CASE Starting
  BY <1>3 DEF Starting, Connect, ConnectFails, Launch, Goto, AfterUse, CounterReading, NoMarks, threadVars
<1>4. CASE SleepEnds
  BY <1>4 DEF SleepEnds, Goto, threadVars
<1>5. CASE Workload
  BY <1>5 DEF Workload, SetupRaises, EnterClock, EnterCounter, EnterCtx, RegionEnds,
    ExitSyncRaises, ExitCtx, ExitClock, ExitCounter, QueryOpen, QueryClose, ReportEnds,
    Goto, CounterReading, threadVars
<1>6. CASE Stopping
  BY <1>6 DEF Stopping, StopSet, Join, WholeCounter, Shutdown, Goto, AfterUse, CounterReading,
    threadVars
<1>7. CASE Sampler
  BY <1>7 DEF Sampler, LoopTest, Stamp, SampleTaken, SampleFails, Wake, mainVars
<1>8. CASE UNCHANGED vars
  BY <1>8 DEF vars, mainVars, threadVars
<1>9. QED
  BY <1>1, <1>2, <1>3, <1>4, <1>5, <1>6, <1>7, <1>8 DEF Next

(* Every step keeps the thread's life within start() and stop().            *)
LEMMA ThreadStep == TypeOK /\ ThreadInv /\ [Next]_vars => ThreadInv'
<1> SUFFICES ASSUME TypeOK, ThreadInv, [Next]_vars PROVE ThreadInv'
  OBVIOUS
<1> USE MonitorAssumption DEF TypeOK, MainSteps, Monitoring, SamplerSteps, ThreadInv, Awake
<1>1. CASE Tick
  BY <1>1 DEF Tick, mainVars, threadVars
<1>2. CASE \E u \in {"idle", "run"} : Create(u)
  BY <1>2 DEF Create, Goto
<1>3. CASE Starting
  BY <1>3 DEF Starting, Connect, ConnectFails, Launch, Goto, AfterUse, CounterReading, NoMarks, threadVars
<1>4. CASE SleepEnds
  BY <1>4 DEF SleepEnds, Goto, threadVars
<1>5. CASE Workload
  BY <1>5 DEF Workload, SetupRaises, EnterClock, EnterCounter, EnterCtx, RegionEnds,
    ExitSyncRaises, ExitCtx, ExitClock, ExitCounter, QueryOpen, QueryClose, ReportEnds,
    Goto, CounterReading, threadVars
<1>6. CASE Stopping
  BY <1>6 DEF Stopping, StopSet, Join, WholeCounter, Shutdown, Goto, AfterUse, CounterReading,
    threadVars
<1>7. CASE Sampler
  BY <1>7 DEF Sampler, LoopTest, Stamp, SampleTaken, SampleFails, Wake, mainVars
<1>8. CASE UNCHANGED vars
  BY <1>8 DEF vars, mainVars, threadVars
<1>9. QED
  BY <1>1, <1>2, <1>3, <1>4, <1>5, <1>6, <1>7, <1>8 DEF Next

(* Every step keeps the trace in the order of its reads.                    *)
LEMMA TraceStep == TypeOK /\ ThreadInv /\ TraceInv /\ [Next]_vars => TraceInv'
<1> SUFFICES ASSUME TypeOK, ThreadInv, TraceInv, [Next]_vars PROVE TraceInv'
  OBVIOUS
<1> USE MonitorAssumption DEF TypeOK, MainSteps, Monitoring, SamplerSteps, ThreadInv, TraceInv, Awake
<1>a. \A i \in 1 .. Len(samples) :
         samples[i] \in Sample /\ samples[i].t \in Nat /\ samples[i].at \in Nat
  <2> TAKE i \in 1 .. Len(samples)
  <2>1. samples[i] \in Sample
    OBVIOUS
  <2> QED
    BY <2>1 DEF Sample
<1>1. CASE Tick
  BY <1>1, <1>a DEF Tick, mainVars, threadVars
<1>2. CASE \E u \in {"idle", "run"} : Create(u)
  <2> PICK u \in {"idle", "run"} : Create(u)
    BY <1>2
  <2> QED
    BY <1>a DEF Create, Goto, NoMarks
<1>3. CASE Starting
  <2>1. CASE Connect
    BY <2>1, <1>a DEF Connect, Goto, threadVars
  <2>2. CASE ConnectFails
    BY <2>2, <1>a DEF ConnectFails, Goto, AfterUse, threadVars
  <2>3. CASE Launch
    BY <2>3, <1>a DEF Launch, Goto, NoMarks
  <2> QED
    BY <1>3, <2>1, <2>2, <2>3 DEF Starting
<1>4. CASE SleepEnds
  BY <1>4, <1>a DEF SleepEnds, Goto, threadVars
<1>5. CASE Workload
  <2>1. CASE SetupRaises
    BY <2>1, <1>a DEF SetupRaises, Goto, threadVars
  <2>2. CASE EnterClock
    BY <2>2, <1>a DEF EnterClock, Goto, threadVars
  <2>3. CASE EnterCounter
    BY <2>3, <1>a DEF EnterCounter, Goto, CounterReading, threadVars
  <2>4. CASE EnterCtx
    BY <2>4, <1>a DEF EnterCtx, Goto, threadVars
  <2>5. CASE RegionEnds
    BY <2>5, <1>a DEF RegionEnds, Goto, threadVars
  <2>6. CASE ExitSyncRaises
    BY <2>6, <1>a DEF ExitSyncRaises, Goto, threadVars
  <2>7. CASE ExitCtx
    BY <2>7, <1>a DEF ExitCtx, Goto, threadVars
  <2>8. CASE ExitClock
    BY <2>8, <1>a DEF ExitClock, Goto, threadVars
  <2>9. CASE ExitCounter
    BY <2>9, <1>a DEF ExitCounter, Goto, CounterReading, threadVars
  <2>10. CASE QueryOpen
    BY <2>10, <1>a DEF QueryOpen, Goto, threadVars
  <2>11. CASE QueryClose
    BY <2>11, <1>a DEF QueryClose, Goto, threadVars
  <2>12. CASE ReportEnds
    BY <2>12, <1>a DEF ReportEnds, threadVars
  <2> QED
    BY <1>5, <2>1, <2>2, <2>3, <2>4, <2>5, <2>6, <2>7, <2>8, <2>9, <2>10, <2>11, <2>12 DEF Workload
<1>6. CASE Stopping
  <2>1. CASE StopSet
    BY <2>1, <1>a DEF StopSet, Goto, threadVars
  <2>2. CASE Join
    BY <2>2, <1>a DEF Join, Goto, threadVars
  <2>3. CASE WholeCounter
    BY <2>3, <1>a DEF WholeCounter, Goto, CounterReading, threadVars
  <2>4. CASE Shutdown
    BY <2>4, <1>a DEF Shutdown, Goto, AfterUse, threadVars
  <2> QED
    BY <1>6, <2>1, <2>2, <2>3, <2>4 DEF Stopping
<1>7. CASE Sampler
  <2>1. CASE LoopTest
    BY <2>1, <1>a DEF LoopTest, mainVars
  <2>2. CASE Stamp
    BY <2>2, <1>a DEF Stamp, mainVars
  <2>3. CASE SampleTaken
    BY <2>3, <1>a DEF SampleTaken, mainVars
  <2>4. CASE SampleFails
    BY <2>4, <1>a DEF SampleFails, mainVars
  <2>5. CASE Wake
    BY <2>5, <1>a DEF Wake, mainVars
  <2> QED
    BY <1>7, <2>1, <2>2, <2>3, <2>4, <2>5 DEF Sampler
<1>8. CASE UNCHANGED vars
  BY <1>8, <1>a DEF vars, mainVars, threadVars
<1>9. QED
  BY <1>1, <1>2, <1>3, <1>4, <1>5, <1>6, <1>7, <1>8 DEF Next

(* Every step keeps the marks in the order the main thread takes them.      *)
LEMMA MarksStep == TypeOK /\ MarksInv /\ [Next]_vars => MarksInv'
<1> SUFFICES ASSUME TypeOK, MarksInv, [Next]_vars PROVE MarksInv'
  OBVIOUS
<1> USE MonitorAssumption DEF TypeOK, MainSteps, Monitoring, SamplerSteps, Instant, None, MarksInv, Marks, Ctx
<1>1. CASE Tick
  BY <1>1 DEF Tick, mainVars, threadVars
<1>2. CASE \E u \in {"idle", "run"} : Create(u)
  <2> PICK u \in {"idle", "run"} : Create(u)
    BY <1>2
  <2> QED
    BY DEF Create, Goto, NoMarks, NoCtx
<1>3. CASE Starting
  <2>1. CASE Connect
    BY <2>1 DEF Connect, Goto, threadVars
  <2>2. CASE ConnectFails
    BY <2>2 DEF ConnectFails, Goto, AfterUse, threadVars
  <2>3. CASE Launch
    BY <2>3 DEF Launch, Goto, CounterReading, NoMarks
  <2> QED
    BY <1>3, <2>1, <2>2, <2>3 DEF Starting
<1>4. CASE SleepEnds
  BY <1>4 DEF SleepEnds, Goto, threadVars
<1>5. CASE Workload
  <2>1. CASE SetupRaises
    BY <2>1 DEF SetupRaises, Goto, threadVars
  <2>2. CASE EnterClock
    BY <2>2 DEF EnterClock, Goto, threadVars
  <2>3. CASE EnterCounter
    BY <2>3 DEF EnterCounter, Goto, CounterReading, threadVars
  <2>4. CASE EnterCtx
    BY <2>4 DEF EnterCtx, Goto, threadVars
  <2>5. CASE RegionEnds
    BY <2>5 DEF RegionEnds, Goto, threadVars
  <2>6. CASE ExitSyncRaises
    BY <2>6 DEF ExitSyncRaises, Goto, threadVars
  <2>7. CASE ExitCtx
    BY <2>7 DEF ExitCtx, Goto, threadVars
  <2>8. CASE ExitClock
    BY <2>8 DEF ExitClock, Goto, threadVars
  <2>9. CASE ExitCounter
    BY <2>9 DEF ExitCounter, Goto, CounterReading, threadVars
  <2>10. CASE QueryOpen
    BY <2>10 DEF QueryOpen, Goto, threadVars
  <2>11. CASE QueryClose
    BY <2>11 DEF QueryClose, Goto, threadVars
  <2>12. CASE ReportEnds
    BY <2>12 DEF ReportEnds, threadVars
  <2> QED
    BY <1>5, <2>1, <2>2, <2>3, <2>4, <2>5, <2>6, <2>7, <2>8, <2>9, <2>10, <2>11, <2>12 DEF Workload
<1>6. CASE Stopping
  <2>1. CASE StopSet
    BY <2>1 DEF StopSet, Goto, threadVars
  <2>2. CASE Join
    BY <2>2 DEF Join, Goto, threadVars
  <2>3. CASE WholeCounter
    BY <2>3 DEF WholeCounter, Goto, CounterReading, threadVars
  <2>4. CASE Shutdown
    BY <2>4 DEF Shutdown, Goto, AfterUse, threadVars
  <2> QED
    BY <1>6, <2>1, <2>2, <2>3, <2>4 DEF Stopping
<1>7. CASE Sampler
  <2>1. CASE LoopTest
    BY <2>1 DEF LoopTest, mainVars
  <2>2. CASE Stamp
    BY <2>2 DEF Stamp, mainVars
  <2>3. CASE SampleTaken
    BY <2>3 DEF SampleTaken, mainVars
  <2>4. CASE SampleFails
    BY <2>4 DEF SampleFails, mainVars
  <2>5. CASE Wake
    BY <2>5 DEF Wake, mainVars
  <2> QED
    BY <1>7, <2>1, <2>2, <2>3, <2>4, <2>5 DEF Sampler
<1>8. CASE UNCHANGED vars
  BY <1>8 DEF vars, mainVars, threadVars
<1>9. QED
  BY <1>1, <1>2, <1>3, <1>4, <1>5, <1>6, <1>7, <1>8 DEF Next

(* Every step keeps the trace between the whole window's counter readings.  *)
LEMMA CounterStep == TypeOK /\ ThreadInv /\ TraceInv /\ CounterInv /\ [Next]_vars => CounterInv'
<1> SUFFICES ASSUME TypeOK, ThreadInv, TraceInv, CounterInv, [Next]_vars PROVE CounterInv'
  OBVIOUS
<1> USE MonitorAssumption DEF TypeOK, MainSteps, Monitoring, SamplerSteps, Instant, None, ThreadInv, TraceInv, CounterInv, Awake, Marks
<1>a. \A i \in 1 .. Len(samples) :
         samples[i] \in Sample /\ samples[i].t \in Nat /\ samples[i].at \in Nat
  <2> TAKE i \in 1 .. Len(samples)
  <2>1. samples[i] \in Sample
    OBVIOUS
  <2> QED
    BY <2>1 DEF Sample
<1>1. CASE Tick
  BY <1>1, <1>a DEF Tick, mainVars, threadVars
<1>2. CASE \E u \in {"idle", "run"} : Create(u)
  <2> PICK u \in {"idle", "run"} : Create(u)
    BY <1>2
  <2> QED
    BY <1>a DEF Create, Goto, NoMarks
<1>3. CASE Starting
  <2>1. CASE Connect
    BY <2>1, <1>a DEF Connect, Goto, threadVars
  <2>2. CASE ConnectFails
    BY <2>2, <1>a DEF ConnectFails, Goto, AfterUse, threadVars
  <2>3. CASE Launch
    BY <2>3, <1>a DEF Launch, Goto, CounterReading, NoMarks
  <2> QED
    BY <1>3, <2>1, <2>2, <2>3 DEF Starting
<1>4. CASE SleepEnds
  BY <1>4, <1>a DEF SleepEnds, Goto, threadVars
<1>5. CASE Workload
  <2>1. CASE SetupRaises
    BY <2>1, <1>a DEF SetupRaises, Goto, threadVars
  <2>2. CASE EnterClock
    BY <2>2, <1>a DEF EnterClock, Goto, threadVars
  <2>3. CASE EnterCounter
    BY <2>3, <1>a DEF EnterCounter, Goto, CounterReading, threadVars
  <2>4. CASE EnterCtx
    BY <2>4, <1>a DEF EnterCtx, Goto, threadVars
  <2>5. CASE RegionEnds
    BY <2>5, <1>a DEF RegionEnds, Goto, threadVars
  <2>6. CASE ExitSyncRaises
    BY <2>6, <1>a DEF ExitSyncRaises, Goto, threadVars
  <2>7. CASE ExitCtx
    BY <2>7, <1>a DEF ExitCtx, Goto, threadVars
  <2>8. CASE ExitClock
    BY <2>8, <1>a DEF ExitClock, Goto, threadVars
  <2>9. CASE ExitCounter
    BY <2>9, <1>a DEF ExitCounter, Goto, CounterReading, threadVars
  <2>10. CASE QueryOpen
    BY <2>10, <1>a DEF QueryOpen, Goto, threadVars
  <2>11. CASE QueryClose
    BY <2>11, <1>a DEF QueryClose, Goto, threadVars
  <2>12. CASE ReportEnds
    BY <2>12, <1>a DEF ReportEnds, threadVars
  <2> QED
    BY <1>5, <2>1, <2>2, <2>3, <2>4, <2>5, <2>6, <2>7, <2>8, <2>9, <2>10, <2>11, <2>12 DEF Workload
<1>6. CASE Stopping
  <2>1. CASE StopSet
    BY <2>1, <1>a DEF StopSet, Goto, threadVars
  <2>2. CASE Join
    BY <2>2, <1>a DEF Join, Goto, threadVars
  <2>3. CASE WholeCounter
    BY <2>3, <1>a DEF WholeCounter, Goto, CounterReading, threadVars
  <2>4. CASE Shutdown
    BY <2>4, <1>a DEF Shutdown, Goto, AfterUse, threadVars
  <2> QED
    BY <1>6, <2>1, <2>2, <2>3, <2>4 DEF Stopping
<1>7. CASE Sampler
  <2>1. CASE LoopTest
    BY <2>1, <1>a DEF LoopTest, mainVars
  <2>2. CASE Stamp
    BY <2>2, <1>a DEF Stamp, mainVars
  <2>3. CASE SampleTaken
    BY <2>3, <1>a DEF SampleTaken, mainVars
  <2>4. CASE SampleFails
    BY <2>4, <1>a DEF SampleFails, mainVars
  <2>5. CASE Wake
    BY <2>5, <1>a DEF Wake, mainVars
  <2> QED
    BY <1>7, <2>1, <2>2, <2>3, <2>4, <2>5 DEF Sampler
<1>8. CASE UNCHANGED vars
  BY <1>8, <1>a DEF vars, mainVars, threadVars
<1>9. QED
  BY <1>1, <1>2, <1>3, <1>4, <1>5, <1>6, <1>7, <1>8 DEF Next

(* Every step keeps a summary that exists equal to the monitor it is of.    *)
LEMMA ResultStep == TypeOK /\ ThreadInv /\ ResultInv /\ [Next]_vars => ResultInv'
<1> SUFFICES ASSUME TypeOK, ThreadInv, ResultInv, [Next]_vars PROVE ResultInv'
  OBVIOUS
<1> USE MonitorAssumption DEF TypeOK, MainSteps, Monitoring, SamplerSteps, ThreadInv, ResultInv, Summary,
       Delta, WholeDelta, RegionDelta, Awake
<1>1. CASE Tick
  BY <1>1 DEF Tick, mainVars, threadVars
<1>2. CASE \E u \in {"idle", "run"} : Create(u)
  <2> PICK u \in {"idle", "run"} : Create(u)
    BY <1>2
  <2> QED
    BY DEF Create, Goto, NoResult
<1>3. CASE Starting
  <2>1. CASE Connect
    BY <2>1 DEF Connect, Goto, threadVars
  <2>2. CASE ConnectFails
    BY <2>2 DEF ConnectFails, Goto, AfterUse, threadVars
  <2>3. CASE Launch
    BY <2>3 DEF Launch, Goto
  <2> QED
    BY <1>3, <2>1, <2>2, <2>3 DEF Starting
<1>4. CASE SleepEnds
  BY <1>4 DEF SleepEnds, Goto, threadVars
<1>5. CASE Workload
  <2>1. CASE SetupRaises
    BY <2>1 DEF SetupRaises, Goto, threadVars
  <2>2. CASE EnterClock
    BY <2>2 DEF EnterClock, Goto, threadVars
  <2>3. CASE EnterCounter
    BY <2>3 DEF EnterCounter, Goto, CounterReading, threadVars
  <2>4. CASE EnterCtx
    BY <2>4 DEF EnterCtx, Goto, threadVars
  <2>5. CASE RegionEnds
    BY <2>5 DEF RegionEnds, Goto, threadVars
  <2>6. CASE ExitSyncRaises
    BY <2>6 DEF ExitSyncRaises, Goto, threadVars
  <2>7. CASE ExitCtx
    BY <2>7 DEF ExitCtx, Goto, threadVars
  <2>8. CASE ExitClock
    BY <2>8 DEF ExitClock, Goto, threadVars
  <2>9. CASE ExitCounter
    BY <2>9 DEF ExitCounter, Goto, CounterReading, threadVars
  <2>10. CASE QueryOpen
    BY <2>10 DEF QueryOpen, Goto, threadVars
  <2>11. CASE QueryClose
    BY <2>11 DEF QueryClose, Goto, threadVars
  <2>12. CASE ReportEnds
    BY <2>12 DEF ReportEnds, threadVars
  <2> QED
    BY <1>5, <2>1, <2>2, <2>3, <2>4, <2>5, <2>6, <2>7, <2>8, <2>9, <2>10, <2>11, <2>12 DEF Workload
<1>6. CASE Stopping
  <2>1. CASE StopSet
    BY <2>1 DEF StopSet, Goto, threadVars
  <2>2. CASE Join
    BY <2>2 DEF Join, Goto, threadVars
  <2>3. CASE WholeCounter
    BY <2>3 DEF WholeCounter, Goto, CounterReading, threadVars
  <2>4. CASE Shutdown
    BY <2>4 DEF Shutdown, Goto, AfterUse, threadVars
  <2> QED
    BY <1>6, <2>1, <2>2, <2>3, <2>4 DEF Stopping
<1>7. CASE Sampler
  <2>1. CASE LoopTest
    BY <2>1 DEF LoopTest, mainVars
  <2>2. CASE Stamp
    BY <2>2 DEF Stamp, mainVars
  <2>3. CASE SampleTaken
    BY <2>3 DEF SampleTaken, mainVars
  <2>4. CASE SampleFails
    BY <2>4 DEF SampleFails, mainVars
  <2>5. CASE Wake
    BY <2>5 DEF Wake, mainVars
  <2> QED
    BY <1>7, <2>1, <2>2, <2>3, <2>4, <2>5 DEF Sampler
<1>8. CASE UNCHANGED vars
  BY <1>8 DEF vars, mainVars, threadVars
<1>9. QED
  BY <1>1, <1>2, <1>3, <1>4, <1>5, <1>6, <1>7, <1>8 DEF Next

-----------------------------------------------------------------------------
(* IInv holds at first, is kept by every step, and implies each property.  *)
LEMMA InitIInv == Init => IInv
<1> SUFFICES ASSUME Init PROVE IInv
  OBVIOUS
<1> USE DEF Init, MainSteps, Monitoring, SamplerSteps, None
<1>1. TypeOK
  <2>1. samples \in Seq(Sample) /\ marks \in Marks /\ ctx \in Ctx /\ result \in Results
    BY Records
  <2> QED
    BY <2>1 DEF TypeOK
<1>2. ThreadInv /\ NvmlInv
  BY DEF ThreadInv, NvmlInv
<1>3. TraceInv /\ MarksInv /\ CounterInv
  BY DEF TraceInv, MarksInv, CounterInv, NoMarks, NoCtx
<1>4. ResultInv
  BY DEF ResultInv, NoResult
<1> QED
  BY <1>1, <1>2, <1>3, <1>4 DEF IInv

THEOREM InductiveInvariant == Spec => []IInv
<1>1. IInv /\ [Next]_vars => IInv'
  BY TypeStep, NvmlStep, ThreadStep, TraceStep, MarksStep, CounterStep, ResultStep DEF IInv
<1> QED
  BY <1>1, InitIInv, PTL DEF Spec

(* Every variable of the monitor keeps its type.                           *)
THEOREM TypeCorrect == Spec => []TypeOK
<1>1. IInv => TypeOK
  BY DEF IInv
<1> QED
  BY <1>1, InductiveInvariant, PTL

(* The sampling thread never queries NVML after it has been shut down.     *)
THEOREM SamplerSafe == Spec => []SamplerHoldsNvml
<1>1. IInv => SamplerHoldsNvml
  BY DEF IInv, TypeOK, MainSteps, Monitoring, ThreadInv, NvmlInv, SamplerHoldsNvml
<1> QED
  BY <1>1, InductiveInvariant, PTL

(* The sampling thread lives from start() to stop(), whatever reads fail.  *)
THEOREM SamplerStaysAlive == Spec => []SamplerAlive
<1>1. IInv => SamplerAlive
  BY DEF IInv, ThreadInv, SamplerAlive, Awake
<1> QED
  BY <1>1, InductiveInvariant, PTL

(* The trace is sorted, and each timestamp precedes the read it labels.    *)
THEOREM TraceIsOrdered == Spec => []TraceOrdered
<1>1. IInv => TraceOrdered
  BY DEF IInv, TraceInv, TraceOrdered
<1> QED
  BY <1>1, InductiveInvariant, PTL

(* A "region" summary is of a completed timed region and covers all of it. *)
THEOREM RegionIsCovered == Spec => []WindowCoversRegion
<1>1. IInv => WindowCoversRegion
  <2> SUFFICES ASSUME IInv, result.window # "none" PROVE WindowCoversRegion
    BY DEF WindowCoversRegion
  <2>1. result = Summary /\ main \in {"idle", "exited"}
    BY DEF IInv, ResultInv
  <2>2. /\ marks.t0 \in Int /\ marks.t1 \in Int /\ marks.mj0 \in Int /\ marks.mj1 \in Int
        /\ ctx.start \in Int /\ ctx.stop \in Int
    BY DEF IInv, TypeOK, Marks, Ctx, Instant, None
  <2>3. MarksInv /\ main # "exitClock"
    BY <2>1 DEF IInv
  <2> QED
    BY <2>1, <2>2, <2>3 DEF MarksInv, WindowCoversRegion, Summary, RegionDelta, Delta, None
<1> QED
  BY <1>1, InductiveInvariant, PTL

(* A whole-run counter delta spans every sample of the integral it checks. *)
THEOREM TraceIsCovered == Spec => []CounterCoversTrace
<1>1. IInv => CounterCoversTrace
  <2> SUFFICES ASSUME IInv, result.window = "full_run", result.mjHi # None
               PROVE \A i \in 1 .. Len(samples) :
                       result.mjLo <= samples[i].t /\ samples[i].at <= result.mjHi
    BY DEF CounterCoversTrace
  <2>1. result = Summary
    BY DEF IInv, ResultInv
  <2>2. result.mjLo = marks.startMj /\ result.mjHi = marks.endMj
    BY <2>1 DEF Summary, WholeDelta, Delta, None
  <2> QED
    BY <2>2 DEF IInv, CounterInv
<1> QED
  BY <1>1, InductiveInvariant, PTL

(* What stop() returned holds the whole trace, and stays so.               *)
THEOREM TraceStaysFinal == Spec => []TraceFinal
<1>1. IInv => TraceFinal
  BY DEF IInv, ResultInv, TraceFinal, Summary
<1> QED
  BY <1>1, InductiveInvariant, PTL
=============================================================================
