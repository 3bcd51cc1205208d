---------------------------- MODULE SmokeProofs ----------------------------
(***************************************************************************)
(* Proofs about SmokeJob for any number of clients, any seconds and any    *)
(* manifests, whether or not two of them share a Job's name: what a client *)
(* reports is true of the pod it followed, and it leaves no Job of its own *)
(* behind.                                                                 *)
(***************************************************************************)
EXTENDS SmokeJob, TLAPS

Places == {"start", "apply", "inFlight", "waitPod", "waitPhase", "stream", "settle",
           "cleanup", "delete", "done", "abandoned"}
Phases == {"none", "Pending", "Running", "closing", "Succeeded", "Failed", "gone"}
Arms   == [cond : {"absent", "active", "finished"}, pod : Phases,
           exit : {"none", "zero", "nonzero"}, printed : BOOLEAN]

TypeOK ==
  /\ second \in Seconds
  /\ at \in [Clients -> Places] /\ runId \in [Clients -> Seconds]
  /\ pod \in [Clients -> Clients \cup {None}]
  /\ code \in [Clients -> {"none", "ok", "died", "interrupted", "notSucceeded", "unread"}]
  /\ jobs \in [Names -> Clients \cup {None}] /\ arm \in [Clients -> Arms]
  /\ logs \in [Names -> Clients \cup {None}] /\ files \in [Names -> Clients \cup {None}]

(* A pod's phase says how its container ended, if it did.                  *)
ArmInv ==
  \A a \in Clients :
    /\ arm[a].pod \in {"none", "Pending", "Running"} => arm[a].exit = "none"
    /\ arm[a].pod = "Succeeded" => arm[a].exit = "zero"
    /\ arm[a].pod = "Failed" => arm[a].exit # "zero"

(* What a name stands for, in the cluster and on the laptop, is of the     *)
(* client that has taken the name, and keeps it.                           *)
Named(holder) ==
  \A n \in Names : holder[n] # None => n = JobName(holder[n]) /\ at[holder[n]] # "start"

(* A client past the search for its pod has found one.                     *)
FollowInv == \A c \in Clients : at[c] \in {"waitPhase", "stream", "settle"} => pod[c] # None

(* The pod a client follows is that of a client of the same name.          *)
PodInv ==
  \A c \in Clients : pod[c] # None =>
    at[c] # "start" /\ at[pod[c]] # "start" /\ JobName(c) = JobName(pod[c])

FileInv == Named(logs) /\ Named(files)

(* "ok" is said of a pod that exited zero, and that is not exchanged for   *)
(* another one any more.                                                   *)
Over == {"cleanup", "delete", "done", "abandoned"}
CodeInv ==
  \A c \in Clients : code[c] = "ok" =>
    at[c] \in Over /\ pod[c] # None /\ arm[pod[c]].exit = "zero"

IInv ==
  TypeOK /\ ArmInv /\ Named(jobs) /\ FollowInv /\ CleansUp /\ PodInv /\ FileInv /\ CodeInv

----------------------------------------------------------------------------
LEMMA JobNameIsName ==
  ASSUME TypeOK, NEW c \in Clients PROVE JobName(c) \in Names
BY DEF TypeOK, JobName, Names

LEMMA NoneIsNoClient == ASSUME NEW c \in Clients PROVE c # None
BY SmokeAssumption

(* A name that one client has alone stands for what is its own, or for     *)
(* nothing.                                                                *)
LEMMA OneHolder ==
  ASSUME TypeOK, NEW holder \in [Names -> Clients \cup {None}], Named(holder),
         NEW c \in Clients, Alone(c)
  PROVE  holder[JobName(c)] \in {c, None}
BY JobNameIsName DEF Alone, Named

(* A record that is updated in one field is an arm still.                  *)
LEMMA ArmUpdates ==
  ASSUME NEW r \in Arms
  PROVE  /\ [r EXCEPT !.pod = "gone"] \in Arms
         /\ [r EXCEPT !.pod = "gone"].exit = r.exit /\ [r EXCEPT !.pod = "gone"].pod = "gone"
         /\ [r EXCEPT !.cond = "active"] \in Arms
         /\ [r EXCEPT !.cond = "active"].exit = r.exit /\ [r EXCEPT !.cond = "active"].pod = r.pod
BY DEF Arms, Phases

LEMMA RemoveTypes ==
  ASSUME TypeOK, NEW n \in Names, Remove(n)
  PROVE  /\ jobs' \in [Names -> Clients \cup {None}] /\ arm' \in [Clients -> Arms]
         /\ \A m \in Names : jobs'[m] = IF m = n THEN None ELSE jobs[m]
         /\ \A a \in Clients :
              /\ arm'[a].exit = arm[a].exit /\ arm'[a].pod \in {arm[a].pod, "gone"}
<1>1. CASE jobs[n] = None
  BY <1>1 DEF TypeOK, Remove
<1>2. CASE jobs[n] # None
  <2>1. jobs[n] \in Clients /\ arm' = [arm EXCEPT ![jobs[n]].pod = "gone"]
    BY <1>2 DEF TypeOK, Remove
  <2>2. \A a \in Clients :
          /\ arm'[a] = IF a = jobs[n] THEN [arm[a] EXCEPT !.pod = "gone"] ELSE arm[a]
          /\ arm[a] \in Arms
    BY <2>1 DEF TypeOK
  <2>3. \A a \in Clients :
          /\ arm'[a] \in Arms
          /\ arm'[a].exit = arm[a].exit /\ arm'[a].pod \in {arm[a].pod, "gone"}
    BY <2>2, ArmUpdates
  <2>. QED BY <2>1, <2>3 DEF TypeOK, Remove
<1>. QED BY <1>1, <1>2

LEMMA CreateTypes ==
  ASSUME TypeOK, NEW c \in Clients, CreateJob(c, JobName(c)) \/ UNCHANGED cluster
  PROVE  /\ jobs' \in [Names -> Clients \cup {None}] /\ arm' \in [Clients -> Arms]
         /\ \A m \in Names : jobs'[m] = jobs[m] \/ (m = JobName(c) /\ jobs'[m] = c)
         /\ \A a \in Clients : arm'[a].exit = arm[a].exit /\ arm'[a].pod = arm[a].pod
<1>1. CASE UNCHANGED cluster
  BY <1>1 DEF TypeOK, cluster
<1>2. CASE jobs[JobName(c)] # None /\ CreateJob(c, JobName(c))
  BY <1>2 DEF TypeOK, CreateJob, cluster
<1>3. CASE jobs[JobName(c)] = None /\ CreateJob(c, JobName(c))
  <2>1. /\ jobs' = [jobs EXCEPT ![JobName(c)] = c]
        /\ arm' = [arm EXCEPT ![c] = [@ EXCEPT !.cond = "active"]]
    BY <1>3 DEF CreateJob
  <2>2. \A a \in Clients :
          /\ arm'[a] = IF a = c THEN [arm[a] EXCEPT !.cond = "active"] ELSE arm[a]
          /\ arm[a] \in Arms
    BY <2>1 DEF TypeOK
  <2>3. \A a \in Clients :
          arm'[a] \in Arms /\ arm'[a].exit = arm[a].exit /\ arm'[a].pod = arm[a].pod
    BY <2>2, ArmUpdates
  <2>. QED BY <2>1, <2>3, JobNameIsName DEF TypeOK
<1>. QED BY <1>1, <1>2, <1>3

(* What the cluster does to an arm leaves all the rest alone.              *)
LEMMA ArmSteps ==
  ASSUME TypeOK, NEW a \in Clients,
         PodCreated(a) \/ PodScheduled(a) \/ ContainerExits(a) \/ PodSettles(a)
           \/ JobFinishes(a) \/ DeadlineFires(a)
  PROVE  UNCHANGED <<second, at, laptop, jobs>> /\ arm' \in [Clients -> Arms]
<1>1. CASE PodCreated(a)
  BY <1>1 DEF PodCreated, ArmStep, TypeOK, Arms, Phases
<1>2. CASE PodScheduled(a)
  BY <1>2 DEF PodScheduled, ArmStep, TypeOK, Arms, Phases
<1>3. CASE ContainerExits(a)
  <2>1. PICK exit \in {"zero", "nonzero"}, printed \in BOOLEAN :
          ArmStep(a, arm[a], [arm[a] EXCEPT !.pod = "closing", !.exit = exit, !.printed = printed])
    BY <1>3 DEF ContainerExits
  <2>. QED BY <2>1 DEF ArmStep, TypeOK, Arms, Phases
<1>4. CASE PodSettles(a)
  BY <1>4 DEF PodSettles, ArmStep, TypeOK, Arms, Phases
<1>5. CASE JobFinishes(a)
  BY <1>5 DEF JobFinishes, ArmStep, TypeOK, Arms, Phases
<1>6. CASE DeadlineFires(a)
  BY <1>6 DEF DeadlineFires, ArmStep, TypeOK, Arms, Phases
<1>. QED BY <1>1, <1>2, <1>3, <1>4, <1>5, <1>6

LEMMA KeptType ==
  ASSUME TypeOK, NEW c \in Clients PROVE Kept(c) \in [Names -> Clients \cup {None}]
BY JobNameIsName DEF TypeOK, Kept

LEMMA TypeStep == TypeOK /\ [Next]_vars => TypeOK'
<1>. SUFFICES ASSUME TypeOK, [Next]_vars PROVE TypeOK'
  OBVIOUS
<1>0. \A c \in Clients : JobName(c) \in Names
  BY JobNameIsName
<1>1. CASE UNCHANGED vars \/ ClockTick
  BY <1>1, SmokeAssumption DEF TypeOK, vars, ClockTick, laptop, cluster, Seconds
<1>2. ASSUME NEW c \in Clients, Name(c) \/ PodSeen(c) \/ PodTimeout(c)
      PROVE  TypeOK'
  BY <1>0, <1>2, NoneIsNoClient DEF TypeOK, Name, PodSeen, PodTimeout, Goto, Exit, Places, cluster
<1>3. ASSUME NEW c \in Clients, Apply(c) \/ ApplyFails(c) \/ ApplyLands(c)
      PROVE  TypeOK'
  <2>1. CreateJob(c, JobName(c)) \/ UNCHANGED cluster
    BY <1>3 DEF Apply, ApplyFails, ApplyLands
  <2>2. /\ jobs' \in [Names -> Clients \cup {None}] /\ arm' \in [Clients -> Arms]
    BY <2>1, CreateTypes
  <2>. QED BY <1>3, <2>2 DEF TypeOK, Apply, ApplyFails, ApplyLands, Goto, Exit, Places, laptop
<1>4. ASSUME NEW c \in Clients, PhaseSeen(c) \/ PhaseTimeout(c) \/ StreamEnds(c)
      PROVE  TypeOK'
  <2>1. logs' \in [Names -> Clients \cup {None}]
    BY <1>0, <1>4 DEF TypeOK, PhaseSeen, PhaseTimeout, StreamEnds
  <2>. QED BY <1>4, <2>1 DEF TypeOK, PhaseSeen, PhaseTimeout, StreamEnds, Goto, Exit, Places, cluster
<1>5. ASSUME NEW c \in Clients, SettleRead(c) \/ SettleTimeout(c) \/ SettleUnread(c)
      PROVE  TypeOK'
  <2>1. PICK status \in {"ok", "notSucceeded", "unread"} : Collect(c, status)
    BY <1>5 DEF SettleRead, SettleTimeout, SettleUnread
  <2>2. files' \in [Names -> Clients \cup {None}]
    BY <1>0, <2>1, KeptType DEF TypeOK, Collect
  <2>. QED BY <2>1, <2>2 DEF TypeOK, Collect, Exit, Goto, Places, cluster
<1>6. ASSUME NEW c \in Clients, Delete(c)
      PROVE  TypeOK'
  <2>1. /\ jobs' \in [Names -> Clients \cup {None}] /\ arm' \in [Clients -> Arms]
    BY <1>0, <1>6, RemoveTypes DEF Delete
  <2>. QED BY <1>6, <2>1 DEF TypeOK, Delete, Goto, Places, laptop
<1>7. ASSUME NEW c \in Clients, ApplyCutShort(c) \/ StreamBreaks(c) \/ Signal(c) \/ SignalAgain(c)
      PROVE  TypeOK'
  BY <1>7, KeptType DEF TrapStatus, TypeOK, ApplyCutShort, StreamBreaks, Signal, SignalAgain, TrapStatus, Goto, Exit, Places, laptop, cluster
<1>8. ASSUME NEW c \in Clients, ReadBack(c) \/ ClientDies(c) \/ ReadBackFails(c) \/ DeleteFails(c)
      PROVE  TypeOK'
  BY <1>8 DEF TypeOK, ReadBack, ClientDies, ReadBackFails, DeleteFails, Goto, Places, laptop, cluster
<1>9. ASSUME NEW a \in Clients,
             PodCreated(a) \/ PodScheduled(a) \/ ContainerExits(a) \/ PodSettles(a)
               \/ JobFinishes(a) \/ DeadlineFires(a)
      PROVE  TypeOK'
  BY <1>9, ArmSteps DEF TypeOK, laptop
<1>10. ASSUME NEW n \in Names, TtlExpires(n) \/ Reap(n)
       PROVE  TypeOK'
  <2>1. /\ jobs' \in [Names -> Clients \cup {None}] /\ arm' \in [Clients -> Arms]
    BY <1>10, RemoveTypes DEF TtlExpires, Reap
  <2>. QED BY <1>10, <2>1 DEF TypeOK, TtlExpires, Reap, laptop
<1>. QED
  BY <1>1, <1>2, <1>3, <1>4, <1>5, <1>6, <1>7, <1>8, <1>9, <1>10 DEF Next, Script, Mishap, Controller

----------------------------------------------------------------------------
(* What most steps of a client and the clock leave alone.                  *)
Aside(c) ==
  \/ Name(c) \/ PodSeen(c) \/ PodTimeout(c) \/ PhaseSeen(c) \/ PhaseTimeout(c)
  \/ StreamEnds(c) \/ SettleRead(c) \/ SettleTimeout(c) \/ SettleUnread(c) \/ ReadBack(c)
  \/ ApplyCutShort(c) \/ StreamBreaks(c) \/ Signal(c) \/ SignalAgain(c)
  \/ ClientDies(c) \/ ReadBackFails(c) \/ DeleteFails(c)

Applies(c) == Apply(c) \/ ApplyFails(c) \/ ApplyLands(c)

Moves(a) ==
  \/ PodCreated(a) \/ PodScheduled(a) \/ ContainerExits(a)
  \/ PodSettles(a) \/ JobFinishes(a) \/ DeadlineFires(a)

LEMMA Steps ==
  ASSUME [Next]_vars
  PROVE  \/ UNCHANGED vars \/ ClockTick
         \/ \E c \in Clients : Aside(c) \/ Applies(c) \/ Delete(c) \/ Moves(c)
         \/ \E n \in Names : TtlExpires(n) \/ Reap(n)
BY DEF Next, Script, Mishap, Controller, Aside, Applies, Moves

LEMMA AsideLeavesCluster ==
  ASSUME NEW c \in Clients, Aside(c) PROVE UNCHANGED <<jobs, arm>>
BY DEF Aside, Name, PodSeen, PodTimeout, PhaseSeen, PhaseTimeout, StreamEnds, SettleRead,
  SettleTimeout, SettleUnread, Collect, ReadBack, ApplyCutShort, StreamBreaks, Signal, SignalAgain, TrapStatus, ClientDies,
  ReadBackFails, DeleteFails, cluster

LEMMA RemoveLeavesLaptop ==
  ASSUME NEW n \in Names, TtlExpires(n) \/ Reap(n)
  PROVE  Remove(n) /\ UNCHANGED <<at, runId, pod, code, logs, files>>
BY DEF TtlExpires, Reap, laptop

(* A container ends once: no later phase takes its exit status back.       *)
LEMMA ArmInvStep ==
  ASSUME TypeOK, ArmInv, [Next]_vars
  PROVE  ArmInv' /\ \A a \in Clients : arm[a].exit = "zero" => arm'[a].exit = "zero"
<1>1. CASE UNCHANGED vars \/ ClockTick
  BY <1>1 DEF ArmInv, vars, ClockTick, cluster
<1>2. CASE \E c \in Clients : Aside(c)
  BY <1>2, AsideLeavesCluster DEF ArmInv
<1>3. CASE \E c \in Clients : Applies(c)
  <2>1. \A a \in Clients : arm'[a].exit = arm[a].exit /\ arm'[a].pod = arm[a].pod
    BY <1>3, CreateTypes DEF Applies, Apply, ApplyFails, ApplyLands
  <2>. QED BY <2>1 DEF ArmInv
<1>4. CASE (\E c \in Clients : Delete(c)) \/ (\E n \in Names : TtlExpires(n) \/ Reap(n))
  <2>1. PICK n \in Names : Remove(n)
    BY <1>4, JobNameIsName DEF Delete, TtlExpires, Reap
  <2>2. \A a \in Clients : arm'[a].exit = arm[a].exit /\ arm'[a].pod \in {arm[a].pod, "gone"}
    BY <2>1, RemoveTypes
  <2>. QED BY <2>2 DEF ArmInv
<1>5. ASSUME NEW a \in Clients, Moves(a)
      PROVE  ArmInv' /\ \A b \in Clients : arm[b].exit = "zero" => arm'[b].exit = "zero"
  <2>0. arm[a] \in Arms
    BY DEF TypeOK
  <2>1. ASSUME NEW to, ArmStep(a, arm[a], to),
               /\ to.pod \in {"none", "Pending", "Running"} => to.exit = "none"
               /\ to.pod = "Succeeded" => to.exit = "zero"
               /\ to.pod = "Failed" => to.exit # "zero"
               /\ arm[a].exit = "zero" => to.exit = "zero"
        PROVE  ArmInv' /\ \A b \in Clients : arm[b].exit = "zero" => arm'[b].exit = "zero"
    <3>1. \A b \in Clients : arm'[b] = IF b = a THEN to ELSE arm[b]
      BY <2>1 DEF ArmStep, TypeOK
    <3>. QED BY <2>1, <3>1 DEF ArmInv
  <2>2. CASE PodCreated(a)
    BY <2>0, <2>1, <2>2 DEF PodCreated, ArmInv, Arms
  <2>3. CASE PodScheduled(a)
    BY <2>0, <2>1, <2>3 DEF PodScheduled, ArmInv, Arms
  <2>4. CASE ContainerExits(a)
    <3>1. PICK exit \in {"zero", "nonzero"}, printed \in BOOLEAN :
            ArmStep(a, arm[a], [arm[a] EXCEPT !.pod = "closing", !.exit = exit, !.printed = printed])
      BY <2>4 DEF ContainerExits
    <3>2. arm[a].pod = "Running" /\ arm[a].exit = "none"
      BY <2>4 DEF ContainerExits, ArmInv
    <3>. QED BY <2>0, <2>1, <3>1, <3>2 DEF Arms
  <2>5. CASE PodSettles(a)
    BY <2>0, <2>1, <2>5 DEF PodSettles, ArmInv, Arms
  <2>6. CASE JobFinishes(a)
    BY <2>0, <2>1, <2>6 DEF JobFinishes, ArmInv, Arms
  <2>7. CASE DeadlineFires(a)
    BY <2>0, <2>1, <2>7 DEF DeadlineFires, ArmInv, Arms
  <2>. QED BY <1>5, <2>2, <2>3, <2>4, <2>5, <2>6, <2>7 DEF Moves
<1>. QED BY <1>1, <1>2, <1>3, <1>4, <1>5, Steps

----------------------------------------------------------------------------
(* A client takes its name once, and never starts again.                   *)
LEMMA NameKept ==
  ASSUME TypeOK, [Next]_vars, NEW c \in Clients, at[c] # "start"
  PROVE  at'[c] # "start" /\ runId'[c] = runId[c] /\ JobName(c)' = JobName(c)
<1>. SUFFICES at'[c] # "start" /\ runId'[c] = runId[c]
  BY DEF JobName
<1>1. CASE UNCHANGED vars \/ ClockTick
  BY <1>1 DEF vars, ClockTick, laptop
<1>2. ASSUME NEW d \in Clients, Aside(d) PROVE at'[c] # "start" /\ runId'[c] = runId[c]
  BY <1>2 DEF TypeOK, Aside, Name, PodSeen, PodTimeout, PhaseSeen, PhaseTimeout, StreamEnds,
    SettleRead, SettleTimeout, SettleUnread, Collect, ReadBack, ApplyCutShort, StreamBreaks, Signal, SignalAgain, TrapStatus,
    ClientDies, ReadBackFails, DeleteFails, Goto, Exit, laptop
<1>3. ASSUME NEW d \in Clients, Applies(d) \/ Delete(d)
      PROVE  at'[c] # "start" /\ runId'[c] = runId[c]
  BY <1>3 DEF TypeOK, Applies, Apply, ApplyFails, ApplyLands, Delete, Goto, Exit, laptop
<1>4. ASSUME NEW a \in Clients, Moves(a) PROVE at'[c] # "start" /\ runId'[c] = runId[c]
  BY <1>4, ArmSteps DEF Moves, laptop
<1>5. CASE \E n \in Names : TtlExpires(n) \/ Reap(n)
  BY <1>5, RemoveLeavesLaptop
<1>. QED BY <1>1, <1>2, <1>3, <1>4, <1>5, Steps

(* What was of its holder stays so, if all that a step puts under a name   *)
(* is the client of that name.                                             *)
LEMMA NamedStep ==
  ASSUME TypeOK, [Next]_vars,
         NEW holder \in [Names -> Clients \cup {None}], Named(holder),
         NEW next \in [Names -> Clients \cup {None}],
         \A n \in Names :
           \/ next[n] \in {holder[n], None}
           \/ next[n] \in Clients /\ at[next[n]] # "start" /\ n = JobName(next[n])
  PROVE  \A n \in Names : next[n] # None => n = JobName(next[n])' /\ at'[next[n]] # "start"
<1>. SUFFICES ASSUME NEW n \in Names, next[n] # None
              PROVE  n = JobName(next[n])' /\ at'[next[n]] # "start"
  OBVIOUS
<1>1. next[n] \in Clients /\ n = JobName(next[n]) /\ at[next[n]] # "start"
  BY DEF Named
<1>. QED BY <1>1, NameKept

LEMMA JobsNamed ==
  ASSUME TypeOK, TypeOK', Named(jobs), [Next]_vars PROVE Named(jobs)'
<1>. SUFFICES \A n \in Names :
                \/ jobs'[n] \in {jobs[n], None}
                \/ jobs'[n] \in Clients /\ at[jobs'[n]] # "start" /\ n = JobName(jobs'[n])
  <2>1. jobs \in [Names -> Clients \cup {None}] /\ jobs' \in [Names -> Clients \cup {None}]
    BY DEF TypeOK
  <2>. QED BY <2>1, NamedStep DEF Named
<1>1. CASE UNCHANGED vars \/ ClockTick
  BY <1>1 DEF vars, ClockTick, cluster
<1>2. CASE \E c \in Clients : Aside(c)
  BY <1>2, AsideLeavesCluster
<1>3. ASSUME NEW c \in Clients, Applies(c)
      PROVE  \A n \in Names :
               \/ jobs'[n] \in {jobs[n], None}
               \/ jobs'[n] \in Clients /\ at[jobs'[n]] # "start" /\ n = JobName(jobs'[n])
  <2>1. at[c] # "start" /\ (CreateJob(c, JobName(c)) \/ UNCHANGED cluster)
    BY <1>3 DEF Applies, Apply, ApplyFails, ApplyLands, Goto, Exit
  <2>. QED BY <2>1, CreateTypes
<1>4. CASE (\E c \in Clients : Delete(c)) \/ (\E n \in Names : TtlExpires(n) \/ Reap(n))
  <2>1. PICK n \in Names : Remove(n)
    BY <1>4, JobNameIsName DEF Delete, TtlExpires, Reap
  <2>. QED BY <2>1, RemoveTypes
<1>5. CASE \E a \in Clients : Moves(a)
  BY <1>5, ArmSteps DEF Moves
<1>. QED BY <1>1, <1>2, <1>3, <1>4, <1>5, Steps

(* The files of a name are written by a client that took it, and what goes *)
(* into them is the pod's of one that did.                                 *)
LEMMA FilesNamed ==
  ASSUME TypeOK, TypeOK', PodInv, FileInv, [Next]_vars
  PROVE  FileInv'
<1>. DEFINE Own(next, holder) ==
       \A n \in Names :
         \/ next[n] \in {holder[n], None}
         \/ next[n] \in Clients /\ at[next[n]] # "start" /\ n = JobName(next[n])
<1>. SUFFICES Own(logs', logs) /\ Own(files', files)
  <2>1. /\ {logs, logs', files, files'} \subseteq [Names -> Clients \cup {None}]
        /\ Named(logs) /\ Named(files)
    BY DEF TypeOK, FileInv
  <2>2. ASSUME Own(logs', logs) PROVE Named(logs)'
    BY <2>1, <2>2, NamedStep DEF Named
  <2>3. ASSUME Own(files', files) PROVE Named(files)'
    BY <2>1, <2>3, NamedStep DEF Named
  <2>. QED BY <2>2, <2>3 DEF FileInv
<1>1. ASSUME UNCHANGED logs, UNCHANGED files PROVE Own(logs', logs) /\ Own(files', files)
  BY <1>1
<1>2. ASSUME NEW c \in Clients, PhaseSeen(c) PROVE Own(logs', logs) /\ Own(files', files)
  BY <1>2, JobNameIsName DEF TypeOK, PhaseSeen
<1>3. ASSUME NEW c \in Clients, StreamEnds(c) PROVE Own(logs', logs) /\ Own(files', files)
  <2>1. PICK log \in {logs[JobName(c)], pod[c]} : logs' = [logs EXCEPT ![JobName(c)] = log]
    BY <1>3 DEF StreamEnds
  <2>2. pod[c] # None => pod[c] \in Clients /\ at[pod[c]] # "start" /\ JobName(c) = JobName(pod[c])
    BY DEF PodInv, TypeOK
  <2>3. UNCHANGED files
    BY <1>3 DEF StreamEnds
  <2>. QED BY <2>1, <2>2, <2>3, JobNameIsName DEF TypeOK
<1>4. ASSUME NEW c \in Clients, UNCHANGED logs, files' = Kept(c)
      PROVE  Own(logs', logs) /\ Own(files', files)
  <2>. DEFINE record == logs[JobName(c)]
  <2>1. files' = [files EXCEPT ![JobName(c)] = IF record # None THEN record ELSE @]
    BY <1>4 DEF Kept
  <2>2. record # None => record \in Clients /\ at[record] # "start" /\ JobName(c) = JobName(record)
    BY JobNameIsName DEF TypeOK, FileInv, Named
  <2>. QED BY <1>4, <2>1, <2>2, JobNameIsName DEF TypeOK
<1>5. ASSUME NEW c \in Clients, Aside(c)
      PROVE  \/ UNCHANGED logs /\ UNCHANGED files
             \/ PhaseSeen(c) \/ StreamEnds(c)
             \/ UNCHANGED logs /\ files' = Kept(c)
  BY <1>5 DEF Aside, Name, PodSeen, PodTimeout, PhaseTimeout, SettleRead, SettleTimeout,
    SettleUnread, Collect, ReadBack, ApplyCutShort, StreamBreaks, Signal, SignalAgain, ClientDies,
    ReadBackFails, DeleteFails, laptop
<1>6. ASSUME NEW c \in Clients, Applies(c) \/ Delete(c) PROVE UNCHANGED logs /\ UNCHANGED files
  BY <1>6 DEF Applies, Apply, ApplyFails, ApplyLands, Delete, laptop
<1>7. CASE UNCHANGED vars \/ ClockTick \/ (\E a \in Clients : Moves(a))
             \/ (\E n \in Names : TtlExpires(n) \/ Reap(n))
  <2>1. UNCHANGED logs /\ UNCHANGED files
    BY <1>7, ArmSteps, RemoveLeavesLaptop DEF vars, ClockTick, Moves, laptop
  <2>. QED BY <1>1, <2>1
<1>. QED BY <1>1, <1>2, <1>3, <1>4, <1>5, <1>6, <1>7, Steps

LEMMA FollowInvStep ==
  ASSUME TypeOK, FollowInv, [Next]_vars PROVE FollowInv'
<1>1. CASE UNCHANGED vars \/ ClockTick
  BY <1>1 DEF FollowInv, vars, ClockTick, laptop
<1>2. ASSUME NEW c \in Clients, Aside(c) PROVE FollowInv'
  BY <1>2 DEF TypeOK, FollowInv, Aside, Name, PodSeen, PodTimeout, PhaseSeen, PhaseTimeout,
    StreamEnds, SettleRead, SettleTimeout, SettleUnread, Collect, ReadBack, ApplyCutShort, StreamBreaks, Signal,
    SignalAgain, ClientDies, ReadBackFails, DeleteFails, Goto, Exit, laptop
<1>3. ASSUME NEW c \in Clients, Applies(c) \/ Delete(c) PROVE FollowInv'
  BY <1>3 DEF TypeOK, FollowInv, Applies, Apply, ApplyFails, ApplyLands, Delete, Goto, Exit, laptop
<1>4. ASSUME NEW a \in Clients, Moves(a) PROVE FollowInv'
  BY <1>4, ArmSteps DEF FollowInv, Moves, laptop
<1>5. CASE \E n \in Names : TtlExpires(n) \/ Reap(n)
  BY <1>5, RemoveLeavesLaptop DEF FollowInv
<1>. QED BY <1>1, <1>2, <1>3, <1>4, <1>5, Steps

(* Most steps leave the pods alone that clients follow; a client that      *)
(* finds one finds that of a client of its name.                           *)
LEMMA PodSteps ==
  ASSUME TypeOK, Named(jobs), [Next]_vars, NEW c \in Clients, pod'[c] # pod[c]
  PROVE  /\ at[c] = "waitPod" /\ code'[c] = code[c]
         /\ pod'[c] \in Clients /\ at[pod'[c]] # "start" /\ JobName(c) = JobName(pod'[c])
<1>1. ASSUME NEW d \in Clients, Aside(d), ~PodSeen(d) PROVE FALSE
  BY <1>1 DEF Aside, Name, PodTimeout, PhaseSeen, PhaseTimeout, StreamEnds,
    SettleRead, SettleTimeout, SettleUnread, Collect, ReadBack, ApplyCutShort, StreamBreaks, Signal,
    SignalAgain, ClientDies, ReadBackFails, DeleteFails, laptop
<1>2. ASSUME NEW d \in Clients, Applies(d) \/ Delete(d) PROVE FALSE
  BY <1>2 DEF Applies, Apply, ApplyFails, ApplyLands, Delete, laptop
<1>3. CASE UNCHANGED vars \/ ClockTick \/ (\E a \in Clients : Moves(a))
             \/ (\E n \in Names : TtlExpires(n) \/ Reap(n))
  <2>1. UNCHANGED pod
    BY <1>3, ArmSteps, RemoveLeavesLaptop DEF vars, ClockTick, Moves, laptop
  <2>. QED BY <2>1
<1>4. ASSUME NEW d \in Clients, PodSeen(d)
      PROVE  /\ at[c] = "waitPod" /\ code'[c] = code[c]
             /\ pod'[c] \in Clients /\ at[pod'[c]] # "start" /\ JobName(c) = JobName(pod'[c])
  <2>1. /\ d = c /\ pod'[c] = jobs[JobName(c)] /\ jobs[JobName(c)] # None
        /\ at[c] = "waitPod" /\ code'[c] = code[c]
    BY <1>4 DEF TypeOK, PodSeen, Goto
  <2>2. JobName(c) \in Names
    BY JobNameIsName
  <2>. QED BY <2>1, <2>2 DEF TypeOK, Named
<1>. QED BY <1>1, <1>2, <1>3, <1>4, Steps

LEMMA PodInvStep ==
  ASSUME TypeOK, TypeOK', Named(jobs), PodInv, [Next]_vars PROVE PodInv'
<1>. SUFFICES ASSUME NEW c \in Clients, pod'[c] # None
              PROVE  /\ at'[c] # "start" /\ at'[pod'[c]] # "start"
                     /\ <<Slug[c], runId'[c]>> = <<Slug[pod'[c]], runId'[pod'[c]]>>
  BY DEF PodInv, JobName
<1>. DEFINE p == pod'[c]
<1>1. /\ p \in Clients /\ at[c] # "start" /\ at[p] # "start" /\ JobName(c) = JobName(p)
  <2>1. CASE pod'[c] = pod[c]
    BY <2>1 DEF PodInv, TypeOK
  <2>2. CASE pod'[c] # pod[c]
    BY <2>2, PodSteps
  <2>. QED BY <2>1, <2>2
<1>. HIDE DEF p
<1>2. /\ at'[c] # "start" /\ at'[p] # "start" /\ runId'[c] = runId[c] /\ runId'[p] = runId[p]
  BY <1>1, NameKept
<1>3. runId'[c] = runId'[p] /\ Slug[c] = Slug[p]
  BY <1>1, <1>2 DEF JobName
<1>. QED BY <1>2, <1>3 DEF p

(* "ok" is said of a pod that was seen Succeeded, which is for good.       *)
LEMMA OkSteps ==
  ASSUME TypeOK, FollowInv, [Next]_vars, NEW c \in Clients, code'[c] = "ok"
  PROVE  \/ code[c] = "ok" /\ (at[c] \in Over => at'[c] \in Over)
         \/ /\ at'[c] \in Over /\ pod[c] # None /\ pod'[c] = pod[c]
            /\ arm[pod[c]].pod = "Succeeded"
<1>. DEFINE Goal ==
       \/ code[c] = "ok" /\ (at[c] \in Over => at'[c] \in Over)
       \/ /\ at'[c] \in Over /\ pod[c] # None /\ pod'[c] = pod[c]
          /\ arm[pod[c]].pod = "Succeeded"
<1>1. ASSUME NEW d \in Clients, SettleRead(d) PROVE Goal
  <2>1. CASE d = c
    <3>1. at[c] = "settle" /\ at'[c] = "cleanup" /\ pod'[c] = pod[c]
      BY <1>1, <2>1 DEF SettleRead, Collect, Exit, Goto, TypeOK
    <3>2. PodPhase(c) = "Succeeded" /\ pod[c] # None
      BY <1>1, <2>1, <3>1 DEF SettleRead, Collect, Exit, TypeOK, FollowInv
    <3>. QED BY <3>1, <3>2 DEF PodPhase, Over
  <2>2. CASE d # c
    BY <1>1, <2>2 DEF SettleRead, Collect, Exit, Goto, TypeOK
  <2>. QED BY <2>1, <2>2
<1>2. ASSUME NEW d \in Clients, Aside(d), ~SettleRead(d) PROVE Goal
  BY <1>2 DEF TypeOK, Over, Aside, Name, PodSeen, PodTimeout, PhaseSeen, PhaseTimeout, StreamEnds,
    SettleTimeout, SettleUnread, Collect, ReadBack, ApplyCutShort, StreamBreaks, Signal,
    SignalAgain, TrapStatus, ClientDies, ReadBackFails, DeleteFails, Goto, Exit, laptop
<1>3. ASSUME NEW d \in Clients, Applies(d) \/ Delete(d) PROVE Goal
  BY <1>3 DEF TypeOK, Over, Applies, Apply, ApplyFails, ApplyLands, Delete, Goto, Exit, laptop
<1>4. CASE UNCHANGED vars \/ ClockTick \/ (\E a \in Clients : Moves(a))
             \/ (\E n \in Names : TtlExpires(n) \/ Reap(n))
  <2>1. UNCHANGED code /\ UNCHANGED at
    BY <1>4, ArmSteps, RemoveLeavesLaptop DEF vars, ClockTick, Moves, laptop
  <2>. QED BY <2>1
<1>. QED BY <1>1, <1>2, <1>3, <1>4, Steps

LEMMA CodeInvStep ==
  ASSUME TypeOK, TypeOK', ArmInv, Named(jobs), FollowInv, CodeInv, [Next]_vars PROVE CodeInv'
<1>. SUFFICES ASSUME NEW c \in Clients, code'[c] = "ok"
              PROVE  at'[c] \in Over /\ pod'[c] # None /\ arm'[pod'[c]].exit = "zero"
  BY DEF CodeInv
<1>1. at'[c] \in Over /\ pod[c] # None /\ pod'[c] = pod[c] /\ arm[pod[c]].exit = "zero"
  <2>1. CASE code[c] = "ok" /\ (at[c] \in Over => at'[c] \in Over)
    <3>1. at[c] \in Over /\ pod[c] # None /\ arm[pod[c]].exit = "zero"
      BY <2>1 DEF CodeInv
    <3>2. pod'[c] = pod[c]
      BY <3>1, PodSteps DEF Over
    <3>. QED BY <2>1, <3>1, <3>2
  <2>2. CASE /\ at'[c] \in Over /\ pod[c] # None /\ pod'[c] = pod[c]
             /\ arm[pod[c]].pod = "Succeeded"
    BY <2>2 DEF ArmInv, TypeOK
  <2>. QED BY <2>1, <2>2, OkSteps
<1>2. pod[c] \in Clients
  BY <1>1 DEF TypeOK
<1>. QED BY <1>1, <1>2, ArmInvStep

(* Only its own apply creates a client's Job, and none is under way once   *)
(* the cleanup went through.                                               *)
LEMMA CleansUpStep ==
  ASSUME TypeOK, TypeOK', Named(jobs), Named(jobs)', CleansUp, [Next]_vars
  PROVE  CleansUp'
<1>0. \A c \in Clients : Exists(c) <=> jobs[JobName(c)] = c
  BY JobNameIsName, NoneIsNoClient DEF Exists, Named
<1>00. \A c \in Clients : Exists(c)' <=> jobs'[JobName(c)'] = c
  <2>1. ASSUME NEW c \in Clients PROVE JobName(c)' \in Names
    BY DEF TypeOK, JobName, Names
  <2>. QED BY <2>1, NoneIsNoClient DEF Exists, Named
<1>. SUFFICES ASSUME NEW c \in Clients, at'[c] = "done"
              PROVE  jobs'[JobName(c)'] # c
  BY <1>00 DEF CleansUp
<1>1. at[c] # "start"
  <2>. SUFFICES ASSUME at[c] = "start" PROVE FALSE
    OBVIOUS
  <2>1. CASE UNCHANGED at
    BY <2>1
  <2>2. ASSUME NEW d \in Clients, Aside(d) PROVE FALSE
    BY <2>2 DEF TypeOK, Aside, Name, PodSeen, PodTimeout, PhaseSeen, PhaseTimeout, StreamEnds,
      SettleRead, SettleTimeout, SettleUnread, Collect, ReadBack, ApplyCutShort, StreamBreaks, Signal, SignalAgain, TrapStatus,
      ClientDies, ReadBackFails, DeleteFails, Goto, Exit, laptop
  <2>3. ASSUME NEW d \in Clients, Applies(d) \/ Delete(d) PROVE FALSE
    BY <2>3 DEF TypeOK, Applies, Apply, ApplyFails, ApplyLands, Delete, Goto, Exit
  <2>4. CASE UNCHANGED vars \/ ClockTick \/ (\E a \in Clients : Moves(a))
               \/ (\E n \in Names : TtlExpires(n) \/ Reap(n))
    BY <2>1, <2>4, ArmSteps, RemoveLeavesLaptop DEF vars, ClockTick, Moves
  <2>. QED BY <2>2, <2>3, <2>4, Steps
<1>2. JobName(c)' = JobName(c) /\ JobName(c) \in Names
  BY <1>1, NameKept, JobNameIsName
<1>3. CASE at[c] = "done"
  <2>0. jobs[JobName(c)] # c
    BY <1>0, <1>3 DEF CleansUp
  <2>1. ASSUME NEW d \in Clients, Applies(d) PROVE jobs'[JobName(c)] # c
    <3>1. d # c
      BY <1>3, <2>1 DEF Applies, Apply, ApplyFails, ApplyLands, Goto, Exit
    <3>2. CreateJob(d, JobName(d)) \/ UNCHANGED cluster
      BY <2>1 DEF Applies, Apply, ApplyFails, ApplyLands
    <3>. QED BY <1>2, <2>0, <3>1, <3>2, CreateTypes
  <2>2. ASSUME NEW n \in Names, Remove(n) PROVE jobs'[JobName(c)] # c
    BY <1>2, <2>0, <2>2, RemoveTypes, NoneIsNoClient
  <2>3. CASE UNCHANGED jobs
    BY <1>2, <2>0, <2>3
  <2>4. CASE \E d \in Clients : Delete(d)
    BY <1>2, <2>2, <2>4, JobNameIsName DEF Delete
  <2>5. CASE \E d \in Clients : Aside(d) \/ Moves(d)
    BY <2>3, <2>5, AsideLeavesCluster, ArmSteps DEF Moves
  <2>6. CASE \E n \in Names : TtlExpires(n) \/ Reap(n)
    BY <1>2, <2>2, <2>6, RemoveLeavesLaptop
  <2>7. CASE UNCHANGED vars \/ ClockTick
    BY <2>3, <2>7 DEF vars, ClockTick, cluster
  <2>. QED BY <1>2, <2>1, <2>4, <2>5, <2>6, <2>7, Steps
<1>4. CASE at[c] # "done"
  <2>1. ReadBack(c) \/ Delete(c)
    <3>1. ASSUME NEW d \in Clients, Aside(d) PROVE ReadBack(c)
      BY <1>4, <3>1 DEF TypeOK, Aside, Name, PodSeen, PodTimeout, PhaseSeen, PhaseTimeout, StreamEnds,
        SettleRead, SettleTimeout, SettleUnread, Collect, ReadBack, ApplyCutShort, StreamBreaks, Signal, SignalAgain, TrapStatus,
        ClientDies, ReadBackFails, DeleteFails, Goto, Exit, laptop
    <3>2. ASSUME NEW d \in Clients, Applies(d) \/ Delete(d) PROVE Delete(c)
      BY <1>4, <3>2 DEF TypeOK, Applies, Apply, ApplyFails, ApplyLands, Delete, Goto, Exit
    <3>3. CASE UNCHANGED vars \/ ClockTick \/ (\E a \in Clients : Moves(a))
                 \/ (\E n \in Names : TtlExpires(n) \/ Reap(n))
      BY <1>4, <3>3, ArmSteps, RemoveLeavesLaptop DEF vars, ClockTick, Moves
    <3>. QED BY <3>1, <3>2, <3>3, Steps
  <2>2. CASE ReadBack(c)
    <3>1. jobs[JobName(c)] # c
      BY <2>2, NoneIsNoClient DEF ReadBack, Goto, TypeOK
    <3>. QED BY <1>2, <2>2, <3>1 DEF ReadBack, cluster
  <2>3. CASE Delete(c)
    BY <1>2, <2>3, RemoveTypes, NoneIsNoClient DEF Delete
  <2>. QED BY <2>1, <2>2, <2>3
<1>. QED BY <1>3, <1>4

----------------------------------------------------------------------------
LEMMA InitInv == Init => IInv
<1>. SUFFICES ASSUME Init PROVE IInv
  OBVIOUS
<1>1. TypeOK
  BY SmokeAssumption DEF Init, TypeOK, Seconds, Places, Arms, Phases, NoArm
<1>2. ArmInv /\ FollowInv /\ PodInv /\ CodeInv
  BY DEF Init, ArmInv, FollowInv, PodInv, CodeInv, NoArm
<1>3. Named(jobs) /\ FileInv /\ CleansUp
  BY DEF Init, Named, FileInv, CleansUp
<1>. QED BY <1>1, <1>2, <1>3 DEF IInv

LEMMA InvStep == IInv /\ [Next]_vars => IInv'
<1>. SUFFICES ASSUME IInv, [Next]_vars PROVE IInv'
  OBVIOUS
<1>1. TypeOK'
  BY TypeStep DEF IInv
<1>2. ArmInv' /\ Named(jobs)' /\ FollowInv'
  BY <1>1, ArmInvStep, JobsNamed, FollowInvStep DEF IInv
<1>3. CleansUp'
  BY <1>1, <1>2, CleansUpStep DEF IInv
<1>4. PodInv' /\ FileInv' /\ CodeInv'
  BY <1>1, PodInvStep, FilesNamed, CodeInvStep DEF IInv
<1>. QED BY <1>1, <1>2, <1>3, <1>4 DEF IInv

(* The inductive invariant of clients under any names, also the same ones. *)
THEOREM ClientInvariant == Spec => []IInv
BY InitInv, InvStep, PTL DEF Spec

(* cleanup: a client whose trap went through left no Job of its own, even  *)
(* if another one submitted under the same name.                           *)
THEOREM CleanupIsComplete == Spec => []CleansUp
<1>1. IInv => CleansUp
  BY DEF IInv
<1>. QED BY <1>1, ClientInvariant, PTL

(* The settle loop: a run that exited zero is not taken for a failure, as  *)
(* long as its pod is there and a read shows how it ended.                 *)
THEOREM GoodRunsSucceed == Spec => GoodRunIsSuccess
<1>1. IInv /\ [Next]_vars =>
        [\A c \in Clients :
           (code'[c] = "notSucceeded" /\ code[c] = "none" /\ PodPhase(c) # "gone") =>
             arm[pod[c]].exit # "zero"]_vars
  <2>. SUFFICES ASSUME IInv, [Next]_vars, NEW c \in Clients,
                       code'[c] = "notSucceeded", code[c] = "none", PodPhase(c) # "gone"
                PROVE  arm[pod[c]].exit # "zero"
    OBVIOUS
  <2>0. TypeOK /\ ArmInv /\ FollowInv
    BY DEF IInv
  <2>1. SettleRead(c) \/ SettleTimeout(c)
    <3>1. ASSUME NEW d \in Clients, Aside(d) PROVE SettleRead(c) \/ SettleTimeout(c)
      BY <2>0, <3>1 DEF TypeOK, Aside, Name, PodSeen, PodTimeout, PhaseSeen, PhaseTimeout, StreamEnds,
        SettleRead, SettleTimeout, SettleUnread, Collect, ReadBack, ApplyCutShort, StreamBreaks, Signal, SignalAgain, TrapStatus,
        ClientDies, ReadBackFails, DeleteFails, Exit, laptop
    <3>2. ASSUME NEW d \in Clients, Applies(d) \/ Delete(d) PROVE FALSE
      BY <2>0, <3>2 DEF TypeOK, Applies, Apply, ApplyFails, ApplyLands, Delete, Exit, laptop
    <3>3. CASE UNCHANGED vars \/ ClockTick \/ (\E a \in Clients : Moves(a))
                 \/ (\E n \in Names : TtlExpires(n) \/ Reap(n))
      <4>1. UNCHANGED code
        BY <2>0, <3>3, ArmSteps, RemoveLeavesLaptop DEF vars, ClockTick, Moves, laptop
      <4>. QED BY <4>1
    <3>. QED BY <3>1, <3>2, <3>3, Steps
  <2>2. at[c] = "settle"
    BY <2>1 DEF SettleRead, SettleTimeout, SettleUnread, Collect, Exit, Goto
  <2>3. pod[c] \in Clients /\ PodPhase(c) = arm[pod[c]].pod /\ arm[pod[c]] \in Arms
    BY <2>0, <2>2 DEF FollowInv, TypeOK, PodPhase
  <2>4. CASE SettleRead(c)
    <3>1. PodPhase(c) = "Failed"
      BY <2>0, <2>4 DEF SettleRead, Collect, Exit, Settled, TypeOK
    <3>. QED BY <2>0, <2>3, <3>1 DEF ArmInv
  <2>5. CASE SettleTimeout(c)
    <3>1. PodPhase(c) \in {"none", "Pending", "Running"}
      BY <2>3, <2>5 DEF SettleTimeout, Settled, Arms, Phases
    <3>. QED BY <2>0, <2>3, <3>1 DEF ArmInv
  <2>. QED BY <2>1, <2>4, <2>5
<1>. QED BY <1>1, ClientInvariant, PTL DEF Spec, GoodRunIsSuccess

(* The script's own exit status and the record it keeps: zero is said of a *)
(* pod that exited zero, and a client whose name is its own says it of its *)
(* own arm and keeps no other record.                                      *)
THEOREM ZeroExitIsTrue == Spec => []SuccessIsTrue
<1>1. IInv => SuccessIsTrue
  <2>. SUFFICES ASSUME IInv, NEW c \in Clients, code[c] = "ok"
                PROVE  /\ pod[c] # None /\ arm[pod[c]].exit = "zero"
                       /\ Alone(c) => pod[c] = c /\ files[JobName(c)] \in {c, None}
    BY DEF SuccessIsTrue
  <2>1. pod[c] # None /\ arm[pod[c]].exit = "zero"
    BY DEF IInv, CodeInv
  <2>2. ASSUME Alone(c) PROVE pod[c] = c
    BY <2>1, <2>2 DEF IInv, TypeOK, PodInv, Alone
  <2>3. ASSUME Alone(c) PROVE files[JobName(c)] \in {c, None}
    BY <2>3, OneHolder DEF IInv, TypeOK, FileInv
  <2>. QED BY <2>1, <2>2, <2>3
<1>. QED BY <1>1, ClientInvariant, PTL

=============================================================================
