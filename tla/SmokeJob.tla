------------------------------ MODULE SmokeJob ------------------------------
(***************************************************************************)
(* k8s/run_llm_smoke.sh: clients on a laptop, each submitting one arm of   *)
(* the llm validation as a Job and cleaning it up, and what acts on the    *)
(* same Jobs beside them: the cluster's controllers, which the manifest's  *)
(* activeDeadlineSeconds, ttlSecondsAfterFinished and backoffLimit 0       *)
(* instruct, and k8s/reap_aidan.sh.                                        *)
(*                                                                         *)
(* A Job is named after the client's GPU slug and RUN_ID, the second it    *)
(* started in, and labelled with that RUN_ID.  A name stands for at most   *)
(* one Job at a time; an arm is the Job, and its one pod, that a client's  *)
(* apply created.  Signals, the API server and the laptop itself can fail  *)
(* a client anywhere.                                                      *)
(***************************************************************************)
EXTENDS Naturals

CONSTANTS
  Clients,     (* invocations of run_llm_smoke.sh                           *)
  Slug,        (* GPU_SLUG of each                                          *)
  Config,      (* the other arguments of each: what the manifest runs       *)
  MaxSecond,   (* the last second of the clock: bounds the model            *)
  None

ASSUME SmokeAssumption ==
  /\ MaxSecond \in Nat
  /\ None \notin Clients

VARIABLES
  second,      (* date +%s, at RUN_ID's resolution                          *)
  at,          (* where each client is                                      *)
  runId,       (* its RUN_ID                                                *)
  pod,         (* its POD: the arm the pod belongs to                       *)
  code,        (* the exit status it is leaving with                        *)
  jobs,        (* the cluster's Jobs: the arm each name stands for          *)
  arm,         (* the state of each client's arm                            *)
  logs,        (* LOG_FILE, by name: the arm whose RESULT_JSON it holds     *)
  files        (* RESULT_FILE, by name: the arm whose record it holds       *)

laptop  == <<runId, pod, code, logs, files>>
cluster == <<jobs, arm>>
vars == <<second, at, laptop, cluster>>

Seconds == 0 .. MaxSecond
Names   == {Slug[c] : c \in Clients} \X Seconds
NoArm   == [cond |-> "absent", pod |-> "none", exit |-> "none", printed |-> FALSE]

Init ==
  /\ second = 0
  /\ at = [c \in Clients |-> "start"]
  /\ runId = [c \in Clients |-> 0]
  /\ pod = [c \in Clients |-> None]
  /\ code = [c \in Clients |-> "none"]
  /\ jobs = [n \in Names |-> None]
  /\ arm = [c \in Clients |-> NoArm]
  /\ logs = [n \in Names |-> None]
  /\ files = [n \in Names |-> None]

ClockTick ==
  /\ second < MaxSecond
  /\ second' = second + 1
  /\ UNCHANGED <<at, laptop, cluster>>

----------------------------------------------------------------------------
(* The cluster.                                                            *)

Exists(a) == a # None /\ \E n \in Names : jobs[n] = a

(* A Job is deleted together with its pod, whoever deletes it.             *)
Remove(n) ==
  /\ jobs' = [jobs EXCEPT ![n] = None]
  /\ arm' = IF jobs[n] = None THEN arm ELSE [arm EXCEPT ![jobs[n]].pod = "gone"]

(* The API server carries out an apply: it creates the Job if the name is  *)
(* free, and otherwise leaves the one there as it is.                      *)
CreateJob(c, n) ==
  IF jobs[n] = None
  THEN /\ jobs' = [jobs EXCEPT ![n] = c]
       /\ arm' = [arm EXCEPT ![c].cond = "active"]
  ELSE UNCHANGED cluster

(* A step of arm a that its Job's existence allows.                        *)
ArmStep(a, from, to) ==
  /\ Exists(a)
  /\ arm[a] = from
  /\ arm' = [arm EXCEPT ![a] = to]
  /\ UNCHANGED <<second, at, laptop, jobs>>

PodCreated(a) ==
  /\ arm[a].cond = "active" /\ arm[a].pod = "none"
  /\ ArmStep(a, arm[a], [arm[a] EXCEPT !.pod = "Pending"])

PodScheduled(a) ==
  /\ arm[a].pod = "Pending"
  /\ ArmStep(a, arm[a], [arm[a] EXCEPT !.pod = "Running"])

(* The workload prints its RESULT_JSON last, so it exits zero only with it *)
(* printed. The pod reads Running a little longer.                         *)
ContainerExits(a) ==
  /\ arm[a].pod = "Running"
  /\ \E exit \in {"zero", "nonzero"}, printed \in BOOLEAN :
       /\ exit = "zero" => printed
       /\ ArmStep(a, arm[a], [arm[a] EXCEPT !.pod = "closing", !.exit = exit, !.printed = printed])

PodSettles(a) ==
  /\ arm[a].pod = "closing"
  /\ ArmStep(a, arm[a],
       [arm[a] EXCEPT !.pod = IF arm[a].exit = "zero" THEN "Succeeded" ELSE "Failed"])

(* backoffLimit 0: the Job ends with its first pod, whichever way.         *)
JobFinishes(a) ==
  /\ arm[a].cond = "active" /\ arm[a].pod \in {"Succeeded", "Failed"}
  /\ ArmStep(a, arm[a], [arm[a] EXCEPT !.cond = "finished"])

(* Mutation: the deadline leaves a container that hangs alone.             *)
DeadlineSparesHung(a) ==
  /\ arm[a].cond = "active" /\ arm[a].pod \in {"none", "Pending"}
  /\ ArmStep(a, arm[a], [arm[a] EXCEPT !.cond = "finished", !.pod = "gone"])

(* activeDeadlineSeconds: the pod is removed, scheduled or not, and the    *)
(* Job has failed.                                                         *)
DeadlineFires(a) ==
  /\ arm[a].cond = "active" /\ arm[a].pod \notin {"Succeeded", "Failed"}
  /\ ArmStep(a, arm[a], [arm[a] EXCEPT !.cond = "finished", !.pod = "gone"])

(* Mutation: only a Job that succeeded is collected.                       *)
TtlExpiresOnSuccess(n) ==
  /\ jobs[n] # None
  /\ arm[jobs[n]].cond = "finished" /\ arm[jobs[n]].exit = "zero"
  /\ Remove(n)
  /\ UNCHANGED <<second, at, laptop>>

(* ttlSecondsAfterFinished: the Job and its pod are deleted.               *)
TtlExpires(n) ==
  /\ jobs[n] # None
  /\ arm[jobs[n]].cond = "finished"
  /\ Remove(n)
  /\ UNCHANGED <<second, at, laptop>>

----------------------------------------------------------------------------
(* One client. A step that ends the script takes it to the EXIT trap.      *)

(* JOB and its RUN_ID label.                                               *)
JobName(c) == <<Slug[c], runId[c]>>

Goto(c, from, to) == at[c] = from /\ at' = [at EXCEPT ![c] = to]

(* die, or the end of the script: on to cleanup.                           *)
Exit(c, from, status) ==
  /\ Goto(c, from, "cleanup")
  /\ code' = [code EXCEPT ![c] = status]

(* The arguments are checked, RUN_ID is taken, the manifest rendered.      *)
Name(c) ==
  /\ Goto(c, "start", "apply")
  /\ runId' = [runId EXCEPT ![c] = second]
  /\ UNCHANGED <<second, pod, code, logs, files, cluster>>

(* kubectl apply succeeds: the Job is created, or one of the same name and *)
(* manifest is there.                                                      *)
Apply(c) ==
  LET n == JobName(c) IN
  /\ Goto(c, "apply", "waitPod")
  /\ jobs[n] # None => Config[jobs[n]] = Config[c]
  /\ CreateJob(c, n)
  /\ UNCHANGED <<second, laptop>>

(* It fails, as it must when another manifest holds the name (a Job's pod  *)
(* template is immutable); the Job may have been created all the same.     *)
ApplyFails(c) ==
  LET n == JobName(c) IN
  /\ Exit(c, "apply", "died")
  /\ CreateJob(c, n) \/ UNCHANGED cluster
  /\ UNCHANGED <<second, runId, pod, logs, files>>

(* The script is interrupted with the request under way: the server may    *)
(* carry it out once the client has gone.                                  *)
ApplyCutShort(c) ==
  /\ Goto(c, "apply", "inFlight")
  /\ code' = [code EXCEPT ![c] = "died"]
  /\ UNCHANGED <<second, runId, pod, logs, files, cluster>>

ApplyLands(c) ==
  LET n == JobName(c) IN
  /\ Goto(c, "inFlight", "abandoned")
  /\ CreateJob(c, n)
  /\ UNCHANGED <<second, laptop>>

(* The loop that polls for a pod of the Job; any failure reads as no pod.  *)
PodSeen(c) ==
  LET a == jobs[JobName(c)] IN
  /\ a # None /\ arm[a].pod \notin {"none", "gone"}
  /\ Goto(c, "waitPod", "waitPhase")
  /\ pod' = [pod EXCEPT ![c] = a]
  /\ UNCHANGED <<second, runId, code, logs, files, cluster>>

PodTimeout(c) ==
  /\ Exit(c, "waitPod", "died")
  /\ UNCHANGED <<second, runId, pod, logs, files, cluster>>

(* The state of its pod, which is gone if the Job is.                      *)
PodPhase(c) == IF pod[c] = None THEN "none" ELSE arm[pod[c]].pod

(* The loop that polls its phase, then tee opens the log file anew.        *)
PhaseSeen(c) ==
  /\ Goto(c, "waitPhase", "stream")
  /\ PodPhase(c) \in {"Running", "closing", "Succeeded", "Failed"}
  /\ logs' = [logs EXCEPT ![JobName(c)] = None]
  /\ UNCHANGED <<second, runId, pod, code, files, cluster>>

(* Mutation: the deadline is looked at only while the pod is Pending.      *)
PhaseTimeoutPending(c) ==
  /\ Exit(c, "waitPhase", "died")
  /\ PodPhase(c) = "Pending"
  /\ UNCHANGED <<second, runId, pod, logs, files, cluster>>

PhaseTimeout(c) ==
  /\ Exit(c, "waitPhase", "died")
  /\ UNCHANGED <<second, runId, pod, logs, files, cluster>>

(* kubectl logs -f ends when the container has: the log has its record if  *)
(* it printed one, unless the pod was deleted before that could be read.   *)
StreamEnds(c) ==
  /\ Goto(c, "stream", "settle")
  /\ PodPhase(c) # "Running"
  /\ \E log \in {logs[JobName(c)], pod[c]} :
       /\ log = pod[c] => arm[log].printed
       /\ (PodPhase(c) # "gone" /\ arm[pod[c]].printed) => log = pod[c]
       /\ logs' = [logs EXCEPT ![JobName(c)] = log]
  /\ UNCHANGED <<second, runId, pod, code, files, cluster>>

(* The connection drops: logs -f fails and the script carries on.          *)
StreamBreaks(c) ==
  /\ Goto(c, "stream", "settle")
  /\ UNCHANGED <<second, laptop, cluster>>

(* The record is taken from the log, if it is there.                       *)
Kept(c) ==
  [files EXCEPT ![JobName(c)] = IF logs[JobName(c)] # None THEN logs[JobName(c)] ELSE @]

(* From the settle loop to the end of the script: the phase decides the    *)
(* exit status.                                                            *)
Collect(c, status) ==
  /\ Exit(c, "settle", status)
  /\ files' = Kept(c)
  /\ UNCHANGED <<second, runId, pod, logs, cluster>>

Settled(c) == PodPhase(c) \in {"Succeeded", "Failed"}

(* Mutation: the run fails only if the pod is seen Failed.                 *)
SettleReadLenient(c) ==
  /\ PodPhase(c) # "closing"
  /\ Collect(c, IF PodPhase(c) = "Failed" THEN "notSucceeded" ELSE "ok")

SettleRead(c) ==
  /\ Settled(c)
  /\ Collect(c, IF PodPhase(c) = "Succeeded" THEN "ok" ELSE "notSucceeded")

(* Mutation: the phase is read once, as soon as the log has ended.         *)
SettleTimeoutAtOnce(c) == ~Settled(c) /\ Collect(c, "notSucceeded")

(* Two minutes of reads that are answered, and no terminal phase: the      *)
(* container is still running, or the pod is gone.                         *)
SettleTimeout(c) ==
  /\ ~Settled(c) /\ PodPhase(c) # "closing"
  /\ Collect(c, "notSucceeded")

(* Two minutes in which no read shows how the pod ended, whatever became   *)
(* of it: a read that fails is a blank phase, and a kubelet may report the *)
(* end of its container late.                                              *)
SettleUnread(c) == Collect(c, "unread")

(* What the trap finds in $? is the status of the command it interrupted:  *)
(* not zero, or zero after a sleep or a kubectl that ended well, and it is *)
(* what the script exits with.                                             *)
TrapStatus == {"died", "interrupted"}

(* INT, TERM or HUP: the trap runs. The record may have been kept by then. *)
Signal(c) ==
  /\ at[c] \in {"waitPod", "waitPhase", "stream", "settle"}
  /\ \E status \in TrapStatus : Exit(c, at[c], status)
  /\ files' = files \/ (at[c] = "settle" /\ files' = Kept(c))
  /\ UNCHANGED <<second, runId, pod, logs, cluster>>

(* One in cleanup: it runs once only, so the script exits there and then.  *)
SignalAgain(c) ==
  /\ at[c] \in {"cleanup", "delete"}
  /\ at' = [at EXCEPT ![c] = "abandoned"]
  /\ \E status \in TrapStatus : code' = [code EXCEPT ![c] = status]
  /\ UNCHANGED <<second, runId, pod, logs, files, cluster>>

(* SIGKILL, or the machine goes away: no trap.                             *)
ClientDies(c) ==
  /\ at[c] \in {"waitPod", "waitPhase", "stream", "settle", "cleanup", "delete"}
  /\ at' = [at EXCEPT ![c] = "abandoned"]
  /\ UNCHANGED <<second, laptop, cluster>>

(* delete_ours reads the run-id label back: gone, ours, or another's.      *)
ReadBack(c) ==
  LET a == jobs[JobName(c)] IN
  /\ Goto(c, "cleanup", IF a # None /\ runId[a] = runId[c] THEN "delete" ELSE "done")
  /\ UNCHANGED <<second, laptop, cluster>>

(* The read fails, which counts as gone.                                   *)
ReadBackFails(c) ==
  /\ Goto(c, "cleanup", "abandoned")
  /\ UNCHANGED <<second, laptop, cluster>>

(* Mutation: the job is left for the TTL controller if the run succeeded.  *)
DeleteUnlessOk(c) ==
  /\ Goto(c, "delete", "done")
  /\ IF code[c] = "ok" THEN UNCHANGED cluster ELSE Remove(JobName(c))
  /\ UNCHANGED <<second, laptop>>

(* It is deleted by name.                                                  *)
Delete(c) ==
  /\ Goto(c, "delete", "done")
  /\ Remove(JobName(c))
  /\ UNCHANGED <<second, laptop>>

DeleteFails(c) ==
  /\ Goto(c, "delete", "abandoned")
  /\ UNCHANGED <<second, laptop, cluster>>

----------------------------------------------------------------------------
(* reap_aidan.sh --delete, by hand, for one of the labelled Jobs it lists:  *)
(* neither its age nor its state is looked at. Listing and deleting are    *)
(* one step, since only a Job that still has the name can be hit.          *)
Reap(n) ==
  /\ jobs[n] # None
  /\ Remove(n)
  /\ UNCHANGED <<second, at, laptop>>

----------------------------------------------------------------------------
(* What a client does by itself, and what can happen to it.                *)
Script(c) ==
  \/ Name(c) \/ Apply(c) \/ PodSeen(c) \/ PodTimeout(c)
  \/ PhaseSeen(c) \/ PhaseTimeout(c) \/ StreamEnds(c) \/ SettleRead(c)
  \/ SettleTimeout(c) \/ ReadBack(c) \/ Delete(c)

Mishap(c) ==
  \/ ApplyFails(c) \/ ApplyCutShort(c) \/ StreamBreaks(c) \/ SettleUnread(c)
  \/ Signal(c) \/ SignalAgain(c) \/ ClientDies(c) \/ ReadBackFails(c) \/ DeleteFails(c)

Controller(a) == JobFinishes(a) \/ DeadlineFires(a)

Next ==
  \/ ClockTick
  \/ \E c \in Clients : Script(c) \/ Mishap(c) \/ ApplyLands(c)
  \/ \E a \in Clients :
       PodCreated(a) \/ PodScheduled(a) \/ ContainerExits(a) \/ PodSettles(a) \/ Controller(a)
  \/ \E n \in Names : TtlExpires(n) \/ Reap(n)

Spec == Init /\ [][Next]_vars

(* The cluster's controllers and kubelets run, and a client that nothing   *)
(* happens to runs on. A pod may wait for a card, and a workload hang, for *)
(* ever; a script may never be started, and the reaper never run.          *)
FairSpec ==
  /\ Spec
  /\ \A a \in Clients : WF_vars(Controller(a)) /\ WF_vars(PodSettles(a))
  /\ \A n \in Names : WF_vars(TtlExpires(n))
  /\ \A c \in Clients : WF_vars(Script(c) /\ at[c] # "start")

----------------------------------------------------------------------------
(* No other client has taken the name of this one.                         *)
Alone(c) == \A d \in Clients \ {c} : at[d] # "start" => JobName(d) # JobName(c)

(* A script that runs to its end and exits zero followed an arm that       *)
(* exited zero, whoever shares its name: a phase that could not be read,   *)
(* or a Job deleted under the client, is never taken for a success. With a *)
(* name of its own, the arm is the client's, and so is the record it has   *)
(* kept, if any.                                                           *)
SuccessIsTrue ==
  \A c \in Clients : code[c] = "ok" =>
    /\ pod[c] # None /\ arm[pod[c]].exit = "zero"
    /\ Alone(c) => pod[c] = c /\ files[JobName(c)] \in {c, None}

(* A run that exited zero is not reported as one that did not succeed      *)
(* because its pod was still closing when the log ended: the pod is gone   *)
(* by then, or no read in two minutes showed how it ended.                 *)
GoodRunIsSuccess ==
  [][\A c \in Clients :
       (code'[c] = "notSucceeded" /\ code[c] = "none" /\ PodPhase(c) # "gone") =>
         arm[pod[c]].exit # "zero"]_vars

(* delete_ours promises that no client deletes a Job another one submitted,*)
(* and the last line that a script which exits zero followed a pod that    *)
(* did. At the least, the two do not fail together. They do: of two        *)
(* clients of one name and manifest, the apply of the second finds the Job *)
(* of the first, a signal then finds zero in $?, and the trap deletes it.  *)
WrongDeleteFails ==
  [][\A c \in Clients :
       (Delete(c) /\ jobs[JobName(c)] \notin {c, None}) =>
         \/ code[c] \notin {"ok", "interrupted"}
         \/ pod[c] # None /\ arm[pod[c]].exit = "zero"]_vars

(* A client whose cleanup went through leaves no Job of its own, whichever *)
(* way the script ended.                                                   *)
CleansUp == \A c \in Clients : at[c] = "done" => ~Exists(c)

(* No card is held for ever, whatever becomes of the client and however    *)
(* long the workload hangs.                                                *)
GpuIsReleased ==
  \A a \in Clients : arm[a].pod = "Running" ~> arm[a].pod # "Running"

(* No Job stays in the namespace for ever: one that the client left, or    *)
(* that was created after it had gone, is deleted by the cluster.          *)
JobsAreSwept == \A n \in Names : jobs[n] # None ~> jobs[n] = None

(* Every script ends: no loop waits for a pod that will not come.          *)
ScriptEnds ==
  \A c \in Clients : at[c] = "apply" ~> at[c] \in {"done", "abandoned", "inFlight"}
=============================================================================
