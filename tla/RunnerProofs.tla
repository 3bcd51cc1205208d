---------------------------- MODULE RunnerProofs ----------------------------
(***************************************************************************)
(* Proofs about Runner for any pods, repetitions, launches and seconds:    *)
(* the volume implements ResultsLog, a pod that exits zero left all of its *)
(* rows, and each row's trace is its own unless another pod's run was      *)
(* given the same name, which the same PID is needed for.                  *)
(***************************************************************************)
EXTENDS Runner, TLAPS

Named    == {"trace", "tracing", "append", "appended"}
Finished == {"failed", "succeeded", "killed"}
Recorded == {r.run : r \in Rows}

(* The pod of a run is past it: it has gone on, or ended with it.  places  *)
(* are where the pod may still be if it is the current one.                *)
Past(run, places) ==
  \/ run[2] < launch[run[1]]
  \/ run[2] = launch[run[1]] /\ run[3] < rep[run[1]]
  \/ run[2] = launch[run[1]] /\ run[3] = rep[run[1]] /\ at[run[1]] \in places

(* The name a row will have says when, which repetition, and by whom.      *)
NameInv ==
  \A p \in Pods : at[p] \in Named =>
    /\ id[p] \in RunIds
    /\ id[p][1] <= second /\ id[p][2] = rep[p] /\ id[p][3] = Pid[p]

(* No row is of a run still to be recorded, nor is any report ahead of it. *)
PastInv ==
  /\ \A r \in Rows : Past(r.run, Finished \cup {"appended"})
  /\ \A run \in reported : Past(run, Finished) /\ run \in Recorded

(* A repetition that was gone on from, and the last one of a pod that      *)
(* exited zero, left a row that does not say it failed.                    *)
CompleteInv ==
  \A p \in Pods :
    /\ at[p] = "appended" =>
         \E r \in Rows : r.run = Run(p) /\ r.outcome = outcome[p]
    /\ at[p] = "succeeded" => rep[p] = Repeats
    /\ \A k \in 1 .. Repeats :
         (k < rep[p] \/ (k = rep[p] /\ at[p] = "succeeded")) =>
           \E r \in Rows : r.run = <<p, launch[p], k>> /\ r.outcome # "raised"

IInv == TypeOK /\ NameInv /\ PastInv /\ CompleteInv

(* What an earlier launch named, it named before the pod was killed, and a *)
(* later launch starts in a later second.                                  *)
SecondInv ==
  /\ \A p \in Pods :
       launch[p] > 1 =>
         /\ at[p] \in Running => since[p] < second
         /\ at[p] \in Named => since[p] < id[p][1]
  /\ \A r \in Rows :
       /\ r.id[1] <= second /\ r.id[2] = r.run[3] /\ r.id[3] = Pid[r.run[1]]
       /\ (r.run[2] < launch[r.run[1]] \/ at[r.run[1]] = "killed") =>
            r.id[1] <= since[r.run[1]]

(* A run given a name is among those that were given it, and its PID and   *)
(* repetition are in the name; a trace holds only such runs.               *)
NamedInv ==
  /\ \A p \in Pods : at[p] \in Named => Run(p) \in named[id[p]]
  /\ \A r \in Rows : r.run \in named[r.id]
  /\ \A i \in RunIds : traces[i] \subseteq named[i]

(* No other pod's run was given name i.                                    *)
Alone(i, p) == \A run \in named[i] : run[1] = p

(* A trace on its way to its row is empty once opened, and then its own,   *)
(* unless the name is shared.                                              *)
OwnInv ==
  \A p \in Pods :
    at[p] \in Named /\ Alone(id[p], p) =>
      /\ at[p] = "tracing" => traces[id[p]] = {}
      /\ (at[p] = "append" /\ traced[p]) => traces[id[p]] = {Run(p)}

TIInv == IInv /\ SecondInv /\ NamedInv /\ OwnInv /\ OwnUnlessNameIsShared

-----------------------------------------------------------------------------
(* What a pod would write has its type.                                    *)
LEMMA RunType == ASSUME TypeOK, NEW p \in Pods PROVE Run(p) \in Runs
BY DEF TypeOK, Run, Runs

LEMMA PieceTyped ==
  ASSUME TypeOK, NameInv, NEW p \in Pods, at[p] \in Named, NEW whole \in BOOLEAN
  PROVE  Piece(p, whole) \in PieceType
<1>1. Run(p) \in Runs /\ id[p] \in RunIds
  BY RunType DEF NameInv
<1> QED
  BY <1>1 DEF TypeOK, Piece, PieceType

LEMMA AppendTyped ==
  ASSUME TypeOK, NEW x \in PieceType, file' = Append(file, x)
  PROVE  file' \in Seq(PieceType)
BY DEF TypeOK

(* A whole piece is a row more, a torn one leaves the rows as they were.   *)
LEMMA RowsAppend ==
  ASSUME TypeOK, NEW x \in PieceType, file' = Append(file, x)
  PROVE  Rows' = Rows \cup (IF x.whole THEN {x} ELSE {})
<1>1. file \in Seq(PieceType) /\ Len(file) \in Nat
  BY DEF TypeOK
<1>2. /\ DOMAIN file' = DOMAIN file \cup {Len(file) + 1}
      /\ \A i \in DOMAIN file : file'[i] = file[i]
      /\ file'[Len(file) + 1] = x
  BY <1>1
<1> QED
  BY <1>2 DEF Rows

(* A step either writes one row, or leaves the rows alone.                 *)
LEMMA RowsStep ==
  ASSUME TypeOK, NameInv, [Next]_vars
  PROVE  \/ Rows' = Rows
         \/ \E p \in Pods : AppendRow(p) /\ Rows' = Rows \cup {Piece(p, TRUE)}
<1>1. ASSUME NEW p \in Pods, AppendRow(p) PROVE Rows' = Rows \cup {Piece(p, TRUE)}
  <2>1. Piece(p, TRUE) \in PieceType /\ Piece(p, TRUE).whole
    BY <1>1, PieceTyped DEF AppendRow, Goto, Named, Piece
  <2> QED
    BY <1>1, <2>1, RowsAppend DEF AppendRow
<1>2. ASSUME NEW p \in Pods, Kill(p) PROVE Rows' = Rows
  <2>1. CASE file' = file
    BY <2>1 DEF Rows
  <2>2. CASE at[p] = "append" /\ file' = Append(file, Piece(p, FALSE))
    <3>1. Piece(p, FALSE) \in PieceType /\ ~Piece(p, FALSE).whole
      BY <2>2, PieceTyped DEF Named, Piece
    <3> QED
      BY <2>2, <3>1, RowsAppend
  <2> QED
    BY <1>2, <2>1, <2>2 DEF Kill
<1>3. ASSUME UNCHANGED file PROVE Rows' = Rows
  BY <1>3 DEF Rows
<1>4. ASSUME NEW p \in Pods, RunnerStep(p), ~AppendRow(p) PROVE UNCHANGED file
  BY <1>4 DEF RunnerStep, StartRep, StartRaises, WorkloadEnds, StopRaises, StampRow,
     OpenTrace, WriteTrace, FinishRep, volume
<1>5. ASSUME NEW p \in Pods, Relaunch(p) PROVE UNCHANGED file
  BY <1>5 DEF Relaunch, volume
<1>6. CASE ClockTick
  BY <1>6, <1>3 DEF ClockTick, volume
<1>7. CASE UNCHANGED vars
  BY <1>7, <1>3 DEF vars, volume
<1> QED
  BY <1>1, <1>2, <1>3, <1>4, <1>5, <1>6, <1>7 DEF Next

-----------------------------------------------------------------------------
(* Every step keeps every variable in its type.                            *)
LEMMA TypeStep == TypeOK /\ NameInv /\ [Next]_vars => TypeOK'
<1> SUFFICES ASSUME TypeOK, NameInv, [Next]_vars PROVE TypeOK'
  OBVIOUS
<1> USE RunnerAssumption DEF TypeOK, Places, Running
<1>1. CASE ClockTick
  BY <1>1 DEF ClockTick, podVars, volume
<1>2. ASSUME NEW p \in Pods, StartRep(p) \/ StartRaises(p) \/ StopRaises(p) PROVE TypeOK'
  BY <1>2 DEF StartRep, StartRaises, StopRaises, Goto, podVars, volume
<1>3. ASSUME NEW p \in Pods, WorkloadEnds(p) PROVE TypeOK'
  BY <1>3 DEF WorkloadEnds, Goto, volume
<1>4. ASSUME NEW p \in Pods, StampRow(p) PROVE TypeOK'
  <2>1. RunId(p) \in RunIds /\ Run(p) \in Runs
    BY RunType DEF RunId, RunIds
  <2>2. at' \in [Pods -> Places] /\ traced' \in [Pods -> BOOLEAN] /\ id' \in [Pods -> RunIds \cup {NoId}]
    BY <1>4, <2>1 DEF StampRow, Goto
  <2>3. named' \in [RunIds -> SUBSET Runs]
    BY <1>4, <2>1 DEF StampRow
  <2> QED
    BY <1>4, <2>2, <2>3 DEF StampRow
<1>5. ASSUME NEW p \in Pods, OpenTrace(p) \/ WriteTrace(p) PROVE TypeOK'
  <2>1. Run(p) \in Runs
    BY RunType
  <2> QED
    <3>1. traces' \in [RunIds -> SUBSET Runs]
      <4>1. CASE OpenTrace(p)
        BY <4>1 DEF OpenTrace
      <4>2. CASE WriteTrace(p)
        BY <4>2, <2>1 DEF WriteTrace
      <4> QED
        BY <1>5, <4>1, <4>2
    <3>2. at' \in [Pods -> Places]
      BY <1>5 DEF OpenTrace, WriteTrace, Goto
    <3> QED
      BY <1>5, <3>1, <3>2 DEF OpenTrace, WriteTrace, podVars
<1>6. ASSUME NEW p \in Pods, AppendRow(p) PROVE TypeOK'
  <2>1. Piece(p, TRUE) \in PieceType
    BY <1>6, PieceTyped DEF AppendRow, Goto, Named
  <2> QED
    <3>1. file' \in Seq(PieceType)
      BY <1>6, <2>1, AppendTyped DEF AppendRow
    <3>2. at' \in [Pods -> Places]
      BY <1>6 DEF AppendRow, Goto
    <3> QED
      BY <1>6, <3>1, <3>2 DEF AppendRow, podVars
<1>7. ASSUME NEW p \in Pods, FinishRep(p) PROVE TypeOK'
  <2>1. Run(p) \in Runs
    BY RunType
  <2>2. /\ rep' \in [Pods -> 1 .. Repeats]
        /\ at' \in [Pods -> Places]
    BY <1>7 DEF FinishRep
  <2> QED
    BY <1>7, <2>1, <2>2 DEF FinishRep, Leave, Outcomes, volume
<1>8. ASSUME NEW p \in Pods, Kill(p) PROVE TypeOK'
  <2>1. file' \in Seq(PieceType)
    <3>1. CASE file' = file
      BY <3>1
    <3>2. CASE at[p] = "append" /\ file' = Append(file, Piece(p, FALSE))
      <4>1. Piece(p, FALSE) \in PieceType
        BY <3>2, PieceTyped DEF Named
      <4> QED
        BY <3>2, <4>1, AppendTyped
    <3> QED
      BY <1>8, <3>1, <3>2 DEF Kill
  <2>2. /\ at' \in [Pods -> Places]
        /\ outcome' \in [Pods -> Outcomes] /\ id' \in [Pods -> RunIds \cup {NoId}]
        /\ traced' \in [Pods -> BOOLEAN] /\ since' \in [Pods -> 0 .. MaxSecond]
    BY <1>8 DEF Kill, Leave, Outcomes
  <2> QED
    BY <1>8, <2>1, <2>2 DEF Kill
<1>9. ASSUME NEW p \in Pods, Relaunch(p) PROVE TypeOK'
  BY <1>9 DEF Relaunch, Goto, volume
<1>10. CASE UNCHANGED vars
  BY <1>10 DEF vars, podVars, volume
<1> QED
  BY <1>1, <1>2, <1>3, <1>4, <1>5, <1>6, <1>7, <1>8, <1>9, <1>10 DEF Next, RunnerStep

(* A name is given in the present second and kept until the row is left.   *)
LEMMA NameStep == TypeOK /\ NameInv /\ [Next]_vars => NameInv'
<1> SUFFICES ASSUME TypeOK, NameInv, [Next]_vars PROVE NameInv'
  OBVIOUS
<1> USE RunnerAssumption DEF TypeOK, NameInv, Named, Running
<1>1. CASE ClockTick
  BY <1>1 DEF ClockTick, podVars, RunIds
<1>2. ASSUME NEW p \in Pods, StartRep(p) \/ StartRaises(p) \/ StopRaises(p) PROVE NameInv'
  BY <1>2 DEF StartRep, StartRaises, StopRaises, Goto, podVars
<1>3. ASSUME NEW p \in Pods, WorkloadEnds(p) PROVE NameInv'
  BY <1>3 DEF WorkloadEnds, Goto
<1>4. ASSUME NEW p \in Pods, StampRow(p) PROVE NameInv'
  <2>1. RunId(p) \in RunIds /\ RunId(p)[1] = second /\ RunId(p)[2] = rep[p] /\ RunId(p)[3] = Pid[p]
    BY DEF RunId, RunIds
  <2> QED
    BY <1>4, <2>1 DEF StampRow, Goto
<1>5. ASSUME NEW p \in Pods, OpenTrace(p) \/ WriteTrace(p) \/ AppendRow(p) PROVE NameInv'
  BY <1>5 DEF OpenTrace, WriteTrace, AppendRow, Goto, podVars
<1>6. ASSUME NEW p \in Pods, FinishRep(p) PROVE NameInv'
  BY <1>6 DEF FinishRep, Leave
<1>7. ASSUME NEW p \in Pods, Kill(p) PROVE NameInv'
  BY <1>7 DEF Kill, Leave
<1>8. ASSUME NEW p \in Pods, Relaunch(p) PROVE NameInv'
  BY <1>8 DEF Relaunch, Goto
<1>9. CASE UNCHANGED vars
  BY <1>9 DEF vars, podVars
<1> QED
  BY <1>1, <1>2, <1>3, <1>4, <1>5, <1>6, <1>7, <1>8, <1>9 DEF Next, RunnerStep

-----------------------------------------------------------------------------
(* Pods, launches and repetitions are what runs are made of.               *)
LEMMA RunParts ==
  ASSUME NEW run \in Runs
  PROVE  run[1] \in Pods /\ run[2] \in Nat /\ run[3] \in 1 .. Repeats
         /\ run = <<run[1], run[2], run[3]>>
<1>1. PICK p \in Pods : run \in {p} \X (1 .. MaxLaunch[p]) \X (1 .. Repeats)
  BY DEF Runs
<1> QED
  BY <1>1

LEMMA RowsTyped == ASSUME TypeOK, NEW r \in Rows PROVE r \in PieceType /\ r.run \in Runs
<1>1. PICK i \in DOMAIN file : r = file[i]
  BY DEF Rows
<1>2. r \in PieceType
  BY <1>1 DEF TypeOK
<1> QED
  BY <1>2 DEF PieceType

(* What a step can mean to a pod: its row, its next repetition, its next   *)
(* launch, or none of them.                                                *)
Quiet(p) ==
  /\ launch'[p] = launch[p] /\ rep'[p] = rep[p]
  /\ \/ at'[p] = at[p] /\ outcome'[p] = outcome[p]
     \/ /\ at[p] \in Running /\ at'[p] \notin {"appended", "succeeded"}
        /\ at[p] = "appended" => at'[p] = "killed"

LEMMA PodStep ==
  ASSUME TypeOK, [Next]_vars, NEW q \in Pods
  PROVE  AppendRow(q) \/ FinishRep(q) \/ Relaunch(q) \/ Quiet(q)
<1> USE DEF TypeOK, Running, Quiet
<1>1. CASE ClockTick \/ UNCHANGED vars
  BY <1>1 DEF ClockTick, vars, podVars
<1>2. ASSUME NEW p \in Pods, StartRep(p) \/ StartRaises(p) \/ StopRaises(p) \/ WorkloadEnds(p)
      PROVE  Quiet(q)
  BY <1>2 DEF StartRep, StartRaises, StopRaises, WorkloadEnds, Goto, podVars
<1>3. ASSUME NEW p \in Pods, StampRow(p) \/ OpenTrace(p) \/ WriteTrace(p) PROVE Quiet(q)
  BY <1>3 DEF StampRow, OpenTrace, WriteTrace, Goto, podVars
<1>4. ASSUME NEW p \in Pods, Kill(p) PROVE Quiet(q)
  BY <1>4 DEF Kill, Leave
<1>5. ASSUME NEW p \in Pods, p # q, AppendRow(p) \/ FinishRep(p) \/ Relaunch(p) PROVE Quiet(q)
  BY <1>5 DEF AppendRow, FinishRep, Relaunch, Goto, Leave, podVars
<1> QED
  BY <1>1, <1>2, <1>3, <1>4, <1>5 DEF Next, RunnerStep

(* A pod that is past a run stays past it.                                 *)
LEMMA PastKept ==
  ASSUME TypeOK, [Next]_vars, NEW run \in Runs
  PROVE  /\ Past(run, Finished \cup {"appended"}) => Past(run, Finished \cup {"appended"})'
         /\ Past(run, Finished) => Past(run, Finished)'
<1>1. /\ run[1] \in Pods /\ run[2] \in Nat /\ run[3] \in Nat
      /\ launch[run[1]] \in Nat /\ rep[run[1]] \in Nat
  BY RunParts DEF TypeOK
<1> DEFINE q == run[1]
<1>2. CASE AppendRow(q)
  BY <1>1, <1>2 DEF TypeOK, AppendRow, Goto, podVars, Past, Finished
<1>3. CASE FinishRep(q)
  <2>1. \/ at'[q] \in {"failed", "succeeded"} /\ rep'[q] = rep[q]
        \/ rep'[q] = rep[q] + 1
    BY <1>1, <1>3 DEF TypeOK, FinishRep
  <2> QED
    BY <1>1, <1>3, <2>1 DEF FinishRep, Past, Finished
<1>4. CASE Relaunch(q)
  BY <1>1, <1>4 DEF TypeOK, Relaunch, Past
<1>5. CASE Quiet(q)
  BY <1>1, <1>5 DEF Quiet, Past, Finished, Running
<1> QED
  BY <1>1, <1>2, <1>3, <1>4, <1>5, PodStep

(* No run is recorded that its pod has yet to record.                      *)
LEMMA PastStep == TypeOK /\ NameInv /\ PastInv /\ CompleteInv /\ [Next]_vars => PastInv'
<1> SUFFICES ASSUME TypeOK, NameInv, PastInv, CompleteInv, [Next]_vars PROVE PastInv'
  OBVIOUS
<1>1. ASSUME NEW r \in Rows' PROVE Past(r.run, Finished \cup {"appended"})'
  <2>1. CASE r \in Rows
    BY <2>1, RowsTyped, PastKept DEF PastInv
  <2>2. CASE r \notin Rows
    <3>1. PICK p \in Pods : AppendRow(p) /\ r = Piece(p, TRUE)
      BY <2>2, <1>1, RowsStep
    <3> QED
      BY <3>1 DEF TypeOK, AppendRow, Goto, podVars, Piece, Run, Past
  <2> QED
    BY <2>1, <2>2
<1>2. ASSUME NEW run \in reported' PROVE Past(run, Finished)' /\ run \in Recorded'
  <2>1. Rows \subseteq Rows'
    BY RowsStep
  <2>2. CASE run \in reported
    BY <2>1, <2>2, PastKept DEF PastInv, TypeOK, Recorded
  <2>3. CASE run \notin reported
    <3>1. PICK p \in Pods : FinishRep(p) /\ run = Run(p)
      BY <2>3, <1>2 DEF Next, vars, ClockTick, RunnerStep, StartRep, StartRaises, StopRaises,
         WorkloadEnds, StampRow, OpenTrace, WriteTrace, AppendRow, FinishRep, Kill, Relaunch
    <3>2. run \in Recorded
      BY <3>1 DEF CompleteInv, FinishRep, Recorded
    <3>3. launch'[p] = launch[p] /\ \/ at'[p] \in {"failed", "succeeded"} /\ rep'[p] = rep[p]
                                    \/ rep'[p] = rep[p] + 1
      BY <3>1 DEF TypeOK, FinishRep
    <3> QED
      BY <2>1, <3>1, <3>2, <3>3 DEF TypeOK, Run, Past, Finished, Recorded
  <2> QED
    BY <2>2, <2>3
<1> QED
  BY <1>1, <1>2 DEF PastInv

(* Rows stay, and a repetition goes on only from a row that is in the file.*)
LEMMA CompleteStep == TypeOK /\ NameInv /\ CompleteInv /\ [Next]_vars => CompleteInv'
<1> SUFFICES ASSUME TypeOK, NameInv, CompleteInv, [Next]_vars, NEW q \in Pods
             PROVE  /\ at'[q] = "appended" =>
                         \E r \in Rows' : r.run = Run(q)' /\ r.outcome = outcome'[q]
                    /\ at'[q] = "succeeded" => rep'[q] = Repeats
                    /\ \A k \in 1 .. Repeats :
                         (k < rep'[q] \/ (k = rep'[q] /\ at'[q] = "succeeded")) =>
                           \E r \in Rows' : r.run = <<q, launch'[q], k>> /\ r.outcome # "raised"
  BY DEF CompleteInv
<1>1. Rows \subseteq Rows'
  BY RowsStep
<1>2. rep[q] \in Nat /\ Repeats \in Nat
  BY RunnerAssumption DEF TypeOK
<1>3. CASE AppendRow(q)
  <2>1. Piece(q, TRUE) \in PieceType /\ Piece(q, TRUE).whole
    BY <1>3, PieceTyped DEF AppendRow, Goto, Named, Piece
  <2>2. Piece(q, TRUE) \in Rows'
    BY <1>3, <2>1, RowsAppend DEF AppendRow
  <2>3. Piece(q, TRUE).run = Run(q)' /\ Piece(q, TRUE).outcome = outcome'[q]
    BY <1>3 DEF AppendRow, podVars, Piece, Run
  <2> QED
    BY <1>1, <1>3, <2>2, <2>3 DEF CompleteInv, TypeOK, AppendRow, Goto, podVars
<1>4. CASE FinishRep(q)
  <2>1. PICK r \in Rows : r.run = <<q, launch[q], rep[q]>> /\ r.outcome = outcome[q]
    BY <1>4 DEF CompleteInv, FinishRep, Run
  <2>2. launch' = launch
    BY <1>4 DEF FinishRep
  <2>3. CASE outcome[q] = "raised"
    <3>1. at'[q] = "failed" /\ rep'[q] = rep[q]
      BY <1>4, <2>3 DEF FinishRep, TypeOK
    <3> QED
      BY <1>1, <2>2, <3>1 DEF CompleteInv
  <2>4. CASE outcome[q] # "raised" /\ rep[q] = Repeats
    <3>1. at'[q] = "succeeded" /\ rep'[q] = rep[q]
      BY <1>4, <2>4 DEF FinishRep, TypeOK
    <3> QED
      BY <1>1, <2>1, <2>2, <2>4, <3>1 DEF CompleteInv
  <2>5. CASE outcome[q] # "raised" /\ rep[q] # Repeats
    <3>1. at'[q] = "rep" /\ rep'[q] = rep[q] + 1
      BY <1>4, <2>5 DEF FinishRep, TypeOK
    <3>2. \A k \in 1 .. Repeats : k < rep'[q] => k < rep[q] \/ k = rep[q]
      BY <1>2, <3>1
    <3> QED
      BY <1>1, <2>1, <2>2, <2>5, <3>1, <3>2 DEF CompleteInv
  <2> QED
    BY <2>3, <2>4, <2>5
<1>5. CASE Relaunch(q)
  <2>1. at'[q] = "rep" /\ rep'[q] = 1
    BY <1>5 DEF Relaunch, Goto, TypeOK
  <2> QED
    BY <2>1
<1>6. CASE Quiet(q)
  BY <1>1, <1>6 DEF Quiet, CompleteInv, Running, Run
<1> QED
  BY <1>3, <1>4, <1>5, <1>6, PodStep

LEMMA InitIInv == Init => IInv
<1> SUFFICES ASSUME Init PROVE IInv
  OBVIOUS
<1> USE RunnerAssumption DEF Init
<1>1. Rows = {}
  BY DEF Rows
<1>2. TypeOK
  BY DEF TypeOK, Places, Running, Outcomes
<1>3. NameInv /\ PastInv /\ CompleteInv
  BY <1>1 DEF NameInv, PastInv, CompleteInv, Named
<1> QED
  BY <1>2, <1>3 DEF IInv

(* The invariant that joins the pods' places to the rows on the volume.    *)
THEOREM RunnerInvariant == Spec => []IInv
<1>1. IInv /\ [Next]_vars => IInv'
  BY TypeStep, NameStep, PastStep, CompleteStep DEF IInv
<1> QED
  BY <1>1, InitIInv, PTL DEF Spec

(* Every variable of the pods and of the volume keeps its type.            *)
THEOREM RunnerTypeCorrect == Spec => []TypeOK
<1>1. IInv => TypeOK
  BY DEF IInv
<1> QED
  BY <1>1, RunnerInvariant, PTL

(* A pod that exits zero left a row that does not say "failed" for each of *)
(* its repetitions, whatever was killed, launched again or torn meanwhile. *)
THEOREM ZeroExitIsComplete == Spec => []SuccessIsComplete
<1>1. IInv => SuccessIsComplete
  <2> SUFFICES ASSUME IInv, NEW p \in Pods, at[p] = "succeeded", NEW k \in 1 .. Repeats
               PROVE  \E r \in Rows : r.run = <<p, launch[p], k>> /\ r.outcome # "raised"
    BY DEF SuccessIsComplete
  <2>1. rep[p] = Repeats /\ Repeats \in Nat
    BY RunnerAssumption DEF IInv, CompleteInv
  <2>2. k < rep[p] \/ k = rep[p]
    BY <2>1
  <2> QED
    BY <2>2 DEF IInv, CompleteInv
<1> QED
  BY <1>1, RunnerInvariant, PTL

(* A step of the pods is a step of the log, or none: a row is recorded     *)
(* once, it stays, and nothing is reported ahead of it.                    *)
LEMMA LogStep == IInv /\ [Next]_vars => [Log!Next]_<<Recorded, reported>>
<1> SUFFICES ASSUME IInv, [Next]_vars
             PROVE  Log!Next \/ UNCHANGED <<Recorded, reported>>
  OBVIOUS
<1> USE DEF IInv
<1>1. ASSUME NEW p \in Pods, AppendRow(p), Rows' = Rows \cup {Piece(p, TRUE)} PROVE Log!Next
  <2>1. Run(p) \in Runs
    BY RunType
  <2>2. Run(p) \notin Recorded
    <3> SUFFICES ASSUME NEW r \in Rows, r.run = Run(p) PROVE FALSE
      BY DEF Recorded
    <3>1. Past(Run(p), Finished \cup {"appended"})
      BY DEF PastInv
    <3> QED
      BY <1>1, <3>1 DEF AppendRow, Goto, Past, Run, Finished, TypeOK
  <2>3. Recorded' = Recorded \cup {Run(p)}
    <3>1. Piece(p, TRUE).run = Run(p)
      BY DEF Piece
    <3> QED
      BY <1>1, <3>1 DEF Recorded
  <2>4. reported' = reported
    BY <1>1 DEF AppendRow
  <2> QED
    BY <2>1, <2>2, <2>3, <2>4 DEF Log!Next, Log!Record, Recorded
<1>2. ASSUME NEW p \in Pods, FinishRep(p) PROVE Log!Next
  <2>1. Run(p) \in Runs /\ Run(p) \in Recorded
    BY <1>2, RunType DEF CompleteInv, FinishRep, Recorded
  <2>2. Run(p) \notin reported
    <3> SUFFICES ASSUME Past(Run(p), Finished) PROVE FALSE
      BY DEF PastInv
    <3> QED
      BY <1>2 DEF FinishRep, Past, Run, Finished, TypeOK
  <2>3. reported' = reported \cup {Run(p)} /\ Recorded' = Recorded
    BY <1>2 DEF FinishRep, Recorded, Rows, volume
  <2> QED
    BY <2>1, <2>2, <2>3 DEF Log!Next, Log!Report, Recorded
<1>3. CASE Rows' = Rows /\ ~\E p \in Pods : FinishRep(p)
  <2>1. reported' = reported
    BY <1>3 DEF Next, vars, ClockTick, RunnerStep, StartRep, StartRaises, StopRaises,
       WorkloadEnds, StampRow, OpenTrace, WriteTrace, AppendRow, Kill, Relaunch
  <2> QED
    BY <1>3, <2>1 DEF Recorded
<1> QED
  BY <1>1, <1>2, <1>3, RowsStep

(* The results volume keeps what ResultsLog promises, for any number of    *)
(* pods and repetitions, with kills, torn writes and relaunches.           *)
THEOREM VolumeImplementsLog == Spec => ImplementsLog
<1>1. Init => Log!Init
  BY DEF Init, Log!Init, Rows
<1>2. IInv /\ [Next]_vars => [Log!Next]_<<{r.run : r \in Rows}, reported>>
  BY LogStep DEF Recorded
<1> QED
  BY <1>1, <1>2, RunnerInvariant, PTL DEF Spec, ImplementsLog, Log!Spec

-----------------------------------------------------------------------------
(* Names are given in seconds that tell a launch from those before it.     *)
LEMMA SecondStep == IInv /\ SecondInv /\ [Next]_vars => SecondInv'
<1> SUFFICES ASSUME IInv, SecondInv, [Next]_vars PROVE SecondInv'
  OBVIOUS
<1>1. TypeOK /\ NameInv /\ \A r \in Rows : Past(r.run, Finished \cup {"appended"})
  BY DEF IInv, PastInv
<1>2. /\ second \in Nat /\ \A p \in Pods : since[p] \in Nat /\ launch[p] \in Nat \ {0}
      /\ \A p \in Pods : at[p] \in Named => id[p][1] \in Nat
  BY <1>1, RunnerAssumption DEF TypeOK, NameInv, RunIds
<1>3. \A r \in Rows : r.id[1] \in Nat /\ r.run[1] \in Pods /\ r.run[2] \in Nat
  <2> SUFFICES ASSUME NEW r \in Rows PROVE r.id[1] \in Nat /\ r.run[1] \in Pods /\ r.run[2] \in Nat
    OBVIOUS
  <2>1. r.id \in RunIds /\ r.run \in Runs
    BY <1>1, RowsTyped DEF PieceType
  <2> QED
    BY <2>1, RunParts, RunnerAssumption DEF RunIds
<1> USE DEF Named, Running
<1>4. ASSUME NEW p \in Pods
      PROVE  (launch[p] > 1 => /\ at[p] \in Running => since[p] < second
                               /\ at[p] \in Named => since[p] < id[p][1])'
  <2>1. CASE ClockTick \/ UNCHANGED vars
    BY <1>2, <2>1 DEF SecondInv, ClockTick, vars, podVars
  <2>2. ASSUME NEW q \in Pods, RunnerStep(q), ~StampRow(q), ~FinishRep(q)
        PROVE  /\ UNCHANGED <<second, since, launch, id>>
               /\ at'[p] = at[p] \/ (at[p] \in Running /\ (at'[p] \in Named => at[p] \in Named))
    BY <1>1, <2>2 DEF TypeOK, RunnerStep, StartRep, StartRaises, WorkloadEnds, StopRaises, OpenTrace,
       WriteTrace, AppendRow, Goto, podVars
  <2>3. ASSUME NEW q \in Pods, StampRow(q)
        PROVE  /\ UNCHANGED <<second, since, launch>>
               /\ \/ at'[p] = at[p] /\ id'[p] = id[p]
                  \/ at[p] \in Running /\ id'[p][1] = second
    BY <1>1, <2>3 DEF TypeOK, StampRow, Goto, RunId
  <2>4. ASSUME NEW q \in Pods, FinishRep(q) \/ Kill(q)
        PROVE  /\ UNCHANGED <<second, launch>>
               /\ \/ at'[p] = at[p] /\ id'[p] = id[p] /\ since'[p] = since[p]
                  \/ at[p] \in Running /\ at'[p] = "rep" /\ since'[p] = since[p]
                  \/ at'[p] \notin Running
    <3>1. CASE Kill(q)
      BY <1>1, <3>1 DEF TypeOK, Kill, Leave
    <3>2. CASE FinishRep(q) /\ p # q
      BY <1>1, <3>2 DEF TypeOK, FinishRep, Leave
    <3>3. CASE FinishRep(q) /\ p = q
      <4>1. at'[p] \in {"failed", "succeeded", "rep"}
        BY <1>1, <3>3 DEF TypeOK, FinishRep
      <4> QED
        BY <3>3, <4>1 DEF FinishRep
    <3> QED
      BY <2>4, <3>1, <3>2, <3>3
  <2>5. ASSUME NEW q \in Pods, Relaunch(q)
        PROVE  /\ UNCHANGED <<second, since, id>>
               /\ \/ at'[p] = at[p] /\ launch'[p] = launch[p]
                  \/ at'[p] = "rep" /\ since[p] < second
    BY <1>1, <2>5 DEF TypeOK, Relaunch, Goto
  <2> QED
    BY <1>2, <2>1, <2>2, <2>3, <2>4, <2>5 DEF SecondInv, Next
<1>5. ASSUME NEW r \in Rows'
      PROVE  /\ r.id[1] <= second' /\ r.id[2] = r.run[3] /\ r.id[3] = Pid[r.run[1]]
             /\ (r.run[2] < launch'[r.run[1]] \/ at'[r.run[1]] = "killed") =>
                   r.id[1] <= since'[r.run[1]]
  <2>1. CASE r \notin Rows
    <3>1. PICK p \in Pods : AppendRow(p) /\ r = Piece(p, TRUE)
      BY <1>1, <1>5, <2>1, RowsStep
    <3> QED
      BY <1>1, <1>2, <3>1 DEF AppendRow, Goto, podVars, Piece, Run, NameInv, TypeOK
  <2>2. CASE r \in Rows
    <3> DEFINE q == r.run[1]
    <3>1. /\ r.id[1] <= second /\ r.id[2] = r.run[3] /\ r.id[3] = Pid[q] /\ q \in Pods
          /\ (r.run[2] < launch[q] \/ at[q] = "killed") => r.id[1] <= since[q]
          /\ r.run[2] <= launch[q]
      BY <1>1, <1>2, <1>3, <2>2 DEF SecondInv, Past
    <3>2. second <= second'
      <4>1. second' = second \/ second' = second + 1
        BY DEF Next, vars, ClockTick, RunnerStep, StartRep, StartRaises, StopRaises,
           WorkloadEnds, StampRow, OpenTrace, WriteTrace, AppendRow, FinishRep, Kill, Relaunch
      <4> QED
        BY <1>2, <4>1
    <3> DEFINE Kept ==
          \/ launch'[q] = launch[q] /\ since'[q] = since[q]
             /\ (at'[q] # "killed" \/ at'[q] = at[q])
          \/ since'[q] = second
          \/ at[q] = "killed" /\ since'[q] = since[q]
    <3>3. Kept
      <4>1. CASE ClockTick \/ UNCHANGED vars
        BY <4>1 DEF ClockTick, vars, podVars
      <4>2. ASSUME NEW p \in Pods, RunnerStep(p)
            PROVE  launch' = launch /\ since' = since /\ (at'[q] = at[q] \/ at'[q] # "killed")
        BY <1>1, <3>1, <4>2 DEF TypeOK, RunnerStep, StartRep, StartRaises, WorkloadEnds, StopRaises,
           StampRow, OpenTrace, WriteTrace, AppendRow, FinishRep, Goto, podVars
      <4>3. ASSUME NEW p \in Pods, Kill(p) PROVE Kept
        BY <1>1, <3>1, <4>3 DEF TypeOK, Kill
      <4>4. ASSUME NEW p \in Pods, Relaunch(p) PROVE Kept
        BY <1>1, <3>1, <4>4 DEF TypeOK, Relaunch, Goto
      <4> QED
        BY <4>1, <4>2, <4>3, <4>4 DEF Next
    <3> HIDE DEF q
    <3>4. r.id[1] \in Nat /\ second' \in Nat /\ launch[q] \in Nat /\ r.run[2] \in Nat
      BY <1>1, <1>2, <1>3, <2>2, <3>1, TypeStep, RunnerAssumption DEF TypeOK
    <3>5. r.id[1] <= second'
      BY <1>2, <3>1, <3>2, <3>4
    <3>6. (r.run[2] < launch'[q] \/ at'[q] = "killed") => r.id[1] <= since'[q]
      BY <3>1, <3>3
    <3> QED
      BY <3>1, <3>5, <3>6 DEF q
  <2> QED
    BY <2>1, <2>2
<1> QED
  BY <1>4, <1>5 DEF SecondInv

(* A name still to be used is that of none of the pod's own rows: they are *)
(* of other repetitions or of earlier seconds.                             *)
LEMMA NameIsNew ==
  ASSUME IInv, SecondInv, NEW p \in Pods, at[p] \in Named \ {"appended"},
         NEW r \in Rows, r.run[1] = p
  PROVE  r.id # id[p]
<1> SUFFICES ASSUME r.id = id[p] PROVE FALSE
  OBVIOUS
<1>1. r.run[1] \in Pods /\ r.run[2] \in Nat /\ r.run[2] >= 1
  <2>1. r.run \in Runs
    BY RowsTyped DEF IInv
  <2>2. PICK q \in Pods : r.run \in {q} \X (1 .. MaxLaunch[q]) \X (1 .. Repeats)
    BY <2>1 DEF Runs
  <2> QED
    BY <2>2, RunnerAssumption
<1>2. r.run[1] = p /\ r.run[3] = rep[p]
  BY <1>1 DEF SecondInv, IInv, NameInv, Named
<1>3. Past(r.run, Finished \cup {"appended"})
  BY DEF IInv, PastInv
<1>4. r.run[2] < launch[p]
  BY <1>2, <1>3 DEF Past, Finished, Named, IInv, TypeOK
<1>5. r.id[1] <= since[p] /\ launch[p] > 1
  <2>1. r.id[1] <= since[p]
    BY <1>2, <1>4 DEF SecondInv
  <2>2. launch[p] \in Nat
    BY DEF IInv, TypeOK
  <2> QED
    BY <1>1, <1>4, <2>1, <2>2
<1>6. since[p] < id[p][1]
  BY <1>5 DEF SecondInv, Named
<1>7. since[p] \in Nat /\ id[p][1] \in Nat
  BY RunnerAssumption DEF IInv, TypeOK, NameInv, Named, RunIds
<1> QED
  BY <1>5, <1>6, <1>7

(* Only a pod between opening its trace and filling it touches a trace,    *)
(* and only one that is naming its row touches what is named.              *)
LEMMA TracesStep ==
  ASSUME [Next]_vars
  PROVE  \/ traces' = traces
         \/ \E p \in Pods : OpenTrace(p) \/ WriteTrace(p)
BY DEF Next, vars, volume, ClockTick, RunnerStep, StartRep, StartRaises, StopRaises,
   WorkloadEnds, StampRow, AppendRow, FinishRep, Kill, Relaunch

LEMMA NamesStep ==
  ASSUME [Next]_vars
  PROVE  \/ named' = named
         \/ \E p \in Pods : StampRow(p)
BY DEF Next, vars, volume, ClockTick, RunnerStep, StartRep, StartRaises, StopRaises,
   WorkloadEnds, OpenTrace, WriteTrace, AppendRow, FinishRep, Kill, Relaunch

LEMMA NamesStay ==
  ASSUME TypeOK, [Next]_vars, NEW i \in RunIds
  PROVE  named[i] \subseteq named'[i]
<1>1. ASSUME NEW p \in Pods, StampRow(p) PROVE named[i] \subseteq named'[i]
  BY <1>1 DEF StampRow, TypeOK
<1> QED
  BY <1>1, NamesStep

(* What a step does to the name of a pod's row.                            *)
LEMMA NameKept ==
  ASSUME TypeOK, [Next]_vars, NEW q \in Pods, ~StampRow(q), at'[q] \in Named
  PROVE  at[q] \in Named /\ id'[q] = id[q] /\ Run(q)' = Run(q)
<1> USE DEF Named, TypeOK
<1>1. CASE ClockTick \/ UNCHANGED vars
  BY <1>1 DEF ClockTick, vars, podVars, Run
<1>2. ASSUME NEW p \in Pods, \/ StartRep(p) \/ StartRaises(p) \/ WorkloadEnds(p) \/ StopRaises(p)
                             \/ OpenTrace(p) \/ WriteTrace(p) \/ AppendRow(p)
      PROVE  at[q] \in Named /\ id'[q] = id[q] /\ Run(q)' = Run(q)
  BY <1>2 DEF StartRep, StartRaises, WorkloadEnds, StopRaises, OpenTrace, WriteTrace, AppendRow,
     Goto, podVars, Run
<1>3. ASSUME NEW p \in Pods, p # q, StampRow(p) \/ FinishRep(p) \/ Kill(p) \/ Relaunch(p)
      PROVE  at[q] \in Named /\ id'[q] = id[q] /\ Run(q)' = Run(q)
  BY <1>3 DEF StampRow, FinishRep, Kill, Relaunch, Goto, Leave, Run
<1>4. ~FinishRep(q) /\ ~Kill(q) /\ ~Relaunch(q)
  <2>1. FinishRep(q) => at'[q] \in {"failed", "succeeded", "rep"}
    BY DEF FinishRep
  <2> QED
    BY <2>1 DEF Kill, Relaunch, Goto
<1> QED
  BY <1>1, <1>2, <1>3, <1>4 DEF Next, RunnerStep

(* Runs keep the names they were given.                                    *)
LEMMA NamedStep == IInv /\ NamedInv /\ [Next]_vars => NamedInv'
<1> SUFFICES ASSUME IInv, NamedInv, [Next]_vars PROVE NamedInv'
  OBVIOUS
<1>0. TypeOK /\ NameInv /\ TypeOK' /\ NameInv'
  BY TypeStep, NameStep DEF IInv
<1>1. ASSUME NEW q \in Pods, at'[q] \in Named PROVE Run(q)' \in named'[id'[q]]
  <2>1. CASE StampRow(q)
    <3>1. RunId(q) \in RunIds
      BY <1>0 DEF RunId, RunIds, TypeOK
    <3>2. id'[q] = RunId(q) /\ Run(q)' = Run(q) /\ named'[RunId(q)] = named[RunId(q)] \cup {Run(q)}
      BY <1>0, <2>1, <3>1 DEF StampRow, TypeOK, Run
    <3> QED
      BY <3>2
  <2>2. CASE ~StampRow(q)
    <3>1. at[q] \in Named /\ id'[q] = id[q] /\ Run(q)' = Run(q)
      BY <1>0, <1>1, <2>2, NameKept
    <3>2. id[q] \in RunIds /\ Run(q) \in named[id[q]]
      BY <1>0, <3>1 DEF NameInv, NamedInv
    <3> QED
      BY <1>0, <3>1, <3>2, NamesStay
  <2> QED
    BY <2>1, <2>2
<1>2. ASSUME NEW r \in Rows' PROVE r.run \in named'[r.id]
  <2>1. CASE r \in Rows
    <3>1. r.id \in RunIds /\ r.run \in named[r.id]
      BY <1>0, <2>1, RowsTyped DEF PieceType, NamedInv
    <3> QED
      BY <1>0, <3>1, NamesStay
  <2>2. CASE r \notin Rows
    <3>1. PICK p \in Pods : AppendRow(p) /\ r = Piece(p, TRUE)
      BY <1>0, <1>2, <2>2, RowsStep
    <3>2. at[p] \in Named /\ named' = named /\ r.run = Run(p) /\ r.id = id[p]
      BY <3>1 DEF AppendRow, Goto, Named, Piece
    <3> QED
      BY <3>2 DEF NamedInv
  <2> QED
    BY <2>1, <2>2
<1>3. ASSUME NEW i \in RunIds PROVE traces'[i] \subseteq named'[i]
  <2>1. traces[i] \subseteq named'[i]
    BY <1>0, NamesStay DEF NamedInv
  <2>2. ASSUME NEW p \in Pods, OpenTrace(p) PROVE traces'[i] \subseteq traces[i]
    BY <1>0, <2>2 DEF OpenTrace, TypeOK
  <2>3. ASSUME NEW p \in Pods, WriteTrace(p) PROVE traces'[i] \subseteq named'[i]
    <3>1. named' = named /\ Run(p) \in named[id[p]] /\ id[p] \in RunIds
      BY <1>0, <2>3 DEF WriteTrace, Goto, Named, NamedInv, NameInv
    <3>2. traces'[i] = IF i = id[p] THEN traces[i] \cup {Run(p)} ELSE traces[i]
      BY <1>0, <2>3, <3>1 DEF WriteTrace, TypeOK
    <3> QED
      BY <2>1, <3>1, <3>2
  <2> QED
    BY <2>1, <2>2, <2>3, TracesStep
<1> QED
  BY <1>1, <1>2, <1>3 DEF NamedInv

(* A pod with a name of its own meets no other pod at its trace.           *)
LEMMA NamesDiffer ==
  ASSUME NamedInv, NEW i, NEW p \in Pods, NEW q \in Pods, p # q, at[p] \in Named, Alone(i, q)
  PROVE  id[p] # i
<1>1. Run(p) \in named[id[p]] /\ Run(p)[1] = p
  BY DEF NamedInv, Run
<1> QED
  BY <1>1 DEF Alone

(* A trace stays as its pod made it until the row is there.                *)
LEMMA OwnStep == IInv /\ NamedInv /\ OwnInv /\ [Next]_vars => OwnInv'
<1> SUFFICES ASSUME IInv, NamedInv, OwnInv, [Next]_vars,
                    NEW q \in Pods, at'[q] \in Named, Alone(id[q], q)'
             PROVE  /\ at'[q] = "tracing" => traces'[id'[q]] = {}
                    /\ (at'[q] = "append" /\ traced'[q]) => traces'[id'[q]] = {Run(q)'}
  BY DEF OwnInv
<1> USE DEF IInv
<1>0. CASE StampRow(q)
  <2>1. at'[q] \in {"trace", "append"} /\ (at'[q] = "append" => ~traced'[q])
    BY <1>0 DEF StampRow, Goto, TypeOK
  <2> QED
    BY <2>1
<1>1. ASSUME OpenTrace(q)
      PROVE  at'[q] = "tracing" /\ traces'[id'[q]] = {}
  BY <1>1 DEF OpenTrace, Goto, TypeOK, NameInv, Named, podVars
<1>2. ASSUME ~StampRow(q)
      PROVE  /\ at[q] \in Named /\ id'[q] = id[q] /\ Run(q)' = Run(q) /\ id[q] \in RunIds
             /\ Alone(id[q], q)
  <2>1. at[q] \in Named /\ id'[q] = id[q] /\ Run(q)' = Run(q)
    BY <1>2, NameKept
  <2>2. id[q] \in RunIds
    BY <2>1 DEF NameInv
  <2>3. named[id[q]] \subseteq named'[id[q]]
    BY <2>2, NamesStay
  <2> QED
    BY <2>1, <2>2, <2>3 DEF Alone
<1>3. ASSUME WriteTrace(q)
      PROVE  at'[q] = "append" /\ traces'[id'[q]] = {Run(q)'}
  <2>1. ~StampRow(q)
    BY <1>3 DEF WriteTrace, StampRow, Goto
  <2>2. at[q] = "tracing" /\ id[q] \in RunIds /\ traces[id[q]] = {}
    BY <1>2, <1>3, <2>1 DEF WriteTrace, Goto, OwnInv
  <2>3. traces'[id[q]] = traces[id[q]] \cup {Run(q)}
    BY <1>3, <2>2 DEF WriteTrace, TypeOK
  <2>4. at'[q] = "append"
    BY <1>3 DEF WriteTrace, Goto, TypeOK
  <2> QED
    BY <1>2, <2>1, <2>2, <2>3, <2>4
<1>4. CASE ~StampRow(q) /\ ~OpenTrace(q) /\ ~WriteTrace(q)
  <2>1. /\ at[q] \in Named /\ id'[q] = id[q] /\ Run(q)' = Run(q) /\ id[q] \in RunIds
        /\ Alone(id[q], q)
    BY <1>2, <1>4
  <2>2. traces'[id[q]] = traces[id[q]]
    <3>1. ASSUME NEW p \in Pods, OpenTrace(p) \/ WriteTrace(p) PROVE traces'[id[q]] = traces[id[q]]
      <4>1. at[p] \in Named /\ p # q
        BY <1>4, <3>1 DEF OpenTrace, WriteTrace, Goto, Named
      <4>2. id[p] # id[q]
        BY <2>1, <4>1, NamesDiffer
      <4> QED
        BY <2>1, <3>1, <4>2 DEF OpenTrace, WriteTrace, TypeOK
    <3> QED
      BY <3>1, TracesStep
  <2>3. at'[q] \in {"tracing", "append"} => at'[q] = at[q] /\ traced'[q] = traced[q]
    <3>1. CASE ClockTick \/ UNCHANGED vars
      BY <3>1 DEF ClockTick, vars, podVars
    <3>2. ASSUME NEW p \in Pods, \/ StartRep(p) \/ StartRaises(p) \/ WorkloadEnds(p)
                                 \/ StopRaises(p) \/ AppendRow(p)
          PROVE  at'[q] \in {"tracing", "append"} => at'[q] = at[q] /\ traced'[q] = traced[q]
      BY <3>2 DEF TypeOK, StartRep, StartRaises, WorkloadEnds, StopRaises, AppendRow, Goto, podVars
    <3>3. ASSUME NEW p \in Pods, Kill(p) \/ Relaunch(p)
          PROVE at'[q] \in {"tracing", "append"} => at'[q] = at[q] /\ traced'[q] = traced[q]
      BY <3>3 DEF TypeOK, Kill, Relaunch, Goto, Leave
    <3>4. ASSUME NEW p \in Pods, p # q, StampRow(p) \/ OpenTrace(p) \/ WriteTrace(p) \/ FinishRep(p)
          PROVE at'[q] \in {"tracing", "append"} => at'[q] = at[q] /\ traced'[q] = traced[q]
      BY <3>4 DEF TypeOK, StampRow, OpenTrace, WriteTrace, FinishRep, Goto, Leave, podVars
    <3>5. ASSUME FinishRep(q) PROVE at'[q] \notin {"tracing", "append"}
      BY <3>5 DEF TypeOK, FinishRep
    <3> QED
      BY <1>4, <3>1, <3>2, <3>3, <3>4, <3>5 DEF Next, RunnerStep
  <2> QED
    BY <2>1, <2>2, <2>3 DEF OwnInv
<1> QED
  BY <1>0, <1>1, <1>3, <1>4

(* The traces of the rows there are stay, and a row takes along its own.   *)
LEMMA TraceStep == TIInv /\ NamedInv' /\ [Next]_vars => OwnUnlessNameIsShared'
<1> SUFFICES ASSUME TIInv, NamedInv', [Next]_vars, NEW r \in Rows', r.traced
             PROVE  /\ traces'[r.id] \subseteq named'[r.id]
                    /\ Alone(r.id, r.run[1])' => traces'[r.id] = {r.run}
  BY DEF OwnUnlessNameIsShared, Alone
<1> USE DEF TIInv, IInv
<1>1. r.id \in RunIds
  <2>1. TypeOK'
    BY TypeStep
  <2>2. r.id \in RunIds'
    <3>1. PICK i \in DOMAIN file' : r = file'[i]
      BY DEF Rows
    <3>2. r \in PieceType'
      BY <2>1, <3>1 DEF TypeOK
    <3> QED
      BY <3>2 DEF PieceType
  <2> QED
    BY <2>2 DEF RunIds
<1>2. traces'[r.id] \subseteq named'[r.id]
  BY <1>1 DEF NamedInv, RunIds
<1>3. ASSUME Alone(r.id, r.run[1])' PROVE Alone(r.id, r.run[1])
  <2>1. named[r.id] \subseteq named'[r.id]
    BY <1>1, NamesStay
  <2> QED
    BY <1>3, <2>1 DEF Alone
<1>4. ASSUME r \in Rows, Alone(r.id, r.run[1]) PROVE traces'[r.id] = {r.run}
  <2>1. traces[r.id] = {r.run} /\ r.run[1] \in Pods
    BY <1>4, RowsTyped, RunParts DEF OwnUnlessNameIsShared, Alone
  <2>2. ASSUME NEW p \in Pods, OpenTrace(p) \/ WriteTrace(p) PROVE traces'[r.id] = traces[r.id]
    <3>1. at[p] \in Named \ {"appended"}
      BY <2>2 DEF OpenTrace, WriteTrace, Goto, Named
    <3>2. CASE r.run[1] = p
      <4>1. r.id # id[p]
        BY <1>4, <3>1, <3>2, NameIsNew
      <4> QED
        BY <1>1, <2>2, <4>1 DEF OpenTrace, WriteTrace, TypeOK
    <3>3. CASE r.run[1] # p
      <4>1. r.id # id[p]
        BY <1>4, <2>1, <3>1, <3>3, NamesDiffer
      <4> QED
        BY <1>1, <2>2, <4>1 DEF OpenTrace, WriteTrace, TypeOK
    <3> QED
      BY <3>2, <3>3
  <2> QED
    BY <2>1, <2>2, TracesStep
<1>5. ASSUME r \notin Rows, Alone(r.id, r.run[1]) PROVE traces'[r.id] = {r.run}
  <2>1. PICK p \in Pods : AppendRow(p) /\ r = Piece(p, TRUE)
    BY <1>5, RowsStep
  <2>2. r.id = id[p] /\ r.run = Run(p) /\ r.run[1] = p /\ r.traced = traced[p]
    BY <2>1 DEF Piece, Run
  <2>3. at[p] = "append" /\ traces' = traces
    BY <2>1 DEF AppendRow, Goto
  <2> QED
    BY <1>5, <2>2, <2>3 DEF OwnInv, Named
<1> QED
  BY <1>2, <1>3, <1>4, <1>5

(* For any PIDs: the trace a row names holds only what runs of that name   *)
(* wrote, and is that repetition's, whole, and no other's, unless a run of *)
(* another pod was given the name.  Containers, whose runners are all      *)
(* process 1, need only be in the same repetition in the same second.      *)
THEOREM TraceStaysOwn == Spec => []OwnUnlessNameIsShared
<1>1. Init => TIInv
  <2>1. ASSUME Init PROVE IInv /\ Rows = {}
    BY <2>1, InitIInv DEF Init, Rows
  <2> QED
    BY <2>1 DEF Init, TIInv, SecondInv, NamedInv, OwnInv, OwnUnlessNameIsShared, Named
<1>2. TIInv /\ [Next]_vars => TIInv'
  <2>1. IInv /\ [Next]_vars => IInv'
    BY TypeStep, NameStep, PastStep, CompleteStep DEF IInv
  <2> QED
    BY <2>1, SecondStep, NamedStep, OwnStep, TraceStep DEF TIInv
<1>3. TIInv => OwnUnlessNameIsShared
  BY DEF TIInv
<1> QED
  BY <1>1, <1>2, <1>3, PTL DEF Spec
=============================================================================
