----------------------------- MODULE ResultsLog -----------------------------
(***************************************************************************)
(* What the results volume promises the people who run a sweep, whatever   *)
(* the pods that write to it do and whenever they are killed: a repetition *)
(* is recorded at most once, a record is never taken back, and a           *)
(* repetition is reported complete only once it is recorded.               *)
(***************************************************************************)
EXTENDS Naturals

CONSTANT Runs         (* every repetition of every launch of every pod     *)

VARIABLES recorded,   (* the repetitions whose row is on the volume        *)
          reported    (* the repetitions a runner has moved on from        *)

Init == recorded = {} /\ reported = {}

Record(r) ==
  /\ r \in Runs \ recorded
  /\ recorded' = recorded \cup {r}
  /\ UNCHANGED reported

Report(r) ==
  /\ r \in recorded \ reported
  /\ reported' = reported \cup {r}
  /\ UNCHANGED recorded

Next == \E r \in Runs : Record(r) \/ Report(r)

Spec == Init /\ [][Next]_<<recorded, reported>>
=============================================================================
