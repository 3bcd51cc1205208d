--------------------------- MODULE MCCarbonModel ---------------------------
(* FleetAnalysis, Quotes and BreakEven for TLC in one run: the two halves  *)
(* of the carbon model, what it compares and what it answers.  They share  *)
(* no state.  A behaviour here grows the file with no replacement under    *)
(* way or lets the years pass with the file empty, so that every state of  *)
(* either half is visited.                                                 *)
EXTENDS MCFleetAnalysis, MCBreakEven

RestingCard == CHOOSE c \in Cards : TRUE

NoYears ==
  /\ old = RestingCard /\ new = RestingCard
  /\ estimate = (CHOOSE e \in EmbodiedRanges : TRUE) /\ ~use_high
  /\ annual_decline = 0 /\ jobs = 0 /\ year = 0

NoRows == file = <<>>

CInit == Init /\ BInit

CNext == \/ NoYears /\ Next /\ UNCHANGED bvars
         \/ NoRows /\ BNext /\ UNCHANGED file

CSpec == CInit /\ [][CNext]_<<file, bvars>>
=============================================================================
