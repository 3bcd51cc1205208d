----------------------------- MODULE CompareRuns -----------------------------
(***************************************************************************)
(* compare_llm_runs.py: whether the rows that llm_inference left did the   *)
(* same work, and from which token on they did not.  The rows are those of *)
(* Workload; each may have lost the sidecar with its tokens.               *)
(***************************************************************************)
EXTENDS Workload, FiniteSetsExt

None    == -1
Missing == -2

Records == {i \in 1 .. Len(rows) : rows[i].workload = "llm_inference"}

LastOutput(i) == rows[i].did.work[Len(rows[i].did.work)]

(* The sidecar _write_output splits off: one row where all are alike.      *)
TokenIds(i) ==
  LET out == LastOutput(i)
  IN  IF \A k \in DOMAIN out : out[k] = out[1]
      THEN [nested |-> FALSE, ids |-> out[1]]
      ELSE [nested |-> TRUE, ids |-> out]

(* with: the records whose sidecar is there.                               *)
load_tokens(i, with) ==
  IF i \notin with THEN <<>>
  ELSE IF TokenIds(i).nested THEN TokenIds(i).ids[1] ELSE TokenIds(i).ids

divergence_index(left, right) ==
  LET shorter == Min({Len(left), Len(right)})
      differ  == {k \in 1 .. shorter : left[k] # right[k]}
  IN  IF differ # {} THEN Min(differ) - 1
      ELSE IF Len(left) # Len(right) THEN shorter ELSE None

(* Mutation: the loop count is taken for a detail of the run.              *)
by_config_shape(i) ==
  {j \in Records : SubSeq(rows[j].config_id, 1, 4) = SubSeq(rows[i].config_id, 1, 4)}

(* The group of a record, and its verdict.                                 *)
by_config(i) == {j \in Records : rows[j].config_id = rows[i].config_id}

MisMatch(i) == Cardinality({rows[j].work_hash : j \in by_config(i)}) > 1

exit_code ==
  IF Records = {} THEN 2 ELSE IF \E i \in Records : MisMatch(i) THEN 1 ELSE 0

(* The line printed for a record whose hash is not that of its group's     *)
(* first: an index, or that a sidecar is missing.                          *)
Located(j, with) ==
  LET base  == Min(by_config(j))
      left  == load_tokens(base, with)
      right == load_tokens(j, with)
  IN  IF left = <<>> \/ right = <<>> THEN Missing ELSE divergence_index(left, right)

----------------------------------------------------------------------------
(* The tool fails exactly when two runs of one configuration ended in      *)
(* different tokens.  The index it gives for a pair is that of the first   *)
(* token in which their first rows differ; it gives none, although the     *)
(* tokens differ, only where they do so in a later row of the batch.       *)
(* Whether a run's own iterations differ is not looked at.                 *)
ComparisonIsTrue ==
  Records # {} =>
    /\ exit_code = 1 <=>
         \E i, j \in Records :
           rows[i].config_id = rows[j].config_id /\ LastOutput(i) # LastOutput(j)
    /\ \A with \in SUBSET Records, j \in Records :
         LET base  == Min(by_config(j))
             left  == LastOutput(base)
             right == LastOutput(j)
             index == Located(j, with) IN
         rows[j].work_hash # rows[base].work_hash =>
           /\ index = Missing <=> ~({base, j} \subseteq with)
           /\ index >= 0 => /\ \A k \in 1 .. index : left[1][k] = right[1][k]
                            /\ left[1][index + 1] # right[1][index + 1]
           /\ index = None => left[1] = right[1] /\ \E r \in DOMAIN left : left[r] # right[r]
=============================================================================
