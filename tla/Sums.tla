-------------------------------- MODULE Sums --------------------------------
(* The sum that the summaries make over the rows or the nodes of a group.  *)
EXTENDS Integers, FiniteSets, FiniteSetsExt

(* What a function comes to over a finite set.                             *)
Total(f, S) == MapThenSumSet(LAMBDA x : f[x], S)
=============================================================================
