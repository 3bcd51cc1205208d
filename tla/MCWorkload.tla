----------------------------- MODULE MCWorkload -----------------------------
(* Workload for TLC: two processes, two rows, a dataset of seven samples.  *)
EXTENDS CompareRuns, TLC

Args(bench, units, warmups, sizes, batches) ==
  [bench : {bench}, units : units, warmup : warmups, size : sizes, batch : batches]

(* Every plan around the dataset's end; generations whose tokens come in   *)
(* the same number from different shapes, and one long enough to repeat    *)
(* itself in every way.                                                    *)
MCArguments ==
  UNION {Args("resnet_train", 0 .. 4, -1 .. 2, {0}, {0}),
         Args("matmul", 0 .. 2, 0 .. 1, 0 .. 2, {0}),
         Args("llm_inference", {1, 2}, {0, 1}, {1}, {0, 1, 2}),
         Args("llm_inference", {1, 2}, {0}, {2}, {1}),
         Args("llm_inference", {1}, {0}, {2}, {2}),
         Args("llm_inference", {1}, {0}, {6}, {1})}
MCOrder   == <<3, 0, 6, 1, 5, 2, 4>>
MCTokens  == {0, 1}
MCEntropy == {"entropy1", "entropy2"}
=============================================================================
