---------------------------- MODULE MCPreflight ----------------------------
(* Preflight for TLC: the image's build on the fleet's generations and a   *)
(* newer build on newer ones, sound and broken; traces of up to four       *)
(* samples.                                                                *)
EXTENDS Preflight

MCPowers     == {0, 1, 3}
MCMaxGap     == 3
MCMaxSamples == 4
MCScale      == 6

Plain(S) == [sm : S, tail : {FALSE}]
cu121    == Plain({50, 60, 70, 75, 80, 86, 90})
Card(maj, min, archs) ==
  [cuda |-> TRUE, major |-> maj, minor |-> min, archs |-> archs, computes |-> "finite",
   binding |-> TRUE, driver |-> TRUE, counter |-> TRUE, skip_power |-> FALSE]

Skipping == [Card(8, 9, cu121) EXCEPT !.skip_power = TRUE]

MCCards ==
  {[Card(6, 1, cu121) EXCEPT !.counter = FALSE], [Card(8, 9, cu121) EXCEPT !.cuda = FALSE],
   [Card(8, 9, cu121) EXCEPT !.driver = FALSE], [Card(7, 5, cu121) EXCEPT !.computes = "nan", !.skip_power = TRUE],
   [Card(8, 6, cu121) EXCEPT !.computes = "raises", !.skip_power = TRUE],
   [Skipping EXCEPT !.binding = FALSE], [Skipping EXCEPT !.driver = FALSE]}
  \cup {[Skipping EXCEPT !.major = c[1], !.minor = c[2], !.archs = a] :
          c \in {<<3, 7>>, <<8, 0>>, <<9, 0>>, <<10, 0>>, <<12, 0>>},
          a \in {cu121, cu121 \cup Plain({100, 120}), {[sm |-> 90, tail |-> TRUE]}}}
=============================================================================
