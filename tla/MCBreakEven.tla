---------------------------- MODULE MCBreakEven ----------------------------
(* BreakEven for TLC: every pair of these cards, at every rate of work     *)
(* that fits in the year on both. A card at work draws no less than idle.  *)
EXTENDS BreakEven

MCCards     == {c \in [energy : {1, 4, 6, 7}, runtime : {1, 2}, idle : {0, 1, 3}] :
                  c.energy >= c.idle * c.runtime}
MCRanges  == {[low_kg |-> 2, high_kg |-> 7], [low_kg |-> 1, high_kg |-> 1]}
MCIntensity == 2
MCDeclines  == {0, 1}
MCWhole     == 2
MCSeconds   == 6
MCJPerKwh   == 3
MCSpread    == 2
MCYears     == 3
=============================================================================
