------------------------------ MODULE BreakEven ------------------------------
(***************************************************************************)
(* analysis/carbon_model.py: after how much work a new card has repaid its *)
(* embodied carbon, solved in closed form (break_even_jobs) and searched   *)
(* year by year (payback_curve).  The behaviours are the years of one      *)
(* replacement, accounted for with annual_energy_j and the grid's          *)
(* intensity: what both answers are claims about.                          *)
(*                                                                         *)
(* Arithmetic is exact: a job count is a fraction n/d, an intensity is in  *)
(* units of 1/Scale, and carbon in joules times intensity, so that         *)
(* J_PER_KWH multiplies the embodied side instead of dividing the other.   *)
(***************************************************************************)
EXTENDS Integers, FiniteSetsExt

CONSTANTS
  Cards,           (* measured cards: energy and runtime per job, idle power *)
  EmbodiedRanges,  (* low_kg and high_kg of the new card                    *)
  Intensity,       (* kg_co2e_per_kwh in year zero                          *)
  Declines, Whole, (* annual_decline, in parts of Whole                     *)
  SecondsPerYear,
  JPerKwh,
  IdleSpread,      (* IDLE_WITHIN_CARD_SPREAD_W                             *)
  MaxYears         (* bounds the model, and payback_curve's search          *)

ASSUME BreakEvenAssumption ==
  /\ Cards \subseteq [energy : Nat, runtime : Nat \ {0}, idle : Nat]
  /\ EmbodiedRanges \subseteq [low_kg : Nat \ {0}, high_kg : Nat \ {0}] /\ Intensity \in Nat \ {0}
  /\ \A e \in EmbodiedRanges : e.low_kg <= e.high_kg
  /\ Whole \in Nat \ {0} /\ Declines \subseteq 0 .. Whole - 1
  /\ SecondsPerYear \in Nat \ {0} /\ JPerKwh \in Nat \ {0}
  /\ IdleSpread \in Nat /\ MaxYears \in Nat \ {0}

VARIABLES
  old, new,        (* the pair                                              *)
  estimate,        (* its EmbodiedEstimate, as __post_init__ lets it be     *)
  use_high,        (* use_high_estimate                                     *)
  annual_decline,
  jobs,            (* jobs per year                                         *)
  year,            (* years since the replacement                           *)
  saved,           (* carbon saved in them, as far as it counts             *)
  paidIn           (* the first year that repaid embodied_kg, or zero       *)

inputs == <<old, new, estimate, use_high, annual_decline, jobs>>
bvars == <<inputs, year, saved, paidIn>>

----------------------------------------------------------------------------
(* The energy of a year: the jobs, and idling for the rest of it. Jobs     *)
(* that do not fit in the year raise.                                      *)
Fits(card, j) == j * card.runtime <= SecondsPerYear

annual_energy_j(card, j) ==
  j * card.energy + card.idle * (SecondsPerYear - j * card.runtime)

Power(base) ==
  LET p[n \in 0 .. MaxYears] == IF n = 0 THEN 1 ELSE base * p[n - 1] IN p

Scale == Power(Whole)[MaxYears]

(* at_year of a grid with this decline, and its sum over a horizon.        *)
at_year(decline, y) ==
  Intensity * (Power(Whole - decline)[y] * Power(Whole)[MaxYears - y])

cumulative_intensity(decline, horizon) ==
  LET sum[h \in 0 .. MaxYears] == IF h = 0 THEN 0 ELSE sum[h - 1] + at_year(decline, h - 1)
  IN  sum[horizon]

(* The end of the range that an answer is asked for.                       *)
embodied_kg(high) == IF high THEN estimate.high_kg ELSE estimate.low_kg

debt(high) == embodied_kg(high) * JPerKwh * Scale

(* Mutation: all of the jobs in each of the years.                         *)
carbon_saved_kg_every_year(delta, n, d, h) == <<delta * n * cumulative_intensity(annual_decline, h), d>>

(* carbon_saved_kg: n/d jobs spread evenly over h years, as a fraction.    *)
carbon_saved_kg(delta, n, d, h) == <<delta * n * cumulative_intensity(annual_decline, h), d * h>>

delta_j == old.energy - new.energy

(* Mutation: the new card is not charged for the hours it saves.           *)
effective_saving_no_idle == delta_j

(* _linear_terms: the annual difference is a * jobs + b.                   *)
effective_saving_j == delta_j - (old.idle * old.runtime - new.idle * new.runtime)
idle_term_j == SecondsPerYear * (old.idle - new.idle)

(* An idle difference inside the scatter of one card is taken as zero.     *)
gap_w == IF old.idle > new.idle THEN old.idle - new.idle ELSE new.idle - old.idle
Suppressed == gap_w > 0 /\ gap_w < IdleSpread

(* Mutation: the idle term is only annotated, as it once was.              *)
kept_idle_j_annotated == idle_term_j

kept_idle_j == IF Suppressed THEN 0 ELSE idle_term_j

Never == [pays |-> FALSE, n |-> 0, d |-> 1]

(* break_even_jobs over h years: the jobs per year that repay the card are *)
(* n/d, and no number of jobs that fits on the new card may do.            *)
break_even_jobs(high, h) ==
  LET intensity == cumulative_intensity(annual_decline, h)
      a == effective_saving_j
      b == kept_idle_j
      unpaid == debt(high) - b * intensity
      n == IF unpaid < 0 THEN 0 ELSE unpaid
      d == a * intensity
  IN  IF a <= 0
      THEN IF b > 0 /\ unpaid <= 0 THEN [pays |-> TRUE, n |-> 0, d |-> 1] ELSE Never
      ELSE IF n * new.runtime > SecondsPerYear * d THEN Never
           ELSE [pays |-> TRUE, n |-> n, d |-> d]

(* The snapshot form: jobs in all, idle power and years left out.          *)
break_even_snapshot ==
  IF delta_j <= 0 THEN Never
  ELSE [pays |-> TRUE, n |-> embodied_kg(use_high) * JPerKwh, d |-> delta_j * Intensity]

(* Mutation: the comparison the wrong way round.                           *)
ReachedSwapped(high, j, h) ==
  LET answer == break_even_jobs(high, h) IN answer.pays /\ answer.n >= j * answer.d

(* payback_curve's test of one horizon: j jobs a year reach its answer.    *)
Reached(high, j, h) ==
  LET answer == break_even_jobs(high, h) IN answer.pays /\ answer.n <= j * answer.d

(* Mutation: only the longest horizon is tried.                            *)
payback_curve_longest(high, j, max) == IF Reached(high, j, max) THEN max ELSE 0

(* break_even_hours_per_year: the seconds of work a year that pay the card *)
(* back in its lifetime, as a fraction.                                    *)
break_even_hours_per_year(high, lifetime) ==
  LET answer == break_even_jobs(high, lifetime)
  IN  [pays |-> answer.pays, n |-> answer.n * new.runtime, d |-> answer.d]

(* The first such horizon, or zero.                                        *)
payback_curve(high, j, max) ==
  LET horizons == {h \in 1 .. max : Reached(high, j, h)}
  IN  IF horizons = {} THEN 0 ELSE Min(horizons)

----------------------------------------------------------------------------
(* What the replacement saves in a year, in joules, and what of it counts: *)
(* a year of idling's worth of a difference within the scatter does not.   *)
annual_saving_j == annual_energy_j(old, jobs) - annual_energy_j(new, jobs)
scatter_j == IF Suppressed THEN idle_term_j ELSE 0
counted_j == annual_saving_j - scatter_j

BInit ==
  /\ old \in Cards /\ new \in Cards
  /\ estimate \in EmbodiedRanges /\ use_high \in BOOLEAN
  /\ annual_decline \in Declines
  /\ jobs \in {j \in 0 .. SecondsPerYear : Fits(old, j) /\ Fits(new, j)}
  /\ year = 0
  /\ saved = 0
  /\ paidIn = 0

YearPasses ==
  /\ year < MaxYears
  /\ year' = year + 1
  /\ saved' = saved + counted_j * at_year(annual_decline, year)
  /\ paidIn' = IF paidIn = 0 /\ saved' >= debt(use_high) THEN year' ELSE paidIn
  /\ UNCHANGED inputs

BNext == YearPasses

BSpec == BInit /\ [][BNext]_bvars

----------------------------------------------------------------------------
(* The closed form is exact: work at a rate that has repaid the card by    *)
(* the horizon is at or above the threshold given for that horizon, so no  *)
(* "never" hides a payback; and where a job saves anything once idling is  *)
(* charged, work at or above the threshold has repaid it.  Of a pair whose *)
(* idle differential is suppressed, as that of each pair the fleet has     *)
(* measured is, this is said of the accounts without the differential's    *)
(* own year, and of no others: see SuppressedAsAlike.                      *)
BreakEvenIsExact ==
  year > 0 =>
    /\ saved >= debt(use_high) => Reached(use_high, jobs, year)
    /\ (effective_saving_j > 0 /\ Reached(use_high, jobs, year)) => saved >= debt(use_high)

(* The search gives the very year in which the card was repaid, whatever   *)
(* the grid's decline, where a job saves anything, and by the accounts     *)
(* that BreakEvenIsExact speaks of.  Where each job takes back and the     *)
(* idle differential alone repays the card, the answer is zero jobs, which *)
(* every rate of work reaches, those included that never repay it.         *)
CurveIsFirstYear ==
  effective_saving_j > 0 => payback_curve(use_high, jobs, year) = paidIn

(* Nothing that helps the new card makes it pay later: neither more work   *)
(* in a year, nor the low end of the embodied range.  So a card that never *)
(* pays back at the low end never does, and the low end's threshold is at  *)
(* most that of the high end.                                              *)
LowEndIsRobust ==
  /\ \A j \in 0 .. jobs, high \in BOOLEAN :
       payback_curve(high, j, year) # 0 =>
         payback_curve(FALSE, jobs, year) \in 1 .. payback_curve(high, j, year)
  /\ \A h \in 1 .. year :
       LET low == break_even_hours_per_year(FALSE, h)
           top == break_even_hours_per_year(TRUE, h)
       IN  top.pays => /\ low.pays /\ low.n * top.d <= top.n * low.d
                       /\ top.n <= SecondsPerYear * top.d

(* The two cards have repaid, by the accounts, if both idle at w: at the   *)
(* power of either or anything between.                                    *)
Alike == Min({old.idle, new.idle}) .. Max({old.idle, new.idle})

RepaidAlike(w) ==
  LET alike(card) == annual_energy_j([card EXCEPT !.idle = w], jobs)
  IN  (alike(old) - alike(new)) * cumulative_intensity(annual_decline, year) >= debt(use_high)

(* What the note on a suppressed differential and the module's docstring   *)
(* say: it is treated as zero, the cards being taken to idle alike, and no *)
(* answer is too optimistic.  But it stays in the price of a job, and      *)
(* where the new card idles higher the answer promises what no two cards   *)
(* that idle alike would keep.                                             *)
SuppressedAsAlike ==
  (year > 0 /\ Suppressed /\ Reached(use_high, jobs, year)) => \E w \in Alike : RepaidAlike(w)

(* How far the answer is off, then: on one side only for each pair.  Where *)
(* the old card idled higher it promises nothing that cards idling alike   *)
(* would not keep; where the new one did, it misses nothing that they      *)
(* would reach, and SuppressedAsAlike shows that it may promise more.      *)
SuppressionErrsOneWay ==
  (year > 0 /\ Suppressed) =>
    \A w \in Alike :
      /\ old.idle > new.idle => (Reached(use_high, jobs, year) => RepaidAlike(w))
      /\ old.idle < new.idle => (RepaidAlike(w) => Reached(use_high, jobs, year))

(* The three forms of the equation agree where they overlap: for cards     *)
(* that idle at nothing, the threshold's jobs save embodied_kg by          *)
(* carbon_saved_kg too, and on a constant grid are the snapshot's.         *)
FormsAgree ==
  (year > 0 /\ old.idle = 0 /\ new.idle = 0) =>
    LET answer   == break_even_jobs(use_high, year)
        kg       == carbon_saved_kg(delta_j, answer.n * year, answer.d, year)
        snapshot == break_even_snapshot
    IN  answer.pays =>
          /\ kg[1] = debt(use_high) * kg[2]
          /\ annual_decline = 0 => answer.n * year * snapshot.d = snapshot.n * answer.d
=============================================================================
