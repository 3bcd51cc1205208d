--------------------------- MODULE BreakEvenProofs ---------------------------
(***************************************************************************)
(* Proofs about BreakEven, for every pair of cards, embodied range, grid   *)
(* and decline, and any number of years.                                   *)
(*                                                                         *)
(* Three steps.  The recursive definitions are what their equations say,   *)
(* by induction on the natural numbers (UpTo).                             *)
(* What a pair saves in a year is linear in the jobs (LinearForm), so that *)
(* what it saves in some years is that times the cumulative intensity      *)
(* (SavedInv).  The rest is about signs: where the threshold lies.         *)
(***************************************************************************)
EXTENDS BreakEven, SumProofs

----------------------------------------------------------------------------
(* The recursive definitions.                                              *)

(* f gives c for zero and, for each number up to m, what step makes of its *)
(* value before.                                                           *)
IsStep(step, m, V)        == step \in [(1 .. m) \X V -> V]
Recurs(f, m, V, c, step)  ==
  /\ f \in [0 .. m -> V]
  /\ \A h \in 0 .. m : f[h] = IF h = 0 THEN c ELSE step[<<h, f[h - 1]>>]

LEMMA RecursionIsDefined ==
  ASSUME NEW m \in Nat, NEW V, NEW c \in V, NEW step, IsStep(step, m, V)
  PROVE  \E f : Recurs(f, m, V, c, step)
<1> USE DEF IsStep
<1> DEFINE T == {n \in 0 .. m : \E f : Recurs(f, n, V, c, step)}
<1>1. 0 \in T
  <2>1. Recurs([h \in 0 .. 0 |-> c], 0, V, c, step)
    BY DEF Recurs
  <2>2. \E f : Recurs(f, 0, V, c, step)
    BY <2>1
  <2>3. QED BY <2>2
<1>2. \A n \in 0 .. m - 1 : n \in T => n + 1 \in T
  <2>1. SUFFICES ASSUME NEW n \in 0 .. m - 1, NEW f, Recurs(f, n, V, c, step)
                 PROVE  \E k : Recurs(k, n + 1, V, c, step)
    BY Z3
  <2> DEFINE k == [h \in 0 .. n + 1 |-> IF h \in 0 .. n THEN f[h] ELSE step[<<n + 1, f[n]>>]]
  <2>2. f[n] \in V /\ step[<<n + 1, f[n]>>] \in V
    BY <2>1 DEF Recurs
  <2>3. k \in [0 .. n + 1 -> V]
    BY <2>1, <2>2 DEF Recurs
  <2>4. ASSUME NEW h \in 0 .. n + 1
        PROVE  k[h] = IF h = 0 THEN c ELSE step[<<h, k[h - 1]>>]
    <3>1. CASE h \in 0 .. n
      <4>1. k[h] = f[h] /\ (h # 0 => k[h - 1] = f[h - 1])
        BY <3>1
      <4>2. f[h] = IF h = 0 THEN c ELSE step[<<h, f[h - 1]>>]
        BY <2>1, <3>1 DEF Recurs
      <4>3. QED BY <4>1, <4>2
    <3>2. CASE h = n + 1
      <4>1. h # 0 /\ h - 1 = n /\ k[h] = step[<<h, f[n]>>] /\ k[n] = f[n]
        BY <3>2
      <4>2. QED BY <4>1
    <3>3. QED BY <3>1, <3>2
  <2>5. Recurs(k, n + 1, V, c, step)
    BY <2>3, <2>4 DEF Recurs
  <2>6. QED BY <2>5
<1>3. m \in T
  <2> HIDE DEF T
  <2>1. \A n \in 0 .. m : n \in T
    BY <1>1, <1>2, UpTo
  <2>2. QED BY <2>1
<1>4. QED BY <1>3

LEMMA PowerIsDefined ==
  ASSUME NEW base \in Nat \ {0}
  PROVE  /\ Power(base)[0] = 1
         /\ \A n \in 0 .. MaxYears : Power(base)[n] \in Nat \ {0}
         /\ \A n \in 1 .. MaxYears : Power(base)[n] = base * Power(base)[n - 1]
<1> DEFINE Equation(p) == p = [n \in 0 .. MaxYears |-> IF n = 0 THEN 1 ELSE base * p[n - 1]]
           V == Nat \ {0}
           step == [x \in (1 .. MaxYears) \X V |-> base * x[2]]
<1>1. MaxYears \in Nat
  BY BreakEvenAssumption
<1>2. PICK f : Recurs(f, MaxYears, V, 1, step)
  <2>1. \A v \in V : base * v \in V
    OBVIOUS
  <2>2. IsStep(step, MaxYears, V) /\ 1 \in V
    BY <2>1 DEF IsStep
  <2> HIDE DEF V, step
  <2>3. QED BY <1>1, <2>2, RecursionIsDefined
<1>3. \A n \in 0 .. MaxYears : f[n] \in V /\ f[n] = IF n = 0 THEN 1 ELSE base * f[n - 1]
  <2>1. TAKE n \in 0 .. MaxYears
  <2>2. f[n] \in V
    BY <1>2 DEF Recurs
  <2>3. ASSUME n # 0 PROVE f[n] = base * f[n - 1]
    <3>1. n \in 1 .. MaxYears /\ n - 1 \in 0 .. MaxYears
      BY <1>1, <2>3
    <3>2. f[n - 1] \in V
      BY <1>2, <3>1 DEF Recurs
    <3>3. f[n] = step[<<n, f[n - 1]>>]
      BY <1>2, <2>3 DEF Recurs
    <3>4. QED BY <3>1, <3>2, <3>3
  <2>4. QED BY <1>2, <2>2, <2>3 DEF Recurs
<1>4. Equation(f)
  <2>1. f = [n \in 0 .. MaxYears |-> f[n]]
    BY <1>2 DEF Recurs
  <2>2. QED BY <1>3, <2>1
<1>5. Equation(Power(base))
  <2> HIDE DEF V
  <2>1. Power(base) = CHOOSE p : Equation(p)
    BY DEF Power
  <2> HIDE DEF Equation
  <2>2. QED BY <1>4, <2>1
<1>6. ASSUME NEW p, Equation(p)
      PROVE  /\ p[0] = 1
             /\ \A n \in 0 .. MaxYears : p[n] \in V
             /\ \A n \in 1 .. MaxYears : p[n] = base * p[n - 1]
  <2> DEFINE T == {n \in 0 .. MaxYears : p[n] \in V}
  <2>1. p[0] = 1 /\ \A n \in 1 .. MaxYears : p[n] = base * p[n - 1]
    BY <1>1, <1>6
  <2>2. 0 \in T
    BY <1>1, <2>1
  <2>3. ASSUME NEW n \in 0 .. MaxYears - 1, n \in T PROVE n + 1 \in T
    <3>1. n + 1 \in 1 .. MaxYears /\ n + 1 - 1 = n
      BY <1>1
    <3>2. p[n + 1] = base * p[n]
      BY <2>1, <3>1
    <3>3. QED BY <2>3, <3>1, <3>2
  <2>4. \A n \in 0 .. MaxYears : n \in T
    <3> HIDE DEF T
    <3>1. QED BY <1>1, <2>2, <2>3, UpTo
  <2>5. QED BY <2>1, <2>4
<1>7. QED
  <2> HIDE DEF Equation
  <2>1. QED BY <1>5, <1>6

(* A year's intensity is positive; without decline it is the same in all.  *)
LEMMA YearsAreSimilar ==
  ASSUME NEW n \in 0 .. MaxYears
  PROVE  Power(Whole)[n] * Power(Whole)[MaxYears - n] = Scale
<1> DEFINE p == Power(Whole)
           T == {k \in 0 .. MaxYears : p[k] * p[MaxYears - k] = Scale}
<1>1. MaxYears \in Nat /\ Whole \in Nat \ {0}
  BY BreakEvenAssumption
<1>2. /\ p[0] = 1
      /\ \A k \in 0 .. MaxYears : p[k] \in Nat \ {0}
      /\ \A k \in 1 .. MaxYears : p[k] = Whole * p[k - 1]
  BY <1>1, PowerIsDefined
<1> HIDE DEF p
<1>3. Scale = p[MaxYears]
  BY DEF Scale, p
<1>4. 0 \in T
  BY <1>1, <1>2, <1>3
<1>5. ASSUME NEW k \in 0 .. MaxYears - 1, k \in T PROVE k + 1 \in T
  <2>1. /\ k \in 0 .. MaxYears /\ k + 1 \in 1 .. MaxYears /\ k + 1 - 1 = k
        /\ MaxYears - k \in 1 .. MaxYears
        /\ MaxYears - k - 1 = MaxYears - (k + 1) /\ MaxYears - (k + 1) \in 0 .. MaxYears
    BY <1>1
  <2>2. p[k + 1] = Whole * p[k] /\ p[MaxYears - k] = Whole * p[MaxYears - (k + 1)]
    BY <1>2, <2>1
  <2>3. p[k] * p[MaxYears - k] = Scale
    BY <1>5
  <2> DEFINE a == p[k]
             b == p[MaxYears - (k + 1)]
  <2>4. a \in Nat /\ b \in Nat
    BY <1>2, <2>1
  <2>5. (Whole * a) * b = a * (Whole * b)
    <3> HIDE DEF a, b
    <3>1. QED BY <1>1, <2>4
  <2>6. QED BY <2>1, <2>2, <2>3, <2>5
<1>6. \A k \in 0 .. MaxYears : k \in T
  <2> HIDE DEF T
  <2>1. QED BY <1>1, <1>4, <1>5, UpTo
<1>7. QED BY <1>6 DEF p

LEMMA YearIsPositive ==
  ASSUME NEW decline \in Declines, NEW y \in 0 .. MaxYears - 1
  PROVE  at_year(decline, y) \in Nat \ {0}
<1>1. Whole \in Nat \ {0} /\ Whole - decline \in Nat \ {0}
  BY BreakEvenAssumption
<1>2. y \in 0 .. MaxYears /\ MaxYears - y \in 0 .. MaxYears
  BY BreakEvenAssumption
<1>3. Power(Whole - decline)[y] \in Nat \ {0} /\ Power(Whole)[MaxYears - y] \in Nat \ {0}
  BY <1>1, <1>2, PowerIsDefined
<1>4. \A a, b, c \in Nat \ {0} : a * (b * c) \in Nat \ {0}
  <2>1. \A a, b \in Nat \ {0} : a * b \in Nat \ {0}
    OBVIOUS
  <2>2. QED BY <2>1
<1>5. Intensity \in Nat \ {0}
  BY BreakEvenAssumption
<1>6. QED BY <1>3, <1>4, <1>5 DEF at_year

LEMMA CumulativeIsSum ==
  ASSUME NEW decline \in Declines
  PROVE  /\ cumulative_intensity(decline, 0) = 0
         /\ \A h \in 0 .. MaxYears : cumulative_intensity(decline, h) \in Nat
         /\ \A h \in 1 .. MaxYears :
              cumulative_intensity(decline, h)
                = cumulative_intensity(decline, h - 1) + at_year(decline, h - 1)
<1> DEFINE Equation(c) == c = [h \in 0 .. MaxYears |->
                                 IF h = 0 THEN 0 ELSE c[h - 1] + at_year(decline, h - 1)]
           step == [x \in (1 .. MaxYears) \X Nat |-> x[2] + at_year(decline, x[1] - 1)]
           C == CHOOSE c : Equation(c)
<1>1. MaxYears \in Nat
  BY BreakEvenAssumption
<1>2. ASSUME NEW h \in 1 .. MaxYears PROVE at_year(decline, h - 1) \in Nat
  <2>1. h - 1 \in 0 .. MaxYears - 1
    BY <1>1
  <2>2. QED BY <2>1, YearIsPositive
<1>3. PICK f : Recurs(f, MaxYears, Nat, 0, step)
  <2>1. IsStep(step, MaxYears, Nat)
    BY <1>2 DEF IsStep
  <2>2. 0 \in Nat
    OBVIOUS
  <2> HIDE DEF step
  <2>3. QED BY <1>1, <2>1, <2>2, RecursionIsDefined
<1>4. Equation(f)
  <2>1. ASSUME NEW h \in 0 .. MaxYears, h # 0
        PROVE  f[h] = f[h - 1] + at_year(decline, h - 1)
    <3>1. h \in 1 .. MaxYears /\ h - 1 \in 0 .. MaxYears
      BY <1>1, <2>1
    <3>2. f[h - 1] \in Nat
      BY <1>3, <3>1 DEF Recurs
    <3>3. f[h] = step[<<h, f[h - 1]>>]
      BY <1>3, <2>1 DEF Recurs
    <3>4. QED BY <3>1, <3>2, <3>3
  <2>2. f = [h \in 0 .. MaxYears |-> f[h]] /\ (0 \in 0 .. MaxYears => f[0] = 0)
    BY <1>3 DEF Recurs
  <2>3. QED BY <2>1, <2>2
<1>5. Equation(C)
  <2> HIDE DEF Equation
  <2>1. QED BY <1>4
<1>6. \A h : cumulative_intensity(decline, h) = C[h]
  BY DEF cumulative_intensity
<1>7. ASSUME NEW c, Equation(c)
      PROVE  /\ c[0] = 0
             /\ \A h \in 0 .. MaxYears : c[h] \in Nat
             /\ \A h \in 1 .. MaxYears : c[h] = c[h - 1] + at_year(decline, h - 1)
  <2> DEFINE T == {h \in 0 .. MaxYears : c[h] \in Nat}
  <2>1. c[0] = 0 /\ \A h \in 1 .. MaxYears : c[h] = c[h - 1] + at_year(decline, h - 1)
    BY <1>1, <1>7
  <2>2. 0 \in T
    BY <1>1, <2>1
  <2>3. ASSUME NEW h \in 0 .. MaxYears - 1, h \in T PROVE h + 1 \in T
    <3>1. h + 1 \in 1 .. MaxYears /\ h + 1 - 1 = h
      BY <1>1
    <3>2. c[h + 1] = c[h] + at_year(decline, h) /\ at_year(decline, h) \in Nat
      BY <1>2, <2>1, <3>1
    <3>3. QED BY <2>3, <3>1, <3>2
  <2>4. \A h \in 0 .. MaxYears : h \in T
    <3> HIDE DEF T
    <3>1. QED BY <1>1, <2>2, <2>3, UpTo
  <2>5. QED BY <2>1, <2>4
<1>8. QED
  <2> HIDE DEF Equation, C
  <2>1. QED BY <1>5, <1>6, <1>7

LEMMA CumulativeIsPositive ==
  ASSUME NEW decline \in Declines, NEW h \in 1 .. MaxYears
  PROVE  cumulative_intensity(decline, h) \in Nat \ {0}
<1>1. h - 1 \in 0 .. MaxYears - 1 /\ h - 1 \in 0 .. MaxYears
  BY BreakEvenAssumption
<1>2. at_year(decline, h - 1) \in Nat \ {0}
  BY <1>1, YearIsPositive
<1>3. QED BY <1>1, <1>2, CumulativeIsSum

(* Without decline the sum is the number of years.                         *)
LEMMA ConstantGrid ==
  ASSUME 0 \in Declines, NEW h \in 0 .. MaxYears
  PROVE  cumulative_intensity(0, h) = h * (Intensity * Scale)
<1> DEFINE C(n) == cumulative_intensity(0, n)
           T == {n \in 0 .. MaxYears : C(n) = n * (Intensity * Scale)}
<1>1. MaxYears \in Nat /\ Whole \in Nat \ {0} /\ Intensity \in Nat /\ Scale \in Nat
  BY BreakEvenAssumption, PowerIsDefined DEF Scale
<1>2. ASSUME NEW y \in 0 .. MaxYears - 1 PROVE at_year(0, y) = Intensity * Scale
  <2>1. y \in 0 .. MaxYears /\ Whole - 0 = Whole
    BY <1>1
  <2>2. QED BY <2>1, YearsAreSimilar DEF at_year
<1>3. C(0) = 0 /\ \A n \in 1 .. MaxYears : C(n) = C(n - 1) + at_year(0, n - 1)
  BY CumulativeIsSum
<1> HIDE DEF C
<1>4. 0 \in T
  BY <1>1, <1>3
<1>5. ASSUME NEW n \in 0 .. MaxYears - 1, n \in T PROVE n + 1 \in T
  <2>1. n \in Nat /\ n + 1 \in 1 .. MaxYears /\ n + 1 \in 0 .. MaxYears /\ n + 1 - 1 = n
    BY <1>1
  <2>2. C(n + 1) = C(n) + Intensity * Scale
    BY <1>2, <1>3, <2>1
  <2>3. \A u \in Nat : n * u + u = (n + 1) * u
    BY <2>1
  <2>4. Intensity * Scale \in Nat
    BY <1>1
  <2>5. QED BY <1>5, <2>1, <2>2, <2>3, <2>4
<1>6. \A n \in 0 .. MaxYears : n \in T
  <2> HIDE DEF T
  <2>1. QED BY <1>1, <1>4, <1>5, UpTo
<1>7. QED BY <1>6 DEF C

----------------------------------------------------------------------------
(* The invariant.                                                          *)

TypeInv ==
  /\ old \in Cards /\ new \in Cards /\ estimate \in EmbodiedRanges /\ use_high \in BOOLEAN
  /\ annual_decline \in Declines
  /\ jobs \in Nat /\ Fits(old, jobs) /\ Fits(new, jobs)
  /\ year \in 0 .. MaxYears

(* What has been saved is the yearly saving at the intensity of the years. *)
SavedIn(h) == counted_j * cumulative_intensity(annual_decline, h)
SavedInv   == saved = SavedIn(year)

(* The card was repaid in the first year that had saved what it embodied.  *)
PaidInv ==
  /\ paidIn \in 0 .. year
  /\ paidIn = 0 => \A h \in 1 .. year : SavedIn(h) < debt(use_high)
  /\ paidIn # 0 => /\ SavedIn(paidIn) >= debt(use_high)
                   /\ \A h \in 1 .. paidIn - 1 : SavedIn(h) < debt(use_high)

IInv == TypeInv /\ SavedInv /\ PaidInv

LEMMA ConstantTypes ==
  /\ MaxYears \in Nat \ {0} /\ SecondsPerYear \in Nat \ {0} /\ JPerKwh \in Nat \ {0}
  /\ IdleSpread \in Nat /\ Intensity \in Nat \ {0} /\ Scale \in Nat \ {0}
  /\ \A c \in Cards : c.energy \in Nat /\ c.runtime \in Nat \ {0} /\ c.idle \in Nat
  /\ \A e \in EmbodiedRanges : /\ e.low_kg \in Nat \ {0} /\ e.high_kg \in Nat \ {0}
                         /\ e.low_kg <= e.high_kg
<1>1. Scale \in Nat \ {0}
  <2>1. Whole \in Nat \ {0} /\ MaxYears \in 0 .. MaxYears
    BY BreakEvenAssumption
  <2>2. QED BY <2>1, PowerIsDefined DEF Scale
<1>2. QED BY <1>1, BreakEvenAssumption

LEMMA PairTypes ==
  ASSUME TypeInv
  PROVE  /\ old.energy \in Nat /\ old.runtime \in Nat \ {0} /\ old.idle \in Nat
         /\ new.energy \in Nat /\ new.runtime \in Nat \ {0} /\ new.idle \in Nat
         /\ jobs \in Nat /\ jobs * new.runtime <= SecondsPerYear
         /\ effective_saving_j \in Int /\ idle_term_j \in Int /\ delta_j \in Int
         /\ kept_idle_j \in Int /\ annual_saving_j \in Int /\ counted_j \in Int
<1>1. /\ old.energy \in Nat /\ old.runtime \in Nat \ {0} /\ old.idle \in Nat
      /\ new.energy \in Nat /\ new.runtime \in Nat \ {0} /\ new.idle \in Nat
      /\ jobs \in Nat /\ jobs * new.runtime <= SecondsPerYear /\ SecondsPerYear \in Nat
  BY ConstantTypes DEF TypeInv, Fits
<1>2. idle_term_j \in Int /\ delta_j \in Int /\ effective_saving_j \in Int
  BY <1>1 DEF idle_term_j, delta_j, effective_saving_j
<1>3. kept_idle_j \in Int
  BY <1>2 DEF kept_idle_j
<1>4. annual_saving_j \in Int
  BY <1>1 DEF annual_saving_j, annual_energy_j
<1>5. counted_j \in Int
  BY <1>2, <1>4 DEF counted_j, scatter_j
<1>6. QED BY <1>1, <1>2, <1>3, <1>4, <1>5

(* The debt is positive, and greater at the high end.                      *)
LEMMA DebtIsPositive ==
  ASSUME TypeInv
  PROVE  /\ \A high \in BOOLEAN : debt(high) \in Nat \ {0} /\ embodied_kg(high) \in Nat
         /\ \A high \in BOOLEAN : debt(FALSE) <= debt(high)
<1>1. \A high \in BOOLEAN : /\ embodied_kg(high) \in Nat \ {0}
                            /\ embodied_kg(FALSE) <= embodied_kg(high)
  BY ConstantTypes DEF TypeInv, embodied_kg
<1>2. \A a, b, c \in Nat \ {0} : a * b * c \in Nat \ {0}
  <2>1. \A a, b \in Nat \ {0} : a * b \in Nat \ {0}
    OBVIOUS
  <2>2. QED BY <2>1
<1>3. \A k, h, b, c \in Nat : k <= h => k * b * c <= h * b * c
  <2>1. \A k, h, b \in Nat : k <= h => k * b <= h * b
    OBVIOUS
  <2>2. QED
    <3>1. TAKE k, h, b, c \in Nat
    <3>2. HAVE k <= h
    <3>3. k * b \in Nat /\ h * b \in Nat /\ k * b <= h * b
      BY <2>1, <3>2
    <3>4. QED BY <2>1, <3>3
<1>4. JPerKwh \in Nat \ {0} /\ Scale \in Nat \ {0}
  BY ConstantTypes
<1>5. QED BY <1>1, <1>2, <1>3, <1>4 DEF debt

(* _linear_terms: what is saved in a year is linear in the jobs, and what  *)
(* of it counts is linear with the part of the idle term that is kept.     *)
LEMMA LinearForm ==
  ASSUME TypeInv
  PROVE  counted_j = effective_saving_j * jobs + kept_idle_j
<1>1. \A oe, ot, oi, ne, nt, ni, j, s \in Int :
        (j * oe + oi * (s - j * ot)) - (j * ne + ni * (s - j * nt))
          = (oe - ne - (oi * ot - ni * nt)) * j + s * (oi - ni)
  OBVIOUS
<1>2. /\ old.energy \in Int /\ old.runtime \in Int /\ old.idle \in Int
      /\ new.energy \in Int /\ new.runtime \in Int /\ new.idle \in Int
      /\ jobs \in Int /\ SecondsPerYear \in Int
  BY PairTypes, ConstantTypes
<1>3. annual_saving_j = effective_saving_j * jobs + idle_term_j
  BY <1>1, <1>2 DEF annual_saving_j, annual_energy_j, effective_saving_j, idle_term_j, delta_j
<1>4. effective_saving_j * jobs \in Int /\ idle_term_j \in Int
  BY <1>2, PairTypes
<1>5. kept_idle_j = idle_term_j - scatter_j /\ scatter_j \in Int
  BY <1>4 DEF kept_idle_j, scatter_j
<1> DEFINE x == effective_saving_j * jobs
           i == idle_term_j
           s == scatter_j
<1>6. x \in Int /\ i \in Int /\ s \in Int /\ kept_idle_j = i - s /\ annual_saving_j = x + i
  BY <1>3, <1>4, <1>5
<1> HIDE DEF x, i, s
<1>7. (x + i) - s = x + (i - s)
  BY <1>6
<1>8. QED BY <1>6, <1>7 DEF counted_j, s, x

LEMMA InitInv == BInit => IInv
<1>1. SUFFICES ASSUME BInit PROVE IInv
  OBVIOUS
<1>2. TypeInv
  BY <1>1, ConstantTypes DEF BInit, TypeInv
<1>3. SavedIn(0) = 0
  BY <1>2, PairTypes, CumulativeIsSum DEF SavedIn, TypeInv
<1>4. SavedInv /\ PaidInv
  BY <1>1, <1>3 DEF BInit, SavedInv, PaidInv
<1>5. QED BY <1>2, <1>4 DEF IInv

LEMMA StepInv == IInv /\ [BNext]_bvars => IInv'
<1>1. SUFFICES ASSUME IInv, [BNext]_bvars PROVE IInv'
  OBVIOUS
<1>2. TypeInv /\ SavedInv /\ PaidInv
  BY <1>1 DEF IInv
<1>3. CASE YearPasses
  <2>1. /\ year \in 0 .. MaxYears - 1 /\ year' = year + 1
        /\ saved' = saved + counted_j * at_year(annual_decline, year)
        /\ paidIn' = IF paidIn = 0 /\ saved' >= debt(use_high) THEN year' ELSE paidIn
        /\ old' = old /\ new' = new /\ estimate' = estimate /\ use_high' = use_high
        /\ annual_decline' = annual_decline /\ jobs' = jobs
    BY <1>2, <1>3, ConstantTypes DEF YearPasses, inputs, TypeInv
  <2>2. TypeInv'
    BY <1>2, <2>1, ConstantTypes DEF TypeInv, Fits
  <2>3. counted_j' = counted_j /\ debt(use_high)' = debt(use_high)
    BY <2>1 DEF counted_j, scatter_j, Suppressed, gap_w, idle_term_j, annual_saving_j,
                annual_energy_j, debt, embodied_kg
  <2>4. \A h : SavedIn(h)' = SavedIn(h)
    BY <2>1, <2>3 DEF SavedIn
  <2>5. saved' = SavedIn(year + 1)
    <3>1. /\ counted_j \in Int
          /\ at_year(annual_decline, year) \in Int
          /\ cumulative_intensity(annual_decline, year) \in Int
      BY <1>2, <2>1, PairTypes, YearIsPositive, CumulativeIsSum, ConstantTypes DEF TypeInv
    <3>2. cumulative_intensity(annual_decline, year + 1)
            = cumulative_intensity(annual_decline, year) + at_year(annual_decline, year)
      <4>1. year \in Nat /\ year + 1 \in 1 .. MaxYears /\ year + 1 - 1 = year
        BY <2>1, ConstantTypes
      <4>2. annual_decline \in Declines
        BY <1>2 DEF TypeInv
      <4>3. cumulative_intensity(annual_decline, year + 1)
              = cumulative_intensity(annual_decline, year + 1 - 1)
                + at_year(annual_decline, year + 1 - 1)
        BY <4>1, <4>2, CumulativeIsSum
      <4>4. QED BY <4>1, <4>3
    <3>3. \A a, c, d \in Int : a * c + a * d = a * (c + d)
      OBVIOUS
    <3>4. QED BY <1>2, <2>1, <3>1, <3>2, <3>3 DEF SavedIn, SavedInv
  <2>6. SavedInv'
    BY <2>1, <2>4, <2>5 DEF SavedInv
  <2>7. PaidInv'
    <3>1. debt(use_high) \in Int /\ SavedIn(year + 1) \in Int
      <4>1. year + 1 \in 0 .. MaxYears /\ annual_decline \in Declines
        BY <1>2, <2>1, ConstantTypes DEF TypeInv
      <4>2. QED BY <1>2, <4>1, DebtIsPositive, PairTypes, CumulativeIsSum DEF SavedIn, TypeInv
    <3>2. year \in Nat /\ paidIn \in 0 .. year
      BY <1>2, <2>1 DEF PaidInv
    <3>3. CASE paidIn = 0 /\ saved' >= debt(use_high)
      <4>1. paidIn' = year + 1 /\ paidIn' # 0
        BY <2>1, <3>2, <3>3
      <4>2. \A h \in 1 .. paidIn' - 1 : SavedIn(h) < debt(use_high)
        BY <1>2, <3>2, <3>3, <4>1 DEF PaidInv
      <4>3. QED BY <2>1, <2>3, <2>4, <2>5, <3>2, <3>3, <4>1, <4>2 DEF PaidInv
    <3>4. CASE paidIn = 0 /\ ~(saved' >= debt(use_high))
      <4>1. paidIn' = 0
        BY <2>1, <3>4
      <4>2. SavedIn(year + 1) < debt(use_high)
        BY <2>5, <3>1, <3>4
      <4>3. \A h \in 1 .. year + 1 : SavedIn(h) < debt(use_high)
        BY <1>2, <3>2, <3>4, <4>2 DEF PaidInv
      <4>4. QED BY <2>1, <2>3, <2>4, <3>2, <4>1, <4>3 DEF PaidInv
    <3>5. CASE paidIn # 0
      <4>1. paidIn' = paidIn
        BY <2>1, <3>5
      <4>2. QED BY <1>2, <2>1, <2>3, <2>4, <3>2, <3>5, <4>1 DEF PaidInv
    <3>6. QED BY <3>3, <3>4, <3>5
  <2>8. QED BY <2>2, <2>6, <2>7 DEF IInv
<1>4. CASE UNCHANGED bvars
  <2>1. /\ old' = old /\ new' = new /\ estimate' = estimate /\ use_high' = use_high
        /\ annual_decline' = annual_decline /\ jobs' = jobs
        /\ year' = year /\ saved' = saved /\ paidIn' = paidIn
    BY <1>4 DEF bvars, inputs
  <2>2. counted_j' = counted_j /\ debt(use_high)' = debt(use_high)
    BY <2>1 DEF counted_j, scatter_j, Suppressed, gap_w, idle_term_j, annual_saving_j,
                annual_energy_j, debt, embodied_kg
  <2>3. \A h : SavedIn(h)' = SavedIn(h)
    BY <2>1, <2>2 DEF SavedIn
  <2>4. QED BY <1>2, <2>1, <2>2, <2>3 DEF IInv, TypeInv, Fits, SavedInv, PaidInv
<1>5. QED BY <1>1, <1>3, <1>4 DEF BNext

----------------------------------------------------------------------------
(* What an answer means.                                                   *)

LEMMA HorizonTypes ==
  ASSUME TypeInv, NEW h \in 1 .. MaxYears
  PROVE  cumulative_intensity(annual_decline, h) \in Nat \ {0}
BY CumulativeIsPositive DEF TypeInv

(* A rate of work that fits in the year reaches the threshold in two ways: *)
(* the idle differential alone repays the card, or each job saves          *)
(* something and there are enough of them.                                 *)
LEMMA ReachedMeans ==
  ASSUME TypeInv, NEW high \in BOOLEAN, NEW j \in 0 .. jobs, NEW h \in 1 .. MaxYears
  PROVE  LET a == effective_saving_j
             b == kept_idle_j
             C == cumulative_intensity(annual_decline, h)
         IN  Reached(high, j, h) <=>
               \/ a <= 0 /\ b > 0 /\ debt(high) <= b * C
               \/ a > 0 /\ debt(high) - b * C <= j * (a * C)
<1> DEFINE a == effective_saving_j
           b == kept_idle_j
           C == cumulative_intensity(annual_decline, h)
           D == debt(high)
           t == new.runtime
           S == SecondsPerYear
           unpaid == D - b * C
           n == IF unpaid < 0 THEN 0 ELSE unpaid
<1>1. /\ a \in Int /\ b \in Int /\ C \in Nat \ {0} /\ D \in Nat \ {0}
      /\ t \in Nat \ {0} /\ S \in Nat \ {0} /\ j \in Nat /\ j * t <= S
  <2>1. /\ jobs \in Nat /\ jobs * t <= S /\ t \in Nat \ {0} /\ S \in Nat \ {0}
        /\ a \in Int /\ b \in Int
    BY PairTypes, ConstantTypes
  <2>2. C \in Nat \ {0} /\ D \in Nat \ {0}
    BY HorizonTypes, DebtIsPositive
  <2>3. j * t <= jobs * t
    BY <2>1
  <2> HIDE DEF a, b, C, D, t, S
  <2>4. j * t \in Int /\ jobs * t \in Int
    BY <2>1
  <2>5. QED BY <2>1, <2>2, <2>3, <2>4
<1>2. break_even_jobs(high, h) =
        IF a <= 0
        THEN IF b > 0 /\ unpaid <= 0 THEN [pays |-> TRUE, n |-> 0, d |-> 1] ELSE Never
        ELSE IF n * t > S * (a * C) THEN Never ELSE [pays |-> TRUE, n |-> n, d |-> a * C]
  BY DEF break_even_jobs
<1>3. Reached(high, j, h) <=>
        /\ break_even_jobs(high, h).pays
        /\ break_even_jobs(high, h).n <= j * break_even_jobs(high, h).d
  BY DEF Reached
<1> HIDE DEF a, b, C, D, t, S
<1>4. b * C \in Int /\ unpaid \in Int /\ n \in Nat
  BY <1>1
<1>5. CASE a <= 0
  <2>1. Reached(high, j, h) <=> b > 0 /\ unpaid <= 0
    BY <1>1, <1>2, <1>3, <1>5 DEF Never
  <2>2. QED BY <1>1, <1>4, <1>5, <2>1 DEF a, b, C, D
<1>6. CASE a > 0
  <2> DEFINE d == a * C
  <2>1. d \in Nat \ {0}
    BY <1>1, <1>6
  <2>2. break_even_jobs(high, h) =
          IF n * t > S * d THEN Never ELSE [pays |-> TRUE, n |-> n, d |-> d]
    BY <1>1, <1>2, <1>6
  <2> HIDE DEF d
  <2>3. Reached(high, j, h) <=> ~(n * t > S * d) /\ n <= j * d
    <3> HIDE DEF n
    <3>1. QED BY <1>3, <2>2 DEF Never
  <2>4. n <= j * d => ~(n * t > S * d)
    <3>1. SUFFICES ASSUME n <= j * d PROVE n * t <= S * d
      <4>1. n * t \in Int /\ S * d \in Int
        BY <1>1, <1>4, <2>1
      <4>2. QED BY <4>1
    <3> HIDE DEF n
    <3>2. n * t <= (j * d) * t
      <4>1. j * d \in Nat
        BY <1>1, <2>1
      <4>2. \A x, y \in Nat : x <= y => x * t <= y * t
        BY <1>1
      <4>3. QED BY <1>4, <3>1, <4>1, <4>2
    <3>3. (j * d) * t = (j * t) * d
      BY <1>1, <2>1
    <3>4. (j * t) * d <= S * d
      <4>1. j * t \in Nat
        BY <1>1
      <4>2. \A x, y \in Nat : x <= y => x * d <= y * d
        BY <2>1
      <4>3. QED BY <1>1, <4>1, <4>2
    <3>5. n * t \in Int /\ (j * d) * t \in Int /\ (j * t) * d \in Int /\ S * d \in Int
      BY <1>1, <1>4, <2>1
    <3>6. QED BY <3>2, <3>3, <3>4, <3>5
  <2>5. n <= j * d <=> unpaid <= j * d
    <3>1. j * d \in Nat
      BY <1>1, <2>1
    <3>2. QED BY <1>4, <3>1
  <2>6. QED BY <1>1, <1>6, <2>3, <2>4, <2>5 DEF a, b, C, D, d
<1>7. QED BY <1>1, <1>5, <1>6

(* Reaching the threshold of a horizon is having repaid the card by then,  *)
(* by the accounts.                                                        *)
LEMMA AnswerIsExact ==
  ASSUME TypeInv, NEW high \in BOOLEAN, NEW h \in 1 .. MaxYears
  PROVE  /\ SavedIn(h) >= debt(high) => Reached(high, jobs, h)
         /\ effective_saving_j > 0 /\ Reached(high, jobs, h) => SavedIn(h) >= debt(high)
<1> DEFINE a == effective_saving_j
           b == kept_idle_j
           C == cumulative_intensity(annual_decline, h)
           D == debt(high)
<1>1. a \in Int /\ b \in Int /\ C \in Nat \ {0} /\ D \in Nat \ {0} /\ jobs \in Nat
  BY PairTypes, HorizonTypes, DebtIsPositive
<1>2. SavedIn(h) = (a * jobs + b) * C
  BY LinearForm DEF SavedIn
<1>3. Reached(high, jobs, h) <=> \/ a <= 0 /\ b > 0 /\ D <= b * C
                                 \/ a > 0 /\ D - b * C <= jobs * (a * C)
  <2>1. jobs \in 0 .. jobs
    BY <1>1
  <2>2. QED BY <2>1, ReachedMeans
<1> HIDE DEF a, b, C, D
<1>4. (a * jobs + b) * C = jobs * (a * C) + b * C
  BY <1>1
<1>5. jobs * (a * C) \in Int /\ b * C \in Int
  BY <1>1
<1>6. a <= 0 => jobs * (a * C) <= 0
  <2>1. a <= 0 => a * C <= 0 /\ a * C \in Int
    BY <1>1
  <2>2. \A x \in Int : x <= 0 => jobs * x <= 0
    BY <1>1
  <2>3. QED BY <2>1, <2>2
<1>7. b * C > 0 => b > 0
  BY <1>1
<1>8. SavedIn(h) >= D <=> D <= jobs * (a * C) + b * C
  BY <1>1, <1>2, <1>4, <1>5
<1>9. SavedIn(h) >= D => Reached(high, jobs, h)
  <2>1. CASE a <= 0
    BY <1>1, <1>3, <1>5, <1>6, <1>7, <1>8, <2>1
  <2>2. CASE a > 0
    BY <1>1, <1>3, <1>5, <1>8, <2>2
  <2>3. QED BY <1>1, <2>1, <2>2
<1>10. a > 0 /\ Reached(high, jobs, h) => SavedIn(h) >= D
  BY <1>1, <1>3, <1>5, <1>8
<1>11. QED BY <1>9, <1>10 DEF a, D

LEMMA YearsAreHorizons ==
  ASSUME TypeInv, NEW h \in 1 .. year
  PROVE  h \in 1 .. MaxYears
BY ConstantTypes DEF TypeInv

LEMMA ExactFromInv == IInv => BreakEvenIsExact
<1>1. SUFFICES ASSUME IInv, year > 0
               PROVE  /\ saved >= debt(use_high) => Reached(use_high, jobs, year)
                      /\ (effective_saving_j > 0 /\ Reached(use_high, jobs, year)) =>
                            saved >= debt(use_high)
  BY DEF BreakEvenIsExact
<1>2. TypeInv /\ SavedInv
  BY <1>1 DEF IInv
<1>3. year \in 1 .. MaxYears /\ use_high \in BOOLEAN
  BY <1>1, <1>2, ConstantTypes DEF TypeInv
<1>4. QED BY <1>1, <1>2, <1>3, AnswerIsExact DEF SavedInv

LEMMA CurveFromInv == IInv => CurveIsFirstYear
<1>1. SUFFICES ASSUME IInv, effective_saving_j > 0
               PROVE  payback_curve(use_high, jobs, year) = paidIn
  BY DEF CurveIsFirstYear
<1>2. TypeInv /\ PaidInv
  BY <1>1 DEF IInv
<1> DEFINE H == {h \in 1 .. year : Reached(use_high, jobs, h)}
<1>3. payback_curve(use_high, jobs, year) = IF H = {} THEN 0 ELSE Min(H)
  BY DEF payback_curve
<1>4. year \in Nat /\ use_high \in BOOLEAN /\ paidIn \in 0 .. year
  BY <1>2 DEF TypeInv, PaidInv
<1>5. ASSUME NEW h \in 1 .. year
      PROVE  /\ Reached(use_high, jobs, h) <=> SavedIn(h) >= debt(use_high)
             /\ SavedIn(h) \in Int /\ debt(use_high) \in Int
  <2>1. h \in 1 .. MaxYears
    BY <1>2, YearsAreHorizons
  <2>2. SavedIn(h) \in Int /\ debt(use_high) \in Int
    BY <1>2, <1>4, <2>1, HorizonTypes, PairTypes, DebtIsPositive DEF SavedIn
  <2>3. QED BY <1>1, <1>2, <1>4, <2>1, <2>2, AnswerIsExact
<1>6. CASE paidIn = 0
  <2>1. H = {}
    BY <1>2, <1>5, <1>6 DEF PaidInv
  <2>2. QED BY <1>3, <1>6, <2>1
<1>7. CASE paidIn # 0
  <2>1. paidIn \in H
    BY <1>2, <1>4, <1>5, <1>7 DEF PaidInv
  <2>2. \A h \in H : paidIn <= h
    <3>1. SUFFICES ASSUME NEW h \in H, h < paidIn PROVE FALSE
      BY <1>4
    <3>2. h \in 1 .. paidIn - 1 /\ h \in 1 .. year
      BY <1>4, <3>1
    <3>3. SavedIn(h) < debt(use_high)
      BY <1>2, <1>7, <3>2 DEF PaidInv
    <3>4. QED BY <1>5, <3>1, <3>2, <3>3
  <2>3. H \subseteq Nat /\ H # {}
    BY <2>1
  <2>4. Min(H) \in H /\ \A h \in H : Min(H) <= h
    <3> HIDE DEF H
    <3>1. QED BY <2>3, MinIsLeast
  <2>5. Min(H) = paidIn
    <3>1. Min(H) \in Nat /\ paidIn \in Nat
      BY <1>4, <2>3, <2>4
    <3>2. QED BY <2>1, <2>2, <2>4, <3>1
  <2>6. QED BY <1>3, <2>3, <2>5
<1>8. QED BY <1>6, <1>7

(* More work, a cheaper card.                                              *)
LEMMA ReachedIsMonotonic ==
  ASSUME TypeInv, NEW high \in BOOLEAN, NEW j \in 0 .. jobs, NEW h \in 1 .. MaxYears,
         Reached(high, j, h)
  PROVE  Reached(FALSE, jobs, h)
<1> DEFINE a == effective_saving_j
           b == kept_idle_j
           C == cumulative_intensity(annual_decline, h)
           top == debt(high)
           low == debt(FALSE)
<1>1. /\ a \in Int /\ b \in Int /\ C \in Nat \ {0} /\ jobs \in Nat
      /\ top \in Nat /\ low \in Nat /\ low <= top
  BY PairTypes, HorizonTypes, DebtIsPositive
<1>2. \/ a <= 0 /\ b > 0 /\ top <= b * C
      \/ a > 0 /\ top - b * C <= j * (a * C)
  BY ReachedMeans
<1>3. Reached(FALSE, jobs, h) <=> \/ a <= 0 /\ b > 0 /\ low <= b * C
                                  \/ a > 0 /\ low - b * C <= jobs * (a * C)
  <2>1. jobs \in 0 .. jobs
    BY <1>1
  <2>2. QED BY <2>1, ReachedMeans
<1> HIDE DEF a, b, C, top, low
<1>4. b * C \in Int /\ j * (a * C) \in Int /\ jobs * (a * C) \in Int
  BY <1>1
<1>5. a > 0 => j * (a * C) <= jobs * (a * C)
  <2>1. a > 0 => a * C \in Nat
    BY <1>1
  <2>2. \A x \in Nat : j * x <= jobs * x
    BY <1>1
  <2>3. QED BY <2>1, <2>2, Zenon
<1>6. \/ a <= 0 /\ b > 0 /\ low <= b * C
      \/ a > 0 /\ low - b * C <= jobs * (a * C)
  <2>1. CASE a <= 0
    BY <1>1, <1>2, <1>4, <2>1
  <2>2. CASE a > 0
    BY <1>1, <1>2, <1>4, <1>5, <2>2
  <2>3. QED BY <1>1, <2>1, <2>2
<1>7. QED BY <1>3, <1>6

(* The threshold of a horizon in seconds of work: lower for a cheaper card *)
(* and never more than a year has.                                         *)
LEMMA HoursAreMonotonic ==
  ASSUME TypeInv, NEW h \in 1 .. MaxYears
  PROVE  LET low == break_even_hours_per_year(FALSE, h)
             top == break_even_hours_per_year(TRUE, h)
         IN  top.pays => /\ low.pays /\ low.n * top.d <= top.n * low.d
                         /\ top.n <= SecondsPerYear * top.d
<1> DEFINE a == effective_saving_j
           b == kept_idle_j
           C == cumulative_intensity(annual_decline, h)
           t == new.runtime
           S == SecondsPerYear
           x == debt(FALSE) - b * C
           y == debt(TRUE) - b * C
           m == IF x < 0 THEN 0 ELSE x
           n == IF y < 0 THEN 0 ELSE y
           p == break_even_jobs(FALSE, h)
           q == break_even_jobs(TRUE, h)
<1>1. /\ a \in Int /\ b \in Int /\ C \in Nat \ {0} /\ t \in Nat /\ S \in Nat
      /\ b * C \in Int /\ x \in Int /\ y \in Int /\ x <= y
  <2>1. /\ a \in Int /\ b \in Int /\ C \in Nat \ {0} /\ t \in Nat /\ S \in Nat
    BY PairTypes, HorizonTypes, ConstantTypes
  <2>2. b * C \in Int
    <3> HIDE DEF b, C
    <3>1. QED BY <2>1
  <2>3. debt(TRUE) \in Nat /\ debt(FALSE) \in Nat /\ debt(FALSE) <= debt(TRUE)
    BY DebtIsPositive
  <2> DEFINE l == debt(FALSE)
             u == debt(TRUE)
             z == b * C
  <2>4. l \in Nat /\ u \in Nat /\ z \in Int /\ l <= u
    BY <2>2, <2>3
  <2> HIDE DEF l, u, z
  <2>5. l - z \in Int /\ u - z \in Int /\ l - z <= u - z
    BY <2>4
  <2>6. x \in Int /\ y \in Int /\ x <= y
    BY <2>5 DEF l, u, z
  <2>7. QED BY <2>1, <2>2, <2>6
<1>2. /\ p = IF a <= 0
            THEN IF b > 0 /\ x <= 0 THEN [pays |-> TRUE, n |-> 0, d |-> 1] ELSE Never
            ELSE IF m * t > S * (a * C) THEN Never ELSE [pays |-> TRUE, n |-> m, d |-> a * C]
      /\ q = IF a <= 0
            THEN IF b > 0 /\ y <= 0 THEN [pays |-> TRUE, n |-> 0, d |-> 1] ELSE Never
            ELSE IF n * t > S * (a * C) THEN Never ELSE [pays |-> TRUE, n |-> n, d |-> a * C]
  BY DEF break_even_jobs
<1> DEFINE low == break_even_hours_per_year(FALSE, h)
           top == break_even_hours_per_year(TRUE, h)
<1>3. /\ low = [pays |-> p.pays, n |-> p.n * t, d |-> p.d]
      /\ top = [pays |-> q.pays, n |-> q.n * t, d |-> q.d]
  BY DEF break_even_hours_per_year
<1>4. SUFFICES ASSUME top.pays
               PROVE  /\ low.pays /\ low.n * top.d <= top.n * low.d
                      /\ top.n <= S * top.d
  OBVIOUS
<1> HIDE DEF a, b, C, t, S, x, y, p, q, low, top
<1>5. q.pays
  BY <1>3, <1>4
<1>6. CASE a <= 0
  <2>1. p = [pays |-> TRUE, n |-> 0, d |-> 1] /\ q = [pays |-> TRUE, n |-> 0, d |-> 1]
    BY <1>1, <1>2, <1>5, <1>6 DEF Never
  <2>2. /\ low.pays /\ low.n = 0 * t /\ low.d = 1 /\ top.n = 0 * t /\ top.d = 1
    BY <1>3, <2>1
  <2>3. QED BY <1>1, <2>2
<1>7. CASE a > 0
  <2> DEFINE d == a * C
  <2>1. d \in Nat /\ m \in Nat /\ n \in Nat /\ m <= n
    <3>1. d \in Nat
      BY <1>1, <1>7
    <3>2. QED BY <1>1, <3>1
  <2>2. /\ p = IF m * t > S * d THEN Never ELSE [pays |-> TRUE, n |-> m, d |-> d]
        /\ q = IF n * t > S * d THEN Never ELSE [pays |-> TRUE, n |-> n, d |-> d]
    BY <1>1, <1>2, <1>7
  <2> HIDE DEF d, m, n
  <2>3. ~(n * t > S * d)
    BY <1>5, <2>2 DEF Never
  <2>4. m * t <= n * t /\ m * t \in Nat /\ n * t \in Nat /\ S * d \in Nat
    BY <1>1, <2>1
  <2>5. ~(m * t > S * d)
    BY <2>3, <2>4
  <2>6. low.pays /\ low.n = m * t /\ low.d = d /\ top.n = n * t /\ top.d = d
    BY <1>3, <2>2, <2>3, <2>5
  <2>7. \A u, v \in Nat : u <= v => u * d <= v * d
    BY <2>1
  <2>8. QED BY <2>3, <2>4, <2>6, <2>7
<1>8. a <= 0 \/ a > 0
  BY <1>1
<1>9. QED BY <1>6, <1>7, <1>8

LEMMA LowEndFromInv == IInv => LowEndIsRobust
<1>1. SUFFICES ASSUME IInv PROVE LowEndIsRobust
  OBVIOUS
<1>2. TypeInv
  BY <1>1 DEF IInv
<1>3. ASSUME NEW j \in 0 .. jobs, NEW high \in BOOLEAN, payback_curve(high, j, year) # 0
      PROVE  payback_curve(FALSE, jobs, year) \in 1 .. payback_curve(high, j, year)
  <2> DEFINE H == {h \in 1 .. year : Reached(high, j, h)}
             L == {h \in 1 .. year : Reached(FALSE, jobs, h)}
             g == payback_curve(high, j, year)
             f == payback_curve(FALSE, jobs, year)
  <2>1. g = (IF H = {} THEN 0 ELSE Min(H)) /\ f = (IF L = {} THEN 0 ELSE Min(L)) /\ g # 0
    BY <1>3 DEF payback_curve
  <2>2. H \subseteq L
    <3>1. SUFFICES ASSUME NEW h \in 1 .. year, Reached(high, j, h)
                   PROVE  Reached(FALSE, jobs, h)
      OBVIOUS
    <3>2. h \in 1 .. MaxYears
      BY <1>2, YearsAreHorizons
    <3>3. QED BY <1>2, <3>1, <3>2, ReachedIsMonotonic
  <2>3. H \subseteq 1 .. year /\ L \subseteq 1 .. year
    OBVIOUS
  <2> HIDE DEF H, L, g, f
  <2>4. H # {} /\ L # {} /\ H \subseteq Nat /\ L \subseteq Nat
    BY <2>1, <2>2, <2>3
  <2>5. /\ Min(H) \in H
        /\ Min(L) \in L /\ \A h \in L : Min(L) <= h
    BY <2>4, MinIsLeast
  <2>6. f \in 1 .. g
    BY <2>1, <2>2, <2>3, <2>4, <2>5
  <2>7. QED BY <2>6 DEF f, g
<1>4. ASSUME NEW h \in 1 .. year
      PROVE  LET low == break_even_hours_per_year(FALSE, h)
                 top == break_even_hours_per_year(TRUE, h)
             IN  top.pays => /\ low.pays /\ low.n * top.d <= top.n * low.d
                             /\ top.n <= SecondsPerYear * top.d
  <2>1. h \in 1 .. MaxYears
    BY <1>2, YearsAreHorizons
  <2>2. QED BY <1>2, <2>1, HoursAreMonotonic
<1>5. QED BY <1>3, <1>4, Zenon DEF LowEndIsRobust

----------------------------------------------------------------------------
(* Suppression.                                                            *)

(* Two cards that idle at w, and what suppression leaves out: the          *)
(* difference of each card from w, over its own working time.              *)
LEMMA AlikeMeans ==
  ASSUME TypeInv, NEW w \in Nat
  PROVE  LET alike(card) == annual_energy_j([card EXCEPT !.idle = w], jobs)
         IN  alike(old) - alike(new)
               = (effective_saving_j + (old.idle - w) * old.runtime
                                     + (w - new.idle) * new.runtime) * jobs
<1>1. /\ old \in [energy : Nat, runtime : Nat \ {0}, idle : Nat]
      /\ new \in [energy : Nat, runtime : Nat \ {0}, idle : Nat]
      /\ jobs \in Nat /\ SecondsPerYear \in Nat
  BY PairTypes, BreakEvenAssumption DEF TypeInv
<1> DEFINE E == old.energy
           F == new.energy
           r == old.runtime
           s == new.runtime
           p == old.idle
           q == new.idle
<1>2. /\ E \in Nat /\ F \in Nat /\ r \in Nat /\ s \in Nat /\ p \in Nat /\ q \in Nat
  BY <1>1
<1>3. effective_saving_j = E - F - (p * r - q * s)
  BY DEF effective_saving_j, delta_j
<1>4. /\ annual_energy_j([old EXCEPT !.idle = w], jobs) = jobs * E + w * (SecondsPerYear - jobs * r)
      /\ annual_energy_j([new EXCEPT !.idle = w], jobs) = jobs * F + w * (SecondsPerYear - jobs * s)
  BY <1>1 DEF annual_energy_j
<1> HIDE DEF E, F, r, s, p, q
<1>5. (jobs * E + w * (SecondsPerYear - jobs * r)) - (jobs * F + w * (SecondsPerYear - jobs * s))
        = (E - F - (p * r - q * s) + (p - w) * r + (w - q) * s) * jobs
  BY <1>1, <1>2
<1> DEFINE x == annual_energy_j([old EXCEPT !.idle = w], jobs)
           y == annual_energy_j([new EXCEPT !.idle = w], jobs)
<1> HIDE DEF x, y
<1>6. x - y = (effective_saving_j + (p - w) * r + (w - q) * s) * jobs
  <2>1. x = jobs * E + w * (SecondsPerYear - jobs * r) /\ y = jobs * F + w * (SecondsPerYear - jobs * s)
    BY <1>4 DEF x, y
  <2> DEFINE G == E - F - (p * r - q * s)
             P == jobs * E + w * (SecondsPerYear - jobs * r)
             Q == jobs * F + w * (SecondsPerYear - jobs * s)
  <2> HIDE DEF G, P, Q
  <2>2. effective_saving_j = G /\ x = P /\ y = Q
    BY <1>3, <2>1 DEF G, P, Q
  <2>3. P - Q = (G + (p - w) * r + (w - q) * s) * jobs
    BY <1>5 DEF G, P, Q
  <2>4. QED BY <2>2, <2>3
<1>7. QED BY <1>6, Zenon DEF x, y, E, F, r, s, p, q

LEMMA SuppressionFromInv == IInv => SuppressionErrsOneWay
<1>1. SUFFICES ASSUME IInv, year > 0, Suppressed,
                      NEW w \in Min({old.idle, new.idle}) .. Max({old.idle, new.idle})
               PROVE  /\ old.idle > new.idle => (Reached(use_high, jobs, year) => RepaidAlike(w))
                      /\ old.idle < new.idle => (RepaidAlike(w) => Reached(use_high, jobs, year))
  BY DEF SuppressionErrsOneWay, Alike
<1> DEFINE a == effective_saving_j
           C == cumulative_intensity(annual_decline, year)
           D == debt(use_high)
           r == old.runtime
           s == new.runtime
           p == old.idle
           q == new.idle
           k == a + (p - w) * r + (w - q) * s
<1>2. TypeInv
  BY <1>1 DEF IInv
<1>3. year \in 1 .. MaxYears /\ use_high \in BOOLEAN /\ jobs \in 0 .. jobs /\ jobs \in Nat
  BY <1>1, <1>2, ConstantTypes DEF TypeInv
<1>4. /\ a \in Int /\ C \in Nat \ {0} /\ D \in Nat \ {0}
      /\ r \in Nat /\ s \in Nat /\ p \in Nat /\ q \in Nat
  BY <1>2, <1>3, PairTypes, HorizonTypes, DebtIsPositive
<1>5. w \in Nat /\ (p > q => q <= w /\ w <= p) /\ (p < q => p <= w /\ w <= q)
  <2>1. {p, q} \subseteq Nat /\ {p, q} # {}
    BY <1>4
  <2>2. Min({p, q}) \in {p, q} /\ \A x \in {p, q} : Min({p, q}) <= x
    BY <2>1, MinIsLeast
  <2>3. Max({p, q}) \in {p, q} /\ \A x \in {p, q} : x <= Max({p, q})
    <3>1. \E x \in {p, q} : \A y \in {p, q} : y <= x
      BY <1>4
    <3>2. QED BY <3>1 DEF Max
  <2>4. w \in Min({p, q}) .. Max({p, q})
    BY <1>1
  <2> HIDE DEF p, q
  <2>5. QED BY <1>4, <2>2, <2>3, <2>4
<1>6. annual_energy_j([old EXCEPT !.idle = w], jobs) - annual_energy_j([new EXCEPT !.idle = w], jobs)
        = k * jobs
  BY <1>2, <1>5, AlikeMeans
<1>7. kept_idle_j = 0
  BY <1>1 DEF kept_idle_j
<1>8. Reached(use_high, jobs, year) <=> a > 0 /\ D <= jobs * (a * C)
  <2>1. Reached(use_high, jobs, year) <=> \/ a <= 0 /\ 0 > 0 /\ D <= 0 * C
                                          \/ a > 0 /\ D - 0 * C <= jobs * (a * C)
    BY <1>2, <1>3, <1>7, ReachedMeans
  <2> HIDE DEF a, C, D
  <2>2. D - 0 * C = D
    BY <1>4
  <2>3. QED BY <1>4, <2>1, <2>2
<1> HIDE DEF a, C, D, r, s, p, q
<1>9. k \in Int /\ (p > q => k >= a) /\ (p < q => k <= a)
  <2>1. /\ \A x, y \in Nat : x * y \in Nat
        /\ (p - w) * r = - ((w - p) * r) /\ (w - q) * s = - ((q - w) * s)
        /\ (p - w) * r \in Int /\ (w - q) * s \in Int
        /\ (w - p) * r \in Int /\ (q - w) * s \in Int
    BY <1>4, <1>5
  <2>2. p > q => (p - w) * r >= 0 /\ (w - q) * s >= 0
    <3>1. p > q => p - w \in Nat /\ w - q \in Nat
      BY <1>4, <1>5
    <3>2. QED BY <1>4, <2>1, <3>1
  <2>3. p < q => (w - p) * r >= 0 /\ (q - w) * s >= 0
    <3>1. p < q => w - p \in Nat /\ q - w \in Nat
      BY <1>4, <1>5
    <3>2. QED BY <1>4, <2>1, <3>1
  <2>4. QED BY <1>4, <2>1, <2>2, <2>3
<1> HIDE DEF k
<1>10. (k * jobs) * C = jobs * (k * C) /\ jobs * (k * C) \in Int /\ jobs * (a * C) \in Int
  BY <1>3, <1>4, <1>9
<1>11. \A x, y \in Int : x <= y => jobs * (x * C) <= jobs * (y * C)
  <2>1. SUFFICES ASSUME NEW x \in Int, NEW y \in Int, x <= y
                 PROVE  jobs * (x * C) <= jobs * (y * C)
    OBVIOUS
  <2>2. x * C <= y * C /\ x * C \in Int /\ y * C \in Int
    BY <1>4, <2>1
  <2>3. \A u, v \in Int : u <= v => jobs * u <= jobs * v
    BY <1>3
  <2>4. QED BY <2>2, <2>3
<1>12. ASSUME p > q, a > 0, D <= jobs * (a * C) PROVE (k * jobs) * C >= D
  <2>1. jobs * (a * C) <= jobs * (k * C)
    BY <1>4, <1>9, <1>11, <1>12
  <2> DEFINE x == jobs * (a * C)
             y == jobs * (k * C)
  <2>2. D <= x /\ x <= y /\ x \in Int /\ y \in Int
    BY <1>10, <1>12, <2>1
  <2> HIDE DEF x, y
  <2>3. y >= D
    BY <1>4, <2>2
  <2>4. QED BY <1>10, <2>3 DEF y
<1>13. ASSUME p < q, (k * jobs) * C >= D PROVE a > 0 /\ D <= jobs * (a * C)
  <2>1. jobs * (k * C) <= jobs * (a * C) /\ (a <= 0 => jobs * (a * C) <= jobs * (0 * C))
    BY <1>4, <1>9, <1>11, <1>13
  <2>2. jobs * (0 * C) = 0
    BY <1>3, <1>4
  <2> DEFINE x == jobs * (a * C)
             y == jobs * (k * C)
  <2>3. y >= D /\ y <= x /\ x \in Int /\ y \in Int /\ (a <= 0 => x <= 0)
    BY <1>10, <1>13, <2>1, <2>2
  <2> HIDE DEF x, y
  <2>4. a > 0 /\ D <= x
    BY <1>4, <2>3
  <2>5. QED BY <2>4 DEF x
<1>14. RepaidAlike(w) <=> (k * jobs) * C >= D
  BY <1>6 DEF RepaidAlike, C, D
<1>15. QED BY <1>8, <1>12, <1>13, <1>14 DEF p, q

----------------------------------------------------------------------------
(* The forms of the equation.                                              *)

LEMMA FormsFromInv == IInv => FormsAgree
<1> DEFINE answer   == break_even_jobs(use_high, year)
           kg       == carbon_saved_kg(delta_j, answer.n * year, answer.d, year)
           snapshot == break_even_snapshot
<1>1. SUFFICES ASSUME IInv, year > 0, old.idle = 0, new.idle = 0, answer.pays
               PROVE  /\ kg[1] = debt(use_high) * kg[2]
                      /\ annual_decline = 0 => answer.n * year * snapshot.d = snapshot.n * answer.d
  BY Zenon DEF FormsAgree
<1> DEFINE a == delta_j
           C == cumulative_intensity(annual_decline, year)
           D == debt(use_high)
           e == embodied_kg(use_high) * JPerKwh
<1>2. TypeInv /\ year \in 1 .. MaxYears /\ use_high \in BOOLEAN
  BY <1>1, ConstantTypes DEF IInv, TypeInv
<1>3. /\ a \in Int /\ C \in Nat \ {0} /\ D \in Nat \ {0} /\ D = e * Scale
      /\ old.runtime \in Nat /\ new.runtime \in Nat
      /\ SecondsPerYear \in Nat /\ Intensity \in Nat \ {0} /\ Scale \in Nat \ {0}
  BY <1>2, PairTypes, HorizonTypes, DebtIsPositive, ConstantTypes DEF debt
<1>4. e \in Nat
  BY <1>2, BreakEvenAssumption DEF TypeInv, embodied_kg
<1>5. effective_saving_j = a /\ kept_idle_j = 0
  <2>1. 0 * old.runtime - 0 * new.runtime = 0 /\ SecondsPerYear * 0 = 0
    BY <1>3
  <2>2. effective_saving_j = a - 0
    BY <1>1, <2>1 DEF effective_saving_j
  <2>3. kept_idle_j = 0
    BY <1>1, <2>1 DEF kept_idle_j, idle_term_j
  <2>4. QED BY <1>3, <2>2, <2>3
<1>6. answer = IF a <= 0
               THEN IF 0 > 0 /\ D - 0 * C <= 0 THEN [pays |-> TRUE, n |-> 0, d |-> 1] ELSE Never
               ELSE IF (IF D - 0 * C < 0 THEN 0 ELSE D - 0 * C) * new.runtime > SecondsPerYear * (a * C)
                    THEN Never
                    ELSE [pays |-> TRUE, n |-> IF D - 0 * C < 0 THEN 0 ELSE D - 0 * C, d |-> a * C]
  BY <1>5 DEF break_even_jobs
<1>7. /\ kg[1] = a * (answer.n * year) * C
      /\ kg[2] = answer.d * year
  BY DEF carbon_saved_kg
<1>8. snapshot = IF a <= 0 THEN Never ELSE [pays |-> TRUE, n |-> e, d |-> a * Intensity]
  BY DEF break_even_snapshot
<1>9. annual_decline = 0 => C = year * (Intensity * Scale)
  <2>1. SUFFICES ASSUME annual_decline = 0
                 PROVE  cumulative_intensity(0, year) = year * (Intensity * Scale)
    OBVIOUS
  <2>2. 0 \in Declines /\ year \in 0 .. MaxYears
    BY <1>2, <2>1 DEF TypeInv
  <2>3. QED BY <2>2, ConstantGrid
<1> HIDE DEF a, C, D, e, answer, snapshot
<1>10. D - 0 * C = D
  BY <1>3
<1>11. a > 0 /\ answer.n = D /\ answer.d = a * C
  <2>1. a > 0
    BY <1>1, <1>3, <1>6 DEF Never
  <2>2. answer = IF D * new.runtime > SecondsPerYear * (a * C)
                 THEN Never ELSE [pays |-> TRUE, n |-> D, d |-> a * C]
    <3> DEFINE z == D - 0 * C
               d == a * C
    <3>1. answer = IF a <= 0
                   THEN IF 0 > 0 /\ z <= 0 THEN [pays |-> TRUE, n |-> 0, d |-> 1] ELSE Never
                   ELSE IF (IF z < 0 THEN 0 ELSE z) * new.runtime > SecondsPerYear * d
                        THEN Never
                        ELSE [pays |-> TRUE, n |-> IF z < 0 THEN 0 ELSE z, d |-> d]
      BY <1>6
    <3>2. z = D
      BY <1>10
    <3> HIDE DEF z, d
    <3>3. (IF z < 0 THEN 0 ELSE z) = D
      BY <1>3, <3>2
    <3>4. ~(a <= 0)
      BY <1>3, <2>1
    <3>5. QED BY <3>1, <3>3, <3>4 DEF d
  <2>3. QED BY <1>1, <2>1, <2>2 DEF Never
<1>12. kg[1] = D * kg[2]
  <2>1. a * (D * year) * C = D * (a * C * year)
    BY <1>2, <1>3
  <2>2. QED BY <1>7, <1>11, <2>1
<1>13. ASSUME annual_decline = 0
       PROVE  answer.n * year * snapshot.d = snapshot.n * answer.d
  <2>1. snapshot.n = e /\ snapshot.d = a * Intensity
    BY <1>3, <1>8, <1>11
  <2>2. e * Scale * year * (a * Intensity) = e * (a * (year * (Intensity * Scale)))
    BY <1>2, <1>3, <1>4
  <2>3. QED BY <1>3, <1>9, <1>11, <1>13, <2>1, <2>2
<1>14. QED BY <1>12, <1>13 DEF D

----------------------------------------------------------------------------
(* The theorems.                                                           *)

(* What has been saved by a year is the year's saving times the grid's     *)
(* cumulative intensity, and the year of repayment is the first in which   *)
(* that reaches the debt.                                                  *)
THEOREM SavedIsAccounted == BSpec => []IInv
<1>1. BInit => IInv
  BY InitInv
<1>2. IInv /\ [BNext]_bvars => IInv'
  BY StepInv
<1>3. QED BY <1>1, <1>2, PTL DEF BSpec

(* The closed form of break_even_jobs agrees with accounting for each year *)
(* in turn: no "never" hides a payback of the accounts, and work at or     *)
(* above the threshold has repaid the card wherever a job saves anything.  *)
(* The accounts of a pair whose idle differential is suppressed leave that *)
(* differential's own year out: of what two such cards really draw, the    *)
(* theorem says nothing.                                                   *)
THEOREM ClosedFormIsExact == BSpec => []BreakEvenIsExact
BY SavedIsAccounted, ExactFromInv, PTL

(* Where a job saves anything, payback_curve finds the very year in which  *)
(* the card was repaid by those accounts.  Where each job takes something  *)
(* back it need not: zero jobs is an answer there, which any rate reaches. *)
THEOREM CurveFindsTheYear == BSpec => []CurveIsFirstYear
BY SavedIsAccounted, CurveFromInv, PTL

(* More work or the low end of the embodied range never makes a card pay   *)
(* later, and never raises break_even_hours_per_year.                      *)
THEOREM LowEndPaysFirst == BSpec => []LowEndIsRobust
BY SavedIsAccounted, LowEndFromInv, PTL

(* Dropping a small idle difference's year, and keeping it in the price of *)
(* a job, errs to the careful side where the old card idles higher and to  *)
(* the hopeful one where the new one does.  The code says neither: it      *)
(* speaks of "zero" and of never being too optimistic.                     *)
THEOREM SuppressionIsOneSided == BSpec => []SuppressionErrsOneWay
BY SavedIsAccounted, SuppressionFromInv, PTL

(* The threshold, carbon_saved_kg and the snapshot agree for cards that do *)
(* not draw power when idle.                                               *)
THEOREM FormsAreOne == BSpec => []FormsAgree
BY SavedIsAccounted, FormsFromInv, PTL
=============================================================================
