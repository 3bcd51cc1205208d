---------------------------- MODULE TraceIntegral ----------------------------
(***************************************************************************)
(* What power_monitor.py makes of a trace: clip_samples restricts it to a  *)
(* window with interpolated endpoints, integrate_energy sums trapezoids.   *)
(* The trace grows by one sample at a time, as the sampling thread makes   *)
(* it, with failed reads leaving longer gaps; every window is checked at   *)
(* every length.                                                           *)
(*                                                                         *)
(* Times and powers are integers.  An interpolated power is a multiple of  *)
(* 1/Scale, where every gap divides Scale, so all arithmetic here is exact *)
(* (the code's is in floating point): powers are in units of 1/Scale, and  *)
(* energies in halves of that.                                             *)
(***************************************************************************)
EXTENDS Sequences, Sums

CONSTANTS
  Powers,     (* what the driver can answer                                 *)
  MaxGap,     (* the longest gap between two samples: bounds the model      *)
  MaxSamples, (* the longest trace: bounds the model                        *)
  Scale       (* a common multiple of all gaps                              *)

ASSUME TraceAssumption ==
  /\ Powers \subseteq Nat
  /\ MaxGap \in Nat \ {0} /\ MaxSamples \in Nat /\ Scale \in Nat \ {0}
  /\ \A g \in 1 .. MaxGap : Scale % g = 0

VARIABLE samples

Point(t, p) == [t |-> t, p |-> p]

(* integrate_energy; zero for fewer than two samples. *)
integrate_energy(s) ==
  LET pairs == 1 .. Len(s) - 1
  IN  Total([i \in pairs |-> (s[i].p + s[i + 1].p) * (s[i + 1].t - s[i].t)], pairs)

(* _interp_power: the first enclosing pair, or the nearer end held flat.   *)
_interp_power(s, t) ==
  LET enclosing == {i \in 1 .. Len(s) - 1 : s[i].t <= t /\ t <= s[i + 1].t}
      k == Min(enclosing)
  IN  IF enclosing # {}
      THEN s[k].p + ((t - s[k].t) * (s[k + 1].p - s[k].p)) \div (s[k + 1].t - s[k].t)
      ELSE IF t <= s[1].t THEN s[1].p ELSE s[Len(s)].p

(* Mutation: the window is cut to the samples inside it, ends and all.     *)
clip_to_samples(s, t0, t1) ==
  SelectSeq(s, LAMBDA x : t0 <= x.t /\ x.t <= t1)

(* clip_samples.                                                           *)
clip_samples(s, t0, t1) ==
  LET interior[n \in 0 .. Len(s)] ==   (* of the first n samples            *)
        IF n = 0 THEN <<>>
        ELSE IF t0 < s[n].t /\ s[n].t < t1 THEN Append(interior[n - 1], s[n])
        ELSE interior[n - 1]
  IN  IF Len(s) < 2 \/ t1 <= t0 THEN <<>>
      ELSE <<Point(t0, _interp_power(s, t0))>> \o interior[Len(s)]
             \o <<Point(t1, _interp_power(s, t1))>>

energy_j(t0, t1) == integrate_energy(clip_samples(samples, t0, t1))

----------------------------------------------------------------------------
(* The loop waits between two samples, so their timestamps differ.         *)
TakeSample ==
  /\ Len(samples) < MaxSamples
  /\ \E p \in Powers, g \in 1 .. MaxGap :
       LET last == IF samples = <<>> THEN 0 ELSE samples[Len(samples)].t
       IN  samples' = Append(samples, Point(last + g, p * Scale))

----------------------------------------------------------------------------
(* Every instant a window may begin or end at: the trace and a bit beyond. *)
Instants == 0 .. (IF samples = <<>> THEN 1 ELSE samples[Len(samples)].t + 1)

(* The reference: power at each instant is the piecewise linear function   *)
(* through the samples, held flat outside them, and energy is the sum over *)
(* the unit cells of the window, on each of which it is linear.            *)
PowerAt(t) ==
  LET at(i) == samples[i].t
  IN  IF t <= at(1) THEN samples[1].p
      ELSE IF t >= at(Len(samples)) THEN samples[Len(samples)].p
      ELSE LET i == CHOOSE j \in 1 .. Len(samples) - 1 : at(j) < t /\ t <= at(j + 1)
           IN  (samples[i].p * (at(i + 1) - t) + samples[i + 1].p * (t - at(i)))
                 \div (at(i + 1) - at(i))

(* Clipping and integrating is integrating the function over the window,   *)
(* whatever part of the trace the window overlaps, gaps and ends included. *)
ClipIsExact ==
  Len(samples) >= 2 =>
    \A t0, t1 \in Instants :
      energy_j(t0, t1) = Total([t \in t0 .. t1 - 1 |-> PowerAt(t) + PowerAt(t + 1)], t0 .. t1 - 1)
=============================================================================
