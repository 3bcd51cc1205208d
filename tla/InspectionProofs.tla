-------------------------- MODULE InspectionProofs --------------------------
(***************************************************************************)
(* Proofs about the tools that only look and report: the preflight, which  *)
(* looks at a card, and the census and the feed, which look at the         *)
(* cluster.  What each reports is true of what it looked at, for every     *)
(* card and build, and for any nodes and whatever happens to them.         *)
(***************************************************************************)
EXTENDS Census, Preflight, SumProofs, SequenceTheorems

----------------------------------------------------------------------------
(* The preflight.                                                          *)

Stages == {"torch", "matmul", "nvml", "smi", "probe", "load", "print", "done"}
Fields == {"cuda_available", "capability_exact_match", "capability_supported", "matmul_ok",
           "nvml_import_ok", "energy_counter_supported", "nvidia_smi", "power_probe_ok",
           "energy_j", "n_power_samples", "distinct_power_values", "min_observed_step_w",
           "power_range_w"}

(* The exit status belongs to the end, and only a printed record earns 0.  *)
EndInv ==
  /\ stage \in Stages /\ card \in Cards /\ DOMAIN record = Fields
  /\ stage # "done" => exit = None /\ ~printed
  /\ stage = "done" /\ ~printed => exit = 1

(* A check that is over has left its finding in the record.                *)
Over(before) == stage \notin before \cup {"done"} \/ printed

FoundInv ==
  /\ Over({"torch"}) =>
       /\ record.cuda_available = YesNo(card.cuda)
       /\ record.capability_supported =
            IF card.cuda THEN YesNo(Compatible(card) # {}) ELSE ""
       /\ card.cuda => \A a \in card.archs : OfGeneration(a, card) => ~a.tail
  /\ Over({"torch", "matmul"}) =>
       record.matmul_ok = YesNo(card.cuda /\ card.computes = "finite")
  /\ Over({"torch", "matmul", "nvml"}) => record.nvml_import_ok = YesNo(card.binding)
  /\ Over({"torch", "matmul", "nvml", "smi"}) => record.nvidia_smi # ""

(* The probe is in the record once it was made, and "yes" only from stop(). *)
ProbeInv ==
  /\ stage \in {"torch", "matmul", "nvml", "smi", "probe", "load"} => record.power_probe_ok = ""
  /\ stage \in {"probe", "load"} => ~card.skip_power
  /\ Over({"torch", "matmul", "nvml", "smi", "probe", "load"}) =>
       /\ record.power_probe_ok = "" <=> card.skip_power
       /\ record.power_probe_ok = "yes" => ~sampling

StatusInv == printed => exit = IF failures = {} THEN 0 ELSE 1

IInv == EndInv /\ FoundInv /\ ProbeInv /\ StatusInv

----------------------------------------------------------------------------
LEMMA YesOrNo ==
  ASSUME NEW b \in BOOLEAN
  PROVE  /\ YesNo(b) # "" /\ (YesNo(b) = "yes" <=> b) /\ (YesNo(b) = "no" <=> ~b)
BY DEF YesNo

(* The parse of an arch's name decides, for a card of one digit's          *)
(* generation and an entry without a tail, what CUDA promises.             *)
LEMMA ParseIsExact ==
  ASSUME NEW c \in Cards, c.major < 10, NEW a \in c.archs, ~a.tail
  PROVE  OfGeneration(a, c) /\ AfterFirstDigit(a) <= c.minor <=> RunsOn(a, c)
<1>1. /\ c.major \in 2 .. 9 /\ c.minor \in 0 .. 9
      /\ a.sm \in 20 .. 199
  BY CardAssumption DEF Arch
<1>2. CASE a.sm >= 100
  <2>1. a.sm \div 100 = 1 /\ a.sm \div 10 >= 10
    BY <1>1, <1>2
  <2>. QED BY <1>1, <1>2, <2>1 DEF OfGeneration, RunsOn
<1>3. CASE a.sm < 100
  BY <1>1, <1>3 DEF OfGeneration, AfterFirstDigit, RunsOn
<1>. QED BY <1>1, <1>2, <1>3

(* An entry that CUDA would run is one of the card's generation.           *)
LEMMA RunsOnGeneration ==
  ASSUME NEW c \in Cards, c.major < 10, NEW a \in c.archs, RunsOn(a, c)
  PROVE  OfGeneration(a, c)
<1>1. c.major \in 2 .. 9 /\ a.sm \in 20 .. 199
  BY CardAssumption DEF Arch
<1>2. a.sm < 100
  BY <1>1 DEF RunsOn
<1>. QED BY <1>1, <1>2 DEF RunsOn, OfGeneration

LEMMA InitIInv == PInit => IInv
<1>. SUFFICES ASSUME PInit PROVE IInv
  OBVIOUS
<1>1. EndInv
  BY DEF PInit, EndInv, Stages, Fields, Empty
<1>2. FoundInv /\ ProbeInv /\ StatusInv
  BY DEF PInit, FoundInv, ProbeInv, StatusInv, Over, Empty
<1>. QED BY <1>1, <1>2 DEF IInv

----------------------------------------------------------------------------
(* What a card answers is a yes or a no.                                   *)
LEMMA CardIsBoolean ==
  ASSUME card \in Cards
  PROVE  {card.cuda, card.binding, card.driver, card.counter, card.skip_power} \subseteq BOOLEAN
BY CardAssumption

(* A check that only writes findings of its own disturbs none before it.   *)
LEMMA TorchStep == IInv /\ _torch_facts => IInv'
<1>. SUFFICES ASSUME IInv, _torch_facts PROVE IInv'
  OBVIOUS
<1>. DEFINE cuda  == YesNo(card.cuda)
            exact == IF card.cuda
                     THEN YesNo(\E a \in card.archs : a.sm = 10 * card.major + card.minor /\ ~a.tail)
                     ELSE ""
            built == IF card.cuda THEN YesNo(Compatible(card) # {}) ELSE ""
<1>0. /\ stage = "torch" /\ stage' = "matmul"
      /\ record' = [record EXCEPT !.cuda_available = cuda, !.capability_exact_match = exact,
                                  !.capability_supported = built]
      /\ card.cuda => \A a \in card.archs : OfGeneration(a, card) => ~a.tail
      /\ UNCHANGED <<card, printed, sampling, exit>>
  BY DEF _torch_facts, ToRecord
<1>1. cuda = YesNo(card.cuda) /\ built = IF card.cuda THEN YesNo(Compatible(card) # {}) ELSE ""
  OBVIOUS
<1>. HIDE DEF cuda, exact, built
<1>2. /\ DOMAIN record' = Fields
      /\ record'.cuda_available = cuda /\ record'.capability_supported = built
      /\ record'.power_probe_ok = record.power_probe_ok
  BY <1>0 DEF IInv, EndInv, Fields
<1>3. EndInv'
  BY <1>0, <1>2 DEF IInv, EndInv, Stages
<1>4. FoundInv'
  BY <1>0, <1>1, <1>2 DEF IInv, EndInv, FoundInv, Over, Compatible, OfGeneration, AfterFirstDigit
<1>5. ProbeInv' /\ StatusInv'
  BY <1>0, <1>2 DEF IInv, EndInv, ProbeInv, StatusInv, Over
<1>. QED BY <1>3, <1>4, <1>5 DEF IInv

LEMMA MatmulStep == IInv /\ _matmul_smoke => IInv'
<1>. SUFFICES ASSUME IInv, _matmul_smoke PROVE IInv'
  OBVIOUS
<1>. DEFINE ok == YesNo(card.cuda /\ card.computes = "finite")
<1>0. /\ stage = "matmul" /\ stage' = "nvml" /\ record' = [record EXCEPT !.matmul_ok = ok]
      /\ UNCHANGED <<card, printed, sampling, exit>>
  BY DEF _matmul_smoke, ToRecord
<1>1. ok = YesNo(card.cuda /\ card.computes = "finite")
  OBVIOUS
<1>. HIDE DEF ok
<1>2. /\ DOMAIN record' = Fields /\ record'.matmul_ok = ok
      /\ \A f \in Fields \ {"matmul_ok"} : record'[f] = record[f]
  BY <1>0 DEF IInv, EndInv
<1>3. EndInv'
  BY <1>0, <1>2 DEF IInv, EndInv, Stages
<1>4. FoundInv'
  BY <1>0, <1>1, <1>2 DEF IInv, EndInv, FoundInv, Over, Fields, Compatible, OfGeneration, AfterFirstDigit
<1>5. ProbeInv' /\ StatusInv'
  BY <1>0, <1>2 DEF IInv, EndInv, ProbeInv, StatusInv, Over, Fields
<1>. QED BY <1>3, <1>4, <1>5 DEF IInv

LEMMA NvmlStep == IInv /\ _nvml_facts => IInv'
<1>. SUFFICES ASSUME IInv, _nvml_facts PROVE IInv'
  OBVIOUS
<1>. DEFINE bound == YesNo(card.binding)
<1>0. \E counter :
        record' = [record EXCEPT !.nvml_import_ok = bound, !.energy_counter_supported = counter]
  BY DEF _nvml_facts, ToRecord
<1>1. /\ stage = "nvml" /\ stage' = "smi"
      /\ UNCHANGED <<card, printed, sampling, exit>>
  BY DEF _nvml_facts, ToRecord
<1>2. bound = YesNo(card.binding)
  OBVIOUS
<1>. HIDE DEF bound
<1>3. /\ DOMAIN record' = Fields /\ record'.nvml_import_ok = bound
      /\ \A f \in Fields \ {"nvml_import_ok", "energy_counter_supported"} : record'[f] = record[f]
  BY <1>0 DEF IInv, EndInv, Fields
<1>4. EndInv'
  BY <1>1, <1>3 DEF IInv, EndInv, Stages
<1>5. FoundInv'
  BY <1>1, <1>2, <1>3 DEF IInv, EndInv, FoundInv, Over, Fields, Compatible, OfGeneration, AfterFirstDigit
<1>6. ProbeInv' /\ StatusInv'
  BY <1>1, <1>3 DEF IInv, EndInv, ProbeInv, StatusInv, Over, Fields
<1>. QED BY <1>4, <1>5, <1>6 DEF IInv

LEMMA SmiStep == IInv /\ nvidia_smi => IInv'
<1>. SUFFICES ASSUME IInv, nvidia_smi PROVE IInv'
  OBVIOUS
<1>0. /\ stage = "smi" /\ stage' = IF card.skip_power THEN "print" ELSE "probe"
      /\ \E out \in {"answer", "failed"} : record' = [record EXCEPT !.nvidia_smi = out]
      /\ UNCHANGED <<card, printed, sampling, exit>>
  BY DEF nvidia_smi, ToRecord
<1>1. /\ DOMAIN record' = Fields /\ record'.nvidia_smi # ""
      /\ \A f \in Fields \ {"nvidia_smi"} : record'[f] = record[f]
  BY <1>0 DEF IInv, EndInv, Fields
<1>2. EndInv'
  BY <1>0, <1>1 DEF IInv, EndInv, Stages
<1>3. FoundInv'
  BY <1>0, <1>1 DEF IInv, EndInv, FoundInv, Over, Fields, Compatible, OfGeneration, AfterFirstDigit
<1>4. ProbeInv' /\ StatusInv'
  BY <1>0, <1>1 DEF IInv, EndInv, ProbeInv, StatusInv, Over, Fields
<1>. QED BY <1>2, <1>3, <1>4 DEF IInv

(* The probe's steps, which write nothing but its own part of the record.  *)
LEMMA FailStep == IInv /\ (StartRaises \/ LoadRaises \/ StopRaises) => IInv'
<1>. SUFFICES ASSUME IInv, StartRaises \/ LoadRaises \/ StopRaises PROVE IInv'
  OBVIOUS
<1>0. /\ stage \in {"probe", "load"} /\ stage' = "print"
      /\ record' = [record EXCEPT !.power_probe_ok = "no"]
      /\ UNCHANGED <<card, printed, exit>>
  BY DEF StartRaises, LoadRaises, StopRaises, ProbeFails, ToRecord
<1>. USE <1>0 DEF IInv
<1>1. EndInv'
  BY DEF EndInv, Stages
<1>2. FoundInv'
  BY DEF EndInv, FoundInv, Over, Fields, Compatible, OfGeneration, AfterFirstDigit
<1>3. ProbeInv' /\ StatusInv'
  BY DEF EndInv, ProbeInv, StatusInv, Over, Fields
<1>. QED BY <1>1, <1>2, <1>3

LEMMA StopStep == IInv /\ Stop => IInv'
<1>. SUFFICES ASSUME IInv, Stop PROVE IInv'
  OBVIOUS
<1>. DEFINE ok == record'.power_probe_ok
<1>0. /\ stage = "load" /\ stage' = "print" /\ sampling' = FALSE
      /\ DOMAIN record' = Fields /\ ok \in {"yes", "no"}
      /\ \A f \in {"cuda_available", "capability_supported", "matmul_ok",
                    "nvml_import_ok", "nvidia_smi"} : record'[f] = record[f]
      /\ UNCHANGED <<card, printed, exit>>
  BY DEF IInv, EndInv, Stop, probe_record, ToRecord, Fields, YesNo
<1>. USE <1>0 DEF IInv
<1>1. EndInv'
  BY DEF EndInv, Stages
<1>2. FoundInv'
  BY DEF EndInv, FoundInv, Over, Compatible, OfGeneration, AfterFirstDigit
<1>3. ProbeInv' /\ StatusInv'
  BY DEF EndInv, ProbeInv, StatusInv, Over
<1>. QED BY <1>1, <1>2, <1>3

(* Steps that leave the record and the card alone: each check that is over *)
(* after one of them was over before it.                                   *)
LEMMA QuietStep == IInv /\ (Start \/ Sample \/ Uncaught \/ Gate \/ UNCHANGED pvars) => IInv'
<1>. SUFFICES ASSUME IInv, Start \/ Sample \/ Uncaught \/ Gate \/ UNCHANGED pvars PROVE IInv'
  OBVIOUS
<1>1. UNCHANGED <<card, record>>
  BY DEF Start, Sample, Uncaught, Gate, pvars
<1>2. \/ stage = "probe" /\ stage' = "load" /\ printed' = printed
      \/ stage' = stage /\ printed' = printed /\ sampling' = sampling
      \/ stage \in {"torch", "matmul"} /\ stage' = "done" /\ printed' = printed
      \/ stage = "print" /\ stage' = "done" /\ printed' = TRUE /\ sampling' = sampling
  BY DEF Start, Sample, Uncaught, Gate, pvars
<1>3. EndInv'
  BY DEF IInv, EndInv, Stages, Start, Sample, Uncaught, Gate, pvars
<1>4. /\ Over({"torch"})' => Over({"torch"})
      /\ Over({"torch", "matmul"})' => Over({"torch", "matmul"})
      /\ Over({"torch", "matmul", "nvml"})' => Over({"torch", "matmul", "nvml"})
      /\ Over({"torch", "matmul", "nvml", "smi"})' => Over({"torch", "matmul", "nvml", "smi"})
  BY <1>2 DEF IInv, EndInv, Over
<1>5. FoundInv'
  BY <1>1, <1>4 DEF IInv, FoundInv, Compatible, OfGeneration, AfterFirstDigit
<1>6. ProbeInv'
  <2>1. Over({"torch", "matmul", "nvml", "smi", "probe", "load"})' =>
          Over({"torch", "matmul", "nvml", "smi", "probe", "load"}) /\ sampling' = sampling
    BY <1>2 DEF IInv, EndInv, Over
  <2>2. stage' \in {"torch", "matmul", "nvml", "smi", "probe", "load"} =>
          stage \in {"torch", "matmul", "nvml", "smi", "probe", "load"}
    BY <1>2
  <2>3. stage' \in {"probe", "load"} => stage \in {"probe", "load"}
    BY <1>2
  <2>4. record'.power_probe_ok = record.power_probe_ok /\ card'.skip_power = card.skip_power
    BY <1>1
  <2>5. /\ stage' \in {"torch", "matmul", "nvml", "smi", "probe", "load"} =>
             record'.power_probe_ok = ""
        /\ stage' \in {"probe", "load"} => ~card'.skip_power
    BY <2>2, <2>3, <2>4 DEF IInv, ProbeInv
  <2>6. ASSUME Over({"torch", "matmul", "nvml", "smi", "probe", "load"})'
        PROVE  /\ record'.power_probe_ok = "" <=> card'.skip_power
               /\ record'.power_probe_ok = "yes" => ~sampling'
    <3>1. /\ Over({"torch", "matmul", "nvml", "smi", "probe", "load"})
          /\ sampling' = sampling
      BY <2>1, <2>6
    <3>2. /\ record.power_probe_ok = "" <=> card.skip_power
          /\ record.power_probe_ok = "yes" => ~sampling
      BY <3>1 DEF IInv, ProbeInv
    <3>. QED BY <2>4, <3>1, <3>2
  <2>. QED BY <2>5, <2>6 DEF ProbeInv
<1>7. StatusInv'
  BY <1>1 DEF IInv, EndInv, StatusInv, failures, Start, Sample, Uncaught, Gate, pvars
<1>. QED BY <1>3, <1>5, <1>6, <1>7 DEF IInv

LEMMA StepIInv == IInv /\ [PNext]_pvars => IInv'
BY TorchStep, MatmulStep, NvmlStep, SmiStep, FailStep, StopStep, QuietStep DEF PNext

(* The inductive invariant: what a check found is in the record from then  *)
(* on, and the exit status is made of it.                                  *)
THEOREM PreflightInvariant == PSpec => []IInv
BY InitIInv, StepIInv, PTL DEF PSpec

(* PassIsSound, for every card and every build: zero is a card that        *)
(* computes and that NVML answers for.  That the build has code for it,    *)
(* and that a sound card that was reported on is zero, is said of cards    *)
(* whose generation has one digit, and is not so of others: a sound sm_120 *)
(* card is refused.                                                        *)
THEOREM PassIsTrue == PSpec => []PassIsSound
<1>1. ASSUME IInv, stage = "done" PROVE PassIsSound
  <2>1. CASE ~printed
    <3>1. exit = 1
      BY <1>1, <2>1 DEF IInv, EndInv
    <3>2. exit # 0
      BY <3>1
    <3>. QED BY <2>1, <3>2 DEF PassIsSound
  <2>2. CASE printed
    <3>. DEFINE good  == card.cuda /\ card.computes = "finite" /\ card.binding
                built == \E a \in card.archs : RunsOn(a, card)
    <3>1. card \in Cards /\ {card.cuda, card.binding, card.skip_power} \subseteq BOOLEAN
      BY <1>1, CardIsBoolean DEF IInv, EndInv
    <3>2. /\ record.cuda_available = YesNo(card.cuda)
          /\ record.capability_supported = IF card.cuda THEN YesNo(Compatible(card) # {}) ELSE ""
          /\ card.cuda => \A a \in card.archs : OfGeneration(a, card) => ~a.tail
          /\ record.matmul_ok = YesNo(card.cuda /\ card.computes = "finite")
          /\ record.nvml_import_ok = YesNo(card.binding)
          /\ record.nvidia_smi # ""
          /\ record.power_probe_ok = "" <=> card.skip_power
          /\ record.power_probe_ok = "yes" => ~sampling
      BY <1>1, <2>2 DEF IInv, FoundInv, ProbeInv, Over
    <3>3. exit = 0 <=> good /\ Compatible(card) # {}
      <4>1. exit = 0 <=> failures = {}
        BY <1>1, <2>2 DEF IInv, StatusInv
      <4>2. failures = {} <=>
              /\ record.cuda_available = "yes" /\ record.matmul_ok = "yes"
              /\ record.nvml_import_ok = "yes" /\ record.capability_supported # "no"
        BY <3>2, YesOrNo DEF failures, YesNo
      <4>. QED BY <3>1, <3>2, <4>1, <4>2 DEF YesNo
    <3>4. ASSUME card.major < 10, card.cuda PROVE Compatible(card) # {} <=> built
      BY <3>1, <3>2, <3>4, ParseIsExact, RunsOnGeneration DEF Compatible
    <3>5. record.matmul_ok # ""
      BY <3>1, <3>2 DEF YesNo
    <3>. QED BY <2>2, <3>1, <3>2, <3>3, <3>4, <3>5 DEF PassIsSound
  <2>. QED BY <2>1, <2>2
<1>2. IInv => PassIsSound
  BY <1>1 DEF PassIsSound
<1>. QED BY PreflightInvariant, <1>2, PTL

----------------------------------------------------------------------------
(* The trace and the figures made of it.                                   *)

(* The trace: later samples have later times, no gap is longer than        *)
(* MaxGap, and a power is a whole number of Scale.                         *)
Points == [t : Nat, p : Int]

At(i)   == samples[i].t
Watt(i) == samples[i].p

TraceInv ==
  /\ samples \in Seq(Points)
  /\ \A i \in 1 .. Len(samples) : \E q \in Nat : Watt(i) = q * Scale
  /\ \A i, j \in 1 .. Len(samples) : i < j => At(i) < At(j)
  /\ \A i \in 1 .. Len(samples) - 1 : At(i + 1) - At(i) \in 1 .. MaxGap

LEMMA TraceTypes ==
  ASSUME TraceInv
  PROVE  /\ Len(samples) \in Nat
         /\ \A i \in 1 .. Len(samples) : samples[i] \in Points /\ At(i) \in Nat /\ Watt(i) \in Int
         /\ \A i, j \in 1 .. Len(samples) : At(i) < At(j) <=> i < j
<1>1. Len(samples) \in Nat /\ samples \in [1 .. Len(samples) -> Points]
  BY LenProperties DEF TraceInv
<1>2. ASSUME NEW i \in 1 .. Len(samples) PROVE samples[i] \in Points /\ At(i) \in Nat /\ Watt(i) \in Int
  BY <1>1 DEF At, Watt, Points
<1>3. ASSUME NEW i \in 1 .. Len(samples), NEW j \in 1 .. Len(samples) PROVE At(i) < At(j) <=> i < j
  <2>1. i < j \/ j < i \/ i = j
    BY <1>1
  <2>2. (i < j => At(i) < At(j)) /\ (j < i => At(j) < At(i))
    BY DEF TraceInv
  <2>. QED BY <1>1, <1>2, <2>1, <2>2
<1>. QED BY <1>1, <1>2, <1>3

LEMMA Multiple == ASSUME NEW g \in Nat \ {0}, NEW k \in Int PROVE (k * g) \div g = k /\ k * g \in Int
OBVIOUS

LEMMA Spread == ASSUME NEW x \in Int, NEW y \in Int, NEW z \in Int
                PROVE  (x + y) * z = x * z + y * z /\ (x - y) * z = x * z - y * z
                       /\ x * z \in Int /\ y * z \in Int /\ x * z = z * x /\ (x * y) * z = x * (y * z)
OBVIOUS

(* Between two neighbours the power changes by a whole number a second.    *)
Slope(i, d) == Watt(i + 1) - Watt(i) = d * (At(i + 1) - At(i))

LEMMA SlopeExists ==
  ASSUME TraceInv, NEW i \in 1 .. Len(samples) - 1
  PROVE  \E d \in Int : Slope(i, d)
<1>. DEFINE g == At(i + 1) - At(i)
            m == Scale \div g
<1>1. i \in 1 .. Len(samples) /\ i + 1 \in 1 .. Len(samples) /\ g \in 1 .. MaxGap
  BY TraceTypes DEF TraceInv
<1>2. PICK a \in Nat : Watt(i) = a * Scale
  BY <1>1 DEF TraceInv
<1>3. PICK b \in Nat : Watt(i + 1) = b * Scale
  BY <1>1 DEF TraceInv
<1>4. Scale \in Nat /\ MaxGap \in Nat /\ Scale % g = 0 /\ g \in Nat \ {0}
  BY <1>1, TraceAssumption
<1>. HIDE DEF g
<1>5. m \in Int /\ Scale = m * g
  BY <1>4
<1>. HIDE DEF m
<1>. DEFINE d == (b - a) * m
<1>6. d \in Int
  BY <1>5, Spread
<1>7. b * Scale - a * Scale = d * g
  <2>. DEFINE c == b - a
  <2>1. c \in Int /\ b * Scale - a * Scale = c * Scale
    BY <1>4, Spread
  <2>. HIDE DEF c
  <2>2. c * (m * g) = (c * m) * g
    BY <1>4, <1>5, <2>1, Spread
  <2>. QED BY <1>5, <2>1, <2>2 DEF c
<1>. QED BY <1>2, <1>3, <1>6, <1>7 DEF g, Slope

(* The power at an instant: flat before the first sample and after the     *)
(* last, and on the line between two neighbours.                           *)
On(i, t) == (Watt(i) * (At(i + 1) - t) + Watt(i + 1) * (t - At(i))) \div (At(i + 1) - At(i))

LEMMA PowerIs ==
  ASSUME NEW t
  PROVE  PowerAt(t) = IF t <= At(1) THEN Watt(1)
                      ELSE IF t >= At(Len(samples)) THEN Watt(Len(samples))
                      ELSE On(CHOOSE j \in 1 .. Len(samples) - 1 : At(j) < t /\ t <= At(j + 1), t)
BY DEF PowerAt, At, Watt, On

LEMMA PowerOutside ==
  ASSUME TraceInv, Len(samples) >= 2, NEW t \in Nat
  PROVE  /\ t <= At(1) => PowerAt(t) = Watt(1)
         /\ t >= At(Len(samples)) => PowerAt(t) = Watt(Len(samples))
<1>1. At(1) \in Nat /\ At(Len(samples)) \in Nat /\ At(1) < At(Len(samples))
  BY TraceTypes
<1>2. CASE t <= At(1)
  <2>1. ~(t >= At(Len(samples)))
    BY <1>1, <1>2
  <2>. QED BY <1>2, <2>1, PowerIs, Zenon
<1>3. CASE ~(t <= At(1))
  BY <1>3, PowerIs, Zenon
<1>. QED BY <1>2, <1>3

LEMMA OnLine ==
  ASSUME NEW p \in Int, NEW d \in Int, NEW g \in Nat \ {0}, NEW x \in Int
  PROVE  p * (g - x) + (p + d * g) * x = (p + x * d) * g /\ p + x * d \in Int
<1>1. p * (g - x) = p * g - p * x
  <2>1. (g - x) * p = g * p - x * p /\ g - x \in Int
    BY Spread
  <2>2. (g - x) * p = p * (g - x) /\ g * p = p * g /\ x * p = p * x
    BY <2>1, Spread
  <2>. QED BY <2>1, <2>2
<1>2. (p + d * g) * x = p * x + (d * g) * x
  BY Spread
<1>3. (p + x * d) * g = p * g + (x * d) * g
  BY Spread
<1>4. (d * g) * x = (x * d) * g
  <2>1. (x * d) * g = x * (d * g) /\ d * g \in Int
    BY Spread
  <2>2. x * (d * g) = (d * g) * x
    BY <2>1, Spread
  <2>. QED BY <2>1, <2>2
<1>5. p * g \in Int /\ p * x \in Int /\ (d * g) * x \in Int /\ x * d \in Int
  BY Spread
<1>. QED BY <1>1, <1>2, <1>3, <1>4, <1>5

LEMMA OnIs ==
  ASSUME TraceInv, NEW i \in 1 .. Len(samples) - 1, NEW d \in Int, Slope(i, d), NEW t \in Int
  PROVE  On(i, t) = Watt(i) + (t - At(i)) * d
<1>. DEFINE g == At(i + 1) - At(i)
            x == t - At(i)
            p == Watt(i)
<1>1. /\ i \in 1 .. Len(samples) /\ i + 1 \in 1 .. Len(samples) /\ i < i + 1
      /\ At(i) \in Nat /\ At(i + 1) \in Nat /\ Watt(i + 1) \in Int /\ p \in Int
  BY TraceTypes
<1>2. g \in Nat \ {0} /\ x \in Int /\ Watt(i + 1) = p + d * g /\ At(i + 1) - t = g - x
  <2>1. At(i) < At(i + 1)
    BY <1>1, TraceTypes
  <2>2. g \in Nat \ {0} /\ x \in Int /\ At(i + 1) - t = g - x
    BY <1>1, <2>1
  <2>3. d * g \in Int
    <3>. HIDE DEF g
    <3>. QED BY <2>2, Spread
  <2>4. Watt(i + 1) - p = d * g
    BY DEF Slope
  <2>. HIDE DEF g, x, p
  <2>. QED BY <1>1, <2>2, <2>3, <2>4
<1>3. On(i, t) = (p * (g - x) + (p + d * g) * x) \div g
  BY <1>2 DEF On
<1>. HIDE DEF g, x, p
<1>4. On(i, t) = ((p + x * d) * g) \div g /\ p + x * d \in Int
  BY <1>1, <1>2, <1>3, OnLine
<1>5. On(i, t) = p + x * d
  BY <1>2, <1>4, Multiple
<1>. QED BY <1>5 DEF x, p

(* The first time at or after t.                                           *)
LEMMA OneSegment ==
  ASSUME TraceInv, NEW t \in Nat, NEW i \in 1 .. Len(samples) - 1, At(i) < t, t <= At(i + 1)
  PROVE  (CHOOSE j \in 1 .. Len(samples) - 1 : At(j) < t /\ t <= At(j + 1)) = i
<1>. DEFINE n == Len(samples)
            Holds(j) == At(j) < t /\ t <= At(j + 1)
<1>1. n \in Nat /\ \A j \in 1 .. n : At(j) \in Nat
  BY TraceTypes
<1>2. ASSUME NEW j \in 1 .. n - 1, NEW k \in 1 .. n - 1, Holds(j), Holds(k) PROVE ~(j < k)
  <2>1. j + 1 \in 1 .. n /\ k \in 1 .. n /\ (j < k => ~(k < j + 1))
    BY <1>1
  <2>2. At(k) < At(j + 1)
    BY <1>1, <1>2, <2>1
  <2>3. k < j + 1
    BY <2>1, <2>2, TraceTypes
  <2>. QED BY <2>1, <2>3
<1>3. \A k \in 1 .. n - 1 : Holds(k) => k = i
  <2>1. ASSUME NEW k \in 1 .. n - 1, Holds(k) PROVE k = i
    <3>1. ~(i < k) /\ ~(k < i)
      BY <1>2, <2>1
    <3>. QED BY <1>1, <3>1
  <2>. QED BY <2>1
<1>4. Holds(i)
  OBVIOUS
<1>5. (CHOOSE j \in 1 .. n - 1 : Holds(j)) = i
  <2>. HIDE DEF Holds, n
  <2>. QED BY <1>3, <1>4 DEF n
<1>. QED BY <1>5

LEMMA PowerBetween ==
  ASSUME TraceInv, Len(samples) >= 2, NEW i \in 1 .. Len(samples) - 1,
         NEW d \in Int, Slope(i, d), NEW t \in At(i) .. At(i + 1)
  PROVE  PowerAt(t) = Watt(i) + (t - At(i)) * d
<1>. DEFINE n == Len(samples)
            x == t - At(i)
<1>1. n \in Nat /\ i \in 1 .. n /\ i + 1 \in 1 .. n /\ 1 \in 1 .. n /\ n \in 1 .. n
  BY TraceTypes
<1>2. \A j \in 1 .. n : At(j) \in Nat /\ Watt(j) \in Int
  BY TraceTypes
<1>3. /\ t \in Nat /\ At(i) <= t /\ t <= At(i + 1) /\ x \in Nat
      /\ {At(i), At(i + 1), At(1), At(n)} \subseteq Nat
  BY <1>1, <1>2
<1>4. CASE t <= At(1)
  <2>1. ~(At(1) < At(i))
    BY <1>3, <1>4
  <2>2. ~(1 < i)
    BY <1>1, <2>1, TraceTypes
  <2>3. i = 1
    BY <1>1, <2>2
  <2>4. x = 0 /\ 0 * d = 0
    BY <1>3, <1>4, <2>3
  <2>5. PowerAt(t) = Watt(i)
    BY <1>3, <1>4, <2>3, PowerOutside
  <2>. QED BY <1>1, <1>2, <2>4, <2>5
<1>5. CASE t >= At(n)
  <2>1. ~(At(i + 1) < At(n))
    BY <1>3, <1>5
  <2>2. ~(i + 1 < n)
    BY <1>1, <2>1, TraceTypes
  <2>3. i + 1 = n
    BY <1>1, <2>2
  <2>4. t = At(i + 1)
    BY <1>3, <1>5, <2>3
  <2>5. PowerAt(t) = Watt(i + 1)
    BY <1>3, <1>5, <2>3, PowerOutside
  <2>6. x * d = d * x /\ x * d \in Int
    <3>. HIDE DEF x
    <3>. QED BY <1>3, Spread
  <2>7. Watt(i + 1) - Watt(i) = d * x
    BY <2>4 DEF Slope
  <2>8. Watt(i) \in Int /\ Watt(i + 1) \in Int
    BY <1>1, <1>2
  <2>. HIDE DEF x
  <2>9. PowerAt(t) = Watt(i) + x * d
    BY <2>5, <2>6, <2>7, <2>8
  <2>. QED BY <2>9 DEF x
<1>6. CASE At(1) < t /\ t < At(n)
  <2>1. ASSUME NEW j \in 1 .. n - 1, At(j) < t, t <= At(j + 1) PROVE PowerAt(t) = On(j, t)
    <3>1. ~(t <= At(1)) /\ ~(t >= At(n))
      BY <1>3, <1>6
    <3>2. (CHOOSE k \in 1 .. n - 1 : At(k) < t /\ t <= At(k + 1)) = j
      BY <1>3, <2>1, OneSegment
    <3>. QED BY <3>1, <3>2, PowerIs
  <2>2. CASE At(i) < t
    BY <1>3, <2>1, <2>2, OnIs
  <2>3. CASE At(i) = t
    <3>. DEFINE j == i - 1
                y == t - At(j)
    <3>1. i # 1
      BY <1>3, <1>6, <2>3
    <3>2. j \in 1 .. n - 1 /\ j + 1 = i /\ j \in 1 .. n /\ j < i
      BY <1>1, <3>1
    <3>. HIDE DEF j
    <3>3. At(j) < t /\ t = At(j + 1) /\ At(j) \in Nat /\ Watt(j) \in Int /\ Watt(i) \in Int
      BY <1>1, <1>2, <2>3, <3>2, TraceTypes
    <3>4. PICK e \in Int : Slope(j, e)
      BY <3>2, SlopeExists
    <3>5. PowerAt(t) = On(j, t)
      BY <1>3, <2>1, <3>2, <3>3
    <3>6. On(j, t) = Watt(j) + y * e
      BY <1>3, <3>2, <3>4, OnIs
    <3>7. y \in Int /\ Watt(i) - Watt(j) = e * y
      <4>1. y \in Int /\ At(j + 1) - At(j) = y
        BY <1>3, <3>3
      <4>2. Watt(j + 1) - Watt(j) = e * (At(j + 1) - At(j))
        BY <3>4 DEF Slope
      <4>. HIDE DEF y
      <4>. QED BY <3>2, <4>1, <4>2, Zenon
    <3>8. y * e = e * y /\ y * e \in Int
      <4>. HIDE DEF y
      <4>. QED BY <3>7, Spread
    <3>9. PowerAt(t) = Watt(i)
      <4>. HIDE DEF y
      <4>. QED BY <3>3, <3>5, <3>6, <3>7, <3>8
    <3>10. x = 0 /\ 0 * d = 0
      BY <1>3, <2>3
    <3>. QED BY <3>3, <3>9, <3>10
  <2>. QED BY <1>3, <2>2, <2>3
<1>7. t <= At(1) \/ t >= At(n) \/ (At(1) < t /\ t < At(n))
  BY <1>3
<1>. QED BY <1>4, <1>5, <1>6, <1>7

(* Where an instant within the trace is.                                   *)
LEMMA Within ==
  ASSUME TraceInv, NEW t \in Nat, Len(samples) >= 2, At(1) <= t, t < At(Len(samples))
  PROVE  \E i \in 1 .. Len(samples) - 1 : At(i) <= t /\ t < At(i + 1)
<1>. DEFINE n == Len(samples)
            T == {j \in 1 .. n : t < At(j)}
<1>1. n \in Nat /\ n \in 1 .. n /\ \A j \in 1 .. n : At(j) \in Nat
  BY TraceTypes
<1>2. T \subseteq Nat /\ T # {}
  BY <1>1
<1>3. PICK j \in T : \A k \in T : j <= k
  <2>. HIDE DEF T
  <2>. QED BY <1>2, LeastNatural
<1>4. j # 1
  BY <1>1, <1>3
<1>. DEFINE i == j - 1
<1>5. i \in 1 .. n - 1 /\ i + 1 = j /\ i \in 1 .. n /\ i < j
  BY <1>1, <1>3, <1>4
<1>6. i \notin T
  BY <1>3, <1>5
<1>7. At(i) <= t
  BY <1>1, <1>5, <1>6
<1>8. t < At(i + 1)
  BY <1>3, <1>5
<1>. HIDE DEF i
<1>. QED BY <1>5, <1>7, <1>8

LEMMA PowerIsInt ==
  ASSUME TraceInv, Len(samples) >= 2, NEW t \in Nat PROVE PowerAt(t) \in Int
<1>1. At(1) \in Nat /\ At(Len(samples)) \in Nat /\ Watt(1) \in Int /\ Watt(Len(samples)) \in Int
  BY TraceTypes
<1>2. CASE t <= At(1) \/ t >= At(Len(samples))
  BY <1>1, <1>2, PowerOutside
<1>3. CASE At(1) <= t /\ t < At(Len(samples))
  <2>1. PICK i \in 1 .. Len(samples) - 1 : At(i) <= t /\ t < At(i + 1)
    BY <1>3, Within
  <2>2. PICK d \in Int : Slope(i, d)
    BY SlopeExists
  <2>3. i \in 1 .. Len(samples) /\ i + 1 \in 1 .. Len(samples)
    BY TraceTypes
  <2>4. At(i) \in Nat /\ At(i + 1) \in Nat /\ Watt(i) \in Int
    BY <2>3, TraceTypes
  <2>5. PowerAt(t) = Watt(i) + (t - At(i)) * d
    BY <2>1, <2>2, <2>4, PowerBetween
  <2>6. t - At(i) \in Int /\ (t - At(i)) * d \in Int
    BY <2>4, Spread
  <2>. QED BY <2>4, <2>5, <2>6
<1>4. t <= At(1) \/ t >= At(Len(samples)) \/ (At(1) <= t /\ t < At(Len(samples)))
  BY <1>1
<1>. QED BY <1>2, <1>3, <1>4

(* _interp_power gives the power.                                          *)
LEMMA InterpIsExact ==
  ASSUME TraceInv, Len(samples) >= 2, NEW t \in Nat
  PROVE  _interp_power(samples, t) = PowerAt(t)
<1>. DEFINE n == Len(samples)
            enclosing == {i \in 1 .. n - 1 : At(i) <= t /\ t <= At(i + 1)}
            k == Min(enclosing)
            v == Watt(k) + ((t - At(k)) * (Watt(k + 1) - Watt(k))) \div (At(k + 1) - At(k))
<1>1. _interp_power(samples, t) =
        IF enclosing # {} THEN v ELSE IF t <= At(1) THEN Watt(1) ELSE Watt(n)
  BY DEF _interp_power, At, Watt
<1>2. n \in Nat /\ At(1) \in Nat /\ At(n) \in Nat
  BY TraceTypes
<1>3. CASE enclosing # {}
  <2>1. enclosing \subseteq Nat
    OBVIOUS
  <2>2. k \in enclosing
    <3>. HIDE DEF enclosing
    <3>. QED BY <1>3, <2>1, MinIsLeast
  <2>. HIDE DEF k
  <2>3. k \in 1 .. n - 1 /\ At(k) <= t /\ t <= At(k + 1) /\ k \in 1 .. n /\ k + 1 \in 1 .. n /\ k < k + 1
    BY <1>2, <2>2
  <2>4. At(k) \in Nat /\ At(k + 1) \in Nat /\ Watt(k) \in Int /\ Watt(k + 1) \in Int /\ At(k) < At(k + 1)
    BY <2>3, TraceTypes
  <2>5. PICK d \in Int : Slope(k, d)
    BY <2>3, SlopeExists
  <2>6. PowerAt(t) = Watt(k) + (t - At(k)) * d
    BY <2>3, <2>4, <2>5, PowerBetween
  <2>. DEFINE x == t - At(k)
              g == At(k + 1) - At(k)
              w == Watt(k + 1) - Watt(k)
  <2>7. x \in Int /\ g \in Nat \ {0} /\ w = d * g
    BY <2>4, <2>5 DEF Slope
  <2>8. v = Watt(k) + (x * w) \div g
    OBVIOUS
  <2>. HIDE DEF x, g, w, v
  <2>9. x * w = (x * d) * g /\ x * d \in Int
    <3>1. (x * d) * g = x * (d * g) /\ x * d \in Int
      BY <2>7, Spread
    <3>. QED BY <2>7, <3>1
  <2>10. (x * w) \div g = x * d
    BY <2>7, <2>9, Multiple
  <2>. QED BY <1>1, <1>3, <2>6, <2>8, <2>10, Zenon DEF x
<1>4. CASE enclosing = {}
  <2>1. ~(At(1) <= t /\ t < At(n))
    <3>1. ASSUME At(1) <= t, t < At(n) PROVE FALSE
      <4>1. PICK i \in 1 .. n - 1 : At(i) <= t /\ t < At(i + 1)
        BY <3>1, Within
      <4>2. At(i + 1) \in Nat
        <5>1. i + 1 \in 1 .. n
          BY <1>2
        <5>. QED BY <5>1, TraceTypes
      <4>3. t <= At(i + 1)
        BY <4>1, <4>2
      <4>. QED BY <1>4, <4>1, <4>3
    <3>. QED BY <3>1
  <2>2. CASE t <= At(1)
    BY <1>1, <1>4, <2>2, PowerOutside, Zenon
  <2>3. CASE ~(t <= At(1))
    <3>1. t >= At(n)
      BY <1>2, <2>1, <2>3
    <3>2. PowerAt(t) = Watt(n)
      BY <3>1, PowerOutside
    <3>. QED BY <1>1, <1>4, <2>3, <3>2, Zenon
  <2>. QED BY <2>2, <2>3
<1>. QED BY <1>3, <1>4

(* The energy of a stretch of whole cells, in halves.                      *)
Cells(a, b) == Total([t \in a .. b - 1 |-> PowerAt(t) + PowerAt(t + 1)], a .. b - 1)

cells == [t \in Nat |-> PowerAt(t) + PowerAt(t + 1)]

LEMMA CellTypes ==
  ASSUME TraceInv, Len(samples) >= 2
  PROVE  \A t \in Nat : cells[t] = PowerAt(t) + PowerAt(t + 1) /\ cells[t] \in Int /\ PowerAt(t) \in Int
<1>1. ASSUME NEW t \in Nat
      PROVE  cells[t] = PowerAt(t) + PowerAt(t + 1) /\ cells[t] \in Int /\ PowerAt(t) \in Int
  <2>1. PowerAt(t) \in Int /\ PowerAt(t + 1) \in Int
    BY PowerIsInt
  <2>2. cells[t] = PowerAt(t) + PowerAt(t + 1)
    BY DEF cells
  <2>. QED BY <2>1, <2>2
<1>. QED BY <1>1

LEMMA CellsAre ==
  ASSUME TraceInv, Len(samples) >= 2, NEW a \in Nat, NEW b \in Nat
  PROVE  Cells(a, b) = Total(cells, a .. b - 1) /\ Cells(a, b) \in Int
<1>. DEFINE S == a .. b - 1
            f == [t \in S |-> PowerAt(t) + PowerAt(t + 1)]
<1>1. IsFiniteSet(S) /\ S \subseteq Nat
  BY FS_Interval
<1>2. \A t \in S : f[t] \in Int /\ cells[t] = f[t]
  BY <1>1, CellTypes
<1>3. \A t \in S : f[t] \in Int
  BY <1>2
<1>4. Cells(a, b) = Total(f, S)
  BY DEF Cells
<1>. HIDE DEF S, f
<1>5. Total(f, S) = Total(cells, S)
  BY <1>1, <1>2, TotalOfSame
<1>6. Total(f, S) \in Int
  BY <1>1, <1>3, TotalTypes
<1>. QED BY <1>4, <1>5, <1>6 DEF S

LEMMA CellsOfNone ==
  ASSUME TraceInv, Len(samples) >= 2, NEW a \in Nat, NEW b \in Nat, b <= a
  PROVE  Cells(a, b) = 0
<1>1. a .. b - 1 = {}
  OBVIOUS
<1>2. Total(cells, {}) = 0
  <2>1. IsFiniteSet({}) /\ \A x \in {} : cells[x] \in Int
    BY FS_EmptySet
  <2>. QED BY <2>1, TotalTypes
<1>. QED BY <1>1, <1>2, CellsAre

LEMMA CellsOfOne ==
  ASSUME TraceInv, Len(samples) >= 2, NEW a \in Nat
  PROVE  Cells(a, a + 1) = PowerAt(a) + PowerAt(a + 1)
<1>1. a .. (a + 1) - 1 = {a} /\ a + 1 \in Nat
  OBVIOUS
<1>2. IsFiniteSet({a}) /\ \A x \in {a} : cells[x] \in Int
  BY FS_Singleton, CellTypes
<1>3. cells[a] = PowerAt(a) + PowerAt(a + 1) /\ cells[a] \in Int
  BY CellTypes
<1>4. Total(cells, {a}) = cells[a]
  <2>. DEFINE f == cells
  <2>1. f[a] \in Int
    BY <1>3
  <2>. HIDE DEF f
  <2>2. Total(f, {a}) = f[a]
    BY <2>1, TotalOfOne
  <2>. QED BY <2>2 DEF f
<1>6. Total(cells, {a}) = PowerAt(a) + PowerAt(a + 1)
  BY <1>3, <1>4, Zenon
<1>7. Cells(a, a + 1) = Total(cells, a .. (a + 1) - 1)
  BY <1>1, CellsAre
<1>. QED BY <1>1, <1>6, <1>7, Zenon

LEMMA CellsJoin ==
  ASSUME TraceInv, Len(samples) >= 2, NEW a \in Nat, NEW b \in Nat, NEW c \in Nat, a <= b, b <= c
  PROVE  Cells(a, c) = Cells(a, b) + Cells(b, c)
<1>. DEFINE S == a .. c - 1
            A == a .. b - 1
            B == b .. c - 1
<1>0. A \cup B = S
  <2>1. \A x \in Int : x \in S <=> x \in A \/ x \in B
    OBVIOUS
  <2>2. S \subseteq Int /\ A \subseteq Int /\ B \subseteq Int
    OBVIOUS
  <2>. HIDE DEF S, A, B
  <2>. QED BY <2>1, <2>2
<1>1. IsFiniteSet(S) /\ S \subseteq Nat /\ A \in SUBSET S /\ B \in SUBSET S /\ A \cap B = {}
  <2>1. IsFiniteSet(S)
    BY FS_Interval
  <2>2. S \subseteq Nat /\ A \subseteq S /\ B \subseteq S /\ A \cap B = {}
    OBVIOUS
  <2>. QED BY <2>1, <2>2
<1>2. \A x \in S : cells[x] \in Int
  BY <1>1, CellTypes
<1>3. /\ Cells(a, c) = Total(cells, S) /\ Cells(a, b) = Total(cells, A) /\ Cells(b, c) = Total(cells, B)
  BY CellsAre
<1>. HIDE DEF S, A, B
<1>4. Total(cells, A \cup B) = Total(cells, A) + Total(cells, B)
  <2>. DEFINE f == cells
  <2>1. \A x \in S : f[x] \in Int
    BY <1>2
  <2>. HIDE DEF f
  <2>2. IsFiniteSet(S) /\ A \in SUBSET S /\ B \in SUBSET S /\ A \cap B = {}
    BY <1>1
  <2>3. Total(f, A \cup B) = Total(f, A) + Total(f, B)
    BY <2>1, <2>2, TotalOfUnion
  <2>. QED BY <2>3 DEF f
<1>. QED BY <1>0, <1>3, <1>4, Zenon

(* Over a stretch on which the power is a line, the cells come to the      *)
(* trapezoid of its ends.                                                  *)
Line(a, b, v, d) == \A t \in a .. b : PowerAt(t) = v + (t - a) * d

LEMMA Grow ==
  ASSUME NEW v \in Int, NEW d \in Int, NEW m \in Nat
  PROVE  /\ (v + (v + m * d)) * m + ((v + m * d) + (v + (m + 1) * d)) = (v + (v + (m + 1) * d)) * (m + 1)
         /\ m * d \in Int /\ (m + 1) * d \in Int
<1>. DEFINE e == m * d
            k == e * m
<1>1. e \in Int /\ (m + 1) * d = e + d /\ k \in Int /\ v * m \in Int /\ d * m = e
  <2>1. m * d \in Int /\ d * m = m * d /\ (m + 1) * d = m * d + 1 * d /\ 1 * d = d /\ v * m \in Int
    BY Spread
  <2>2. (m * d) * m \in Int
    <3>. HIDE DEF e
    <3>. QED BY <2>1, Spread
  <2>. QED BY <2>1, <2>2
<1>2. (v + (v + e)) * m = v * m + (v * m + k)
  <2>. HIDE DEF e
  <2>1. (v + e) * m = v * m + e * m /\ (v + (v + e)) * m = v * m + (v + e) * m
    BY <1>1, Spread
  <2>. QED BY <2>1
<1>3. (v + (v + (e + d))) * (m + 1) = (v * m + (v * m + (k + e))) + (v + (v + (e + d)))
  <2>. HIDE DEF e
  <2>. DEFINE z == v + (v + (e + d))
  <2>1. z \in Int
    BY <1>1
  <2>2. z * (m + 1) = z * m + z
    <3>. HIDE DEF z
    <3>1. (m + 1) * z = m * z + 1 * z /\ 1 * z = z /\ (m + 1) * z = z * (m + 1) /\ m * z = z * m
      BY <2>1, Spread
    <3>. QED BY <3>1
  <2>3. /\ (e + d) * m = e * m + d * m
        /\ (v + (e + d)) * m = v * m + (e + d) * m
        /\ z * m = v * m + (v + (e + d)) * m
    BY <1>1, Spread
  <2>. QED BY <1>1, <2>1, <2>2, <2>3
<1>. HIDE DEF e, k
<1>4. (v + (v + e)) * m + ((v + e) + (v + (e + d))) = (v + (v + (e + d))) * (m + 1)
  <2>. DEFINE q == v * m
  <2>1. q \in Int
    BY <1>1
  <2>2. (q + (q + k)) + ((v + e) + (v + (e + d))) = (q + (q + (k + e))) + (v + (v + (e + d)))
    <3>. HIDE DEF q
    <3>. QED BY <1>1, <2>1
  <2>. QED BY <1>2, <1>3, <2>2
<1>5. e = m * d
  BY DEF e
<1>. QED BY <1>1, <1>4, <1>5

LEMMA CellsOfLine ==
  ASSUME TraceInv, Len(samples) >= 2, NEW a \in Nat, NEW b \in Nat, a <= b,
         NEW v \in Int, NEW d \in Int, Line(a, b, v, d)
  PROVE  Cells(a, b) = (PowerAt(a) + PowerAt(b)) * (b - a)
<1>. DEFINE T == {m \in 0 .. b - a : Cells(a, a + m) = (v + (v + m * d)) * m}
<1>1. b - a \in Nat /\ \A m \in 0 .. b - a : a + m \in a .. b /\ a + m \in Nat
  OBVIOUS
<1>2. \A m \in 0 .. b - a : PowerAt(a + m) = v + m * d
  <2>1. ASSUME NEW m \in 0 .. b - a PROVE PowerAt(a + m) = v + m * d
    <3>1. PowerAt(a + m) = v + ((a + m) - a) * d
      BY <1>1 DEF Line
    <3>2. (a + m) - a = m
      OBVIOUS
    <3>. QED BY <3>1, <3>2
  <2>. QED BY <2>1
<1>3. 0 \in T
  <2>1. Cells(a, a) = 0 /\ a + 0 = a
    BY CellsOfNone
  <2>2. 0 * d = 0 /\ (v + (v + 0)) * 0 = 0
    OBVIOUS
  <2>. QED BY <1>1, <2>1, <2>2
<1>4. ASSUME NEW m \in 0 .. (b - a) - 1, m \in T PROVE m + 1 \in T
  <2>1. m \in Nat /\ m + 1 \in 0 .. b - a /\ m \in 0 .. b - a /\ a + (m + 1) = (a + m) + 1 /\ a + m \in Nat
    OBVIOUS
  <2>2. Cells(a, (a + m) + 1) = Cells(a, a + m) + Cells(a + m, (a + m) + 1)
    BY <2>1, CellsJoin
  <2>3. Cells(a + m, (a + m) + 1) = (v + m * d) + (v + (m + 1) * d)
    <3>1. Cells(a + m, (a + m) + 1) = PowerAt(a + m) + PowerAt((a + m) + 1)
      BY <2>1, CellsOfOne
    <3>2. PowerAt(a + m) = v + m * d
      BY <1>2, <2>1
    <3>3. PowerAt(a + (m + 1)) = v + (m + 1) * d
      BY <1>2, <2>1
    <3>. QED BY <2>1, <3>1, <3>2, <3>3, Zenon
  <2>4. Cells(a, a + m) = (v + (v + m * d)) * m
    BY <1>4
  <2>5. (v + (v + m * d)) * m + ((v + m * d) + (v + (m + 1) * d)) = (v + (v + (m + 1) * d)) * (m + 1)
    BY <2>1, Grow
  <2>6. Cells(a, a + (m + 1)) = (v + (v + (m + 1) * d)) * (m + 1)
    BY <2>1, <2>2, <2>3, <2>4, <2>5, Zenon
  <2>. QED BY <2>1, <2>6
<1>. HIDE DEF T
<1>5. \A m \in 0 .. b - a : m \in T
  BY <1>1, <1>3, <1>4, UpTo
<1>6. b - a \in T /\ b - a \in 0 .. b - a /\ 0 \in 0 .. b - a /\ a + 0 = a /\ a + (b - a) = b
  BY <1>1, <1>5
<1>7. Cells(a, b) = (v + (v + (b - a) * d)) * (b - a)
  BY <1>6 DEF T
<1>8. PowerAt(b) = v + (b - a) * d
  BY <1>2, <1>6
<1>9. PowerAt(a) = v
  <2>1. PowerAt(a) = v + (a - a) * d
    BY DEF Line
  <2>2. a - a = 0 /\ 0 * d = 0 /\ v + 0 = v
    OBVIOUS
  <2>. QED BY <2>1, <2>2, Zenon
<1>. QED BY <1>7, <1>8, <1>9, Zenon

(* Between two instants with no sample inside, the power is a line.        *)
LEMMA Segment ==
  ASSUME TraceInv, Len(samples) >= 2, NEW u \in Nat, NEW w \in Nat, u <= w,
         \A j \in 1 .. Len(samples) : ~(u < At(j) /\ At(j) < w)
  PROVE  Cells(u, w) = (PowerAt(u) + PowerAt(w)) * (w - u)
<1>1. At(1) \in Nat /\ At(Len(samples)) \in Nat /\ Watt(1) \in Int /\ Watt(Len(samples)) \in Int
      /\ 1 \in 1 .. Len(samples) /\ Len(samples) \in 1 .. Len(samples)
  BY TraceTypes
<1>2. ASSUME NEW v \in Int, \A t \in u .. w : PowerAt(t) = v
      PROVE  Line(u, w, v, 0)
  <2>1. \A t \in u .. w : v + (t - u) * 0 = v
    OBVIOUS
  <2>. QED BY <1>2, <2>1 DEF Line
<1>6. ASSUME NEW v \in Int, Line(u, w, v, 0)
      PROVE  Cells(u, w) = (PowerAt(u) + PowerAt(w)) * (w - u)
  <2>. DEFINE z == 0
  <2>1. z \in Int /\ Line(u, w, v, z)
    BY <1>6
  <2>. HIDE DEF z
  <2>. QED BY <2>1, CellsOfLine
<1>3. CASE w <= At(1)
  <2>1. \A t \in u .. w : PowerAt(t) = Watt(1)
    <3>1. \A t \in u .. w : t \in Nat /\ t <= At(1)
      BY <1>1, <1>3
    <3>. QED BY <3>1, PowerOutside
  <2>2. Line(u, w, Watt(1), 0)
    BY <1>1, <1>2, <2>1
  <2>. QED BY <1>1, <1>6, <2>2
<1>4. CASE u >= At(Len(samples))
  <2>1. \A t \in u .. w : PowerAt(t) = Watt(Len(samples))
    <3>1. \A t \in u .. w : t \in Nat /\ t >= At(Len(samples))
      BY <1>1, <1>4
    <3>. QED BY <3>1, PowerOutside
  <2>2. Line(u, w, Watt(Len(samples)), 0)
    BY <1>1, <1>2, <2>1
  <2>. QED BY <1>1, <1>6, <2>2
<1>5. CASE At(1) < w /\ u < At(Len(samples))
  <2>1. At(1) <= u
    BY <1>1, <1>5
  <2>2. PICK i \in 1 .. Len(samples) - 1 : At(i) <= u /\ u < At(i + 1)
    BY <1>5, <2>1, Within
  <2>3. i \in 1 .. Len(samples) /\ i + 1 \in 1 .. Len(samples)
    BY TraceTypes
  <2>4. At(i) \in Nat /\ At(i + 1) \in Nat /\ Watt(i) \in Int
    BY <2>3, TraceTypes
  <2>5. w <= At(i + 1)
    BY <2>2, <2>3, <2>4
  <2>6. PICK d \in Int : Slope(i, d)
    BY SlopeExists
  <2>. DEFINE v == Watt(i) + (u - At(i)) * d
  <2>7. v \in Int
    <3>1. u - At(i) \in Int
      BY <2>4
    <3>2. (u - At(i)) * d \in Int
      BY <3>1, Spread
    <3>. QED BY <2>4, <3>2
  <2>8. ASSUME NEW t \in u .. w PROVE PowerAt(t) = v + (t - u) * d
    <3>1. t \in Nat /\ At(i) <= t /\ t <= At(i + 1)
      BY <2>2, <2>4, <2>5
    <3>2. PowerAt(t) = Watt(i) + (t - At(i)) * d
      BY <2>6, <3>1, PowerBetween
    <3>3. (t - At(i)) * d = (u - At(i)) * d + (t - u) * d /\ (u - At(i)) * d \in Int /\ (t - u) * d \in Int
      <4>. DEFINE x == u - At(i)
                  y == t - u
      <4>1. x \in Int /\ y \in Int /\ t - At(i) = x + y
        BY <2>4, <3>1
      <4>. HIDE DEF x, y
      <4>2. (x + y) * d = x * d + y * d /\ x * d \in Int /\ y * d \in Int
        BY <4>1, Spread
      <4>. QED BY <4>1, <4>2 DEF x, y
    <3>. DEFINE x == (u - At(i)) * d
                y == (t - u) * d
    <3>4. Watt(i) + (x + y) = (Watt(i) + x) + y
      <4>1. x \in Int /\ y \in Int
        BY <3>3
      <4>. HIDE DEF x, y
      <4>. QED BY <2>4, <4>1
    <3>. QED BY <3>2, <3>3, <3>4, Zenon
  <2>9. Line(u, w, v, d)
    BY <2>8 DEF Line
  <2>. HIDE DEF v
  <2>. QED BY <2>7, <2>9, CellsOfLine
<1>. QED BY <1>1, <1>3, <1>4, <1>5

(* A trapezoid of a trace.                                                 *)
Trapezoid(x, y) == (x.p + y.p) * (y.t - x.t)

(* A trace that grows by one point gains the last trapezoid.               *)
LEMMA EnergyOfOne ==
  ASSUME NEW x PROVE integrate_energy(<<x>>) = 0
<1>1. Len(<<x>>) = 1 /\ 1 .. 1 - 1 = {}
  OBVIOUS
<1>2. \A f : Total(f, {}) = 0
  <2>1. SUFFICES ASSUME NEW f PROVE Total(f, {}) = 0
    OBVIOUS
  <2>2. IsFiniteSet({}) /\ \A y \in {} : f[y] \in Int
    BY FS_EmptySet
  <2>. QED BY <2>2, TotalTypes
<1>. QED BY <1>1, <1>2 DEF integrate_energy

LEMMA EnergyGrows ==
  ASSUME NEW s \in Seq(Points), Len(s) >= 1, NEW x \in Points
  PROVE  /\ integrate_energy(s) \in Int
         /\ integrate_energy(Append(s, x)) = integrate_energy(s) + Trapezoid(s[Len(s)], x)
<1>. DEFINE n == Len(s)
            r == Append(s, x)
            P == 1 .. n - 1
            f == [i \in P |-> (s[i].p + s[i + 1].p) * (s[i + 1].t - s[i].t)]
            Q == 1 .. n
            g == [i \in Q |-> (r[i].p + r[i + 1].p) * (r[i + 1].t - r[i].t)]
<1>1. n \in Nat /\ n >= 1 /\ s \in [1 .. n -> Points]
  BY LenProperties
<1>2. r \in Seq(Points) /\ Len(r) = n + 1 /\ r[n + 1] = x /\ \A i \in 1 .. n : r[i] = s[i]
  BY <1>1, AppendProperties
<1>3. integrate_energy(s) = Total(f, P)
  BY DEF integrate_energy
<1>4. integrate_energy(r) = Total(g, Q)
  <2>1. Len(r) - 1 = n
    BY <1>1, <1>2
  <2>. HIDE DEF r, n
  <2>. QED BY <2>1 DEF integrate_energy
<1>5. \A i \in Q : i \in Nat /\ i + 1 \in 1 .. n + 1 /\ i \in 1 .. n + 1
  BY <1>1
<1>6. \A i \in 1 .. n + 1 : r[i].p \in Int /\ r[i].t \in Nat
  <2>1. r \in [1 .. n + 1 -> Points]
    BY <1>2, LenProperties
  <2>. HIDE DEF r, n
  <2>. QED BY <2>1 DEF Points
<1>7. \A i \in Q : g[i] \in Int
  <2>1. ASSUME NEW i \in Q PROVE g[i] \in Int
    <3>. DEFINE a == r[i].p + r[i + 1].p
                b == r[i + 1].t - r[i].t
    <3>1. a \in Int /\ b \in Int
      <4>. HIDE DEF r, n
      <4>. QED BY <1>5, <1>6
    <3>2. g[i] = a * b
      OBVIOUS
    <3>. HIDE DEF a, b, g
    <3>3. a * b \in Int
      BY <3>1
    <3>. QED BY <3>2, <3>3
  <2>. QED BY <2>1
<1>8. \A i \in P : f[i] = g[i]
  <2>1. \A i \in P : i \in Q /\ i \in 1 .. n /\ i + 1 \in 1 .. n
    BY <1>1
  <2>2. \A i \in P : r[i] = s[i] /\ r[i + 1] = s[i + 1]
    BY <1>2, <2>1
  <2>. HIDE DEF r, n
  <2>. QED BY <2>1, <2>2
<1>9. g[n] = Trapezoid(s[n], x)
  <2>1. n \in Q /\ r[n] = s[n] /\ r[n + 1] = x
    BY <1>1, <1>2
  <2>. HIDE DEF r, n
  <2>. QED BY <2>1 DEF Trapezoid
<1>10. IsFiniteSet(Q) /\ IsFiniteSet(P) /\ Q \in SUBSET Q /\ n \in Q /\ Q \ {n} = P /\ P \subseteq Q
  <2>1. IsFiniteSet(Q) /\ IsFiniteSet(P)
    BY <1>1, FS_Interval
  <2>2. n \in Q /\ Q \ {n} = P /\ P \subseteq Q
    <3>. HIDE DEF n
    <3>. QED BY <1>1
  <2>. QED BY <2>1, <2>2
<1>. HIDE DEF f, g, P, Q, n, r
<1>11. Total(g, Q) = g[n] + Total(g, Q \ {n})
  BY <1>7, <1>10, TotalRemoves
<1>12. \A i \in P : f[i] \in Int
  BY <1>7, <1>8, <1>10
<1>13. Total(f, P) = Total(g, P)
  BY <1>8, <1>10, <1>12, TotalOfSame
<1>14. Total(f, P) \in Int
  BY <1>10, <1>12, TotalTypes
<1>15. g[n] \in Int
  BY <1>7, <1>10
<1>16. Total(g, Q) = Total(f, P) + g[n]
  <2>. DEFINE a == Total(f, P)
              b == g[n]
  <2>1. Total(g, Q) = b + a
    BY <1>10, <1>11, <1>13, Zenon
  <2>2. a \in Int /\ b \in Int
    BY <1>14, <1>15
  <2>. HIDE DEF a, b
  <2>3. Total(g, Q) = a + b
    BY <2>1, <2>2
  <2>. QED BY <2>3 DEF a, b
<1>. QED BY <1>3, <1>4, <1>9, <1>14, <1>16 DEF n, r

(* clip_samples' recursion, one sample at a time, has a solution.          *)
Extend(f, s, t0, t1, n) ==
  IF n = 0 THEN <<>>
  ELSE IF t0 < s[n].t /\ s[n].t < t1 THEN Append(f[n - 1], s[n]) ELSE f[n - 1]

IsInterior(f, s, t0, t1, m) == f = [n \in 0 .. m |-> Extend(f, s, t0, t1, n)]

LEMMA InteriorExists ==
  ASSUME NEW s, NEW t0, NEW t1, NEW m \in Nat
  PROVE  \E f : IsInterior(f, s, t0, t1, m)
<1>. DEFINE T == {k \in 0 .. m : \E f : IsInterior(f, s, t0, t1, k)}
<1>1. 0 \in T
  <2>. DEFINE f == [n \in 0 .. 0 |-> <<>>]
  <2>1. \A n \in 0 .. 0 : <<>> = Extend(f, s, t0, t1, n)
    BY DEF Extend
  <2>2. [n \in 0 .. 0 |-> <<>>] = [n \in 0 .. 0 |-> Extend(f, s, t0, t1, n)]
    <3>. HIDE DEF f
    <3>. QED BY <2>1
  <2>3. IsInterior(f, s, t0, t1, 0)
    BY <2>2 DEF IsInterior
  <2>. QED BY <2>3
<1>2. ASSUME NEW k \in 0 .. m - 1, k \in T PROVE k + 1 \in T
  <2>1. PICK f : IsInterior(f, s, t0, t1, k)
    BY <1>2
  <2>2. \A n \in 0 .. k : f[n] = Extend(f, s, t0, t1, n)
    BY <2>1 DEF IsInterior
  <2>. DEFINE S == 0 .. k + 1
              h(n) == IF n = k + 1 THEN Extend(f, s, t0, t1, k + 1) ELSE f[n]
              g == [n \in S |-> h(n)]
  <2>3. k \in Nat /\ k \in S /\ k + 1 \in S /\ k + 1 # 0 /\ k # k + 1 /\ (k + 1) - 1 = k
    OBVIOUS
  <2>4. ASSUME NEW n \in S PROVE h(n) = Extend(g, s, t0, t1, n)
    <3>1. CASE n = k + 1
      <4>1. g[k] = f[k]
        BY <2>3
      <4>. HIDE DEF g
      <4>. QED BY <2>3, <3>1, <4>1 DEF Extend
    <3>2. CASE n # k + 1
      <4>1. n \in 0 .. k
        BY <2>3, <3>2
      <4>2. h(n) = Extend(f, s, t0, t1, n)
        BY <2>2, <3>2, <4>1
      <4>3. n # 0 => n - 1 \in S /\ n - 1 # k + 1
        BY <4>1
      <4>4. n # 0 => g[n - 1] = f[n - 1]
        BY <4>3
      <4>. HIDE DEF g, h
      <4>. QED BY <4>2, <4>4 DEF Extend
    <3>. QED BY <3>1, <3>2
  <2>5. [n \in S |-> h(n)] = [n \in S |-> Extend(g, s, t0, t1, n)]
    <3>. HIDE DEF g, h, S
    <3>. QED BY <2>4
  <2>6. IsInterior(g, s, t0, t1, k + 1)
    BY <2>5 DEF IsInterior
  <2>7. k + 1 \in 0 .. m
    OBVIOUS
  <2>. QED BY <2>6, <2>7
<1>. HIDE DEF T
<1>3. \A k \in 0 .. m : k \in T
  BY <1>1, <1>2, UpTo
<1>. QED BY <1>3 DEF T

LEMMA ClipMeans ==
  ASSUME NEW s \in Seq(Points), Len(s) >= 2, NEW t0 \in Nat, NEW t1 \in Nat, t0 < t1
  PROVE  \E f : /\ \A n \in 0 .. Len(s) : f[n] = Extend(f, s, t0, t1, n)
                /\ clip_samples(s, t0, t1) = <<Point(t0, _interp_power(s, t0))>> \o f[Len(s)]
                                               \o <<Point(t1, _interp_power(s, t1))>>
<1>. DEFINE f == CHOOSE g : IsInterior(g, s, t0, t1, Len(s))
<1>1. Len(s) \in Nat /\ ~(Len(s) < 2 \/ t1 <= t0)
  BY LenProperties
<1>2. IsInterior(f, s, t0, t1, Len(s))
  <2>1. \E g : IsInterior(g, s, t0, t1, Len(s))
    BY <1>1, InteriorExists
  <2>. QED BY <2>1, Zenon
<1>3. clip_samples(s, t0, t1) = <<Point(t0, _interp_power(s, t0))>> \o f[Len(s)]
                                  \o <<Point(t1, _interp_power(s, t1))>>
  BY <1>1 DEF clip_samples, IsInterior, Extend
<1>4. \A n \in 0 .. Len(s) : f[n] = Extend(f, s, t0, t1, n)
  <2>. HIDE DEF f
  <2>. QED BY <1>2 DEF IsInterior
<1>. HIDE DEF f
<1>. QED BY <1>3, <1>4

(* A sample's own power.                                                   *)
LEMMA AtSample ==
  ASSUME TraceInv, Len(samples) >= 2, NEW j \in 1 .. Len(samples)
  PROVE  PowerAt(At(j)) = Watt(j)
<1>1. At(j) \in Nat /\ Watt(j) \in Int /\ Len(samples) \in Nat
  BY TraceTypes
<1>2. CASE j = Len(samples)
  <2>1. At(j) >= At(Len(samples))
    BY <1>1, <1>2
  <2>. QED BY <1>1, <1>2, <2>1, PowerOutside
<1>3. CASE j # Len(samples)
  <2>1. j \in 1 .. Len(samples) - 1 /\ j + 1 \in 1 .. Len(samples) /\ j < j + 1
    BY <1>1, <1>3
  <2>2. PICK d \in Int : Slope(j, d)
    BY <2>1, SlopeExists
  <2>3. At(j) <= At(j + 1) /\ At(j) <= At(j)
    <3>1. At(j) < At(j + 1) /\ At(j + 1) \in Nat
      BY <2>1, TraceTypes
    <3>. QED BY <1>1, <3>1
  <2>4. PowerAt(At(j)) = Watt(j) + (At(j) - At(j)) * d
    BY <1>1, <2>1, <2>2, <2>3, PowerBetween
  <2>5. At(j) - At(j) = 0 /\ 0 * d = 0 /\ Watt(j) + 0 = Watt(j)
    BY <1>1
  <2>. QED BY <2>4, <2>5, Zenon
<1>. QED BY <1>2, <1>3

(* What has been clipped after i samples: it ends at u, the last of them   *)
(* in the window, and comes to the power's energy up to there.             *)
Reaches(K, u, t0, t1, i) ==
  /\ K \in Seq(Points) /\ Len(K) >= 1 /\ K[Len(K)] = Point(u, PowerAt(u))
  /\ u \in Nat /\ t0 <= u /\ u < t1
  /\ u = t0 \/ \E j \in 1 .. i : u = At(j)
  /\ \A j \in 1 .. i : ~(u < At(j) /\ At(j) < t1)
  /\ integrate_energy(K) = Cells(t0, u)

LEMMA ReachesOn ==
  ASSUME TraceInv, Len(samples) >= 2, NEW K, NEW u, NEW t0 \in Nat, NEW t1 \in Nat,
         NEW i \in 0 .. Len(samples), Reaches(K, u, t0, t1, i),
         NEW w \in Nat, u <= w, \A j \in 1 .. Len(samples) : ~(u < At(j) /\ At(j) < w)
  PROVE  integrate_energy(Append(K, Point(w, PowerAt(w)))) = Cells(t0, w)
<1>. DEFINE x == Point(u, PowerAt(u))
            y == Point(w, PowerAt(w))
<1>1. K \in Seq(Points) /\ Len(K) >= 1 /\ K[Len(K)] = x /\ u \in Nat /\ t0 <= u
      /\ integrate_energy(K) = Cells(t0, u)
  BY DEF Reaches
<1>2. PowerAt(w) \in Int
  BY PowerIsInt
<1>3. y \in Points /\ y.p = PowerAt(w) /\ y.t = w /\ x.p = PowerAt(u) /\ x.t = u
  BY <1>2 DEF Point, Points
<1>4. Trapezoid(x, y) = (PowerAt(u) + PowerAt(w)) * (w - u)
  <2>. HIDE DEF x, y
  <2>. QED BY <1>3 DEF Trapezoid
<1>5. Cells(u, w) = (PowerAt(u) + PowerAt(w)) * (w - u)
  BY <1>1, Segment
<1>6. Cells(t0, w) = Cells(t0, u) + Cells(u, w)
  BY <1>1, CellsJoin
<1>. HIDE DEF x, y
<1>7. integrate_energy(Append(K, y)) = integrate_energy(K) + Trapezoid(K[Len(K)], y)
  BY <1>1, <1>3, EnergyGrows
<1>8. integrate_energy(Append(K, y)) = Cells(t0, w)
  BY <1>1, <1>4, <1>5, <1>6, <1>7, Zenon
<1>. QED BY <1>8 DEF y

LEMMA ReachesNext ==
  ASSUME TraceInv, Len(samples) >= 2, NEW K, NEW u, NEW t0 \in Nat, NEW t1 \in Nat,
         NEW i \in 0 .. Len(samples) - 1, Reaches(K, u, t0, t1, i)
  PROVE  /\ t0 < At(i + 1) /\ At(i + 1) < t1 => Reaches(Append(K, samples[i + 1]), At(i + 1), t0, t1, i + 1)
         /\ ~(t0 < At(i + 1) /\ At(i + 1) < t1) => Reaches(K, u, t0, t1, i + 1)
<1>. DEFINE k == i + 1
            w == At(k)
            n == Len(samples)
<1>1. /\ n \in Nat /\ k \in 1 .. n /\ i \in 0 .. n /\ \A j \in 1 .. k : j \in 1 .. i \/ j = k
      /\ 1 .. i \subseteq 1 .. k /\ 1 .. k \subseteq 1 .. n /\ k \in 1 .. k
  BY TraceTypes
<1>2. samples[k] \in Points /\ w \in Nat /\ Watt(k) \in Int
  BY <1>1, TraceTypes
<1>3. /\ K \in Seq(Points) /\ Len(K) >= 1 /\ K[Len(K)] = Point(u, PowerAt(u))
      /\ u \in Nat /\ t0 <= u /\ u < t1
      /\ integrate_energy(K) = Cells(t0, u)
  BY DEF Reaches
<1>4. u = t0 \/ \E j \in 1 .. i : u = At(j)
  BY DEF Reaches
<1>5. \A j \in 1 .. i : ~(u < At(j) /\ At(j) < t1)
  BY DEF Reaches
<1>6. CASE t0 < w /\ w < t1
  <2>1. samples[k] = Point(w, PowerAt(w))
    <3>1. samples[k] = [t |-> w, p |-> Watt(k)]
      BY <1>2 DEF Points, At, Watt
    <3>. QED BY <1>1, <3>1, AtSample DEF Point
  <2>2. u <= w
    <3>1. CASE u = t0
      BY <1>2, <1>6, <3>1
    <3>2. CASE \E j \in 1 .. i : u = At(j)
      <4>1. PICK j \in 1 .. i : u = At(j)
        BY <3>2
      <4>2. j \in 1 .. n /\ j < k
        BY <1>1
      <4>3. At(j) < w
        BY <1>1, <4>2, TraceTypes
      <4>. QED BY <1>2, <1>3, <4>1, <4>3
    <3>. QED BY <1>4, <3>1, <3>2
  <2>3. ASSUME NEW j \in 1 .. n, u < At(j), At(j) < w PROVE FALSE
    <3>1. At(j) \in Nat /\ At(j) < t1
      BY <1>2, <1>6, <2>3, TraceTypes
    <3>2. j < k
      BY <1>1, <2>3, TraceTypes
    <3>3. j \in 1 .. i
      BY <1>1, <3>2
    <3>. QED BY <1>5, <2>3, <3>1, <3>3
  <2>4. integrate_energy(Append(K, Point(w, PowerAt(w)))) = Cells(t0, w)
    BY <1>1, <1>2, <2>2, <2>3, ReachesOn
  <2>5. /\ Append(K, samples[k]) \in Seq(Points) /\ Len(Append(K, samples[k])) = Len(K) + 1
        /\ Append(K, samples[k])[Len(K) + 1] = samples[k]
    BY <1>2, <1>3, AppendProperties
  <2>6. Len(K) \in Nat
    BY <1>3, LenProperties
  <2>7. ASSUME NEW j \in 1 .. k PROVE ~(w < At(j) /\ At(j) < t1)
    <3>1. ~(k < j) /\ j \in 1 .. n
      BY <1>1
    <3>2. ~(At(k) < At(j))
      BY <1>1, <3>1, TraceTypes
    <3>. QED BY <3>2
  <2>8. /\ Len(Append(K, samples[k])) >= 1
        /\ Append(K, samples[k])[Len(Append(K, samples[k]))] = Point(w, PowerAt(w))
    BY <2>1, <2>5, <2>6
  <2>9. w \in Nat /\ t0 <= w /\ w < t1
    BY <1>2, <1>6
  <2>10. integrate_energy(Append(K, samples[k])) = Cells(t0, w)
    BY <2>1, <2>4
  <2>11. \E j \in 1 .. k : w = At(j)
    BY <1>1
  <2>12. Append(K, samples[k]) \in Seq(Points)
    BY <2>5
  <2>. HIDE DEF w, k
  <2>13. Reaches(Append(K, samples[k]), w, t0, t1, k)
    BY <2>7, <2>8, <2>9, <2>10, <2>11, <2>12, Zenon DEF Reaches
  <2>. QED BY <1>6, <2>13 DEF w, k
<1>7. CASE ~(t0 < w /\ w < t1)
  <2>1. ASSUME NEW j \in 1 .. k PROVE ~(u < At(j) /\ At(j) < t1)
    <3>1. CASE j \in 1 .. i
      BY <1>5, <3>1
    <3>2. CASE j = k
      BY <1>2, <1>3, <1>7, <3>2
    <3>. QED BY <1>1, <3>1, <3>2
  <2>2. u = t0 \/ \E j \in 1 .. k : u = At(j)
    BY <1>1, <1>4
  <2>. HIDE DEF w, k
  <2>3. Reaches(K, u, t0, t1, k)
    BY <1>3, <2>1, <2>2, Zenon DEF Reaches
  <2>. QED BY <1>7, <2>3 DEF w, k
<1>. QED BY <1>6, <1>7

LEMMA ClipIsSum ==
  ASSUME TraceInv, Len(samples) >= 2, NEW t0 \in Nat, NEW t1 \in Nat
  PROVE  energy_j(t0, t1) = Cells(t0, t1)
<1>. DEFINE n == Len(samples)
<1>1. n \in Nat /\ samples \in Seq(Points)
  BY TraceTypes DEF TraceInv
<1>2. CASE t1 <= t0
  <2>1. clip_samples(samples, t0, t1) = <<>>
    BY <1>2 DEF clip_samples
  <2>2. integrate_energy(<<>>) = 0
    <3>1. Len(<<>>) = 0 /\ 1 .. 0 - 1 = {}
      OBVIOUS
    <3>2. \A f : Total(f, {}) = 0
      <4>1. SUFFICES ASSUME NEW f PROVE Total(f, {}) = 0
        OBVIOUS
      <4>2. IsFiniteSet({}) /\ \A y \in {} : f[y] \in Int
        BY FS_EmptySet
      <4>. QED BY <4>2, TotalTypes
    <3>. QED BY <3>1, <3>2 DEF integrate_energy
  <2>. QED BY <1>2, <2>1, <2>2, CellsOfNone DEF energy_j
<1>3. CASE t0 < t1
  <2>. DEFINE P == Point(t0, PowerAt(t0))
              Q == Point(t1, PowerAt(t1))
  <2>1. PICK f : /\ \A i \in 0 .. n : f[i] = Extend(f, samples, t0, t1, i)
                 /\ clip_samples(samples, t0, t1) = <<Point(t0, _interp_power(samples, t0))>> \o f[n]
                                                      \o <<Point(t1, _interp_power(samples, t1))>>
    BY <1>1, <1>3, ClipMeans
  <2>2. clip_samples(samples, t0, t1) = <<P>> \o f[n] \o <<Q>>
    BY <2>1, InterpIsExact
  <2>3. P \in Points /\ Q \in Points
    BY PowerIsInt DEF Point, Points
  <2>. DEFINE T == {i \in 0 .. n : f[i] \in Seq(Points) /\ \E u : Reaches(<<P>> \o f[i], u, t0, t1, i)}
  <2>4. 0 \in T
    <3>1. f[0] = <<>> /\ 0 \in 0 .. n
      BY <1>1, <2>1 DEF Extend
    <3>2. <<P>> \o <<>> = <<P>> /\ <<P>> \in Seq(Points) /\ Len(<<P>>) = 1 /\ <<P>>[1] = P /\ <<>> \in Seq(Points)
      <4>. HIDE DEF P
      <4>1. <<P>> \in Seq(Points) /\ <<>> \in Seq(Points)
        BY <2>3
      <4>. QED BY <4>1, ConcatEmptySeq
    <3>3. integrate_energy(<<P>>) = Cells(t0, t0)
      <4>1. Cells(t0, t0) = 0
        BY CellsOfNone
      <4>. QED BY <4>1, EnergyOfOne
    <3>4. Reaches(<<P>>, t0, t0, t1, 0)
      <4>1. <<P>> \in Seq(Points) /\ Len(<<P>>) >= 1 /\ <<P>>[Len(<<P>>)] = Point(t0, PowerAt(t0))
        BY <3>2
      <4>2. t0 \in Nat /\ t0 <= t0 /\ t0 < t1
        BY <1>3
      <4>3. \A j \in 1 .. 0 : ~(t0 < At(j) /\ At(j) < t1)
        OBVIOUS
      <4>. HIDE DEF P
      <4>. QED BY <3>3, <4>1, <4>2, <4>3, Zenon DEF Reaches
    <3>. HIDE DEF P
    <3>. QED BY <3>1, <3>2, <3>4
  <2>5. ASSUME NEW i \in 0 .. n - 1, i \in T PROVE i + 1 \in T
    <3>1. i + 1 \in 0 .. n /\ i + 1 # 0 /\ (i + 1) - 1 = i /\ i \in 0 .. n /\ i + 1 \in 1 .. n
      BY <1>1
    <3>2. PICK u : Reaches(<<P>> \o f[i], u, t0, t1, i)
      BY <2>5
    <3>3. f[i] \in Seq(Points) /\ samples[i + 1] \in Points
      BY <2>5, <3>1, TraceTypes
    <3>4. f[i + 1] = IF t0 < At(i + 1) /\ At(i + 1) < t1 THEN Append(f[i], samples[i + 1]) ELSE f[i]
      BY <2>1, <3>1 DEF Extend, At
    <3>. DEFINE k == i + 1
                K == <<P>> \o f[i]
    <3>5. /\ t0 < At(k) /\ At(k) < t1 => Reaches(Append(K, samples[k]), At(k), t0, t1, k)
          /\ ~(t0 < At(k) /\ At(k) < t1) => Reaches(K, u, t0, t1, k)
      <4>. HIDE DEF K
      <4>. QED BY <3>2, ReachesNext DEF K
    <3>6. Append(K, samples[k]) = <<P>> \o Append(f[i], samples[k]) /\ Append(f[i], samples[k]) \in Seq(Points)
      <4>. DEFINE s == f[i]
                  x == samples[k]
      <4>1. s \in Seq(Points) /\ x \in Points /\ <<P>> \in Seq(Points) /\ <<x>> \in Seq(Points)
        BY <2>3, <3>3
      <4>. HIDE DEF s, x, P
      <4>2. Append(s, x) = s \o <<x>> /\ Append(<<P>> \o s, x) = (<<P>> \o s) \o <<x>>
        <5>1. <<P>> \o s \in Seq(Points)
          BY <4>1, ConcatProperties
        <5>. QED BY <4>1, <5>1, AppendIsConcat
      <4>3. (<<P>> \o s) \o <<x>> = <<P>> \o (s \o <<x>>)
        BY <4>1, ConcatAssociative
      <4>4. Append(s, x) \in Seq(Points)
        BY <4>1, AppendProperties
      <4>. QED BY <4>2, <4>3, <4>4 DEF s, x
    <3>. HIDE DEF P
    <3>7. CASE t0 < At(k) /\ At(k) < t1
      <4>1. f[k] = Append(f[i], samples[k]) /\ K = <<P>> \o f[i]
        BY <3>4, <3>7
      <4>2. Reaches(<<P>> \o f[k], At(k), t0, t1, k) /\ f[k] \in Seq(Points)
        <5>. HIDE DEF K, k
        <5>. QED BY <3>5, <3>6, <3>7, <4>1
      <4>. QED BY <3>1, <4>2
    <3>8. CASE ~(t0 < At(k) /\ At(k) < t1)
      <4>1. f[k] = f[i] /\ K = <<P>> \o f[i]
        BY <3>4, <3>8
      <4>2. Reaches(<<P>> \o f[k], u, t0, t1, k) /\ f[k] \in Seq(Points)
        <5>. HIDE DEF K, k
        <5>. QED BY <3>3, <3>5, <3>8, <4>1
      <4>. QED BY <3>1, <4>2
    <3>. QED BY <3>7, <3>8
  <2>6. f[n] \in Seq(Points) /\ \E u : Reaches(<<P>> \o f[n], u, t0, t1, n)
    <3>. HIDE DEF T
    <3>1. n \in T
      <4>1. \A i \in 0 .. n : i \in T
        BY <1>1, <2>4, <2>5, UpTo
      <4>. QED BY <1>1, <4>1
    <3>. QED BY <3>1 DEF T
  <2>7. PICK u : Reaches(<<P>> \o f[n], u, t0, t1, n)
    BY <2>6
  <2>8. u <= t1 /\ (\A j \in 1 .. n : ~(u < At(j) /\ At(j) < t1)) /\ <<P>> \o f[n] \in Seq(Points)
    BY <2>7 DEF Reaches
  <2>9. integrate_energy(Append(<<P>> \o f[n], Q)) = Cells(t0, t1)
    <3>1. n \in 0 .. n
      BY <1>1
    <3>. DEFINE K == <<P>> \o f[n]
    <3>2. Reaches(K, u, t0, t1, n)
      BY <2>7
    <3>. HIDE DEF K, P
    <3>. QED BY <2>8, <3>1, <3>2, ReachesOn DEF K
  <2>10. Append(<<P>> \o f[n], Q) = <<P>> \o f[n] \o <<Q>>
    <3>. DEFINE K == <<P>> \o f[n]
    <3>1. K \in Seq(Points)
      BY <2>8
    <3>. HIDE DEF K, Q
    <3>2. Append(K, Q) = K \o <<Q>>
      BY <2>3, <3>1, AppendIsConcat
    <3>. QED BY <3>2 DEF K
  <2>. QED BY <2>2, <2>9, <2>10, Zenon DEF energy_j
<1>. QED BY <1>2, <1>3

(* The trace grows as TraceInv says.                                       *)
LEMMA TraceStarts == ASSUME samples = <<>> PROVE TraceInv
BY EmptySeq DEF TraceInv

LEMMA TraceGrows == TraceInv /\ TakeSample => TraceInv'
<1>. SUFFICES ASSUME TraceInv, TakeSample PROVE TraceInv'
  OBVIOUS
<1>. DEFINE n == Len(samples)
            last == IF samples = <<>> THEN 0 ELSE samples[n].t
<1>1. PICK p \in Powers, g \in 1 .. MaxGap : samples' = Append(samples, Point(last + g, p * Scale))
  BY DEF TakeSample
<1>. DEFINE x == Point(last + g, p * Scale)
<1>2. n \in Nat /\ samples \in Seq(Points) /\ \A i \in 1 .. n : samples[i] \in Points /\ samples[i].t \in Nat
  BY TraceTypes DEF TraceInv, At
<1>3. samples = <<>> <=> n = 0
  <2>1. samples # <<>> => n \in Nat \ {0}
    BY <1>2, EmptySeq
  <2>2. samples = <<>> => n = 0
    BY EmptySeq
  <2>. QED BY <2>1, <2>2
<1>4. last \in Nat
  <2>1. CASE samples = <<>>
    BY <2>1
  <2>2. CASE samples # <<>>
    <3>1. n \in 1 .. n
      BY <1>2, <1>3, <2>2
    <3>. QED BY <1>2, <2>2, <3>1
  <2>. QED BY <2>1, <2>2
<1>5. p \in Nat /\ Scale \in Nat /\ g \in Nat /\ g >= 1 /\ MaxGap \in Nat
  BY TraceAssumption
<1>6. p * Scale \in Int
  BY <1>5
<1>7. x \in Points /\ x.t = last + g /\ x.p = p * Scale /\ last + g \in Nat
  BY <1>4, <1>5, <1>6 DEF Point, Points
<1>. HIDE DEF x
<1>8. /\ samples' \in Seq(Points) /\ Len(samples') = n + 1 /\ samples'[n + 1] = x
      /\ \A i \in 1 .. n : samples'[i] = samples[i]
  <2>1. samples' = Append(samples, x)
    BY <1>1 DEF x
  <2>. QED BY <1>2, <1>7, <2>1, AppendProperties
<1>9. \A i \in 1 .. n : samples[i].t <= last
  <2>1. SUFFICES ASSUME NEW i \in 1 .. n PROVE samples[i].t <= last
    OBVIOUS
  <2>2. last = samples[n].t /\ n \in 1 .. n
    BY <1>2, <1>3
  <2>3. CASE i = n
    BY <1>2, <2>2, <2>3
  <2>4. CASE i # n
    <3>1. i < n
      BY <1>2, <2>4
    <3>2. At(i) < At(n)
      BY <2>2, <3>1, TraceTypes
    <3>. QED BY <1>2, <2>2, <3>2 DEF At
  <2>. QED BY <2>3, <2>4
<1>. DEFINE s == samples'
<1>10. \A i \in 1 .. n + 1 : i \in 1 .. n \/ i = n + 1
  BY <1>2
<1>11. \A i \in 1 .. n : i < n + 1 /\ ~(n + 1 < i)
  BY <1>2
<1>12. \A i \in 1 .. n + 1 : \E q \in Nat : s[i].p = q * Scale
  <2>1. SUFFICES ASSUME NEW i \in 1 .. n + 1 PROVE \E q \in Nat : s[i].p = q * Scale
    OBVIOUS
  <2>2. CASE i \in 1 .. n
    BY <1>8, <2>2 DEF TraceInv, Watt
  <2>3. CASE i = n + 1
    BY <1>5, <1>7, <1>8, <2>3
  <2>. QED BY <1>10, <2>2, <2>3
<1>13. \A i, j \in 1 .. n + 1 : i < j => s[i].t < s[j].t
  <2>1. SUFFICES ASSUME NEW i \in 1 .. n + 1, NEW j \in 1 .. n + 1, i < j PROVE s[i].t < s[j].t
    OBVIOUS
  <2>2. i \in 1 .. n
    BY <1>2, <2>1
  <2>3. CASE j \in 1 .. n
    BY <1>8, <2>1, <2>2, <2>3 DEF TraceInv, At
  <2>4. CASE j = n + 1
    <3>1. s[i].t = samples[i].t /\ s[j].t = last + g
      BY <1>7, <1>8, <2>2, <2>4
    <3>2. samples[i].t \in Nat /\ samples[i].t <= last
      BY <1>2, <1>9, <2>2
    <3>. QED BY <1>4, <1>5, <3>1, <3>2
  <2>. QED BY <1>10, <2>3, <2>4
<1>14. \A i \in 1 .. n : s[i + 1].t - s[i].t \in 1 .. MaxGap
  <2>1. SUFFICES ASSUME NEW i \in 1 .. n PROVE s[i + 1].t - s[i].t \in 1 .. MaxGap
    OBVIOUS
  <2>2. CASE i = n
    <3>1. s[i].t = last
      BY <1>2, <1>3, <1>8, <2>2
    <3>2. s[i + 1].t = last + g
      BY <1>7, <1>8, <2>2
    <3>. QED BY <1>4, <3>1, <3>2
  <2>3. CASE i # n
    <3>1. i \in 1 .. n - 1 /\ i + 1 \in 1 .. n
      BY <1>2, <2>3
    <3>. QED BY <1>8, <3>1 DEF TraceInv, At
  <2>. QED BY <2>2, <2>3
<1>15. \A i \in 1 .. Len(s) : \E q \in Nat : s[i].p = q * Scale
  BY <1>8, <1>12
<1>16. \A i, j \in 1 .. Len(s) : i < j => s[i].t < s[j].t
  BY <1>8, <1>13
<1>17. \A i \in 1 .. Len(s) - 1 : s[i + 1].t - s[i].t \in 1 .. MaxGap
  BY <1>2, <1>8, <1>14
<1>. QED BY <1>8, <1>15, <1>16, <1>17 DEF TraceInv, At, Watt

LEMMA TraceStep == TraceInv /\ [PNext]_pvars => TraceInv'
<1>. SUFFICES ASSUME TraceInv, [PNext]_pvars PROVE TraceInv'
  OBVIOUS
<1>1. TakeSample \/ samples' = <<>> \/ samples' = samples
  BY DEF PNext, pvars, Uncaught, _torch_facts, _matmul_smoke, _nvml_facts, nvidia_smi, StartRaises,
         Start, Sample, LoadRaises, StopRaises, Stop, Gate
<1>2. CASE TakeSample
  BY <1>2, TraceGrows
<1>3. CASE samples' = <<>>
  <2>1. <<>> \in Seq(Points) /\ Len(<<>>) = 0
    BY EmptySeq
  <2>. QED BY <1>3, <2>1 DEF TraceInv, At, Watt
<1>4. CASE samples' = samples
  BY <1>4 DEF TraceInv, At, Watt
<1>. QED BY <1>1, <1>2, <1>3, <1>4

(* Between the least and the greatest reading.                             *)
LEMMA Held ==
  ASSUME NEW v \in Int, NEW p \in Int, NEW q \in Int, NEW g \in Nat
  PROVE  /\ v <= p /\ v <= q => (2 * g) * v <= (p + q) * g
         /\ p <= v /\ q <= v => (p + q) * g <= (2 * g) * v
         /\ (2 * g) * v \in Int /\ (p + q) * g \in Int
<1>. DEFINE e == (p + q) - (v + v)
<1>1. e \in Int /\ (p + q) = (v + v) + e
  OBVIOUS
<1>2. (p + q) * g = v * g + v * g + e * g /\ v * g \in Int /\ e * g \in Int
  <2>. HIDE DEF e
  <2>1. v + v \in Int
    OBVIOUS
  <2>2. ((v + v) + e) * g = (v + v) * g + e * g /\ e * g \in Int
    BY <1>1, <2>1, Spread
  <2>3. (v + v) * g = v * g + v * g /\ v * g \in Int
    BY Spread
  <2>. QED BY <1>1, <2>2, <2>3
<1>3. (2 * g) * v = v * g + v * g
  <2>1. (2 * g) = g + g
    OBVIOUS
  <2>2. (g + g) * v = g * v + g * v /\ g * v = v * g
    BY Spread
  <2>. QED BY <2>1, <2>2
<1>4. (e >= 0 => e * g >= 0) /\ (e <= 0 => e * g <= 0)
  <2>. HIDE DEF e
  <2>. QED BY <1>1
<1>5. (v <= p /\ v <= q => e >= 0) /\ (p <= v /\ q <= v => e <= 0)
  OBVIOUS
<1>. HIDE DEF e
<1>. QED BY <1>2, <1>3, <1>4, <1>5

LEMMA WattsAre ==
  ASSUME TraceInv, Len(samples) > 1
  PROVE  /\ watts # {} /\ watts \subseteq Nat /\ IsFiniteSet(watts) /\ Cardinality(watts) <= Len(samples)
         /\ \A i \in 1 .. Len(samples) : Watt(i) \in watts
<1>. DEFINE S == 1 .. Len(samples)
            f == [i \in S |-> Watt(i)]
<1>1. Len(samples) \in Nat /\ DOMAIN samples = S /\ 1 \in S
  BY LenProperties DEF TraceInv
<1>2. watts = {Watt(i) : i \in S}
  BY <1>1 DEF watts, Watt
<1>3. watts # {} /\ \A i \in S : Watt(i) \in watts
  BY <1>1, <1>2
<1>4. \A i \in S : Watt(i) \in Nat
  <2>1. SUFFICES ASSUME NEW i \in S PROVE Watt(i) \in Nat
    OBVIOUS
  <2>2. PICK q \in Nat : Watt(i) = q * Scale
    BY DEF TraceInv
  <2>3. q * Scale \in Nat
    <3>1. Scale \in Nat
      BY TraceAssumption
    <3>. QED BY <3>1
  <2>. QED BY <2>2, <2>3
<1>5. IsFiniteSet(S) /\ Cardinality(S) = Len(samples)
  BY <1>1, FS_Interval
<1>6. f \in Surjection(S, watts)
  BY <1>2 DEF Surjection
<1>. HIDE DEF S, f
<1>7. IsFiniteSet(watts) /\ Cardinality(watts) <= Cardinality(S)
  BY <1>5, <1>6, FS_Surjection
<1>8. watts \subseteq Nat
  BY <1>2, <1>4
<1>. QED BY <1>3, <1>5, <1>7, <1>8 DEF S

(* The least difference of two readings is one of neighbours.              *)
Gaps(W) == {v - w : v, w \in W} \cap (Nat \ {0})
Near(W, top) == {Min({v \in W : v > w}) - w : w \in W \ {top}}

LEMMA StepsAre ==
  ASSUME NEW W, IsFiniteSet(W), W \subseteq Nat, W # {}, NEW top, top = Max(W)
  PROVE  /\ Gaps(W) = {} => Near(W, top) = {} /\ Cardinality(W) = 1
         /\ Gaps(W) # {} => Near(W, top) # {} /\ Min(Near(W, top)) = Min(Gaps(W))
<1>. DEFINE gaps == {v - w : v, w \in W} \cap (Nat \ {0})
            above(w) == {v \in W : v > w}
            step(w) == Min(above(w)) - w
            near == {step(w) : w \in W \ {top}}
<1>0. Gaps(W) = gaps /\ Near(W, top) = near
  BY DEF Gaps, Near
<1>1. top \in W /\ \A x \in W : x <= top
  BY MaxIsGreatest
<1>2. ASSUME NEW w \in W, w # top
      PROVE  step(w) \in gaps /\ \A v \in W : v > w => step(w) <= v - w
  <2>. DEFINE A == above(w)
              a == Min(A)
  <2>1. A \subseteq Nat /\ A # {}
    <3>1. top > w
      BY <1>1, <1>2
    <3>2. top \in A
      BY <1>1, <3>1
    <3>. QED BY <3>2
  <2>2. a \in A /\ \A x \in A : a <= x
    <3>. HIDE DEF A
    <3>. QED BY <2>1, MinIsLeast
  <2>3. step(w) = a - w
    OBVIOUS
  <2>. HIDE DEF a, step
  <2>4. a \in W /\ a > w /\ a \in Nat /\ w \in Nat /\ \A v \in W : v > w => a <= v
    BY <2>2
  <2>5. a - w \in gaps
    BY <2>4
  <2>6. \A v \in W : v > w => a - w <= v - w
    BY <2>4
  <2>. QED BY <2>3, <2>5, <2>6
<1>3. near \subseteq gaps
  <2>. HIDE DEF gaps, step
  <2>. QED BY <1>2
<1>4. ASSUME gaps = {} PROVE near = {} /\ Cardinality(W) = 1
  <2>1. ASSUME NEW v \in W, NEW w \in W, v > w PROVE FALSE
    <3>1. v - w \in Nat \ {0}
      BY <2>1
    <3>2. v - w \in gaps
      BY <3>1
    <3>. HIDE DEF gaps
    <3>. QED BY <1>4, <3>2
  <2>2. W = {top}
    <3>1. ASSUME NEW w \in W PROVE w = top
      <4>1. ~(top > w) /\ w <= top
        BY <1>1, <2>1
      <4>. QED BY <1>1, <4>1
    <3>. QED BY <1>1, <3>1
  <2>3. Cardinality({top}) = 1
    BY FS_Singleton
  <2>. QED BY <1>3, <1>4, <2>2, <2>3
<1>5. ASSUME gaps # {} PROVE near # {} /\ Min(near) = Min(gaps)
  <2>. DEFINE g == Min(gaps)
              m == Min(near)
  <2>1. gaps \subseteq Nat
    OBVIOUS
  <2>2. g \in gaps /\ \A x \in gaps : g <= x
    <3>. HIDE DEF gaps
    <3>. QED BY <1>5, <2>1, MinIsLeast
  <2>3. PICK v \in W, w \in W : g = v - w /\ v > w
    <3>. HIDE DEF g
    <3>. QED BY <2>2
  <2>4. w # top
    BY <1>1, <2>3
  <2>5. step(w) \in near /\ step(w) <= g
    <3>. HIDE DEF step, g
    <3>. QED BY <1>2, <2>3, <2>4
  <2>6. m \in near /\ \A x \in near : m <= x
    <3>1. near \subseteq Nat /\ near # {}
      <4>. HIDE DEF near, gaps, step, g
      <4>. QED BY <1>3, <2>1, <2>5
    <3>. HIDE DEF near
    <3>. QED BY <3>1, MinIsLeast
  <2>. HIDE DEF g, m, near, gaps, step
  <2>7. m \in gaps /\ g <= m /\ m <= step(w) /\ step(w) \in gaps
    BY <1>3, <2>2, <2>5, <2>6
  <2>8. m = g
    <3>1. m \in Nat /\ g \in Nat /\ step(w) \in Nat
      BY <2>1, <2>2, <2>7
    <3>. QED BY <2>5, <2>7, <3>1
  <2>. QED BY <2>5, <2>8 DEF m, g
<1>. HIDE DEF near, gaps
<1>. QED BY <1>0, <1>4, <1>5

(* The energy of the first k segments lies between what the ends of the    *)
(* range come to over their time.                                          *)
LEMMA EnergyIsBetween ==
  ASSUME TraceInv, Len(samples) > 1, NEW lo \in Int, NEW hi \in Int,
         \A i \in 1 .. Len(samples) : lo <= Watt(i) /\ Watt(i) <= hi
  PROVE  /\ (2 * (At(Len(samples)) - At(1))) * lo <= integrate_energy(samples)
         /\ integrate_energy(samples) <= (2 * (At(Len(samples)) - At(1))) * hi
<1>. DEFINE n == Len(samples)
            S == 1 .. n - 1
            e(i) == (Watt(i) + Watt(i + 1)) * (At(i + 1) - At(i))
            f == [i \in S |-> e(i)]
            span(k) == At(k + 1) - At(1)
            T == {k \in 0 .. n - 1 : /\ (2 * span(k)) * lo <= Total(f, 1 .. k)
                                     /\ Total(f, 1 .. k) <= (2 * span(k)) * hi}
<1>1. n \in Nat /\ n > 1 /\ \A i \in 1 .. n : At(i) \in Nat /\ Watt(i) \in Int
  BY TraceTypes
<1>2. integrate_energy(samples) = Total(f, S)
  BY DEF integrate_energy, At, Watt
<1>3. IsFiniteSet(S)
  BY <1>1, FS_Interval
<1>4. ASSUME NEW i \in S
      PROVE  LET g == At(i + 1) - At(i)
             IN  f[i] \in Int /\ g \in Nat /\ (2 * g) * lo <= f[i] /\ f[i] <= (2 * g) * hi
  <2>. DEFINE g == At(i + 1) - At(i)
  <2>1. i \in 1 .. n /\ i + 1 \in 1 .. n /\ i < i + 1
    BY <1>1
  <2>2. At(i) < At(i + 1)
    BY <2>1, TraceTypes
  <2>3. g \in Nat /\ Watt(i) \in Int /\ Watt(i + 1) \in Int
    BY <1>1, <2>1, <2>2
  <2>4. f[i] = (Watt(i) + Watt(i + 1)) * g
    OBVIOUS
  <2>5. lo <= Watt(i) /\ lo <= Watt(i + 1) /\ Watt(i) <= hi /\ Watt(i + 1) <= hi
    BY <2>1
  <2>. HIDE DEF g, f
  <2>6. /\ (2 * g) * lo <= (Watt(i) + Watt(i + 1)) * g /\ (Watt(i) + Watt(i + 1)) * g <= (2 * g) * hi
        /\ (Watt(i) + Watt(i + 1)) * g \in Int
    BY <2>3, <2>5, Held
  <2>. QED BY <2>3, <2>4, <2>6 DEF g
<1>. HIDE DEF f
<1>5. \A i \in S : f[i] \in Int
  BY <1>4
<1>6. 0 \in T
  <2>1. 1 .. 0 = {} /\ 0 \in 0 .. n - 1 /\ span(0) = 0
    BY <1>1
  <2>2. Total(f, {}) = 0
    <3>. HIDE DEF S
    <3>. QED BY <1>3, <1>5, TotalTypes
  <2>3. (2 * 0) * lo = 0 /\ (2 * 0) * hi = 0
    OBVIOUS
  <2>4. (2 * span(0)) * lo = 0 /\ (2 * span(0)) * hi = 0
    BY <2>1, <2>3
  <2>. HIDE DEF span
  <2>. QED BY <2>1, <2>2, <2>4
<1>7. ASSUME NEW k \in 0 .. (n - 1) - 1, k \in T PROVE k + 1 \in T
  <2>. DEFINE i == k + 1
              g == At(i + 1) - At(i)
  <2>1. i \in S /\ i \in 0 .. n - 1 /\ i \in 1 .. n /\ i + 1 \in 1 .. n /\ 1 \in 1 .. n
    BY <1>1
  <2>2. (1 .. i) \ {i} = 1 .. k /\ 1 .. i \in SUBSET S /\ i \in 1 .. i /\ 1 .. k \in SUBSET S
    BY <1>1
  <2>3. Total(f, 1 .. i) = f[i] + Total(f, 1 .. k)
    <3>1. Total(f, 1 .. i) = f[i] + Total(f, (1 .. i) \ {i})
      <4>. DEFINE R == 1 .. i
      <4>1. R \in SUBSET S /\ i \in R
        BY <2>2
      <4>. HIDE DEF S, R, i
      <4>2. Total(f, R) = f[i] + Total(f, R \ {i})
        BY <1>3, <1>5, <4>1, TotalRemoves
      <4>. QED BY <4>2 DEF R
    <3>. QED BY <2>2, <3>1
  <2>4. Total(f, 1 .. k) \in Int
    <3>. DEFINE R == 1 .. k
    <3>1. R \in SUBSET S
      BY <2>2
    <3>. HIDE DEF S, R
    <3>2. Total(f, R) \in Int
      BY <1>3, <1>5, <3>1, TotalTypes
    <3>. QED BY <3>2 DEF R
  <2>5. f[i] \in Int /\ g \in Nat /\ (2 * g) * lo <= f[i] /\ f[i] <= (2 * g) * hi
    BY <1>4, <2>1
  <2>6. (2 * span(k)) * lo <= Total(f, 1 .. k) /\ Total(f, 1 .. k) <= (2 * span(k)) * hi
    BY <1>7
  <2>7. span(k) \in Int /\ span(i) = span(k) + g
    <3>1. At(1) \in Nat /\ At(i) \in Nat /\ At(i + 1) \in Nat
      BY <1>1, <2>1
    <3>. QED BY <3>1
  <2>8. ASSUME NEW v \in Int, NEW x \in Int, NEW y \in Int
        PROVE  (2 * (x + y)) * v = (2 * x) * v + (2 * y) * v /\ (2 * x) * v \in Int /\ (2 * y) * v \in Int
    <3>1. 2 * (x + y) = 2 * x + 2 * y /\ 2 * x \in Int /\ 2 * y \in Int
      OBVIOUS
    <3>. DEFINE a == 2 * x
                b == 2 * y
    <3>2. a \in Int /\ b \in Int
      BY <3>1
    <3>. HIDE DEF a, b
    <3>3. (a + b) * v = a * v + b * v /\ a * v \in Int /\ b * v \in Int
      BY <3>2, Spread
    <3>. QED BY <3>1, <3>3 DEF a, b
  <2>. DEFINE u == span(k)
              t == Total(f, 1 .. k)
  <2>9. u \in Int /\ g \in Int /\ t \in Int /\ span(i) = u + g
        /\ (2 * u) * lo <= t /\ t <= (2 * u) * hi
    BY <2>4, <2>5, <2>6, <2>7
  <2>10. Total(f, 1 .. i) = f[i] + t
    BY <2>3
  <2>. HIDE DEF u, t, g, span, i
  <2>11. /\ (2 * (u + g)) * lo = (2 * u) * lo + (2 * g) * lo /\ (2 * u) * lo \in Int /\ (2 * g) * lo \in Int
         /\ (2 * (u + g)) * hi = (2 * u) * hi + (2 * g) * hi /\ (2 * u) * hi \in Int /\ (2 * g) * hi \in Int
    BY <2>8, <2>9
  <2>12. (2 * (u + g)) * lo <= f[i] + t /\ f[i] + t <= (2 * (u + g)) * hi
    BY <2>5, <2>9, <2>11
  <2>13. (2 * span(i)) * lo <= Total(f, 1 .. i) /\ Total(f, 1 .. i) <= (2 * span(i)) * hi
    BY <2>9, <2>10, <2>12, Zenon
  <2>14. i \in T
    BY <2>1, <2>13
  <2>. QED BY <2>14 DEF i
<1>. HIDE DEF T
<1>8. \A k \in 0 .. n - 1 : k \in T
  <2>1. n - 1 \in Nat
    BY <1>1
  <2>. QED BY <1>6, <1>7, <2>1, UpTo
<1>9. n - 1 \in T /\ span(n - 1) = At(n) - At(1)
  BY <1>1, <1>8
<1>. HIDE DEF span
<1>10. (2 * span(n - 1)) * lo <= Total(f, S) /\ Total(f, S) <= (2 * span(n - 1)) * hi
  BY <1>9 DEF T
<1>. QED BY <1>2, <1>9, <1>10

(* What the probe puts into the record.                                    *)
LEMMA ProbeReports ==
  ASSUME DOMAIN record = Fields
  PROVE  /\ probe_record.energy_j = integrate_energy(samples)
         /\ probe_record.n_power_samples = Len(samples)
         /\ probe_record.distinct_power_values = Cardinality(watts)
         /\ probe_record.min_observed_step_w = IF steps # {} THEN Min(steps) ELSE None
         /\ watts # {} => probe_record.power_range_w = <<Min(watts), Max(watts)>>
BY DEF probe_record, Fields

LEMMA ClipFromInv == ASSUME TraceInv PROVE ClipIsExact
<1>1. SUFFICES ASSUME Len(samples) >= 2, NEW t0 \in Instants, NEW t1 \in Instants
               PROVE  energy_j(t0, t1) = Cells(t0, t1)
  BY DEF ClipIsExact, Cells
<1>2. Instants \subseteq Nat
  <2>1. At(Len(samples)) \in Nat /\ samples # <<>>
    <3>1. Len(<<>>) = 0
      BY EmptySeq
    <3>. QED BY <1>1, <3>1, TraceTypes
  <2>. QED BY <2>1 DEF Instants, At
<1>. QED BY <1>1, <1>2, ClipIsSum

LEMMA FiguresFromInv ==
  ASSUME TraceInv, stage = "load" => DOMAIN record = Fields PROVE TraceFiguresAreExact
<1>. DEFINE r == probe_record
            gaps == {v - w : v, w \in watts} \cap (Nat \ {0})
            span == samples[Len(samples)].t - samples[1].t
<1>1. ASSUME stage = "load", Len(samples) > 1
      PROVE  /\ IF gaps = {} THEN r.min_observed_step_w = None /\ r.distinct_power_values = 1
                ELSE r.min_observed_step_w = Min(gaps)
             /\ r.distinct_power_values <= r.n_power_samples
             /\ 2 * span * r.power_range_w[1] <= r.energy_j
             /\ r.energy_j <= 2 * span * r.power_range_w[2]
  <2>. DEFINE lo == Min(watts)
              hi == Max(watts)
              top == IF watts = {} THEN 0 ELSE Max(watts)
  <2>1. watts # {} /\ watts \subseteq Nat /\ IsFiniteSet(watts) /\ Cardinality(watts) <= Len(samples)
        /\ \A i \in 1 .. Len(samples) : Watt(i) \in watts
    BY <1>1, WattsAre
  <2>2. lo \in watts /\ hi \in watts /\ \A x \in watts : lo <= x /\ x <= hi
    BY <2>1, MinIsLeast, MaxIsGreatest
  <2>3. gaps = Gaps(watts) /\ steps = Near(watts, top)
    BY DEF steps, Gaps, Near
  <2>4. top = Max(watts)
    BY <2>1
  <2>5. /\ r.energy_j = integrate_energy(samples) /\ r.n_power_samples = Len(samples)
        /\ r.distinct_power_values = Cardinality(watts)
        /\ r.min_observed_step_w = IF steps # {} THEN Min(steps) ELSE None
        /\ r.power_range_w = <<lo, hi>>
    BY <1>1, <2>1, ProbeReports
  <2>6. span = At(Len(samples)) - At(1)
    BY DEF At
  <2>. HIDE DEF r, gaps, span, lo, hi, top
  <2>7. /\ Gaps(watts) = {} => Near(watts, top) = {} /\ Cardinality(watts) = 1
        /\ Gaps(watts) # {} => Near(watts, top) # {} /\ Min(Near(watts, top)) = Min(Gaps(watts))
    BY <2>1, <2>4, StepsAre
  <2>8. lo \in Int /\ hi \in Int
    BY <2>1, <2>2
  <2>9. (2 * span) * lo <= integrate_energy(samples) /\ integrate_energy(samples) <= (2 * span) * hi
    BY <1>1, <2>1, <2>2, <2>6, <2>8, EnergyIsBetween
  <2>10. IF gaps = {} THEN r.min_observed_step_w = None /\ r.distinct_power_values = 1
         ELSE r.min_observed_step_w = Min(gaps)
    BY <2>3, <2>5, <2>7, Zenon
  <2>11. r.distinct_power_values <= r.n_power_samples
    BY <2>1, <2>5
  <2>12. r.power_range_w[1] = lo /\ r.power_range_w[2] = hi
    BY <2>5
  <2>13. 2 * span * r.power_range_w[1] <= r.energy_j /\ r.energy_j <= 2 * span * r.power_range_w[2]
    BY <2>5, <2>9, <2>12
  <2>. QED BY <2>10, <2>11, <2>13
<1>. QED BY <1>1, ClipFromInv DEF TraceFiguresAreExact

(* TraceFiguresAreExact, for every card, trace and window: clipping and    *)
(* integrating is integrating the power, and the probe's figures are those *)
(* of the trace (clip_samples, integrate_energy, stop()).                  *)
THEOREM FiguresAreExact == PSpec => []TraceFiguresAreExact
<1>1. PInit => TraceInv
  BY TraceStarts DEF PInit
<1>2. IInv /\ TraceInv => TraceFiguresAreExact
  BY FiguresFromInv DEF IInv, EndInv
<1>. QED BY <1>1, <1>2, TraceStep, PreflightInvariant, PTL DEF PSpec

----------------------------------------------------------------------------
(* The cluster and what the tools read of it.                              *)

(* Kubernetes allocates no more than there is and keys what it counts.     *)
Sane == {o \in Object : o.alloc <= o.cap /\ (o.cap > 0 => o.keyed) /\ (o.migAlloc > 0 => o.mig)}

ReadInv ==
  /\ snapshot # <<>> => snapshot \in [Nodes -> Sane]
  /\ "snapshot" \in fresh => snapshot = node
  /\ "feed" \in fresh => feed = [n \in Nodes |-> [object |-> node[n], free |-> Free(n)]]

ClusterInv == node \in [Nodes -> Sane] /\ used \in [Nodes -> Nat] /\ ReadInv

LEMMA KindsAreSane == Kinds \subseteq Sane
BY KindAssumption DEF Sane

LEMMA InitCluster == Init => ClusterInv
BY KindsAreSane DEF Init, ClusterInv, ReadInv

LEMMA NodeTypes ==
  ASSUME NEW o \in Sane
  PROVE  /\ o.product \in Models /\ o.cap \in Nat /\ o.alloc \in Nat /\ o.migAlloc \in Nat
         /\ {o.labelled, o.keyed, o.mig, o.ready, o.cordoned} \subseteq BOOLEAN
         /\ o.taints \subseteq Taints
         /\ o.alloc <= o.cap /\ (o.cap > 0 => o.keyed) /\ (o.migAlloc > 0 => o.mig)
BY DEF Sane, Object

(* A change of one node, and no other, outdates what was read.             *)
LEMMA ChangeStep ==
  ASSUME ClusterInv, NEW n \in Nodes, NEW o \in Sane, Becomes(n, o)
  PROVE  ClusterInv'
BY DEF ClusterInv, ReadInv, Becomes, Event

LEMMA EventStep ==
  ASSUME ClusterInv, Event, UNCHANGED node, used' \in [Nodes -> Nat]
  PROVE  ClusterInv'
BY DEF ClusterInv, ReadInv, Event

LEMMA NodeStep ==
  ASSUME ClusterInv, NEW n \in Nodes,
         \/ Relabel(n) \/ ReadyFlips(n) \/ Cordon(n) \/ Reserve(n)
         \/ LifecycleTaint(n) \/ Withhold(n)
  PROVE  ClusterInv'
<1>1. node[n] \in Sane
  BY DEF ClusterInv
<1> DEFINE o == node[n]
<1>2. CASE Relabel(n)
  <2>1. [o EXCEPT !.labelled = ~@] \in Sane
    BY <1>1 DEF Sane, Object
  <2>2. QED BY <1>2, <2>1, ChangeStep DEF Relabel
<1>3. CASE ReadyFlips(n)
  <2>1. [o EXCEPT !.ready = ~@] \in Sane
    BY <1>1 DEF Sane, Object
  <2>2. QED BY <1>3, <2>1, ChangeStep DEF ReadyFlips
<1>4. CASE Cordon(n)
  <2>1. [o EXCEPT !.cordoned = ~@] \in Sane
    BY <1>1 DEF Sane, Object
  <2>2. QED BY <1>4, <2>1, ChangeStep DEF Cordon
<1>5. ASSUME NEW T \in SUBSET Taints PROVE [o EXCEPT !.taints = T] \in Sane
  BY <1>1 DEF Sane, Object
<1>6. CASE Reserve(n)
  <2> DEFINE T == IF "reserved" \in o.taints THEN o.taints \ {"reserved"}
                                             ELSE o.taints \cup {"reserved"}
  <2>1. T \in SUBSET Taints
    BY <1>1, NodeTypes DEF Taints
  <2>2. Becomes(n, [o EXCEPT !.taints = T])
    BY <1>6 DEF Reserve
  <2> HIDE DEF T
  <2>3. QED BY <1>5, <2>1, <2>2, ChangeStep
<1>7. CASE LifecycleTaint(n)
  <2> DEFINE T == IF "lifecycle" \in o.taints THEN o.taints \ {"lifecycle"}
                                              ELSE o.taints \cup {"lifecycle"}
  <2>1. T \in SUBSET Taints
    BY <1>1, NodeTypes DEF Taints
  <2>2. Becomes(n, [o EXCEPT !.taints = T])
    BY <1>7 DEF LifecycleTaint
  <2> HIDE DEF T
  <2>3. QED BY <1>5, <2>1, <2>2, ChangeStep
<1>8. CASE Withhold(n)
  <2>1. [o EXCEPT !.alloc = IF @ = 0 THEN o.cap ELSE 0] \in Sane
    BY <1>1 DEF Sane, Object
  <2>2. QED BY <1>8, <2>1, ChangeStep DEF Withhold
<1>9. QED BY <1>2, <1>3, <1>4, <1>6, <1>7, <1>8

LEMMA PodStep ==
  ASSUME ClusterInv, NEW n \in Nodes, PodEnds(n) \/ \E m \in Models : PodStarts(n, m)
  PROVE  ClusterInv'
<1>1. used' \in [Nodes -> Nat]
  BY DEF ClusterInv, PodEnds, PodStarts
<1>2. Event /\ UNCHANGED node
  BY DEF PodEnds, PodStarts
<1>3. QED BY <1>1, <1>2, EventStep

LEMMA StepCluster == ClusterInv /\ [Next]_vars => ClusterInv'
<1>1. SUFFICES ASSUME ClusterInv, [Next]_vars PROVE ClusterInv'
  OBVIOUS
<1>2. CASE TakeSnapshot
  BY <1>1, <1>2 DEF ClusterInv, ReadInv, TakeSnapshot, Free
<1>3. CASE fetch_nodes
  BY <1>1, <1>3 DEF ClusterInv, ReadInv, fetch_nodes, Free
<1>4. CASE UNCHANGED vars
  BY <1>1, <1>4 DEF ClusterInv, ReadInv, vars, Free
<1>5. QED BY <1>1, <1>2, <1>3, <1>4, NodeStep, PodStep DEF Next

----------------------------------------------------------------------------
(* The printed total.                                                      *)

(* The nodes in the total are counted once, labelled or not.               *)
Advertising(s) == Rows(s, LabeledWithGpu) \cup Rows(s, Unlabeled)

LEMMA TotalIsCount ==
  ASSUME NEW s
  PROVE  /\ IsFiniteSet(Advertising(s)) /\ Advertising(s) \subseteq Nodes
         /\ total_advertising(s) = Cardinality(Advertising(s))
<1> DEFINE A == Rows(s, LabeledWithGpu)
           B == Rows(s, Unlabeled)
<1>1. A \subseteq Nodes /\ B \subseteq Nodes
  BY DEF Rows
<1>2. A \cap B = {}
  BY DEF Rows, LabeledWithGpu, Unlabeled
<1>3. IsFiniteSet(A) /\ IsFiniteSet(B)
  BY <1>1, KindAssumption, FS_Subset
<1>4. Advertising(s) = A \cup B /\ total_advertising(s) = Cardinality(A) + Cardinality(B)
  BY DEF Advertising, total_advertising
<1> HIDE DEF A, B
<1>5. IsFiniteSet(A \cup B) /\ Cardinality(A \cup B) = Cardinality(A) + Cardinality(B)
  BY <1>2, <1>3, DisjointCardinality
<1>6. QED BY <1>1, <1>4, <1>5

LEMMA AdvertisingMeans ==
  ASSUME NEW s, NEW n \in Nodes
  PROVE  n \in Advertising(s) <=>
           \/ s[n].labelled /\ s[n].alloc > 0
           \/ ~s[n].labelled /\ has_gpu_signal(s[n]) /\ (s[n].cap > 0 \/ s[n].alloc > 0 \/ s[n].mig)
BY DEF Advertising, Rows, LabeledWithGpu, Unlabeled

(* One node more or less is another count.                                 *)
LEMMA OneMore ==
  ASSUME NEW A, NEW B, IsFiniteSet(A), NEW n, n \in A, B = A \ {n}
  PROVE  Cardinality(A) # Cardinality(B)
<1>1. Cardinality(A) \in Nat
  BY FS_CardinalityType
<1>2. Cardinality(B) = Cardinality(A) - 1
  BY FS_RemoveElement
<1>3. QED BY <1>1, <1>2

LEMMA SplitsFromInv ==
  ASSUME ClusterInv, NEW n \in Nodes, Relabel(n)
  PROVE  total_advertising(node') = total_advertising(node) <=>
           node[n].alloc > 0 \/ (node[n].cap = 0 /\ ~node[n].mig)
<1> DEFINE o == node[n]
           p == node'[n]
           A == Advertising(node)
           B == Advertising(node')
           steady == o.alloc > 0 \/ (o.cap = 0 /\ ~o.mig)
<1>1. o \in Sane /\ node \in [Nodes -> Sane]
  BY DEF ClusterInv
<1>2. node' = [node EXCEPT ![n] = [o EXCEPT !.labelled = ~@]]
  BY DEF Relabel, Becomes
<1>3. /\ p.labelled = ~o.labelled /\ p.keyed = o.keyed /\ p.mig = o.mig
      /\ p.cap = o.cap /\ p.alloc = o.alloc
  BY <1>1, <1>2 DEF Sane, Object
<1>4. \A k \in Nodes \ {n} : node'[k] = node[k]
  BY <1>1, <1>2
<1>5. \A k \in Nodes \ {n} : k \in B <=> k \in A
  BY <1>4, AdvertisingMeans
<1>6. (n \in A <=> n \in B) <=> steady
  <2>1. n \in A <=> \/ o.labelled /\ o.alloc > 0
                    \/ ~o.labelled /\ (o.keyed \/ o.mig) /\ (o.cap > 0 \/ o.alloc > 0 \/ o.mig)
    BY AdvertisingMeans DEF has_gpu_signal
  <2>2. n \in B <=> \/ ~o.labelled /\ o.alloc > 0
                    \/ o.labelled /\ (o.keyed \/ o.mig) /\ (o.cap > 0 \/ o.alloc > 0 \/ o.mig)
    BY <1>3, AdvertisingMeans DEF has_gpu_signal
  <2>3. /\ o.labelled \in BOOLEAN /\ o.mig \in BOOLEAN /\ o.keyed \in BOOLEAN
        /\ o.alloc \in Nat /\ o.cap \in Nat /\ o.alloc <= o.cap /\ (o.cap > 0 => o.keyed)
    BY <1>1, NodeTypes
  <2> HIDE DEF o, A, B
  <2>4. QED BY <2>1, <2>2, <2>3
<1>7. /\ IsFiniteSet(A) /\ A \subseteq Nodes /\ total_advertising(node) = Cardinality(A)
      /\ IsFiniteSet(B) /\ B \subseteq Nodes /\ total_advertising(node') = Cardinality(B)
  BY TotalIsCount
<1> HIDE DEF A, B, o, p, steady
<1>8. CASE n \in A <=> n \in B
  <2>1. A = B
    BY <1>5, <1>7, <1>8
  <2>2. QED BY <1>6, <1>7, <1>8, <2>1 DEF steady, o
<1>9. CASE n \in A /\ n \notin B
  <2>1. B = A \ {n}
    BY <1>5, <1>7, <1>9
  <2>2. Cardinality(A) # Cardinality(B)
    BY <1>7, <1>9, <2>1, OneMore
  <2>3. QED BY <1>6, <1>7, <1>9, <2>2 DEF steady, o
<1>10. CASE n \notin A /\ n \in B
  <2>1. A = B \ {n}
    BY <1>5, <1>7, <1>10
  <2>2. Cardinality(A) # Cardinality(B)
    BY <1>7, <1>10, <2>1, OneMore
  <2>3. QED BY <1>6, <1>7, <1>10, <2>2 DEF steady, o
<1>11. QED BY <1>8, <1>9, <1>10

----------------------------------------------------------------------------
(* Where a plain pod lands.                                                *)

LEMMA SuitsMeans ==
  ASSUME ClusterInv, NEW n \in Nodes, NEW m
  PROVE  /\ n \in Members(node, m) /\ schedulable(node[n]) => Suits(n, m)
         /\ Settled(n) /\ Suits(n, m) => n \in Members(node, m) /\ schedulable(node[n])
<1>1. node[n] \in Sane
  BY DEF ClusterInv
<1>2. node[n].taints \subseteq {"soft", "reserved", "lifecycle"}
  BY <1>1, NodeTypes DEF Taints
<1>3. ~has_blocking_taint(node[n]) <=> node[n].taints \subseteq {"soft"}
  BY <1>2 DEF has_blocking_taint
<1>4. node[n].taints \subseteq {"soft"} => "lifecycle" \notin node[n].taints
  OBVIOUS
<1>5. n \in Members(node, m) <=> node[n].labelled /\ node[n].product = m
  BY DEF Members
<1>6. node[n].ready \in BOOLEAN /\ node[n].cordoned \in BOOLEAN
  BY <1>1, NodeTypes
<1>7. QED BY <1>3, <1>4, <1>5, <1>6 DEF Suits, Settled, schedulable

LEMMA CoverageFromInv == ClusterInv => CoverageIsTrue
<1>1. SUFFICES ASSUME ClusterInv, "snapshot" \in fresh, NEW m \in Fleet(snapshot)
               PROVE  LET r == FleetRow(snapshot, m)
                          places == {n \in Nodes : Suits(n, m) /\ node[n].alloc > 0} IN
                      /\ ~r.coverage_risk => Cardinality(places) >= CoverageNodes
                      /\ r.coverage_risk /\ (\A n \in Nodes : Settled(n)) =>
                           Cardinality(places) < CoverageNodes
                      /\ r.measurement_viable =>
                           \A n \in places : m \notin MigModels /\ node[n].migAlloc = 0
  BY DEF CoverageIsTrue
<1> DEFINE places == {n \in Nodes : Suits(n, m) /\ node[n].alloc > 0}
           open == Members(node, m) \cap Rows(node, schedulable_with_gpu)
<1>2. snapshot = node
  BY <1>1 DEF ClusterInv, ReadInv
<1>3. /\ FleetRow(node, m).coverage_risk <=> Cardinality(open) < CoverageNodes
      /\ FleetRow(node, m).measurement_viable <=> \A n \in Members(node, m) : ~is_mig(node[n])
  BY DEF FleetRow, Openly
<1>4. open \subseteq places
  BY <1>1, SuitsMeans DEF Members, Rows, schedulable_with_gpu
<1>5. (\A n \in Nodes : Settled(n)) => places \subseteq open
  BY <1>1, SuitsMeans DEF Members, Rows, schedulable_with_gpu
<1>6. IsFiniteSet(places) /\ IsFiniteSet(open)
  <2>1. places \subseteq Nodes /\ open \subseteq Nodes
    BY DEF Rows
  <2>2. QED BY <2>1, KindAssumption, FS_Subset
<1>7. Cardinality(places) \in Nat /\ Cardinality(open) \in Nat /\ Cardinality(open) <= Cardinality(places)
  BY <1>4, <1>6, FS_CardinalityType, FS_Subset
<1>8. ~FleetRow(node, m).coverage_risk => Cardinality(places) >= CoverageNodes
  BY <1>3, <1>7, KindAssumption
<1>9. FleetRow(node, m).coverage_risk /\ (\A n \in Nodes : Settled(n)) =>
        Cardinality(places) < CoverageNodes
  <2>1. (\A n \in Nodes : Settled(n)) => places = open
    BY <1>4, <1>5
  <2> HIDE DEF places, open
  <2>2. QED BY <1>3, <2>1
<1>10. ASSUME FleetRow(node, m).measurement_viable, NEW n \in places
       PROVE  m \notin MigModels /\ node[n].migAlloc = 0
  <2>1. node[n].labelled /\ node[n].product = m /\ n \in Nodes
    BY <1>10 DEF Suits
  <2>2. ~is_mig(node[n])
    BY <1>3, <1>10, <2>1 DEF Members
  <2>3. node[n].migAlloc \in Nat
    BY <1>1, <2>1, NodeTypes DEF ClusterInv
  <2>4. QED BY <2>1, <2>2, <2>3 DEF is_mig
<1>11. QED BY <1>2, <1>8, <1>9, <1>10

----------------------------------------------------------------------------
(* The census adds up.                                                     *)

Labelled(s) == {n \in Nodes : s[n].labelled}

(* The rows of the fleet share out the labelled nodes.                     *)
LEMMA FleetSharesOut ==
  ASSUME NEW s \in [Nodes -> Sane]
  PROVE  Total([m \in Models |-> FleetRow(s, m).node_count], Fleet(s)) = Cardinality(Labelled(s))
<1> DEFINE F == Fleet(s)
           U == [m \in Models |-> Members(s, m)]
           c == [m \in Models |-> FleetRow(s, m).node_count]
<1>1. F \subseteq Models
  BY DEF Fleet
<1>2. IsFiniteSet(F)
  <2> DEFINE p == [n \in Nodes |-> s[n].product]
             P == {p[n] : n \in Nodes}
  <2>1. IsFiniteSet(P)
    <3> HIDE DEF p
    <3>1. QED BY KindAssumption, ImageIsFinite
  <2>2. F \subseteq P
    BY DEF Fleet, Members
  <2> HIDE DEF P, F
  <2>3. QED BY <2>1, <2>2, FS_Subset
<1>3. \A m \in F : IsFiniteSet(U[m])
  <2>1. \A m \in F : U[m] \subseteq Nodes
    BY <1>1 DEF Members
  <2> HIDE DEF U, F
  <2>2. QED BY <2>1, KindAssumption, FS_Subset
<1>4. \A x, y \in F : x # y => U[x] \cap U[y] = {}
  BY <1>1 DEF Members
<1>5. \A m \in F : c[m] = Cardinality(U[m])
  BY <1>1 DEF FleetRow
<1>6. UNION {U[m] : m \in F} = Labelled(s)
  <2>1. ASSUME NEW n \in Nodes, s[n].labelled PROVE \E m \in F : n \in U[m]
    <3>1. s[n].product \in Models
      BY NodeTypes
    <3>2. n \in Members(s, s[n].product)
      BY <2>1 DEF Members
    <3>3. s[n].product \in F /\ n \in U[s[n].product]
      BY <3>1, <3>2 DEF Fleet
    <3>4. QED BY <3>3
  <2>2. \A m \in F : U[m] \subseteq Labelled(s)
    BY <1>1 DEF Members, Labelled
  <2> HIDE DEF U, F
  <2>3. QED BY <2>1, <2>2 DEF Labelled
<1> HIDE DEF U, F, c
<1>7. Total(c, F) = Cardinality(UNION {U[m] : m \in F})
  BY <1>2, <1>3, <1>4, <1>5, TotalOfCardinalities
<1>8. QED BY <1>6, <1>7 DEF c, F

(* Three disjoint sets.                                                    *)
LEMMA ThreeParts ==
  ASSUME NEW S, NEW A, NEW B, NEW C, IsFiniteSet(S), S = A \cup B \cup C,
         A \cap B = {}, A \cap C = {}, B \cap C = {}
  PROVE  Cardinality(S) = Cardinality(A) + Cardinality(B) + Cardinality(C)
<1>1. IsFiniteSet(A) /\ IsFiniteSet(B) /\ IsFiniteSet(C)
  BY FS_Subset
<1>2. /\ IsFiniteSet(A \cup B) /\ Cardinality(A \cup B) = Cardinality(A) + Cardinality(B)
      /\ (A \cup B) \cap C = {}
  BY <1>1, DisjointCardinality
<1> DEFINE D == A \cup B
<1> HIDE DEF D
<1>3. Cardinality(D \cup C) = Cardinality(D) + Cardinality(C)
  BY <1>1, <1>2, DisjointCardinality DEF D
<1>4. QED BY <1>2, <1>3 DEF D

LEMMA SignalsAreCounted ==
  ASSUME NEW s \in [Nodes -> Sane]
  PROVE  Cardinality(Rows(s, has_gpu_signal))
           = Cardinality(Labelled(s)) + Cardinality(Rows(s, Unlabeled)) + Cardinality(Rows(s, Orphan))
<1> DEFINE S == Rows(s, has_gpu_signal)
           A == Labelled(s)
           B == Rows(s, Unlabeled)
           C == Rows(s, Orphan)
<1>1. IsFiniteSet(S)
  BY KindAssumption, FS_Subset DEF Rows
<1>2. S = A \cup B \cup C /\ A \cap B = {} /\ A \cap C = {} /\ B \cap C = {}
  BY DEF Labelled, Rows, has_gpu_signal, Unlabeled, Orphan
<1> HIDE DEF S, A, B, C
<1>3. Cardinality(S) = Cardinality(A) + Cardinality(B) + Cardinality(C)
  BY <1>1, <1>2, ThreeParts
<1>4. QED BY <1>3 DEF S, A, B, C

LEMMA ReadyIsSplit ==
  ASSUME NEW s, NEW m
  PROVE  FleetRow(s, m).ready_nodes
           = FleetRow(s, m).openly_schedulable + FleetRow(s, m).tainted_but_ready
             + Cardinality(Members(s, m) \cap Rows(s, ReadyCordoned))
<1> DEFINE M == Members(s, m)
           S == {n \in M : s[n].ready}
           A == M \cap Rows(s, schedulable)
           B == M \cap Rows(s, tainted_but_ready)
           C == M \cap Rows(s, ReadyCordoned)
<1>1. /\ FleetRow(s, m).ready_nodes = Cardinality(S)
      /\ FleetRow(s, m).openly_schedulable = Cardinality(A)
      /\ FleetRow(s, m).tainted_but_ready = Cardinality(B)
  BY DEF FleetRow
<1>2. M \subseteq Nodes
  BY DEF Members
<1>3. IsFiniteSet(S)
  BY <1>2, KindAssumption, FS_Subset
<1>4. S = A \cup B \cup C /\ A \cap B = {} /\ A \cap C = {} /\ B \cap C = {}
  <2> HIDE DEF M
  <2>1. QED BY <1>2 DEF Rows, schedulable, tainted_but_ready, ReadyCordoned
<1> HIDE DEF S, A, B, C, M
<1>5. Cardinality(S) = Cardinality(A) + Cardinality(B) + Cardinality(C)
  BY <1>3, <1>4, ThreeParts
<1>6. QED BY <1>1, <1>5 DEF C, M

LEMMA CountedFromInv == ClusterInv => CountedOnce
<1>1. SUFFICES ASSUME ClusterInv, snapshot # <<>>
               PROVE  CountedOnce
  BY DEF CountedOnce
<1>2. snapshot \in [Nodes -> Sane]
  BY <1>1 DEF ClusterInv, ReadInv
<1>3. ASSUME NEW n \in Nodes, snapshot[n].alloc > 0 \/ snapshot[n].migAlloc > 0
      PROVE  snapshot[n].labelled \/ n \in Rows(snapshot, Unlabeled)
  <2> DEFINE o == snapshot[n]
  <2>1. /\ o.cap \in Nat /\ o.alloc \in Nat /\ o.alloc <= o.cap
        /\ (o.cap > 0 => o.keyed) /\ (o.migAlloc > 0 => o.mig)
    BY <1>2, NodeTypes
  <2>2. o.labelled \/ Unlabeled(o)
    BY <1>3, <2>1 DEF Unlabeled, has_gpu_signal
  <2>3. QED BY <2>2 DEF Rows
<1>4. Total([m \in Models |-> FleetRow(snapshot, m).node_count], Fleet(snapshot))
        + Cardinality(Rows(snapshot, Unlabeled)) + Cardinality(Rows(snapshot, Orphan))
      = Cardinality(Rows(snapshot, has_gpu_signal))
  BY <1>2, FleetSharesOut, SignalsAreCounted
<1>5. ASSUME NEW m \in Fleet(snapshot)
      PROVE  FleetRow(snapshot, m).ready_nodes
               = FleetRow(snapshot, m).openly_schedulable + FleetRow(snapshot, m).tainted_but_ready
                 + Cardinality(Members(snapshot, m) \cap Rows(snapshot, ReadyCordoned))
  BY ReadyIsSplit
<1>6. ASSUME NEW n \in Rows(snapshot, Zero) PROVE Bucket(snapshot[n]) \in PrintedBuckets
  BY DEF Bucket, PrintedBuckets
<1>7. QED BY <1>3, <1>4, <1>5, <1>6 DEF CountedOnce

----------------------------------------------------------------------------
(* The feed and the census look at the same cluster.                       *)

LEMMA FreeTypes ==
  ASSUME ClusterInv, NEW n \in Nodes
  PROVE  /\ Free(n) \in Nat /\ used[n] \in Nat /\ node[n].alloc \in Nat
         /\ Free(n) <= node[n].alloc /\ node[n].alloc - Free(n) \in 0 .. used[n]
<1>1. node[n] \in Sane /\ used[n] \in Nat
  BY DEF ClusterInv
<1>2. node[n].alloc \in Nat
  BY <1>1, NodeTypes
<1>3. QED BY <1>1, <1>2 DEF Free

(* What the census calls reachable is what is free there and what is held. *)
LEMMA ReachableIsFreeOrHeld ==
  ASSUME ClusterInv, \A n \in Nodes : Settled(n), NEW m
  PROVE  FleetRow(node, m).allocatable_gpu_sum_swg
           - Total([n \in Nodes |-> Free(n)], {n \in Nodes : Suits(n, m)})
         \in 0 .. Total(used, Members(node, m))
<1> DEFINE S == {n \in Nodes : Suits(n, m)}
           A == Members(node, m) \cap Rows(node, schedulable_with_gpu)
           M == Members(node, m)
           alloc == [n \in Nodes |-> node[n].alloc]
           free == [n \in Nodes |-> Free(n)]
           taken == [n \in Nodes |-> node[n].alloc - Free(n)]
           none == [n \in Nodes |-> 0]
<1>1. /\ S \subseteq M /\ M \subseteq Nodes
      /\ A \subseteq S /\ \A n \in S \ A : ~(node[n].alloc > 0)
  BY SuitsMeans DEF Members, Rows, schedulable_with_gpu
<1>2. IsFiniteSet(S) /\ IsFiniteSet(M)
  <2> HIDE DEF S, M
  <2>1. QED BY <1>1, KindAssumption, FS_Subset
<1>3. \A n \in Nodes : /\ alloc[n] \in Nat /\ free[n] \in Nat /\ taken[n] \in Nat /\ used[n] \in Nat
                       /\ none[n] = 0
                       /\ alloc[n] = taken[n] + free[n] /\ taken[n] <= used[n]
  BY FreeTypes
<1>4. \A n \in S \ A : alloc[n] = 0
  <2>1. \A n \in S \ A : n \in Nodes /\ alloc[n] = node[n].alloc
    OBVIOUS
  <2> HIDE DEF alloc, S, A
  <2>2. QED BY <1>1, <1>3, <2>1
<1>5. FleetRow(node, m).allocatable_gpu_sum_swg = Total(alloc, A)
  BY DEF FleetRow
<1> HIDE DEF S, A, M, alloc, free, taken, none
<1>6. Total(alloc, A) = Total(alloc, S)
  <2>1. \A n \in S : alloc[n] \in Nat
    BY <1>1, <1>3
  <2>2. QED BY <1>1, <1>2, <1>4, <2>1, TotalOfPart
<1>7. /\ Total(alloc, S) \in Int /\ Total(taken, S) \in Int /\ Total(free, S) \in Int
      /\ Total(alloc, S) = Total(taken, S) + Total(free, S)
  <2>1. AddUp(alloc, taken, free, S)
    BY <1>1, <1>3 DEF AddUp
  <2>2. QED BY <1>2, <2>1, TotalOfSum
<1>8. Total(taken, S) \in Nat
  <2>1. \A n \in S : taken[n] \in Nat
    BY <1>1, <1>3
  <2>2. QED BY <1>2, <2>1, TotalOfPart
<1>9. Total(taken, S) <= Total(used, S) /\ Total(used, S) \in Int
  <2>1. \A n \in S : taken[n] \in Int /\ used[n] \in Int /\ taken[n] <= used[n]
    BY <1>1, <1>3
  <2>2. QED BY <1>2, <2>1, TotalOfSmaller
<1>10. Total(used, S) <= Total(used, M) /\ Total(used, M) \in Nat
  <2>1. \A n \in M : used[n] \in Nat
    BY <1>1, <1>3
  <2>2. QED BY <1>1, <1>2, <2>1, TotalOfPart
<1>11. Total(alloc, A) - Total(free, S) \in 0 .. Total(used, M)
  BY <1>6, <1>7, <1>8, <1>9, <1>10
<1>12. QED BY <1>5, <1>11 DEF free, S, M

LEMMA FeedFromInv == ClusterInv => FeedIsTrue
<1>1. SUFFICES ASSUME ClusterInv, "feed" \in fresh, NEW m \in Models
               PROVE  LET r    == FeedRow(feed, m)
                          held == Total(used, Members(node, m)) IN
                      /\ OpenNodesFor(feed, m) = {n \in Nodes : Accepts(n, m)}
                      /\ r.gpu_free_open = Total([n \in Nodes |-> Free(n)], {n \in Nodes : Suits(n, m)})
                      /\ r.gpu_free_open <= r.gpu_free
                      /\ "snapshot" \in fresh /\ (\A n \in Nodes : Settled(n)) =>
                           FleetRow(snapshot, m).allocatable_gpu_sum_swg - r.gpu_free_open \in 0 .. held
  BY DEF FeedIsTrue
<1> DEFINE S == {n \in Nodes : Suits(n, m)}
           M == FeedMembers(feed, m)
           free == [n \in Nodes |-> Free(n)]
<1>2. feed = [n \in Nodes |-> [object |-> node[n], free |-> Free(n)]]
  BY <1>1 DEF ClusterInv, ReadInv
<1>3. \A n \in Nodes : feed[n].object = node[n] /\ feed[n].free = Free(n)
  BY <1>2
<1>4. \A n \in Nodes : ~is_blocked(node[n]) <=> ~node[n].cordoned /\ node[n].taints \subseteq {"soft"}
  <2>1. SUFFICES ASSUME NEW n \in Nodes
                 PROVE  ~is_blocked(node[n]) <=> ~node[n].cordoned /\ node[n].taints \subseteq {"soft"}
    OBVIOUS
  <2>2. node[n] \in Sane
    BY <1>1 DEF ClusterInv
  <2>3. node[n].taints \subseteq {"soft", "reserved", "lifecycle"}
    BY <2>2, NodeTypes DEF Taints
  <2>4. QED BY <2>3 DEF is_blocked
<1>5. {n \in M : ~is_blocked(feed[n].object)} = S /\ S \subseteq M
  BY <1>3, <1>4 DEF FeedMembers, Suits
<1>6. OpenNodesFor(feed, m) = {n \in Nodes : Accepts(n, m)}
  BY <1>3, <1>4 DEF OpenNodesFor, FeedMembers, Accepts, Suits
<1>7. [n \in Nodes |-> feed[n].free] = free
  BY <1>3
<1>8. FeedRow(feed, m).gpu_free_open = Total(free, S) /\ FeedRow(feed, m).gpu_free = Total(free, M)
  <2> HIDE DEF free, S
  <2>1. QED BY <1>5, <1>7 DEF FeedRow
<1>9. Total(free, S) <= Total(free, M)
  <2>1. M \subseteq Nodes
    BY DEF FeedMembers
  <2>2. \A n \in M : free[n] \in Nat
    BY <1>1, <2>1, FreeTypes
  <2>3. IsFiniteSet(M)
    <3> HIDE DEF M
    <3>1. QED BY <2>1, KindAssumption, FS_Subset
  <2> HIDE DEF free, M, S
  <2>4. QED BY <1>5, <2>2, <2>3, TotalOfPart
<1>10. ASSUME "snapshot" \in fresh, \A n \in Nodes : Settled(n)
       PROVE  FleetRow(snapshot, m).allocatable_gpu_sum_swg - Total(free, S)
                \in 0 .. Total(used, Members(node, m))
  <2>1. snapshot = node
    BY <1>1, <1>10 DEF ClusterInv, ReadInv
  <2>2. QED BY <1>1, <1>10, <2>1, ReachableIsFreeOrHeld
<1>11. QED BY <1>6, <1>8, <1>9, <1>10

----------------------------------------------------------------------------
(* The nodes keep to what Kubernetes keeps to, and what was read since the *)
(* last change is the cluster.                                             *)
THEOREM ClusterInvariant == Spec => []ClusterInv
BY InitCluster, StepCluster, PTL DEF Spec

(* CountedOnce, for any nodes: no card is lost between the census's lists  *)
(* and none is in two, and its columns add up (main, build_fleet).         *)
THEOREM NoneIsLost == Spec => []CountedOnce
BY ClusterInvariant, CountedFromInv, PTL

(* RelabelSplits: when the printed total keeps still as a label comes or   *)
(* goes, and when it does not, as print_gap_analysis says it never does    *)
(* (run census_relabel).                                                   *)
THEOREM SplitsExactly == Spec => RelabelSplits
<1>1. ClusterInv /\ [Next]_vars =>
        [\A n \in Nodes :
           Relabel(n) =>
             (total_advertising(node') = total_advertising(node) <=>
                node[n].alloc > 0 \/ (node[n].cap = 0 /\ ~node[n].mig))]_vars
  BY SplitsFromInv
<1>2. QED BY ClusterInvariant, <1>1, PTL DEF Spec, RelabelSplits

(* CoverageIsTrue: a model without the flag has nodes enough for a plain   *)
(* pod (build_fleet's coverage_risk and measurement_viable).               *)
THEOREM CoverageHolds == Spec => []CoverageIsTrue
BY ClusterInvariant, CoverageFromInv, PTL

(* FeedIsTrue: the nodes and the sums of nrp_availability's table are      *)
(* those the scheduler would use, and agree with the census.               *)
THEOREM FeedHolds == Spec => []FeedIsTrue
BY ClusterInvariant, FeedFromInv, PTL
=============================================================================
