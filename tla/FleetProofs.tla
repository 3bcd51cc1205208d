------------------------------ MODULE FleetProofs ------------------------------
(***************************************************************************)
(* Proofs about FleetAnalysis and Quotes, for any pods, any number of rows *)
(* and any order of them.                                                  *)
(*                                                                         *)
(* The only invariant is that each row is one that run_once can write      *)
(* (TypeInv): what a row's flags say of its figures follows from that      *)
(* (RowShapes), and the analysis is a function of the rows.                *)
(***************************************************************************)
EXTENDS Quotes, SumProofs

----------------------------------------------------------------------------
(* Rows.                                                                   *)

TypeInv == file \in Seq(PossibleRows)

(* A row without an exclusion reason is one of two: a repetition that was  *)
(* measured, over a window that is long enough, or one without power.      *)
LEMMA RowShapes ==
  ASSUME NEW r \in PossibleRows
  PROVE  /\ r.pod \in Pods
         /\ r.model \in {r.pod.model, Blank}
         /\ r.exclusion_reason \in BOOLEAN
         /\ ~r.exclusion_reason =>
              /\ r.config = r.pod.config /\ r.hash = r.pod.hash /\ r.inner = r.pod.inner
              /\ r.runtime = r.pod.runtime /\ r.idle \in {r.pod.idle, None}
              /\ \/ /\ r.energy \in Energies /\ r.below_30s_floor = "false"
                    /\ r.window = "region" /\ r.idle = r.pod.idle
                 \/ r.energy = None /\ r.below_30s_floor = Blank /\ r.idle = None
<1>1. CASE \E p \in Pods : r = UnpoweredRow(p)
  BY <1>1 DEF UnpoweredRow, MeasuredRow, Identity
<1>2. CASE \E p \in Pods, e \in Energies, seen \in BOOLEAN : r = MeasuredRow(p, e, seen)
  BY <1>2 DEF MeasuredRow, Identity
<1>3. CASE \E p \in Pods, e \in Energies, seen \in BOOLEAN : r = ShortRow(p, e, seen)
  BY <1>3 DEF ShortRow, MeasuredRow, Identity
<1>4. CASE \E p \in Pods, e \in Energies, seen \in BOOLEAN : r = FailedRow(p, e, seen)
  BY <1>4 DEF FailedRow, MeasuredRow, Identity
<1>5. QED BY <1>1, <1>2, <1>3, <1>4 DEF PossibleRows

LEMMA PodTypes ==
  ASSUME NEW p \in Pods
  PROVE  /\ p.inner \in Nat \ {0} /\ p.hash # Blank /\ p.runtime \in Nat \ {0}
         /\ p.idle \in Nat \cup {None} /\ p.model \in Range(ModelOrder)
BY PodAssumption

LEMMA EnergyTypes == Energies \subseteq Nat /\ None \notin Nat
BY PodAssumption DEF None

LEMMA InitType == Init => TypeInv
BY DEF Init, TypeInv

LEMMA StepType == TypeInv /\ [Next]_file => TypeInv'
<1>1. SUFFICES ASSUME TypeInv, Next PROVE TypeInv'
  BY DEF TypeInv
<1>2. PICK row \in PossibleRows : file' = Append(file, row)
  BY <1>1 DEF Next, AppendRow
<1>3. QED BY <1>1, <1>2 DEF TypeInv

LEMMA RowsTyped ==
  ASSUME TypeInv
  PROVE  /\ DOMAIN file = 1 .. Len(file) /\ Len(file) \in Nat
         /\ \A i \in DOMAIN file : file[i] \in PossibleRows
BY DEF TypeInv

----------------------------------------------------------------------------
(* Groups of rows.                                                         *)

LEMMA MembersFinite ==
  ASSUME TypeInv, NEW key
  PROVE  /\ Members(file, key) \subseteq DOMAIN file
         /\ Members(file, key) \subseteq Nat
         /\ IsFiniteSet(Members(file, key))
<1>1. Members(file, key) \subseteq 1 .. Len(file) /\ Len(file) \in Nat
  BY RowsTyped DEF Members, Valid
<1>2. IsFiniteSet(1 .. Len(file))
  BY <1>1, FS_Interval
<1>3. QED BY <1>1, <1>2, RowsTyped, FS_Subset

(* The members of a group that was not refused did the same work, which is *)
(* the work_hash of its row.                                               *)
LEMMA GroupHash ==
  ASSUME TypeInv, NEW key, SameWork(file, key), NEW i \in Members(file, key)
  PROVE  file[i].hash = file[Min(Members(file, key))].hash
<1> DEFINE I == Members(file, key)
           f == [j \in I |-> file[j].hash]
           H == {f[j] : j \in I}
<1>1. IsFiniteSet(I) /\ I \subseteq Nat /\ i \in I
  BY MembersFinite
<1>2. H = {file[j].hash : j \in I}
  OBVIOUS
<1>3. Cardinality(H) = 1
  BY <1>2 DEF SameWork
<1>4. Min(I) \in I
  <2> HIDE DEF I
  <2>1. QED BY <1>1, MinIsLeast
<1>5. IsFiniteSet(H)
  <2> HIDE DEF I, f
  <2>1. QED BY <1>1, ImageIsFinite
<1>6. PICK x : H = {x}
  <2> HIDE DEF H
  <2>1. QED BY <1>3, <1>5, FS_Singleton
<1>7. file[i].hash \in H /\ file[Min(I)].hash \in H
  BY <1>1, <1>2, <1>4
<1>8. QED BY <1>6, <1>7

(* The rows behind a group's energy were measured.                         *)
BehindKey(key) == Numeric(file, Members(file, key), "energy")

LEMMA BehindIsMeasured ==
  ASSUME TypeInv, NEW key, NEW i \in DOMAIN file
  PROVE  i \in BehindKey(key) <=>
           /\ ~file[i].exclusion_reason /\ Key(file[i]) = key
           /\ file[i].below_30s_floor = "false"
<1>1. file[i] \in PossibleRows
  BY RowsTyped
<1>2. i \in BehindKey(key) <=> ~file[i].exclusion_reason /\ Key(file[i]) = key /\ file[i].energy # None
  BY DEF BehindKey, Numeric, Members, Valid
<1>3. ~file[i].exclusion_reason =>
        (file[i].energy # None <=> file[i].below_30s_floor = "false")
  BY <1>1, RowShapes, EnergyTypes DEF Blank
<1>4. QED BY <1>2, <1>3

LEMMA AgreesFromType == TypeInv => FleetAgrees
<1>1. SUFFICES ASSUME TypeInv, NEW card, card.config_id \in KEEP_CONFIGS
               PROVE  Behind(card) = {i \in select(file) : Key(file[i]) = <<card.config_id, card.gpu_model>>}
  BY DEF FleetAgrees
<1> DEFINE key == <<card.config_id, card.gpu_model>>
<1>2. Behind(card) = BehindKey(key)
  BY DEF Behind, BehindKey
<1>3. BehindKey(key) \subseteq DOMAIN file
  BY DEF BehindKey, Numeric, Members, Valid
<1>4. ASSUME NEW i \in DOMAIN file
      PROVE  i \in BehindKey(key) <=> i \in select(file) /\ Key(file[i]) = key
  <2>1. Key(file[i]) = key => file[i].config \in KEEP_CONFIGS
    BY <1>1 DEF Key
  <2>2. QED BY <1>1, <2>1, BehindIsMeasured DEF select
<1>5. select(file) \subseteq DOMAIN file
  BY DEF select
<1>6. QED BY <1>2, <1>3, <1>4, <1>5

----------------------------------------------------------------------------
(* Cards.                                                                  *)

(* A card of the table that carbon_model loads: the group it stands for,   *)
(* and what its rows have in common.                                       *)
LEMMA CardMeans ==
  ASSUME TypeInv, NEW card \in load_card_energy(aggregate(file))
  PROVE  \A i \in Behind(card) :
           /\ file[i] \in PossibleRows
           /\ file[i].config = card.config_id
           /\ file[i].pod.hash = card.work_hash /\ card.work_hash # Blank
           /\ file[i].window = "region"
           /\ file[i].pod.inner = card.inner_iters
<1>1. PICK row \in aggregate(file) : Usable(row) /\ card = CardEnergy(row)
  BY DEF load_card_energy
<1>2. PICK key : SameWork(file, key) /\ row = Summary(file, key) /\ key \in {Key(file[i]) : i \in Valid(file)}
  BY <1>1 DEF aggregate
<1> DEFINE I == Members(file, key)
<1>3. /\ row.config_id = key[1] /\ row.gpu_model = key[2] /\ row.work_hash = file[Min(I)].hash
      /\ row.inner_iters = {file[i].inner : i \in I} \ {0}
  BY <1>2 DEF Summary
<1>4. key = <<key[1], key[2]>>
  BY <1>2 DEF Key
<1>5. /\ card.config_id = key[1] /\ card.gpu_model = key[2] /\ card.work_hash = row.work_hash
      /\ card.inner_iters = CHOOSE n \in row.inner_iters : TRUE
  BY <1>1, <1>3 DEF CardEnergy
<1>6. Behind(card) = BehindKey(key)
  BY <1>4, <1>5 DEF Behind, BehindKey
<1>7. SUFFICES ASSUME NEW i \in BehindKey(key)
               PROVE  /\ file[i] \in PossibleRows
                      /\ file[i].config = card.config_id
                      /\ file[i].pod.hash = card.work_hash /\ card.work_hash # Blank
                      /\ file[i].window = "region"
                      /\ file[i].pod.inner = card.inner_iters
  BY <1>6
<1>8. i \in I /\ i \in DOMAIN file /\ file[i] \in PossibleRows
  BY <1>7, RowsTyped DEF BehindKey, Numeric, Members, Valid
<1>9. ~file[i].exclusion_reason /\ Key(file[i]) = key /\ file[i].below_30s_floor = "false"
  BY <1>7, <1>8, BehindIsMeasured
<1>10. /\ file[i].hash = file[i].pod.hash /\ file[i].inner = file[i].pod.inner
       /\ file[i].window = "region" /\ file[i].pod \in Pods
  BY <1>8, <1>9, RowShapes DEF Blank
<1>11. file[i].config = card.config_id
  BY <1>5, <1>9 DEF Key
<1>12. file[i].pod.hash = card.work_hash /\ card.work_hash # Blank
  <2>1. file[i].hash = row.work_hash
    BY <1>2, <1>3, <1>8, GroupHash
  <2>2. QED BY <2>1, <1>5, <1>10, PodTypes
<1>13. file[i].pod.inner = card.inner_iters
  <2> DEFINE f == [j \in I |-> file[j].inner]
             F == {f[j] : j \in I}
             N == row.inner_iters
  <2>1. F = {file[j].inner : j \in I} /\ N = F \ {0}
    BY <1>3
  <2>2. IsFiniteSet(F)
    <3>1. IsFiniteSet(I)
      BY MembersFinite
    <3> HIDE DEF f, I
    <3>2. QED BY <3>1, ImageIsFinite
  <2>3. IsFiniteSet(N) /\ Cardinality(N) = 1
    <3>1. Cardinality(N) = 1
      BY <1>1 DEF Usable
    <3> HIDE DEF N, F
    <3>2. QED BY <2>1, <2>2, <3>1, FS_Subset
  <2>4. PICK n : N = {n}
    <3> HIDE DEF N
    <3>1. QED BY <2>3, FS_Singleton
  <2>5. file[i].inner \in N
    BY <1>8, <1>10, <2>1, PodTypes
  <2>6. card.inner_iters = n
    BY <1>5, <2>4
  <2>7. QED BY <1>10, <2>4, <2>5, <2>6
<1>14. QED BY <1>8, <1>10, <1>11, <1>12, <1>13

LEMMA OneWorkFromType == TypeInv => OneWorkPerFigure
<1>1. SUFFICES ASSUME TypeInv, NEW pair \in Reported(file)
               PROVE  LET rows(I) == {file[i] : i \in I}
                          all == rows(Behind(pair[1]) \cup Behind(pair[2]))
                      IN  /\ \A r, s \in all : r.config = s.config /\ r.pod.hash = s.pod.hash
                          /\ \A r \in all : r.window = "region"
                          /\ \A card \in {pair[1], pair[2]} :
                               \A r \in rows(Behind(card)) : r.pod.inner = card.inner_iters
  BY DEF OneWorkPerFigure
<1> DEFINE cards == load_card_energy(aggregate(file))
<1>2. /\ pair \in _pairs(cards) /\ _comparable(pair[1], pair[2])
  BY <1>1 DEF Reported, ReportedFor
<1>3. pair[1] \in cards /\ pair[2] \in cards /\ pair[1].config_id = pair[2].config_id
  BY <1>2 DEF _pairs
<1> DEFINE old == pair[1]
           new == pair[2]
<1>4. /\ \A i \in Behind(old) : /\ file[i].config = old.config_id
                                /\ file[i].pod.hash = old.work_hash /\ old.work_hash # Blank
                                /\ file[i].window = "region" /\ file[i].pod.inner = old.inner_iters
      /\ \A i \in Behind(new) : /\ file[i].config = new.config_id
                                /\ file[i].pod.hash = new.work_hash /\ new.work_hash # Blank
                                /\ file[i].window = "region" /\ file[i].pod.inner = new.inner_iters
  BY <1>1, <1>3, CardMeans
<1>5. old.work_hash = Blank \/ new.work_hash = Blank \/ old.work_hash = new.work_hash
  BY <1>2 DEF _comparable
<1>6. QED BY <1>3, <1>4, <1>5

----------------------------------------------------------------------------
(* Quotes.                                                                 *)

(* A card has one key, whichever of its names it is made from.             *)
LEMMA NormaliseLabel ==
  ASSUME NEW g \in GPUS
  PROVE  _normalise_gpu_model(g.label) = _normalise_gpu_model(g.nvml)
<1> DEFINE s == Spelling[g.nvml]
<1>1. Spelling[g.label] = Hyphenated(s) /\ Lower[" "] = " "
  BY QuoteAssumption
<1> HIDE DEF s
<1>2. Spaced(Hyphenated(s)) = Spaced(s)
  <2>1. DOMAIN Hyphenated(s) = DOMAIN s
    BY DEF Hyphenated
  <2>2. \A i \in DOMAIN s :
          (IF Hyphenated(s)[i] = "-" THEN " " ELSE Lower[Hyphenated(s)[i]])
            = (IF s[i] = "-" THEN " " ELSE Lower[s[i]])
    BY <1>1 DEF Hyphenated
  <2>3. QED BY <2>1, <2>2 DEF Spaced
<1>3. QED BY <1>1, <1>2 DEF _normalise_gpu_model, s

LEMMA NormaliseModel ==
  ASSUME NEW g \in GPUS, NEW model \in Range(ModelOrder)
  PROVE  _normalise_gpu_model(g.label) = _normalise_gpu_model(model) <=> model = g.nvml
<1>1. _normalise_gpu_model(model) = _normalise_gpu_model(g.nvml) => model = g.nvml
  BY QuoteAssumption
<1>2. QED BY <1>1, NormaliseLabel

(* The rows that are found for a model of the energy table are those of    *)
(* the card of that name.                                                  *)
LEMMA LoadedRows ==
  ASSUME NEW model \in Range(ModelOrder), NEW table, table # "unusable"
  PROVE  load_embodied(table, model) = {TableRow(g, table) : g \in {h \in GPUS : h.nvml = model}}
<1>1. \A g \in GPUS : TableRow(g, table).gpu_model = g.label
  BY DEF TableRow
<1>2. \A g \in GPUS : _normalise_gpu_model(g.label) = _normalise_gpu_model(model) <=> model = g.nvml
  BY NormaliseModel
<1>3. Table(table) = {TableRow(g, table) : g \in GPUS}
  BY DEF Table
<1>4. QED BY <1>1, <1>2, <1>3 DEF load_embodied

LEMMA RoundedIsMonotonic ==
  ASSUME NEW x \in Nat, NEW y \in Nat, x <= y
  PROVE  Rounded(x) \in Nat /\ Rounded(y) \in Nat /\ Rounded(x) <= Rounded(y)
BY DEF Rounded

(* A published range is one, and memory only adds to it.                   *)
LEMMA TableRange ==
  ASSUME NEW g \in GPUS, NEW table
  PROVE  /\ TableRow(g, table).low_kg \in Nat /\ TableRow(g, table).high_kg \in Nat
         /\ TableRow(g, table).low_kg <= TableRow(g, table).high_kg
         /\ TableRow(g, "die only").low_kg <= TableRow(g, table).low_kg
<1>1. /\ g.die_mm2 \in Nat /\ g.vram_gb \in Nat
      /\ CPA_LOW \in Nat /\ CPA_HIGH \in Nat /\ CPA_LOW <= CPA_HIGH
  BY QuoteAssumption
<1> DEFINE mem == IF table = "cardlevel" THEN memory(g) ELSE 0
           low == embodied(g, CPA_LOW)
           high == embodied(g, CPA_HIGH)
<1>2. mem \in Nat /\ low \in Nat /\ high \in Nat /\ low <= high
  <2>1. CPA_LOW * g.die_mm2 <= CPA_HIGH * g.die_mm2
        /\ CPA_LOW * g.die_mm2 \in Nat /\ CPA_HIGH * g.die_mm2 \in Nat
    BY <1>1
  <2>2. QED BY <1>1, <2>1 DEF memory, embodied
<1>3. /\ TableRow(g, table).low_kg = Rounded(low + mem)
      /\ TableRow(g, table).high_kg = Rounded(high + mem)
      /\ TableRow(g, "die only").low_kg = Rounded(low + 0)
  BY DEF TableRow
<1> HIDE DEF mem, low, high
<1>4. /\ low + 0 \in Nat /\ low + mem \in Nat /\ high + mem \in Nat
      /\ low + 0 <= low + mem /\ low + mem <= high + mem
  BY <1>2
<1>5. QED BY <1>3, <1>4, RoundedIsMonotonic

LEMMA ModelsOfRows ==
  ASSUME NEW r \in PossibleRows
  PROVE  r.model \in Range(ModelOrder)
<1>1. Blank \in Range(ModelOrder)
  <2>1. 1 \in DOMAIN ModelOrder /\ ModelOrder[1] = Blank
    BY PodAssumption
  <2>2. QED BY <2>1 DEF Range
<1>2. QED BY <1>1, RowShapes, PodTypes

LEMMA CardModel ==
  ASSUME TypeInv, NEW card \in load_card_energy(aggregate(file))
  PROVE  card.gpu_model \in Range(ModelOrder)
<1>1. PICK row \in aggregate(file) : card = CardEnergy(row)
  BY DEF load_card_energy
<1>2. PICK i \in Valid(file) : row = Summary(file, Key(file[i]))
  BY <1>1 DEF aggregate
<1>3. card.gpu_model = file[i].model
  BY <1>1, <1>2 DEF CardEnergy, Summary, Key
<1>4. file[i] \in PossibleRows
  BY <1>2, RowsTyped DEF Valid
<1>5. QED BY <1>3, <1>4, ModelsOfRows

LEMMA GridMeans ==
  ASSUME NEW v \in Invocations
  PROVE  /\ grid(v).sourced
         /\ ~GridRaises(v) => grid(v).name \in Presets /\ v.grid # "PJM"
<1>1. grid(v).name = PresetKey(v.grid) /\ grid(v).sourced = TRUE
  BY DEF grid, with_decline, preset
<1>2. v.grid = "PJM" => PresetKey(v.grid) \notin Presets
  BY QuoteAssumption DEF PresetKey
<1>3. QED BY <1>1, <1>2 DEF GridRaises

LEMMA QuoteMeans ==
  ASSUME NEW v, NEW pair, NEW e
  PROVE  LET q == Quote(v, pair, e)
         IN  /\ q.old = pair[1] /\ q.new = pair[2] /\ q.region = grid(v).name
             /\ q.tag = IF e.sourced /\ grid(v).sourced THEN "sourced" ELSE "PROVISIONAL"
             /\ q.ends = IF e.high_kg > e.low_kg THEN <<e.low_kg, e.high_kg>> ELSE <<e.low_kg>>
BY DEF Quote

LEMMA EndsMean ==
  ASSUME NEW low \in Nat, NEW high \in Nat, low <= high, NEW ends,
         ends = IF high > low THEN <<low, high>> ELSE <<low>>
  PROVE  Range(ends) = {low, high} /\ ends[1] <= ends[Len(ends)]
<1>1. CASE high > low
  BY <1>1 DEF Range
<1>2. CASE low = high
  BY <1>2 DEF Range
<1>3. QED BY <1>1, <1>2

(* The estimates of a new card: an override's is never sourced, and one    *)
(* that is was published for that card.                                    *)
LEMMA EstimateMeans ==
  ASSUME NEW v \in Invocations, NEW new, new.gpu_model \in Range(ModelOrder),
         NEW e \in Estimates(v, new)
  PROVE  /\ e.sourced \in BOOLEAN
         /\ e.sourced <=> ~override(v)
         /\ ~override(v) =>
              \E g \in GPUS : /\ g.nvml = new.gpu_model
                              /\ e.low_kg = TableRow(g, v.table).low_kg
                              /\ e.high_kg = TableRow(g, v.table).high_kg
<1>1. CASE override(v)
  <2>1. e.sourced = FALSE
    BY <1>1 DEF Estimates
  <2>2. QED BY <1>1, <2>1
<1>2. CASE ~override(v)
  <2>1. PICK r \in load_embodied(v.table, new.gpu_model) :
          e = [low_kg |-> r.low_kg, high_kg |-> r.high_kg, scope |-> r.scope, sourced |-> TRUE]
    BY <1>2 DEF Estimates
  <2>2. v.table # "unusable"
    BY <2>1 DEF load_embodied, Table
  <2>3. PICK g \in GPUS : g.nvml = new.gpu_model /\ r = TableRow(g, v.table)
    BY <2>1, <2>2, LoadedRows
  <2>4. e.sourced = TRUE /\ e.low_kg = r.low_kg /\ e.high_kg = r.high_kg
    BY <2>1
  <2>5. QED BY <1>2, <2>3, <2>4
<1>3. QED BY <1>1, <1>2

LEMMA PrintedMeans ==
  ASSUME NEW v \in Invocations, NEW q \in Printed(file, v)
  PROVE  /\ ~GridRaises(v) /\ Gate(v)
         /\ \E pair \in ReportedFor(file, Quotable(v)) :
              \E e \in Estimates(v, pair[2]) : q = Quote(v, pair, e)
<1>1. ~(GridRaises(v) \/ ~Gate(v) \/ OverrideRaises(v))
  BY DEF Printed
<1>2. q \in UNION {{Quote(v, pair, e) : e \in Estimates(v, pair[2])} :
                     pair \in ReportedFor(file, Quotable(v))}
  BY <1>1 DEF Printed
<1>3. QED BY <1>1, <1>2

(* What is printed says where it comes from.                               *)
LEMMA ProvenanceFromType ==
  ASSUME TypeInv, NEW v \in Invocations, NEW q \in Printed(file, v)
  PROVE  /\ q.tag = "sourced" <=> ~override(v)
         /\ ~v.allow_unsourced => q.tag = "sourced"
         /\ q.region \in Presets /\ v.grid # "PJM"
         /\ q.tag = "sourced" =>
              \E g \in GPUS :
                /\ q.new.gpu_model = g.nvml
                /\ Range(q.ends) = {TableRow(g, v.table).low_kg, TableRow(g, v.table).high_kg}
                /\ q.ends[1] <= q.ends[Len(q.ends)]
                /\ \A kg \in Range(q.ends) : TableRow(g, "die only").low_kg <= kg
<1>1. ~GridRaises(v) /\ Gate(v)
  BY PrintedMeans
<1>A. PICK pair \in ReportedFor(file, Quotable(v)) :
        \E e \in Estimates(v, pair[2]) : q = Quote(v, pair, e)
  BY PrintedMeans
<1>2. PICK e \in Estimates(v, pair[2]) : q = Quote(v, pair, e)
  BY <1>A
<1>3. pair[2].gpu_model \in Range(ModelOrder)
  <2>1. pair[2] \in load_card_energy(aggregate(file))
    BY <1>2 DEF ReportedFor, _pairs
  <2>2. QED BY <2>1, CardModel
<1>4. /\ q.new = pair[2] /\ q.region = grid(v).name
      /\ q.tag = IF e.sourced /\ grid(v).sourced THEN "sourced" ELSE "PROVISIONAL"
      /\ q.ends = IF e.high_kg > e.low_kg THEN <<e.low_kg, e.high_kg>> ELSE <<e.low_kg>>
  BY <1>2, QuoteMeans
<1>5. grid(v).sourced /\ grid(v).name \in Presets /\ v.grid # "PJM"
  BY <1>1, GridMeans
<1>6. e.sourced <=> ~override(v)
  BY <1>2, <1>3, EstimateMeans
<1>7. q.tag = "sourced" <=> ~override(v)
  BY <1>4, <1>5, <1>6
<1>8. ~v.allow_unsourced => ~override(v)
  BY <1>1 DEF Gate, embodied_sourced
<1>9. ASSUME ~override(v)
      PROVE  \E g \in GPUS :
                /\ q.new.gpu_model = g.nvml
                /\ Range(q.ends) = {TableRow(g, v.table).low_kg, TableRow(g, v.table).high_kg}
                /\ q.ends[1] <= q.ends[Len(q.ends)]
                /\ \A kg \in Range(q.ends) : TableRow(g, "die only").low_kg <= kg
  <2>1. PICK g \in GPUS : /\ g.nvml = pair[2].gpu_model
                          /\ e.low_kg = TableRow(g, v.table).low_kg
                          /\ e.high_kg = TableRow(g, v.table).high_kg
    BY <1>2, <1>3, <1>9, EstimateMeans
  <2> DEFINE low == TableRow(g, v.table).low_kg
             high == TableRow(g, v.table).high_kg
             bare == TableRow(g, "die only").low_kg
  <2>2. low \in Nat /\ high \in Nat /\ low <= high /\ bare <= low /\ bare \in Nat
    BY TableRange
  <2>3. q.ends = IF high > low THEN <<low, high>> ELSE <<low>>
    BY <1>4, <2>1
  <2> HIDE DEF low, high, bare
  <2>4. Range(q.ends) = {low, high} /\ q.ends[1] <= q.ends[Len(q.ends)]
    BY <2>2, <2>3, EndsMean
  <2>5. \A kg \in Range(q.ends) : bare <= kg
    BY <2>2, <2>4
  <2>6. QED BY <1>4, <2>1, <2>4, <2>5 DEF low, high, bare
<1>10. QED BY <1>4, <1>5, <1>7, <1>8, <1>9

(* No pair is lost between the energy table and the embodied one.          *)
LEMMA NothingIsLost ==
  ASSUME TypeInv, NEW v \in Invocations,
         v.table # "unusable", ~override(v), ~GridRaises(v)
  PROVE  {<<q.old, q.new>> : q \in Printed(file, v)} = Reported(file)
<1>1. ASSUME NEW m \in Range(ModelOrder)
      PROVE  load_embodied(v.table, m) # {} <=> m \in {g.nvml : g \in GPUS}
  <2>1. load_embodied(v.table, m) = {TableRow(g, v.table) : g \in {h \in GPUS : h.nvml = m}}
    BY LoadedRows
  <2>2. {h \in GPUS : h.nvml = m} # {} <=> m \in {g.nvml : g \in GPUS}
    OBVIOUS
  <2> DEFINE G == {h \in GPUS : h.nvml = m}
  <2>3. load_embodied(v.table, m) # {} <=> G # {}
    <3>1. load_embodied(v.table, m) = {TableRow(g, v.table) : g \in G}
      BY <2>1
    <3> HIDE DEF G
    <3>2. QED BY <3>1
  <2>4. QED BY <2>2, <2>3
<1>A. \A new : Estimates(v, new) # {} <=> load_embodied(v.table, new.gpu_model) # {}
  BY DEF Estimates
<1>B. Embodied = {g.nvml : g \in GPUS} \cap Range(ModelOrder)
  BY QuoteAssumption
<1>2. Quotable(v) = Embodied
  <2>1. {ModelOrder[i] : i \in DOMAIN ModelOrder} = Range(ModelOrder)
    BY DEF Range
  <2>2. \A m : [gpu_model |-> m].gpu_model = m
    OBVIOUS
  <2>3. Quotable(v) = {m \in Range(ModelOrder) : load_embodied(v.table, m) # {}}
    BY <1>A, <2>1, <2>2 DEF Quotable
  <2>4. QED BY <1>1, <1>B, <2>3
<1>3. ReportedFor(file, Quotable(v)) = Reported(file)
  BY <1>2 DEF Reported
<1>4. ~OverrideRaises(v)
  BY DEF OverrideRaises
<1>5. \A pair \in Reported(file) : /\ pair = <<pair[1], pair[2]>>
                                   /\ pair[2].gpu_model \in Embodied
                                   /\ Estimates(v, pair[2]) # {}
  <2>1. SUFFICES ASSUME NEW pair \in Reported(file)
                 PROVE  /\ pair = <<pair[1], pair[2]>> /\ pair[2].gpu_model \in Embodied
                        /\ Estimates(v, pair[2]) # {}
    OBVIOUS
  <2>2. pair = <<pair[1], pair[2]>> /\ pair[2].gpu_model \in Embodied
    BY DEF Reported, ReportedFor, _pairs
  <2>3. load_embodied(v.table, pair[2].gpu_model) # {}
    BY <1>1, <1>B, <2>2
  <2>4. QED BY <1>A, <2>2, <2>3
<1>6. Reported(file) # {} => Gate(v)
  <2>1. Reported(file) # {} => GPUS # {}
    BY <1>5, <1>B
  <2>2. GPUS # {} => Table(v.table) # {}
    BY DEF Table
  <2>3. QED BY <2>1, <2>2, GridMeans DEF Gate, embodied_sourced
<1>7. CASE Reported(file) = {}
  BY <1>3, <1>7 DEF Printed
<1>8. CASE Reported(file) # {}
  <2>1. Printed(file, v) = UNION {{Quote(v, pair, e) : e \in Estimates(v, pair[2])} : pair \in Reported(file)}
    BY <1>3, <1>4, <1>6, <1>8 DEF Printed
  <2>2. ASSUME NEW pair \in Reported(file)
        PROVE  \E q \in Printed(file, v) : pair = <<q.old, q.new>>
    <3>1. PICK e \in Estimates(v, pair[2]) : TRUE
      BY <1>5
    <3>2. Quote(v, pair, e).old = pair[1] /\ Quote(v, pair, e).new = pair[2]
      BY DEF Quote
    <3> DEFINE q == Quote(v, pair, e)
    <3>3. q \in Printed(file, v)
      BY <2>1, <3>1
    <3> HIDE DEF q
    <3>4. <<q.old, q.new>> = <<pair[1], pair[2]>>
      BY <3>2, Zenon DEF q
    <3>5. pair = <<pair[1], pair[2]>>
      BY <1>5
    <3>6. QED BY <3>3, <3>4, <3>5, Zenon
  <2>3. ASSUME NEW q \in Printed(file, v)
        PROVE  <<q.old, q.new>> \in Reported(file)
    <3>1. PICK pair \in Reported(file) : \E e \in Estimates(v, pair[2]) : q = Quote(v, pair, e)
      BY <1>3, PrintedMeans
    <3>2. PICK e \in Estimates(v, pair[2]) : q = Quote(v, pair, e)
      BY <3>1
    <3>3. q.old = pair[1] /\ q.new = pair[2]
      BY <3>2 DEF Quote
    <3>4. <<q.old, q.new>> = <<pair[1], pair[2]>>
      BY <3>3, Zenon
    <3>5. pair = <<pair[1], pair[2]>>
      BY <1>5
    <3>6. QED BY <3>4, <3>5, Zenon
  <2>4. QED BY <2>2, <2>3
<1>9. QED BY <1>7, <1>8

LEMMA SourcedFromType == TypeInv => QuoteIsSourced
BY ProvenanceFromType, NothingIsLost, Zenon DEF QuoteIsSourced

----------------------------------------------------------------------------
(* Idle power.                                                             *)

LEMMA IdleFromType == TypeInv => IdleWeightsPods
<1>1. SUFFICES ASSUME TypeInv, NEW row \in aggregate(file)
               PROVE  LET pods == {file[i].pod : i \in Numeric(file, Members(file, <<row.config_id, row.gpu_model>>), "idle")}
                      IN  /\ row.idle.count = Cardinality(pods)
                          /\ row.idle.sum = Total([p \in pods |-> p.idle], pods)
  BY DEF IdleWeightsPods
<1>2. PICK key \in {Key(file[i]) : i \in Valid(file)} : row = Summary(file, key)
  BY <1>1 DEF aggregate
<1>3. key = <<row.config_id, row.gpu_model>> /\ row.idle = idle_mean(file, Members(file, key))
  BY <1>2 DEF Summary, Key
<1> DEFINE I == Numeric(file, Members(file, key), "idle")
           pods == {file[i].pod : i \in I}
           values == {file[i].idle : i \in I}
           b == [p \in pods |-> p.idle]
           g == [x \in values |-> x]
<1>4. row.idle.sum = Total(g, values) /\ row.idle.count = Cardinality(values)
  BY <1>3 DEF idle_mean
<1>5. \A i \in I : /\ file[i].pod \in Pods /\ file[i].idle = file[i].pod.idle
                   /\ file[i].pod.idle \in Nat
  <2>1. SUFFICES ASSUME NEW i \in I
                 PROVE  file[i].pod \in Pods /\ file[i].idle = file[i].pod.idle /\ file[i].pod.idle \in Nat
    OBVIOUS
  <2>2. i \in DOMAIN file /\ ~file[i].exclusion_reason /\ file[i].idle # None
    BY DEF Numeric, Members, Valid
  <2>3. file[i] \in PossibleRows
    BY <1>1, <2>2, RowsTyped
  <2>4. file[i].pod \in Pods /\ file[i].idle \in {file[i].pod.idle, None}
    BY <2>2, <2>3, RowShapes
  <2>5. QED BY <2>2, <2>4, PodTypes
<1>6. IsFiniteSet(pods)
  <2> DEFINE f == [i \in I |-> file[i].pod]
  <2>1. I \subseteq Members(file, key)
    BY DEF Numeric
  <2>2. IsFiniteSet(I)
    BY <1>1, <2>1, MembersFinite, FS_Subset
  <2>3. pods = {f[i] : i \in I}
    OBVIOUS
  <2> HIDE DEF f, I, pods
  <2>4. QED BY <2>2, <2>3, ImageIsFinite
<1>7. values = {b[p] : p \in pods}
  BY <1>5
<1>8. \A p, q \in pods : b[p] = b[q] => p = q
  <2>1. SUFFICES ASSUME NEW p \in pods, NEW q \in pods, p.idle = q.idle PROVE p = q
    OBVIOUS
  <2>2. p \in Pods /\ q \in Pods /\ p.idle \in Nat
    BY <1>5
  <2>3. None \notin Nat
    BY EnergyTypes
  <2>4. \A x, y \in Pods : x.idle = y.idle => x = y \/ x.idle = None
    BY PodAssumption
  <2>5. QED BY <2>1, <2>2, <2>3, <2>4
<1>9. \A p \in pods : b[p] \in Int /\ g[b[p]] = b[p]
  BY <1>5, <1>7
<1> HIDE DEF I, values, b, g, pods
<1>10. Total(b, pods) = Total(g, values)
  BY <1>6, <1>7, <1>8, <1>9, TotalOfImage
<1>11. Cardinality(values) = Cardinality(pods)
  BY <1>6, <1>7, <1>8, CardinalityOfImage
<1>12. QED BY <1>3, <1>4, <1>10, <1>11 DEF I, pods, b

----------------------------------------------------------------------------
(* The order of the rows.                                                  *)

(* runs has the rows of file in another order, in which row k stands where *)
(* p[k] stood and the other way round.                                     *)
Reordered(runs, p) ==
  /\ DOMAIN runs = DOMAIN file
  /\ \A k \in DOMAIN file : p[k] \in DOMAIN file /\ p[p[k]] = k /\ runs[k] = file[p[k]]

LEMMA ReorderedMembers ==
  ASSUME NEW runs, NEW p, Reordered(runs, p), NEW key
  PROVE  /\ Members(runs, key) \subseteq DOMAIN file /\ Members(file, key) \subseteq DOMAIN file
         /\ \A k \in DOMAIN file : /\ k \in Members(runs, key) <=> p[k] \in Members(file, key)
                                   /\ k \in Members(file, key) <=> p[k] \in Members(runs, key)
         /\ \A k \in DOMAIN file : /\ k \in Valid(runs) <=> p[k] \in Valid(file)
                                   /\ k \in Valid(file) <=> p[k] \in Valid(runs)
BY DEF Reordered, Members, Valid

LEMMA ReorderedMean ==
  ASSUME TypeInv, NEW runs, NEW p, Reordered(runs, p), NEW key, NEW field,
         \A k \in Members(file, key) : file[k][field] \in Int
  PROVE  fmean(runs, Members(runs, key), field) = fmean(file, Members(file, key), field)
<1> DEFINE J == Numeric(file, Members(file, key), field)
           K == Numeric(runs, Members(runs, key), field)
           f == [k \in J |-> file[k][field]]
           g == [k \in K |-> runs[k][field]]
<1>1. \A k \in J : /\ k \in DOMAIN file /\ p[k] \in DOMAIN file /\ p[p[k]] = k
                   /\ runs[p[k]] = file[k] /\ p[k] \in K
  BY ReorderedMembers DEF Reordered, Numeric
<1>2. \A k \in K : p[k] \in J /\ p[p[k]] = k
  BY ReorderedMembers DEF Reordered, Numeric
<1>3. K = {p[k] : k \in J}
  <2> HIDE DEF J, K
  <2>1. QED BY <1>1, <1>2
<1>4. IsFiniteSet(J)
  <2>1. J \subseteq Members(file, key)
    BY DEF Numeric
  <2>2. QED BY <2>1, MembersFinite, FS_Subset
<1>5. \A k \in J : f[k] \in Int /\ g[p[k]] = f[k]
  <2>1. \A k \in J : f[k] = file[k][field] /\ f[k] \in Int
    BY DEF Numeric
  <2>2. \A k \in K : g[k] = runs[k][field]
    OBVIOUS
  <2> HIDE DEF J, K, f, g
  <2>3. QED BY <1>1, <2>1, <2>2
<1>6. \A x, y \in J : p[x] = p[y] => x = y
  <2> HIDE DEF J
  <2>1. QED BY <1>1
<1>7. Total(f, J) = Total(g, K)
  <2> HIDE DEF J, K, f, g
  <2>1. QED BY <1>3, <1>4, <1>5, <1>6, TotalOfImage
<1>8. Cardinality(K) = Cardinality(J)
  <2> HIDE DEF J, K
  <2>1. QED BY <1>3, <1>4, <1>6, CardinalityOfImage
<1>9. /\ fmean(file, Members(file, key), field) = [sum |-> Total(f, J), count |-> Cardinality(J)]
      /\ fmean(runs, Members(runs, key), field) = [sum |-> Total(g, K), count |-> Cardinality(K)]
  BY DEF fmean
<1>10. QED BY <1>7, <1>8, <1>9

LEMMA FiguresAreNumbers ==
  ASSUME TypeInv, NEW key
  PROVE  \A k \in Members(file, key) : file[k].energy \in Int /\ file[k].runtime \in Int
<1>1. SUFFICES ASSUME NEW k \in Members(file, key)
               PROVE  file[k].energy \in Int /\ file[k].runtime \in Int
  OBVIOUS
<1>2. k \in DOMAIN file /\ ~file[k].exclusion_reason
  BY DEF Members, Valid
<1>3. file[k] \in PossibleRows
  BY <1>2, RowsTyped
<1>4. /\ file[k].energy \in Energies \/ file[k].energy = None
      /\ file[k].runtime = file[k].pod.runtime /\ file[k].pod \in Pods
  BY <1>2, <1>3, RowShapes
<1>5. file[k].energy \in Int
  <2>1. None \in Int
    BY DEF None
  <2>2. \A e \in Energies : e \in Int
    BY EnergyTypes
  <2>3. QED BY <1>4, <2>1, <2>2
<1>6. file[k].pod.runtime \in Int
  BY <1>4, PodTypes
<1>7. QED BY <1>4, <1>5, <1>6

LEMMA ReorderedSummary ==
  ASSUME TypeInv, NEW runs, NEW p, Reordered(runs, p), NEW key
  PROVE  /\ SameWork(runs, key) <=> SameWork(file, key)
         /\ SameWork(file, key) /\ Members(file, key) # {} =>
              Summary(runs, key) = Summary(file, key)
<1> DEFINE I == Members(file, key)
           L == Members(runs, key)
<1>1. \A k \in I : p[k] \in L /\ runs[p[k]] = file[k]
  BY ReorderedMembers DEF Reordered
<1>2. \A k \in L : p[k] \in I /\ runs[k] = file[p[k]]
  BY ReorderedMembers DEF Reordered
<1>3. {runs[k].hash : k \in L} = {file[k].hash : k \in I}
  <2> HIDE DEF I, L
  <2>1. QED BY <1>1, <1>2
<1>4. {runs[k].inner : k \in L} = {file[k].inner : k \in I}
  <2> HIDE DEF I, L
  <2>1. QED BY <1>1, <1>2
<1>5. {runs[k].idle : k \in Numeric(runs, L, "idle")} = {file[k].idle : k \in Numeric(file, I, "idle")}
  <2>1. \A k : /\ k \in Numeric(runs, L, "idle") <=> k \in L /\ runs[k].idle # None
               /\ k \in Numeric(file, I, "idle") <=> k \in I /\ file[k].idle # None
    BY DEF Numeric
  <2> HIDE DEF I, L
  <2>2. QED BY <1>1, <1>2, <2>1
<1>6. SameWork(runs, key) <=> SameWork(file, key)
  BY <1>3 DEF SameWork
<1>7. ASSUME SameWork(file, key), I # {}
      PROVE  runs[Min(L)].hash = file[Min(I)].hash
  <2>1. I \subseteq Nat /\ L \subseteq Nat /\ L # {}
    <3>1. I \subseteq DOMAIN file /\ L \subseteq DOMAIN file /\ DOMAIN file \subseteq Nat
      BY ReorderedMembers, RowsTyped
    <3>2. L # {}
      BY <1>1, <1>7
    <3>3. QED BY <3>1, <3>2
  <2>2. Min(L) \in L
    <3> HIDE DEF L
    <3>1. QED BY <2>1, MinIsLeast
  <2>3. p[Min(L)] \in I /\ runs[Min(L)] = file[p[Min(L)]]
    BY <1>2, <2>2
  <2>4. file[p[Min(L)]].hash = file[Min(I)].hash
    BY <1>7, <2>3, GroupHash
  <2>5. QED BY <2>3, <2>4
<1>8. /\ fmean(runs, L, "energy") = fmean(file, I, "energy")
      /\ fmean(runs, L, "runtime") = fmean(file, I, "runtime")
  BY ReorderedMean, FiguresAreNumbers
<1>9. idle_mean(runs, L) = idle_mean(file, I)
  BY <1>5 DEF idle_mean
<1>10. ASSUME SameWork(file, key), I # {} PROVE Summary(runs, key) = Summary(file, key)
  BY <1>4, <1>7, <1>8, <1>9, <1>10 DEF Summary
<1>11. QED BY <1>6, <1>10

LEMMA ReorderedAggregate ==
  ASSUME TypeInv, NEW runs, NEW p, Reordered(runs, p)
  PROVE  aggregate(runs) = aggregate(file)
<1> DEFINE keys(rows) == {Key(rows[k]) : k \in Valid(rows)}
<1>1. keys(runs) = keys(file)
  <2>1. /\ Valid(runs) \subseteq DOMAIN file /\ Valid(file) \subseteq DOMAIN file
        /\ \A k \in Valid(file) : p[k] \in Valid(runs) /\ runs[p[k]] = file[k]
        /\ \A k \in Valid(runs) : p[k] \in Valid(file) /\ runs[k] = file[p[k]]
    BY DEF Reordered, Valid
  <2>2. QED BY <2>1
<1>2. \A key \in keys(file) : Members(file, key) # {}
  BY DEF Members
<1>3. \A key \in keys(file) :
        /\ SameWork(runs, key) <=> SameWork(file, key)
        /\ SameWork(file, key) => Summary(runs, key) = Summary(file, key)
  BY <1>2, ReorderedSummary
<1>4. /\ aggregate(runs) = {Summary(runs, key) : key \in {k \in keys(runs) : SameWork(runs, k)}}
      /\ aggregate(file) = {Summary(file, key) : key \in {k \in keys(file) : SameWork(file, k)}}
  BY DEF aggregate
<1> HIDE DEF keys
<1>5. QED BY <1>1, <1>3, <1>4

LEMMA OrderFromType == TypeInv => OrderIrrelevant
<1>1. SUFFICES ASSUME TypeInv, NEW i \in 1 .. Len(file) - 1
               PROVE  LET swapped == [file EXCEPT ![i] = file[i + 1], ![i + 1] = file[i]]
                      IN  aggregate(swapped) = aggregate(file) /\ Reported(swapped) = Reported(file)
  BY DEF OrderIrrelevant
<1> DEFINE runs == [file EXCEPT ![i] = file[i + 1], ![i + 1] = file[i]]
           p == [k \in DOMAIN file |-> IF k = i THEN i + 1 ELSE IF k = i + 1 THEN i ELSE k]
<1>2. i \in DOMAIN file /\ i + 1 \in DOMAIN file /\ i # i + 1
  BY <1>1, RowsTyped
<1>3. DOMAIN runs = DOMAIN file
  OBVIOUS
<1>4. \A k \in DOMAIN file : /\ p[k] \in DOMAIN file /\ p[p[k]] = k /\ runs[k] = file[p[k]]
  <2>1. file \in [DOMAIN file -> PossibleRows]
    BY <1>1, RowsTyped DEF TypeInv
  <2>2. QED BY <1>2, <2>1
<1>5. Reordered(runs, p)
  <2> HIDE DEF runs, p
  <2>1. QED BY <1>3, <1>4 DEF Reordered
<1> HIDE DEF runs, p
<1>6. aggregate(runs) = aggregate(file)
  BY <1>1, <1>5, ReorderedAggregate
<1>7. Reported(runs) = Reported(file)
  BY <1>6 DEF Reported, ReportedFor
<1>8. QED BY <1>6, <1>7 DEF runs

----------------------------------------------------------------------------
(* The theorems.                                                           *)

(* Every row of the file is one that run_once writes.                      *)
THEOREM RowsAreWritten == Spec => []TypeInv
<1>1. QED BY InitType, StepType, PTL DEF Spec

(* All that a reported replacement rests on did the same work, over a      *)
(* timed region, at the loop count its figure divides by.                  *)
THEOREM LikeWithLike == Spec => []OneWorkPerFigure
BY RowsAreWritten, OneWorkFromType, PTL

(* summarize_runs and fleet_subset take the same rows of a sizing in use.  *)
THEOREM ReadersAgree == Spec => []FleetAgrees
BY RowsAreWritten, AgreesFromType, PTL

(* The tables and the replacements are the same whatever the order of the  *)
(* rows: swapping neighbours, of which every order is made, changes none.  *)
THEOREM AnyOrder == Spec => []OrderIrrelevant
BY RowsAreWritten, OrderFromType, PTL

(* A card's idle power is the mean over its pods, not over its rows.       *)
THEOREM PodsWeighAlike == Spec => []IdleWeightsPods
BY RowsAreWritten, IdleFromType, PTL

(* What is printed as sourced is on a published figure for that very card  *)
(* and an eGRID subregion, and no replacement is lost in between.          *)
THEOREM SourcedIsPublished == Spec => []QuoteIsSourced
BY RowsAreWritten, SourcedFromType, PTL
=============================================================================
