------------------------------- MODULE Quotes -------------------------------
(***************************************************************************)
(* carbon_model's main: which replacements it prints an answer for, on     *)
(* what embodied figure and grid intensity, and what it says of where they *)
(* come from.  The pairs are FleetAnalysis's; the embodied figures are     *)
(* those of embodied_carbon.py, read back by load_embodied; the regions    *)
(* are those of grid_intensity.py.  What break_even_jobs answers is        *)
(* BreakEven's.                                                            *)
(*                                                                         *)
(* Masses are in tenths of a kilogram, as the tables publish them; before  *)
(* rounding, in units of 1/1400 of that.                                   *)
(***************************************************************************)
EXTENDS FleetAnalysis

CONSTANTS
  GPUS,        (* per card of the sweep: die_mm2, VRAM_GB, and its name as  *)
               (* NVML has it and as the table does, like the node's label  *)
  Spelling,    (* each name as a sequence of words, blanks and hyphens      *)
  Lower,       (* str.lower() of each of those                              *)
  CPA_LOW, CPA_HIGH,
  Presets,     (* _EGRID_ROWS' regions                                      *)
  Aliases,     (* names people say for some of them                         *)
  Percent,       (* a decline is in parts of this                             *)
  Invocations  (* the arguments main is called with                         *)

(* Mutation: the two tables are joined on the names as they stand.         *)
JoinedAsWritten(name) == Spelling[name]

(* _normalise_gpu_model: hyphens are replaced by blanks, all is put in     *)
(* lower case, and the words are what is left of that.                     *)
Spaced(spelling) ==
  [i \in DOMAIN spelling |-> IF spelling[i] = "-" THEN " " ELSE Lower[spelling[i]]]

split(tokens) == SelectSeq(tokens, LAMBDA token : token # " ")

_normalise_gpu_model(name) == split(Spaced(Spelling[name]))

(* A product label is NVML's name with a hyphen for each blank.            *)
Hyphenated(spelling) ==
  [i \in DOMAIN spelling |-> IF spelling[i] = " " THEN "-" ELSE spelling[i]]

(* The table names its cards as the labels do, and no two cards have names *)
(* that differ in no more than case and separators.                        *)
ASSUME QuoteAssumption ==
  /\ GPUS \subseteq [nvml : STRING, label : STRING, die_mm2 : Nat \ {0}, vram_gb : Nat]
  /\ Lower[" "] = " "
  /\ \A g \in GPUS : Spelling[g.label] = Hyphenated(Spelling[g.nvml])
  /\ \A g, h \in GPUS : _normalise_gpu_model(g.nvml) = _normalise_gpu_model(h.nvml) => g = h
  /\ \A g \in GPUS : \A m \in Range(ModelOrder) :
       _normalise_gpu_model(m) = _normalise_gpu_model(g.nvml) => m = g.nvml
  /\ Embodied = {g.nvml : g \in GPUS} \cap Range(ModelOrder)
  /\ CPA_LOW \in Nat \ {0} /\ CPA_HIGH \in Nat /\ CPA_LOW <= CPA_HIGH
  /\ \A a \in DOMAIN Aliases : Aliases[a] \in Presets /\ a \notin Presets
  /\ "PJM" \notin Presets \cup DOMAIN Aliases
  /\ \A v \in Invocations :
       v \in [grid : STRING, annual_decline : Int, table : {"cardlevel", "die only", "unusable"},
              embodied_kg : Int, embodied_high_kg : Int, allow_unsourced : BOOLEAN]

----------------------------------------------------------------------------
(* embodied_carbon.py.  embodied() is CPA times area over YIELD 0.875,     *)
(* plus 0.150 kg; the card-level table adds 0.065 kg for each GB.          *)
embodied(g, cpa) == cpa * g.die_mm2 * 160 + 2100
memory(g)        == g.vram_gb * 910

(* round(x, 1).                                                            *)
Rounded(x) == (x + 700) \div 1400

(* A published row, or what load_embodied skips for want of a range.       *)
TableRow(g, table) ==
  LET mem == IF table = "cardlevel" THEN memory(g) ELSE 0
  IN  [gpu_model |-> g.label,
       low_kg    |-> Rounded(embodied(g, CPA_LOW) + mem),
       high_kg   |-> Rounded(embodied(g, CPA_HIGH) + mem),
       scope     |-> table]

Table(table) == IF table = "unusable" THEN {} ELSE {TableRow(g, table) : g \in GPUS}

load_embodied(table, model) ==
  {r \in Table(table) : _normalise_gpu_model(r.gpu_model) = _normalise_gpu_model(model)}

----------------------------------------------------------------------------
(* grid_intensity.py: a lookup by acronym or alias, in which PJM is no     *)
(* region; and a decline, which leaves the provenance alone.               *)
PresetKey(name) == IF name \in DOMAIN Aliases THEN Aliases[name] ELSE name

preset(name) == [name |-> PresetKey(name), sourced |-> TRUE, annual_decline |-> 0]

with_decline(grid, decline) == [grid EXCEPT !.annual_decline = decline]

grid(v) == with_decline(preset(v.grid), v.annual_decline)

(* preset raises KeyError, GridIntensity ValueError.                       *)
GridRaises(v) == PresetKey(v.grid) \notin Presets \/ v.annual_decline \notin 0 .. Percent - 1

----------------------------------------------------------------------------
(* main.                                                                   *)
override(v) == v.embodied_kg # None

high_kg(v) == IF v.embodied_high_kg = None THEN v.embodied_kg ELSE v.embodied_high_kg

embodied_sourced(v) == Table(v.table) # {} /\ ~override(v)

Gate(v) == v.allow_unsourced \/ (embodied_sourced(v) /\ grid(v).sourced)

(* parser.error for an inverted override, and EmbodiedEstimate's           *)
(* ValueError for one that is not positive.                                *)
OverrideRaises(v) == override(v) /\ (v.embodied_kg <= 0 \/ high_kg(v) < v.embodied_kg)

(* The estimates for a new card: one from the override, or the table's.    *)
Estimates(v, new) ==
  IF override(v)
  THEN {[low_kg |-> v.embodied_kg, high_kg |-> high_kg(v), scope |-> Blank, sourced |-> FALSE]}
  ELSE {[low_kg |-> r.low_kg, high_kg |-> r.high_kg, scope |-> r.scope, sourced |-> TRUE] :
          r \in load_embodied(v.table, new.gpu_model)}

Quote(v, pair, e) ==
  [old |-> pair[1], new |-> pair[2], region |-> grid(v).name,
   ends |-> IF e.high_kg > e.low_kg THEN <<e.low_kg, e.high_kg>> ELSE <<e.low_kg>>,
   scope |-> e.scope,
   tag |-> IF e.sourced /\ grid(v).sourced THEN "sourced" ELSE "PROVISIONAL"]

Quotable(v) == {m \in {ModelOrder[i] : i \in DOMAIN ModelOrder} :
                  Estimates(v, [gpu_model |-> m]) # {}}

Printed(runs, v) ==
  IF GridRaises(v) \/ ~Gate(v) \/ OverrideRaises(v) THEN {}
  ELSE UNION {{Quote(v, pair, e) : e \in Estimates(v, pair[2])} :
                pair \in ReportedFor(runs, Quotable(v))}

----------------------------------------------------------------------------
(* A figure that is printed as sourced, and every one that is printed      *)
(* without --allow-unsourced, is on one eGRID subregion and on the range   *)
(* that embodied_carbon.py published for that very card in the scope asked *)
(* for; an override is always marked.  No pair is lost for the spelling of *)
(* a name: what the energy table calls the card is found in the other      *)
(* table.  annual_decline, which nothing cites, changes none of this.      *)
(* That anything is printed as sourced at all is what the module's         *)
(* docstring denies: see SourcedIsMeasured.                                *)
QuoteIsSourced ==
  LET pairs == Reported(file) IN
  \A v \in Invocations :
    LET Q == Printed(file, v) IN
    /\ \A q \in Q :
         /\ q.tag = "sourced" <=> ~override(v)
         /\ ~v.allow_unsourced => q.tag = "sourced"
         /\ q.region \in Presets /\ v.grid # "PJM"
         /\ q.tag = "sourced" =>
              \E g \in GPUS :
                /\ q.new.gpu_model = g.nvml
                /\ Range(q.ends) = {TableRow(g, v.table).low_kg, TableRow(g, v.table).high_kg}
                /\ q.ends[1] <= q.ends[Len(q.ends)]
                /\ \A kg \in Range(q.ends) : TableRow(g, "die only").low_kg <= kg
    /\ v.table # "unusable" /\ ~override(v) /\ ~GridRaises(v) =>
         {<<q.old, q.new>> : q \in Q} = pairs

(* The docstrings of carbon_model and load_embodied say that the grid      *)
(* intensity is a placeholder and that whatever is printed is marked as    *)
(* provisional, and the tests of idle power that a missing figure is a     *)
(* gap.  So at the least nothing is printed as sourced that rests on an    *)
(* idle power nobody measured.  But since the intensities are eGRID's,     *)
(* answers are printed as sourced, and a card whose every idle window      *)
(* failed is compared as one that idles at 0 W.                            *)
SourcedIsMeasured ==
  \A v \in Invocations : \A q \in Printed(file, v) :
    q.tag = "sourced" =>
      \A card \in {q.old, q.new} :
        Numeric(file, Members(file, <<card.config_id, card.gpu_model>>), "idle") # {}
=============================================================================
