-------------------------- MODULE MCFleetAnalysis --------------------------
(* FleetAnalysis for TLC: a current sizing on two models, run by pods that *)
(* differ in idle power and, one of them, in what it computed; and an old  *)
(* sizing of a pod, with another loop count.                               *)
EXTENDS Quotes

GTX1080 == "NVIDIA GeForce GTX 1080 Ti"
RTX2080 == "NVIDIA GeForce RTX 2080 Ti"
A4000   == "NVIDIA RTX A4000"

Pod(config, model, inner, hash, idle) ==
  [config |-> config, model |-> model, inner |-> inner, hash |-> hash,
   runtime |-> inner, idle |-> idle]

MCPods ==
  {Pod("now", GTX1080, 2, "h", 1), Pod("now", GTX1080, 2, "h", 4), Pod("now", A4000, 2, "h", None),
   Pod("now", A4000, 2, "g", 2), Pod("before", GTX1080, 1, "k", None)}

MCEnergies == {2, 3}
MCModels   == <<"", GTX1080, A4000>>
MCConfigs  == <<"before", "now">>
MCKeep     == {"now"}
MCEmbodied == {GTX1080, A4000}
MCMaxRows  == 3

(* The published table: the two cards that these pods measure, and one     *)
(* that none of them did.                                                  *)
MCGPUS ==
  {[nvml |-> GTX1080, label |-> "NVIDIA-GeForce-GTX-1080-Ti", die_mm2 |-> 471, vram_gb |-> 11],
   [nvml |-> RTX2080, label |-> "NVIDIA-GeForce-RTX-2080-Ti", die_mm2 |-> 754, vram_gb |-> 11],
   [nvml |-> A4000, label |-> "NVIDIA-RTX-A4000", die_mm2 |-> 392, vram_gb |-> 16]}

MCSpelling ==
  "" :> <<>> @@
  GTX1080 :> <<"NVIDIA", " ", "GeForce", " ", "GTX", " ", "1080", " ", "Ti">> @@
  RTX2080 :> <<"NVIDIA", " ", "GeForce", " ", "RTX", " ", "2080", " ", "Ti">> @@
  A4000   :> <<"NVIDIA", " ", "RTX", " ", "A4000">> @@
  "NVIDIA-GeForce-GTX-1080-Ti" :> <<"NVIDIA", "-", "GeForce", "-", "GTX", "-", "1080", "-", "Ti">> @@
  "NVIDIA-GeForce-RTX-2080-Ti" :> <<"NVIDIA", "-", "GeForce", "-", "RTX", "-", "2080", "-", "Ti">> @@
  "NVIDIA-RTX-A4000" :> <<"NVIDIA", "-", "RTX", "-", "A4000">>
MCLower ==
  "NVIDIA" :> "nvidia" @@ "GeForce" :> "geforce" @@ "GTX" :> "gtx" @@ "RTX" :> "rtx" @@
  "Ti" :> "ti" @@ "A4000" :> "a4000" @@ [token \in {"1080", "2080", " "} |-> token]
MCPresets == {"CAMX", "ERCT", "RFCE", "RFCM", "RFCW", "US"}
MCAliases == [a \in {"CAISO", "CALIFORNIA"} |-> "CAMX"]

Plain == [grid |-> "CAMX", annual_decline |-> 0, table |-> "cardlevel",
          embodied_kg |-> None, embodied_high_kg |-> None, allow_unsourced |-> FALSE]
MCInvocations ==
  {Plain, [Plain EXCEPT !.grid = "CAISO", !.annual_decline = 3, !.table = "die only"],
   [Plain EXCEPT !.grid = "PJM"], [Plain EXCEPT !.table = "unusable"],
   [Plain EXCEPT !.embodied_kg = 100],
   [Plain EXCEPT !.embodied_kg = 50, !.embodied_high_kg = 400, !.allow_unsourced = TRUE]}

(* The committed tables: data/embodied/embodied_carbon_cardlevel.csv and   *)
(* embodied_carbon.csv.                                                    *)
ASSUME CommittedTables ==
  LET row(table, kg) ==
        \E r \in Table(table) : <<r.low_kg, r.high_kg>> = kg
  IN  /\ \A kg \in {<<62, 170>>, <<95, 267>>, <<57, 146>>} : row("cardlevel", kg)
      /\ \A kg \in {<<55, 163>>, <<88, 260>>, <<46, 136>>} : row("die only", kg)
=============================================================================
