CONSTANTS
  Pods         <- MCPods
  Energies     <- MCEnergies
  ModelOrder   <- MCModels
  ConfigOrder  <- MCConfigs
  KEEP_CONFIGS <- MCKeep
  Embodied     <- MCEmbodied
  MaxRows      <- MCMaxRows
  GPUS         <- MCGPUS
  Spelling     <- MCSpelling
  Lower        <- MCLower
  CPA_LOW      = 1
  CPA_HIGH     = 3
  Presets      <- MCPresets
  Aliases      <- MCAliases
  Percent      = 100
  Invocations  <- MCInvocations
  Cards          <- MCCards
  EmbodiedRanges <- MCRanges
  Intensity      <- MCIntensity
  Declines       <- MCDeclines
  Whole          <- MCWhole
  SecondsPerYear <- MCSeconds
  JPerKwh        <- MCJPerKwh
  IdleSpread     <- MCSpread
  MaxYears       <- MCYears
SPECIFICATION CSpec
INVARIANTS
  OneWorkPerFigure
  OrderIrrelevant
  IdleWeightsPods
  FleetAgrees
  QuoteIsSourced
  BreakEvenIsExact
  CurveIsFirstYear
  LowEndIsRobust
  SuppressionErrsOneWay
  FormsAgree
CHECK_DEADLOCK FALSE
