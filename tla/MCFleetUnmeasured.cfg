CONSTANTS
  Pods         <- MCPods
  Energies     <- MCEnergies
  ModelOrder   <- MCModels
  ConfigOrder  <- MCConfigs
  KEEP_CONFIGS <- MCKeep
  Embodied     <- MCEmbodied
  MaxRows      <- MCMaxRows
  GPUS         <- MCGPUS
  Spelling     <- MCSpelling
  Lower        <- MCLower
  CPA_LOW      = 1
  CPA_HIGH     = 3
  Presets      <- MCPresets
  Aliases      <- MCAliases
  Percent      = 100
  Invocations  <- MCInvocations
SPECIFICATION Spec
INVARIANT SourcedIsMeasured
CHECK_DEADLOCK FALSE
