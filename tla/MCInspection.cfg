CONSTANTS
  Powers     <- MCPowers
  MaxGap     <- MCMaxGap
  MaxSamples <- MCMaxSamples
  Scale      <- MCScale
  Cards      <- MCCards
  n1 = n1
  n2 = n2
  n3 = n3
  Nodes         <- MCNodes
  Models        <- MCModels
  MigModels     <- MCMig
  Kinds         <- MCKinds
  CoverageNodes <- MCCoverage
  MaxEvents     <- MCMaxEvents
SYMMETRY Symmetry
SPECIFICATION ISpec
INVARIANTS
  TraceFiguresAreExact
  PassIsSound
  CountedOnce
  CoverageIsTrue
  FeedIsTrue
PROPERTIES
  RelabelSplits
CHECK_DEADLOCK FALSE
