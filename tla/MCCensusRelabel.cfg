CONSTANTS
  n1 = n1
  n2 = n2
  n3 = n3
  Nodes         <- MCNodes
  Models        <- MCModels
  MigModels     <- MCMig
  Kinds         <- MCKinds
  CoverageNodes <- MCCoverage
  MaxEvents     <- MCMaxEvents
SYMMETRY Symmetry
SPECIFICATION Spec
PROPERTIES
  TotalDoesNotMove
