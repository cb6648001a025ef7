SPECIFICATION Spec
CONSTANTS
  Names <- MCNames
  Reserved <- MCReserved
  SkillsName = "skills"
  Sources <- MCSources
  Leaf <- MCLeaf
  None = None
  Ids <- MCIds
  KindOf <- MCKindOf
  Payloads <- MCPayloads
  Deletable <- MCDeletable
  Packages <- MCPackages
  ToolName <- MCToolName
  PackageStates <- MCPackageStates
  HostStates <- MCHostStates
  Connections <- MCConnections
  Endpoints = {"here", "there"}
  KeyRequired = {"there"}
  InitialConfig <- MCConfig
  InitialHost <- MCHost
  InitialConnections <- MCInitialConnections
  InitialBindings <- MCBindings
  Probes <- MCProbes
  MaxChanges = 2
  MaxRuns = 2
INVARIANTS
  BuiltAsValidated
  RuntimesReleased
  CredentialFitsEndpoint
PROPERTIES
  KeepsAssembling
CHECK_DEADLOCK FALSE
