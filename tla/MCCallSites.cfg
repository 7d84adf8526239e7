SPECIFICATION Spec
CONSTANTS
  Absent = Absent
  Other = Other
  MaxIterations = 5
  MaxDelay = 10
  MaxBatchDelay = 5
  Sentinels <- MCSentinels
  SummaryFields <- MCSummaryFields
  Flows <- MCFlows
  Numbers <- MCNumbers
  Templated <- MCTemplated
  Blank <- MCBlank
  EnvName <- MCEnvName
  Lower <- MCLower
  Trim <- MCTrim
  IndexText <- MCIndexText
  NumberIds <- MCNumberIds
  KnownSchemes <- MCKnownSchemes
  RemovedSchemes <- MCRemovedSchemes
  RemovedParams <- MCRemovedParams
  FunctionOperations <- MCFunctionOperations
  AtlasSchemes <- MCAtlasSchemes
  CapabilityRefs <- MCCapabilityRefs
  RefusedKeys <- MCRefusedKeys
  EuCodes <- MCEuCodes
  RegionLanes <- MCRegionLanes
  Truthy <- MCTruthy
  Keyless <- MCKeyless
  ConfigProviders <- MCConfigProviders
  Families <- MCFamilies
  Origin <- MCOrigin
INVARIANTS TypeOK MissesExact AcceptedBodyRuns SitesNamed UnpairedExact NoSilentForeignHost
CHECK_DEADLOCK FALSE
