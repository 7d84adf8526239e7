CONSTANTS
  a = a
  b = b
  c = c
  null = null
  orchestrator = orchestrator
  missing = missing
  Absent = Absent
  Null = null
  Orchestrator = orchestrator
  Names <- McNames
  NextMarkers <- McMarkers
  ReachMarkers <- McMarkers
  Order <- McOrder
  Flows <- McFlows
  Documents <- McDocuments
SPECIFICATION Spec
INVARIANTS TypeOK RoutesResolve FannedNotGated AccusedOnlyThroughGaps
CHECK_DEADLOCK FALSE
