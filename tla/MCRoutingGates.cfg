CONSTANTS
  a = a
  b = b
  c = c
  null = null
  orchestrator = orchestrator
  missing = missing
  Absent = Absent
  Null = null
  Orchestrator = orchestrator
  Names <- McNames
  NextMarkers <- McMarkers
  ReachMarkers <- McMarkers
  Order <- McOrder
  Flows <- McFlows
  Documents <- McThree
SPECIFICATION Spec
INVARIANT AccusedNeverEntered
CHECK_DEADLOCK FALSE
