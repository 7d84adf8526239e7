CONSTANTS
  a = a
  b = b
  null = null
  orchestrator = orchestrator
  missing = missing
  Absent = Absent
  Names <- McNames
  NextMarkers <- McMarkers
  ReachMarkers <- McMarkers
  Order <- McOrder
  Flows <- McFlows
SPECIFICATION Spec
INVARIANTS TypeOK WalksAgree
PROPERTY KeepsPromise
CHECK_DEADLOCK FALSE
