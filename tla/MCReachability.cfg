CONSTANTS
  a = a
  b = b
  c = c
  null = null
  missing = missing
  Absent = Absent
  Names <- McNames
  NextMarkers <- McMarkers
  ReachMarkers <- McMarkers
  Flows <- McFlows
SPECIFICATION WalkSpec
INVARIANTS WalkTypeOK NothingInvented NoEdgeLost ReportExact
PROPERTY WalkEnds
CHECK_DEADLOCK FALSE
