CONSTANTS
  a = a
  b = b
  c = c
  d = d
  null = null
  missing = missing
  Absent = Absent
  Names <- McNames
  NextMarkers <- McMarkers
  ReachMarkers <- McMarkers
  Flows <- McFlows
SPECIFICATION LoopSpec
INVARIANTS LoopTypeOK StacksAgree ClosesWholeComponent FoundSound FoundExact
PROPERTY LoopEnds
CHECK_DEADLOCK FALSE
