CONSTANTS
  Broken = Broken
  NoName = NoName
  MaxUnknown = 2
  Known = {"lower"}
  Names <- McNames
  Documents <- McDocuments
SPECIFICATION Spec
INVARIANTS TemplatesTypeOK RoundsLearn SeverityByPlace ReportsExact CountsExact
CHECK_DEADLOCK FALSE
