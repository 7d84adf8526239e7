CONSTANTS
  NoStep = ""
  NoField = ""
  Codes <- McCodes
  Fields <- McFields
  Owners <- McOwners
  StepOfField <- McStepOfField
  StoredTolerated = {"executor_removed"}
  Calls <- McCalls
SPECIFICATION Spec
INVARIANTS TypeOK FiledBySeverity VerdictExact ReportedOnce
PROPERTY FindingsSurvive
CHECK_DEADLOCK FALSE
