CONSTANTS
  NoStep = ""
  NoField = ""
  Codes <- McCodes
  Fields <- McFields
  Owners <- McOwners
  StepOfField <- McStepOfField
  StoredTolerated = {"executor_removed"}
  Calls <- McCalls
SPECIFICATION Spec
INVARIANT ValidStepsExact
CHECK_DEADLOCK FALSE
