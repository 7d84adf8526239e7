SPECIFICATION Spec
CONSTANTS
  Absent = Absent
  Other = Other
  SchemaVersion = 1
  MaxConstraint = 5
  MaxDepth = 1
  MaxEntries = 4
  MaxListed = 2
  MaxExamples = 1
  MaxVariants = 1
  MaxScore = 1
  MaxWeight = 5
  Flows <- MCFlows
  Index <- MCIndex
  FieldNames <- MCFieldNames
  ReservedNames <- MCReservedNames
  FieldTypes <- MCFieldTypes
  StringTypes <- MCStringTypes
  ParametricTypes <- MCParametricTypes
  LongTexts <- MCLongTexts
  BadPatterns <- MCBadPatterns
  Ids <- MCIds
  Tags <- MCTags
  Blank <- MCBlank
  SecretLike <- MCSecretLike
  Url <- MCUrl
  ReservedSchemes <- MCReservedSchemes
  Digests <- MCDigests
  MediaTypes <- MCMediaTypes
  Textual <- MCTextual
  Statuses <- MCStatuses
  SideEffects <- MCSideEffects
  Origins <- MCOrigins
  Folded <- MCFolded
INVARIANTS SchemaNames PatchIsMergePatch SecretsReportedAlone
CHECK_DEADLOCK FALSE
