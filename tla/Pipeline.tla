------------------------------- MODULE Pipeline -------------------------------
(****************************************************************************)
(* One call of ValidateFlow or ValidateFlowObject: the rules in their order,*)
(* the findings they leave behind for one another, the unknown-key rule     *)
(* that skips what others reported, the demotion for stored bytes and the   *)
(* result.                                                                  *)
(*                                                                          *)
(* What a rule finds is an input (it depends on the document only); what    *)
(* becomes of it is modelled.  parseWarnings, which ParseFlow never fills,  *)
(* positions (module Positions) and the template counters are left out.     *)
(****************************************************************************)
EXTENDS Naturals, Sequences, FiniteSets

CONSTANTS
  Codes,          \* issue codes
  Fields,         \* field paths
  Owners,         \* texts that stand in Issue.StepID, "" left out
  NoStep,         \* the empty StepID
  NoField,        \* the empty field path
  StepOfField,    \* stepIDOfField
  StoredTolerated,\* spec storedBytesTolerated.codes
  Calls           \* the calls under consideration

ASSUME NamesAssumption ==
  /\ NoStep \notin Owners
  /\ NoField \in Fields
  /\ StepOfField \in [Fields -> Owners \cup {NoStep}]
  /\ {"unknown_yaml_key", "invalid_type", "invalid_root"} \subseteq Codes
  /\ StoredTolerated \subseteq Codes

(* The spec block holds neither of the unknown-key rule's codes.            *)
ASSUME ToleratedAssumption == {"unknown_yaml_key", "invalid_type"} \cap StoredTolerated = {}

Issue == [code : Codes, field : Fields, step : Owners \cup {NoStep}, severity : {"error", "warning"}]

(* The codes the unknown-key rule raises, and the only ones whose earlier   *)
(* findings it looks at; a location is one of them at a field.              *)
KeyCodes == {"unknown_yaml_key", "invalid_type"}
Location == [code : KeyCodes, field : Fields]
LocationOf(issue) == [code |-> issue.code, field |-> issue.field]
LocationsIn(list) == {LocationOf(list[i]) : i \in {j \in 1..Len(list) : list[j].code \in KeyCodes}}

(* The rules before the unknown-key rule, in the order of the calls.        *)
StructuralRules ==
  <<"basicStructure", "retiredKeys", "removedFlowKeys", "executors", "querySchema",
    "responseExpectations", "errorStrategies", "connectivity", "nextLogic",
    "expressionFunctions", "loopForEachThrottle", "credentialBindings", "inputSchema",
    "reservedInputNames", "outputSchemas", "qualityGates", "processingOperations",
    "stepMaxDuration", "strictTemplates", "saveDoorExtras", "executorConfigEnvScopes",
    "serverOwnedQueryKeys", "flowDataKeys", "credentialEndpointPairing", "examples",
    "removedOrchestratorSurfaces", "residencyEnforcement">>

(* Mutant: the unknown-key rule in front of the rules with better advice.   *)
RuleOrderUnknownFirst == <<"unknownKeys">> \o StructuralRules \o <<"templates">>

RuleOrder == StructuralRules \o <<"unknownKeys", "templates">>

Rules == {RuleOrder[i] : i \in 1..Len(RuleOrder)}

Issues(severity) == {issue \in Issue : issue.severity = severity}

(* A call: the entry point; whether there is a document; for a text that    *)
(* does not parse, the parse errors; the ids of the steps mapping; what     *)
(* each rule raises; the locations the unknown-key walk comes by, in order. *)
IsCall(c) ==
  /\ DOMAIN c = {"entry", "parseErrors", "isNil", "steps", "errors", "warnings", "unknown", "storedBytes"}
  /\ c.entry \in {"text", "object"} /\ c.isNil \in BOOLEAN /\ c.storedBytes \in BOOLEAN
  /\ c.parseErrors \in Seq(Issues("error"))
  /\ c.entry = "object" => c.parseErrors = <<>>
  /\ c.entry = "text" => (c.isNil <=> c.parseErrors # <<>>)
  /\ c.steps \in SUBSET Owners /\ IsFiniteSet(c.steps)
  /\ c.errors \in [Rules -> Seq(Issues("error"))]
  /\ c.warnings \in [Rules -> Seq(Issues("warning"))]
  /\ LocationsIn(c.errors["templates"]) = {}
  /\ c.unknown \in Seq(Location)

ASSUME CallsAssumption == \A c \in Calls : IsCall(c)

VARIABLES
  call,      \* the arguments: never written
  phase,     \* entry, rules, unknown, tolerate, finish, returned
  next,      \* index of the next rule of RuleOrder
  errors, warnings,   \* iss.errors, iss.warnings
  reported,  \* the unknown-key rule's reported
  pending,   \* what its walk has not come by yet
  kept,      \* tolerateStoredBytes: kept
  cursor,    \* the next error it looks at
  result     \* the Result, its fields empty until the call returns

vars == <<call, phase, next, errors, warnings, reported, pending, kept, cursor, result>>

Result(valid, es, ws, total, good) ==
  [valid |-> valid, errors |-> es, warnings |-> ws, totalSteps |-> total, validSteps |-> good]

Init ==
  /\ call \in Calls
  /\ phase = "entry"
  /\ next = 1
  /\ errors = <<>> /\ warnings = <<>>
  /\ reported = {} /\ pending = <<>>
  /\ kept = <<>> /\ cursor = 1
  /\ result = Result(FALSE, <<>>, <<>>, 0, 0)

(* ValidateFlow returns the parse errors as they are.                       *)
RefuseText ==
  /\ phase = "entry" /\ call.entry = "text" /\ call.parseErrors # <<>>
  /\ result' = Result(FALSE, call.parseErrors, <<>>, 0, 0)
  /\ phase' = "returned"
  /\ UNCHANGED <<call, next, errors, warnings, reported, pending, kept, cursor>>

(* A nil document: one finding, and finish without rules or demotion.       *)
RefuseNil ==
  /\ phase = "entry" /\ call.entry = "object" /\ call.isNil
  /\ errors' = <<[code |-> "invalid_root", field |-> NoField, step |-> NoStep, severity |-> "error"]>>
  /\ result' = Result(FALSE, errors', <<>>, 0, 0)
  /\ phase' = "returned"
  /\ UNCHANGED <<call, next, warnings, reported, pending, kept, cursor>>

Enter ==
  /\ phase = "entry" /\ ~call.isNil
  /\ phase' = "rules"
  /\ UNCHANGED <<call, next, errors, warnings, reported, pending, kept, cursor, result>>

InOrder(rule) == phase = "rules" /\ next <= Len(RuleOrder) /\ RuleOrder[next] = rule

(* Every rule but one appends what it finds and looks at nothing else.      *)
RunRule ==
  /\ \E rule \in Rules \ {"unknownKeys"} :
       /\ InOrder(rule)
       /\ errors' = errors \o call.errors[rule]
       /\ warnings' = warnings \o call.warnings[rule]
  /\ next' = next + 1
  /\ UNCHANGED <<call, phase, reported, pending, kept, cursor, result>>

(* Mutant: every finding is remembered, whatever its code.                  *)
StartUnknownKeysAll ==
  /\ InOrder("unknownKeys")
  /\ reported' = {LocationOf(issue) : issue \in {errors[i] : i \in 1..Len(errors)}}
  /\ pending' = call.unknown
  /\ phase' = "unknown"
  /\ UNCHANGED <<call, next, errors, warnings, kept, cursor, result>>

StartUnknownKeys ==
  /\ InOrder("unknownKeys")
  /\ reported' = LocationsIn(errors)
  /\ pending' = call.unknown
  /\ phase' = "unknown"
  /\ UNCHANGED <<call, next, errors, warnings, kept, cursor, result>>

UnknownIssue(l) ==
  [code |-> l.code, field |-> l.field, step |-> StepOfField[l.field], severity |-> "error"]

ReportUnknown ==
  /\ phase = "unknown" /\ pending # <<>> /\ Head(pending) \notin reported
  /\ reported' = reported \cup {Head(pending)}
  /\ errors' = Append(errors, UnknownIssue(Head(pending)))
  /\ pending' = Tail(pending)
  /\ UNCHANGED <<call, phase, next, warnings, kept, cursor, result>>

SkipReported ==
  /\ phase = "unknown" /\ pending # <<>> /\ Head(pending) \in reported
  /\ pending' = Tail(pending)
  /\ UNCHANGED <<call, phase, next, errors, warnings, reported, kept, cursor, result>>

EndUnknownKeys ==
  /\ phase = "unknown" /\ pending = <<>>
  /\ phase' = "rules" /\ next' = next + 1
  /\ UNCHANGED <<call, errors, warnings, reported, pending, kept, cursor, result>>

EndRules ==
  /\ phase = "rules" /\ next > Len(RuleOrder)
  /\ phase' = IF call.storedBytes THEN "tolerate" ELSE "finish"
  /\ UNCHANGED <<call, next, errors, warnings, reported, pending, kept, cursor, result>>

------------------------------------------------------------------------------
(* tolerateStoredBytes, one error at a time.                                *)
Examining == phase = "tolerate" /\ cursor <= Len(errors)
IsTolerated(issue) == issue.code \in StoredTolerated

(* Mutant: a tolerated error is dropped, not demoted.                       *)
DemoteDrop ==
  /\ Examining /\ IsTolerated(errors[cursor])
  /\ cursor' = cursor + 1
  /\ UNCHANGED <<call, phase, next, errors, warnings, reported, pending, kept, result>>

(* Mutant: a tolerated error is demoted and kept as well.                   *)
DemoteKeep ==
  /\ Examining /\ IsTolerated(errors[cursor])
  /\ warnings' = Append(warnings, [errors[cursor] EXCEPT !.severity = "warning"])
  /\ kept' = Append(kept, errors[cursor])
  /\ cursor' = cursor + 1
  /\ UNCHANGED <<call, phase, next, errors, reported, pending, result>>

(* Mutant: the demoted finding keeps its severity.                          *)
DemoteSevere ==
  /\ Examining /\ IsTolerated(errors[cursor])
  /\ warnings' = Append(warnings, errors[cursor])
  /\ cursor' = cursor + 1
  /\ UNCHANGED <<call, phase, next, errors, reported, pending, kept, result>>

Demote ==
  /\ Examining /\ IsTolerated(errors[cursor])
  /\ warnings' = Append(warnings, [errors[cursor] EXCEPT !.severity = "warning"])
  /\ cursor' = cursor + 1
  /\ UNCHANGED <<call, phase, next, errors, reported, pending, kept, result>>

Keep ==
  /\ Examining /\ ~IsTolerated(errors[cursor])
  /\ kept' = Append(kept, errors[cursor])
  /\ cursor' = cursor + 1
  /\ UNCHANGED <<call, phase, next, errors, warnings, reported, pending, result>>

EndTolerate ==
  /\ phase = "tolerate" /\ cursor > Len(errors)
  /\ errors' = kept
  /\ phase' = "finish"
  /\ UNCHANGED <<call, next, warnings, reported, pending, kept, cursor, result>>

(* finish: a step counts as valid unless an error names it.                 *)
Named(list) == {list[i].step : i \in 1..Len(list)} \ {NoStep}
Difference(m, n) == IF m < n THEN 0 ELSE m - n

Finish ==
  /\ phase = "finish"
  /\ LET total == Cardinality(call.steps) IN
       result' = Result(errors = <<>>, errors, warnings, total,
                        Difference(total, Cardinality(Named(errors))))
  /\ phase' = "returned"
  /\ UNCHANGED <<call, next, errors, warnings, reported, pending, kept, cursor>>

Next == RefuseText \/ RefuseNil \/ Enter \/ RunRule \/ StartUnknownKeys \/ ReportUnknown
          \/ SkipReported \/ EndUnknownKeys \/ EndRules \/ Demote \/ Keep \/ EndTolerate \/ Finish

Spec == Init /\ [][Next]_vars

------------------------------------------------------------------------------
OtherRules == Rules \ {"unknownKeys"}
Mentioned(list) == {list[i] : i \in 1..Len(list)}
Returned == phase = "returned" /\ ~call.isNil

(* Every variable keeps its type.                                           *)
TypeOK ==
  /\ IsCall(call)
  /\ phase \in {"entry", "rules", "unknown", "tolerate", "finish", "returned"}
  /\ next \in 1..(Len(RuleOrder) + 1)
  /\ errors \in Seq(Issue) /\ warnings \in Seq(Issue) /\ kept \in Seq(Issue)
  /\ reported \subseteq Location /\ pending \in Seq(Location)
  /\ cursor \in Nat \ {0}
  /\ result.valid \in BOOLEAN
  /\ result.errors \in Seq(Issue) /\ result.warnings \in Seq(Issue)

(* The lists mean what they say: no finding of severity error is among the  *)
(* warnings, where it would not lower Valid, and none of severity warning   *)
(* is among the errors.                                                     *)
FiledBySeverity ==
  /\ \A issue \in Mentioned(errors) \cup Mentioned(kept) \cup Mentioned(result.errors) :
       issue.severity = "error"
  /\ \A issue \in Mentioned(warnings) \cup Mentioned(result.warnings) :
       issue.severity = "warning"

(* The verdict is a function of what the rules found and the option alone:  *)
(* a flow is valid when every error a rule raised is one that stored bytes  *)
(* are forgiven, and no unknown key is ever forgiven.                       *)
IsForgiven(issue) == call.storedBytes /\ IsTolerated(issue)
VerdictExact ==
  phase = "returned" =>
    (result.valid <=>
       /\ ~call.isNil /\ call.unknown = <<>>
       /\ \A rule \in OtherRules : \A issue \in Mentioned(call.errors[rule]) : IsForgiven(issue))

(* A location gets its advice once: where some rule has reported a key or a *)
(* kind, the unknown-key rule stays silent, and otherwise it reports the    *)
(* location exactly once, however often its walk comes by.                  *)
Occurrences(l, list) == {i \in 1..Len(list) : LocationOf(list[i]) = l}
RaisedAt(l) ==
  UNION {{<<n, i>> : i \in Occurrences(l, call.errors[RuleOrder[n]])} :
           n \in {k \in 1..Len(RuleOrder) : RuleOrder[k] # "unknownKeys"}}
ReportedOnce ==
  Returned => \A l \in Location :
    Cardinality(Occurrences(l, errors)) =
      IF RaisedAt(l) # {} THEN Cardinality(RaisedAt(l))
      ELSE IF l \in Mentioned(call.unknown) THEN 1 ELSE 0

(* Demotion changes the severity and nothing else: no step of the pipeline  *)
(* drops a finding or rewrites its code, field or step.                     *)
Bare(issue) == [code |-> issue.code, field |-> issue.field, step |-> issue.step]
Findings == {Bare(issue) : issue \in Mentioned(errors) \cup Mentioned(warnings)}
FindingsSurvive == [][Findings \subseteq Findings']_vars

(* Summary.ValidSteps, as finish explains it: the steps no error names.     *)
ValidStepsExact ==
  Returned => result.validSteps = Cardinality(call.steps \ Named(result.errors))
==============================================================================
