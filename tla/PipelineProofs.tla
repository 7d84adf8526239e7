---------------------------- MODULE PipelineProofs ----------------------------
(****************************************************************************)
(* Theorems about Pipeline: the types, the severities of the two lists, the *)
(* verdict, the survival of every finding and the single advice for every   *)
(* location, for every set of codes, fields and calls.                      *)
(****************************************************************************)
EXTENDS Pipeline, SequenceTheorems, FiniteSetTheorems, TLAPS

(* What the call is about to return: no error but forgiven ones.            *)
IsClean ==
  /\ call.unknown = <<>>
  /\ \A rule \in OtherRules : \A issue \in Mentioned(call.errors[rule]) : IsForgiven(issue)

Judging == phase \in {"rules", "unknown", "tolerate"}
IsKeyIssue(issue) == issue.code \in KeyCodes
HasKeyIssue == \E issue \in Mentioned(errors) : IsKeyIssue(issue)

(* What each phase knows of the control state.                              *)
PhaseOK ==
  /\ phase = "entry" => errors = <<>> /\ warnings = <<>> /\ kept = <<>> /\ next = 1 /\ cursor = 1
  /\ phase \in {"rules", "unknown"} => kept = <<>> /\ cursor = 1
  /\ phase \in {"rules", "unknown", "tolerate", "finish"} => ~call.isNil
  /\ phase = "unknown" => next <= Len(RuleOrder) /\ RuleOrder[next] = "unknownKeys"
  /\ phase = "tolerate" => next = Len(RuleOrder) + 1 /\ call.storedBytes /\ cursor <= Len(errors) + 1

(* What a rule raised is among the errors until the demotion is over.       *)
RulesRaised ==
  Judging => \A i \in 1..(next - 1) :
    RuleOrder[i] # "unknownKeys" => Mentioned(call.errors[RuleOrder[i]]) \subseteq Mentioned(errors)

(* Every error is some rule's, or an unknown key's.                         *)
OnlyRaised ==
  Judging => \A issue \in Mentioned(errors) :
    \/ \E rule \in OtherRules : issue \in Mentioned(call.errors[rule])
    \/ IsKeyIssue(issue) /\ call.unknown # <<>>

(* An unknown key leaves an error behind, its own or an earlier one.        *)
UnknownRaised ==
  /\ phase = "unknown" =>
       /\ call.unknown = <<>> => pending = <<>>
       /\ reported # {} => HasKeyIssue
       /\ call.unknown # <<>> => pending # <<>> \/ HasKeyIssue
  /\ Judging /\ call.unknown # <<>> /\ (\E i \in 1..(next - 1) : RuleOrder[i] = "unknownKeys") =>
       HasKeyIssue

(* The demotion so far: the kept errors are those it does not tolerate, and *)
(* the others are among the warnings.                                       *)
Sorted ==
  phase = "tolerate" =>
    /\ Mentioned(kept) = {errors[i] : i \in {j \in 1..(cursor - 1) : ~IsTolerated(errors[j])}}
    /\ \A i \in 1..(cursor - 1) :
         IsTolerated(errors[i]) => \E issue \in Mentioned(warnings) : Bare(issue) = Bare(errors[i])

FinishClean == phase = "finish" => (errors = <<>> <=> IsClean)

IndInv ==
  /\ TypeOK /\ FiledBySeverity /\ PhaseOK /\ RulesRaised /\ OnlyRaised /\ UnknownRaised
  /\ Sorted /\ FinishClean /\ VerdictExact
------------------------------------------------------------------------------
(* What the list operations do to the elements a list mentions.             *)
LEMMA MentionedAppend ==
  ASSUME NEW S, NEW s \in Seq(S), NEW e \in S
  PROVE  Append(s, e) \in Seq(S) /\ Mentioned(Append(s, e)) = Mentioned(s) \cup {e}
<1>1. /\ Len(Append(s, e)) = Len(s) + 1 /\ Append(s, e) \in Seq(S)
      /\ \A i \in 1..Len(s) : Append(s, e)[i] = s[i]
      /\ Append(s, e)[Len(s) + 1] = e
      /\ Len(s) \in Nat
  BY AppendProperties, LenProperties
<1>2. 1..(Len(s) + 1) = (1..Len(s)) \cup {Len(s) + 1}
  BY <1>1
<1>3. QED
  BY <1>1, <1>2 DEF Mentioned

LEMMA MentionedConcat ==
  ASSUME NEW S, NEW s \in Seq(S), NEW t \in Seq(S)
  PROVE  s \o t \in Seq(S) /\ Mentioned(s \o t) = Mentioned(s) \cup Mentioned(t)
<1>1. /\ s \o t \in Seq(S) /\ Len(s \o t) = Len(s) + Len(t)
      /\ Len(s) \in Nat /\ Len(t) \in Nat
      /\ \A i \in 1..(Len(s) + Len(t)) : (s \o t)[i] = IF i <= Len(s) THEN s[i] ELSE t[i - Len(s)]
  BY ConcatProperties, LenProperties
<1>2. ASSUME NEW i \in 1..Len(t) PROVE Len(s) + i \in 1..(Len(s) + Len(t)) /\ (s \o t)[Len(s) + i] = t[i]
  <2>1. Len(s) + i \in 1..(Len(s) + Len(t)) /\ ~(Len(s) + i <= Len(s)) /\ (Len(s) + i) - Len(s) = i
    BY <1>1
  <2>2. QED
    BY <1>1, <2>1
<1>3. ASSUME NEW i \in 1..Len(s) PROVE i \in 1..(Len(s) + Len(t)) /\ (s \o t)[i] = s[i]
  BY <1>1
<1>4. ASSUME NEW i \in 1..(Len(s) + Len(t)) PROVE (s \o t)[i] \in Mentioned(s) \cup Mentioned(t)
  <2>1. CASE i <= Len(s)
    BY <1>1, <2>1 DEF Mentioned
  <2>2. CASE ~(i <= Len(s))
    <3>1. i - Len(s) \in 1..Len(t)
      BY <1>1, <2>2
    <3>2. QED
      BY <1>1, <2>2, <3>1 DEF Mentioned
  <2>3. QED
    BY <2>1, <2>2
<1>5. Mentioned(s \o t) \subseteq Mentioned(s) \cup Mentioned(t)
  BY <1>1, <1>4 DEF Mentioned
<1>6. Mentioned(s) \subseteq Mentioned(s \o t)
  BY <1>1, <1>3 DEF Mentioned
<1>7. Mentioned(t) \subseteq Mentioned(s \o t)
  <2>1. ASSUME NEW i \in 1..Len(t) PROVE t[i] \in Mentioned(s \o t)
    <3>1. Len(s) + i \in 1..Len(s \o t) /\ (s \o t)[Len(s) + i] = t[i]
      BY <1>1, <1>2
    <3>2. (s \o t)[Len(s) + i] \in Mentioned(s \o t)
      BY <3>1 DEF Mentioned
    <3>3. QED
      BY <3>1, <3>2
  <2>2. QED
    BY <2>1 DEF Mentioned
<1>8. QED
  BY <1>1, <1>5, <1>6, <1>7

LEMMA MentionedEmpty ==
  ASSUME NEW S, NEW s \in Seq(S)
  PROVE  Mentioned(s) \subseteq S /\ (Mentioned(s) = {} <=> s = <<>>)
<1>1. Mentioned(s) \subseteq S
  BY ElementOfSeq DEF Mentioned
<1>2. CASE s = <<>>
  <2>1. Mentioned(<<>>) = {}
    BY DEF Mentioned
  <2>2. QED
    BY <1>1, <1>2, <2>1
<1>3. CASE s # <<>>
  <2>1. 1 \in 1..Len(s)
    BY <1>3, EmptySeq
  <2>2. s[1] \in Mentioned(s)
    BY <2>1 DEF Mentioned
  <2>3. QED
    BY <1>1, <1>3, <2>2
<1>4. QED
  BY <1>2, <1>3

LEMMA HeadTail ==
  ASSUME NEW S, NEW s \in Seq(S), s # <<>>
  PROVE  Head(s) \in S /\ Tail(s) \in Seq(S)
BY HeadTailProperties

(* The unknown-key rule and the template rule come last.                    *)
LEMMA LastRules ==
  /\ Len(RuleOrder) = 29 /\ RuleOrder[28] = "unknownKeys" /\ RuleOrder[29] = "templates"
  /\ \A i \in 1..29 : RuleOrder[i] \in Rules /\ (RuleOrder[i] = "unknownKeys" <=> i = 28)
<1> DEFINE structural == {StructuralRules[i] : i \in 1..27}
           names == structural \cup {"unknownKeys", "templates"}
           last == <<"unknownKeys", "templates">>
<1>1. /\ StructuralRules \in Seq(structural) /\ Len(StructuralRules) = 27
      /\ \A i \in 1..27 : StructuralRules[i] # "unknownKeys"
  BY DEF StructuralRules
<1>2. last \in Seq({"unknownKeys", "templates"}) /\ Len(last) = 2
      /\ last[1] = "unknownKeys" /\ last[2] = "templates"
  OBVIOUS
<1>3. StructuralRules \in Seq(names) /\ last \in Seq(names)
  <2>1. structural \subseteq names /\ {"unknownKeys", "templates"} \subseteq names
    OBVIOUS
  <2> HIDE DEF structural, names, last
  <2>2. QED
    BY <1>1, <1>2, <2>1, SeqMonotonic
<1>4. RuleOrder = StructuralRules \o last
  BY DEF RuleOrder
<1> HIDE DEF names, last
<1>5. /\ Len(RuleOrder) = Len(StructuralRules) + Len(last)
      /\ \A i \in 1..(Len(StructuralRules) + Len(last)) :
           RuleOrder[i] = IF i <= Len(StructuralRules) THEN StructuralRules[i] ELSE last[i - Len(StructuralRules)]
  <2> HIDE DEF RuleOrder
  <2>1. QED
    BY <1>3, <1>4, ConcatProperties
<1>6. /\ Len(RuleOrder) = 29
      /\ \A i \in 1..29 : RuleOrder[i] = IF i <= 27 THEN StructuralRules[i] ELSE last[i - 27]
  BY <1>1, <1>2, <1>5
<1>7. RuleOrder[28] = "unknownKeys" /\ RuleOrder[29] = "templates"
  BY <1>2, <1>6
<1>8. \A i \in 1..29 : i \in 1..27 \/ i = 28 \/ i = 29
  OBVIOUS
<1>9. \A i \in 1..29 : RuleOrder[i] \in Rules
  BY <1>6 DEF Rules
<1>10. \A i \in 1..27 : RuleOrder[i] # "unknownKeys"
  <2>1. \A i \in 1..27 : i \in 1..29 /\ i <= 27
    OBVIOUS
  <2>2. \A i \in 1..27 : RuleOrder[i] = StructuralRules[i]
    BY <1>6, <2>1
  <2>3. QED
    BY <1>1, <2>2
<1>11. QED
  BY <1>6, <1>7, <1>8, <1>9, <1>10

LEMMA RuleOrderShape == Len(RuleOrder) = 29 /\ RuleOrder[28] = "unknownKeys"
BY LastRules

------------------------------------------------------------------------------
(* The fields of a call, and the sequences in it, widened to all issues.    *)
LEMMA CallShape ==
  ASSUME IsCall(call)
  PROVE  /\ call.parseErrors \in Seq(Issue)
         /\ \A issue \in Mentioned(call.parseErrors) : issue.severity = "error"
         /\ \A rule \in Rules :
              /\ call.errors[rule] \in Seq(Issue) /\ call.warnings[rule] \in Seq(Issue)
              /\ \A issue \in Mentioned(call.errors[rule]) : issue.severity = "error"
              /\ \A issue \in Mentioned(call.warnings[rule]) : issue.severity = "warning"
         /\ call.unknown \in Seq(Location)
<1>1. Issues("error") \subseteq Issue /\ Issues("warning") \subseteq Issue
  BY DEF Issues
<1>2. /\ \A issue \in Issues("error") : issue.severity = "error"
      /\ \A issue \in Issues("warning") : issue.severity = "warning"
  BY DEF Issues
<1>3. \A s \in Seq(Issues("error")) :
        s \in Seq(Issue) /\ \A issue \in Mentioned(s) : issue.severity = "error"
  BY <1>1, <1>2, SeqMonotonic, MentionedEmpty
<1>4. \A s \in Seq(Issues("warning")) :
        s \in Seq(Issue) /\ \A issue \in Mentioned(s) : issue.severity = "warning"
  BY <1>1, <1>2, SeqMonotonic, MentionedEmpty
<1>5. QED
  BY <1>3, <1>4 DEF IsCall

(* The rule that is due is one of the rules.                                *)
LEMMA DueRule ==
  ASSUME TypeOK, next <= Len(RuleOrder)
  PROVE  RuleOrder[next] \in Rules /\ next \in 1..Len(RuleOrder)
<1>1. next \in 1..(Len(RuleOrder) + 1) /\ Len(RuleOrder) \in Nat
  BY RuleOrderShape DEF TypeOK
<1>2. next \in 1..Len(RuleOrder)
  BY <1>1
<1>3. QED
  BY <1>2 DEF Rules

LEMMA UnknownIssueType ==
  ASSUME NEW l \in Location
  PROVE  UnknownIssue(l) \in Issue /\ UnknownIssue(l).severity = "error" /\ LocationOf(UnknownIssue(l)) = l
BY NamesAssumption DEF Location, UnknownIssue, Issue, LocationOf, KeyCodes

LEMMA LocationsType ==
  ASSUME NEW list \in Seq(Issue)
  PROVE  LocationsIn(list) \subseteq Location
<1>1. \A i \in 1..Len(list) : list[i] \in Issue
  BY ElementOfSeq
<1>2. QED
  BY <1>1 DEF LocationsIn, Location, LocationOf, Issue

LEMMA DemotedType ==
  ASSUME NEW issue \in Issue
  PROVE  /\ [issue EXCEPT !.severity = "warning"] \in Issue
         /\ [issue EXCEPT !.severity = "warning"].severity = "warning"
         /\ Bare([issue EXCEPT !.severity = "warning"]) = Bare(issue)
BY DEF Issue, Bare

------------------------------------------------------------------------------
(* Type correctness.                                                        *)
LEMMA TypeStep ==
  ASSUME TypeOK, PhaseOK, [Next]_vars
  PROVE  TypeOK'
<1> USE DEF TypeOK
<1>1. CASE RefuseText
  BY <1>1, CallShape, EmptySeq DEF RefuseText, Result
<1>2. CASE RefuseNil
  <2>1. [code |-> "invalid_root", field |-> NoField, step |-> NoStep, severity |-> "error"] \in Issue
    BY NamesAssumption DEF Issue
  <2>2. errors' \in Seq(Issue)
    BY <1>2, <2>1 DEF RefuseNil
  <2>3. QED
    BY <1>2, <2>2, EmptySeq DEF RefuseNil, Result
<1>3. CASE Enter
  BY <1>3 DEF Enter
<1>4. CASE RunRule
  <2>1. PICK rule \in Rules \ {"unknownKeys"} :
          /\ InOrder(rule)
          /\ errors' = errors \o call.errors[rule]
          /\ warnings' = warnings \o call.warnings[rule]
    BY <1>4 DEF RunRule
  <2>2. errors' \in Seq(Issue) /\ warnings' \in Seq(Issue)
    BY <2>1, CallShape, MentionedConcat
  <2>3. next + 1 \in 1..(Len(RuleOrder) + 1)
    BY <2>1, RuleOrderShape DEF InOrder
  <2>4. QED
    BY <1>4, <2>2, <2>3 DEF RunRule
<1>5. CASE StartUnknownKeys
  BY <1>5, CallShape, LocationsType DEF StartUnknownKeys
<1>6. CASE ReportUnknown
  <2>1. Head(pending) \in Location /\ Tail(pending) \in Seq(Location)
    BY <1>6, HeadTail DEF ReportUnknown
  <2>2. errors' \in Seq(Issue)
    BY <1>6, <2>1, UnknownIssueType, MentionedAppend DEF ReportUnknown
  <2>3. QED
    BY <1>6, <2>1, <2>2 DEF ReportUnknown
<1>7. CASE SkipReported
  BY <1>7, HeadTail DEF SkipReported
<1>8. CASE EndUnknownKeys
  <2>1. next \in Nat /\ 1 <= next /\ next <= Len(RuleOrder) /\ Len(RuleOrder) = 29
    BY <1>8, RuleOrderShape DEF EndUnknownKeys, PhaseOK
  <2>2. next + 1 \in 1..(Len(RuleOrder) + 1)
    BY <2>1
  <2>3. QED
    BY <1>8, <2>2 DEF EndUnknownKeys
<1>9. CASE EndRules
  BY <1>9 DEF EndRules
<1>10. CASE Demote
  <2>1. errors[cursor] \in Issue
    BY <1>10, LenProperties, ElementOfSeq DEF Demote, Examining
  <2>2. warnings' \in Seq(Issue)
    BY <1>10, <2>1, DemotedType, MentionedAppend DEF Demote
  <2>3. QED
    BY <1>10, <2>2 DEF Demote
<1>11. CASE Keep
  <2>1. errors[cursor] \in Issue
    BY <1>11, LenProperties, ElementOfSeq DEF Keep, Examining
  <2>2. kept' \in Seq(Issue)
    BY <1>11, <2>1, MentionedAppend DEF Keep
  <2>3. QED
    BY <1>11, <2>2 DEF Keep
<1>12. CASE EndTolerate
  BY <1>12 DEF EndTolerate
<1>13. CASE Finish
  BY <1>13 DEF Finish, Result
<1>14. CASE UNCHANGED vars
  BY <1>14 DEF vars
<1>15. QED
  BY <1>1, <1>2, <1>3, <1>4, <1>5, <1>6, <1>7, <1>8, <1>9, <1>10, <1>11, <1>12, <1>13, <1>14 DEF Next

LEMMA PhaseStep ==
  ASSUME TypeOK, PhaseOK, [Next]_vars
  PROVE  PhaseOK'
<1> USE DEF PhaseOK
<1>1. CASE RefuseText \/ RefuseNil \/ Enter \/ RunRule \/ Finish \/ EndTolerate
  BY <1>1 DEF RefuseText, RefuseNil, Enter, RunRule, Finish, EndTolerate, InOrder, TypeOK, IsCall
<1>2. CASE StartUnknownKeys \/ ReportUnknown \/ SkipReported \/ EndUnknownKeys
  BY <1>2 DEF StartUnknownKeys, ReportUnknown, SkipReported, EndUnknownKeys, InOrder
<1>3. CASE EndRules
  <2>1. Len(errors) \in Nat /\ next = Len(RuleOrder) + 1
    BY <1>3, LenProperties, RuleOrderShape DEF EndRules, TypeOK
  <2>2. QED
    BY <1>3, <2>1 DEF EndRules
<1>4. CASE Demote \/ Keep
  <2>1. Len(errors) \in Nat /\ cursor \in Nat
    BY LenProperties DEF TypeOK
  <2>2. QED
    BY <1>4, <2>1 DEF Demote, Keep, Examining
<1>5. CASE UNCHANGED vars
  BY <1>5 DEF vars
<1>6. QED
  BY <1>1, <1>2, <1>3, <1>4, <1>5 DEF Next

LEMMA TypeInit == Init => TypeOK /\ PhaseOK
<1>1. <<>> \in Seq(Issue) /\ <<>> \in Seq(Location)
  BY EmptySeq
<1>2. 1 \in 1..(Len(RuleOrder) + 1)
  BY RuleOrderShape
<1>3. QED
  BY <1>1, <1>2, CallsAssumption DEF Init, TypeOK, PhaseOK, Result

(* Every variable of the pipeline keeps its type.                           *)
THEOREM PipelineTypeCorrect == Spec => []TypeOK
<1>1. TypeOK /\ PhaseOK /\ [Next]_vars => (TypeOK /\ PhaseOK)'
  BY TypeStep, PhaseStep
<1>2. QED
  BY TypeInit, <1>1, PTL DEF Spec

------------------------------------------------------------------------------
(* Severities.                                                              *)
LEMMA SeverityStep ==
  ASSUME TypeOK, FiledBySeverity, [Next]_vars
  PROVE  FiledBySeverity'
<1> USE DEF FiledBySeverity
<1>1. CASE RefuseText
  BY <1>1, CallShape, MentionedEmpty, EmptySeq DEF RefuseText, Result, TypeOK, Mentioned
<1>2. CASE RefuseNil
  <2> DEFINE issue == [code |-> "invalid_root", field |-> NoField, step |-> NoStep, severity |-> "error"]
  <2>1. errors' = <<issue>> /\ result'.errors = <<issue>> /\ result'.warnings = <<>>
    BY <1>2 DEF RefuseNil, Result
  <2>2. issue.severity = "error"
    OBVIOUS
  <2> HIDE DEF issue
  <2>3. Mentioned(<<issue>>) = {issue} /\ Mentioned(<<>>) = {}
    BY DEF Mentioned
  <2>4. QED
    BY <1>2, <2>1, <2>2, <2>3 DEF RefuseNil
<1>3. CASE RunRule
  <2>1. PICK rule \in Rules \ {"unknownKeys"} :
          /\ errors' = errors \o call.errors[rule]
          /\ warnings' = warnings \o call.warnings[rule]
    BY <1>3 DEF RunRule
  <2>2. /\ Mentioned(errors') = Mentioned(errors) \cup Mentioned(call.errors[rule])
        /\ Mentioned(warnings') = Mentioned(warnings) \cup Mentioned(call.warnings[rule])
    BY <2>1, CallShape, MentionedConcat DEF TypeOK
  <2>3. QED
    BY <1>3, <2>2, CallShape DEF RunRule, TypeOK
<1>4. CASE ReportUnknown
  <2>1. Head(pending) \in Location
    BY <1>4, HeadTail DEF ReportUnknown, TypeOK
  <2>2. Mentioned(errors') = Mentioned(errors) \cup {UnknownIssue(Head(pending))}
    BY <1>4, <2>1, UnknownIssueType, MentionedAppend DEF ReportUnknown, TypeOK
  <2>3. QED
    BY <1>4, <2>1, <2>2, UnknownIssueType DEF ReportUnknown
<1>5. CASE Demote
  <2>1. errors[cursor] \in Issue
    BY <1>5, LenProperties, ElementOfSeq DEF Demote, Examining, TypeOK
  <2> DEFINE demoted == [errors[cursor] EXCEPT !.severity = "warning"]
  <2>2. demoted \in Issue /\ demoted.severity = "warning" /\ warnings' = Append(warnings, demoted)
    BY <1>5, <2>1, DemotedType DEF Demote
  <2> HIDE DEF demoted
  <2>3. Mentioned(warnings') = Mentioned(warnings) \cup {demoted}
    BY <2>2, MentionedAppend DEF TypeOK
  <2>4. QED
    BY <1>5, <2>2, <2>3 DEF Demote
<1>6. CASE Keep
  <2>1. errors[cursor] \in Issue /\ errors[cursor] \in Mentioned(errors)
    BY <1>6, LenProperties, ElementOfSeq DEF Keep, Examining, TypeOK, Mentioned
  <2>2. Mentioned(kept') = Mentioned(kept) \cup {errors[cursor]}
    BY <1>6, <2>1, MentionedAppend DEF Keep, TypeOK
  <2>3. QED
    BY <1>6, <2>1, <2>2 DEF Keep
<1>7. CASE EndTolerate \/ Finish
  BY <1>7 DEF EndTolerate, Finish, Result, Mentioned
<1>8. CASE Enter \/ StartUnknownKeys \/ SkipReported \/ EndUnknownKeys \/ EndRules \/ UNCHANGED vars
  BY <1>8 DEF Enter, StartUnknownKeys, SkipReported, EndUnknownKeys, EndRules, vars, Mentioned
<1>9. QED
  BY <1>1, <1>2, <1>3, <1>4, <1>5, <1>6, <1>7, <1>8 DEF Next

LEMMA SeverityInit == Init => FiledBySeverity
BY DEF Init, FiledBySeverity, Result, Mentioned

(* No finding is ever in the list of the other severity.                    *)
THEOREM FindingsAreFiled == Spec => []FiledBySeverity
<1>1. TypeOK /\ PhaseOK /\ FiledBySeverity /\ [Next]_vars => (TypeOK /\ PhaseOK /\ FiledBySeverity)'
  BY TypeStep, PhaseStep, SeverityStep
<1>2. QED
  BY TypeInit, SeverityInit, <1>1, PTL DEF Spec

------------------------------------------------------------------------------
(* The verdict.                                                             *)
Quiet == StartUnknownKeys \/ SkipReported \/ Demote \/ Keep \/ UNCHANGED vars
Leaving == RefuseText \/ RefuseNil \/ EndTolerate \/ Finish

(* The steps that touch neither the errors nor the rule that is due.        *)
LEMMA QuietStep ==
  ASSUME Quiet
  PROVE  UNCHANGED <<call, errors, next>> /\ (Judging' <=> Judging)
BY DEF Quiet, StartUnknownKeys, SkipReported, Demote, Keep, Examining, vars, Judging, InOrder

LEMMA LeavingStep ==
  ASSUME Leaving
  PROVE  ~Judging'
BY DEF Leaving, RefuseText, RefuseNil, EndTolerate, Finish, Judging

LEMMA RaisedStep ==
  ASSUME IndInv, [Next]_vars
  PROVE  RulesRaised' /\ OnlyRaised'
<1> USE DEF IndInv, RulesRaised, OnlyRaised
<1>1. CASE Quiet
  BY <1>1, QuietStep
<1>2. CASE Leaving
  BY <1>2, LeavingStep
<1>3. CASE Enter
  <2>1. next' = 1 /\ errors' = <<>> /\ 1..(1 - 1) = {} /\ Mentioned(<<>>) = {}
    BY <1>3 DEF Enter, PhaseOK, Mentioned
  <2>2. QED
    BY <2>1
<1>4. CASE RunRule
  <2>1. PICK rule \in OtherRules :
          RuleOrder[next] = rule /\ errors' = errors \o call.errors[rule]
    BY <1>4 DEF RunRule, InOrder, OtherRules
  <2>2. Mentioned(errors') = Mentioned(errors) \cup Mentioned(call.errors[rule])
    BY <2>1, CallShape, MentionedConcat DEF TypeOK, OtherRules
  <2>3. Judging /\ UNCHANGED call /\ next \in Nat /\ next' = next + 1
    BY <1>4, RuleOrderShape DEF RunRule, InOrder, Judging, TypeOK
  <2>4. \A i \in 1..(next' - 1) : i \in 1..(next - 1) \/ i = next
    BY <2>3
  <2>5. QED
    BY <2>1, <2>2, <2>3, <2>4
<1>5. CASE ReportUnknown
  <2>1. Head(pending) \in Location /\ call.unknown # <<>>
    BY <1>5, HeadTail DEF ReportUnknown, TypeOK, UnknownRaised
  <2>2. Mentioned(errors') = Mentioned(errors) \cup {UnknownIssue(Head(pending))}
    BY <1>5, <2>1, UnknownIssueType, MentionedAppend DEF ReportUnknown, TypeOK
  <2>3. IsKeyIssue(UnknownIssue(Head(pending)))
    BY <2>1 DEF IsKeyIssue, UnknownIssue, Location
  <2>4. QED
    BY <1>5, <2>1, <2>2, <2>3 DEF ReportUnknown, Judging
<1>6. CASE EndUnknownKeys
  <2>1. Judging /\ UNCHANGED <<call, errors>> /\ next \in Nat /\ next' = next + 1
        /\ RuleOrder[next] = "unknownKeys"
    BY <1>6, RuleOrderShape DEF EndUnknownKeys, Judging, TypeOK, PhaseOK
  <2>2. \A i \in 1..(next' - 1) : i \in 1..(next - 1) \/ i = next
    BY <2>1
  <2>3. QED
    BY <2>1, <2>2
<1>7. CASE EndRules
  BY <1>7 DEF EndRules, Judging
<1>8. QED
  BY <1>1, <1>2, <1>3, <1>4, <1>5, <1>6, <1>7 DEF Next, Quiet, Leaving

(* What the unknown-key rule remembers comes from an error.                 *)
LEMMA KeyIssueRemembered ==
  ASSUME NEW l \in LocationsIn(errors)
  PROVE  HasKeyIssue
BY DEF LocationsIn, HasKeyIssue, IsKeyIssue, Mentioned

LEMMA UnknownStep ==
  ASSUME IndInv, [Next]_vars
  PROVE  UnknownRaised'
<1> USE DEF IndInv, UnknownRaised
<1>1. CASE Leaving
  BY <1>1, LeavingStep DEF Leaving, RefuseText, RefuseNil, EndTolerate, Finish
<1>2. CASE Enter
  <2>1. next' = 1 /\ 1..(1 - 1) = {} /\ phase' = "rules"
    BY <1>2 DEF Enter, PhaseOK
  <2>2. QED
    BY <2>1
<1>3. CASE RunRule
  <2>1. PICK rule \in OtherRules :
          RuleOrder[next] = rule /\ errors' = errors \o call.errors[rule]
    BY <1>3 DEF RunRule, InOrder, OtherRules
  <2>2. Mentioned(errors') = Mentioned(errors) \cup Mentioned(call.errors[rule])
    BY <2>1, CallShape, MentionedConcat DEF TypeOK, OtherRules
  <2>3. Judging /\ UNCHANGED <<call, phase>> /\ phase = "rules" /\ next \in Nat /\ next' = next + 1
    BY <1>3, RuleOrderShape DEF RunRule, InOrder, Judging, TypeOK
  <2>4. \A i \in 1..(next' - 1) : i \in 1..(next - 1) \/ i = next
    BY <2>3
  <2>5. HasKeyIssue => HasKeyIssue'
    BY <2>2 DEF HasKeyIssue, IsKeyIssue
  <2>6. QED
    BY <2>1, <2>3, <2>4, <2>5 DEF OtherRules
<1>4. CASE StartUnknownKeys
  BY <1>4, KeyIssueRemembered DEF StartUnknownKeys, InOrder, HasKeyIssue, IsKeyIssue, Judging
<1>5. CASE ReportUnknown
  <2>1. Head(pending) \in Location /\ call.unknown # <<>>
    BY <1>5, HeadTail DEF ReportUnknown, TypeOK
  <2>2. Mentioned(errors') = Mentioned(errors) \cup {UnknownIssue(Head(pending))}
    BY <1>5, <2>1, UnknownIssueType, MentionedAppend DEF ReportUnknown, TypeOK
  <2>3. IsKeyIssue(UnknownIssue(Head(pending)))
    BY <2>1 DEF IsKeyIssue, UnknownIssue, Location
  <2>4. HasKeyIssue'
    BY <2>2, <2>3 DEF HasKeyIssue, IsKeyIssue
  <2>5. QED
    BY <1>5, <2>1, <2>4 DEF ReportUnknown
<1>6. CASE SkipReported
  <2>1. HasKeyIssue /\ call.unknown # <<>>
    BY <1>6 DEF SkipReported
  <2>2. HasKeyIssue'
    BY <1>6, <2>1 DEF SkipReported, HasKeyIssue, IsKeyIssue
  <2>3. QED
    BY <1>6, <2>1, <2>2 DEF SkipReported
<1>7. CASE EndUnknownKeys
  <2>1. call.unknown # <<>> => HasKeyIssue
    BY <1>7 DEF EndUnknownKeys
  <2>2. UNCHANGED <<call, errors>> /\ phase' = "rules" /\ (HasKeyIssue <=> HasKeyIssue')
    BY <1>7 DEF EndUnknownKeys, HasKeyIssue, IsKeyIssue
  <2>3. QED
    BY <2>1, <2>2
<1>8. CASE EndRules \/ Demote \/ Keep
  BY <1>8 DEF EndRules, Demote, Keep, Examining, Judging, HasKeyIssue, IsKeyIssue
<1>9. CASE UNCHANGED vars
  BY <1>9 DEF vars, Judging, HasKeyIssue, IsKeyIssue
<1>10. QED
  BY <1>1, <1>2, <1>3, <1>4, <1>5, <1>6, <1>7, <1>8, <1>9 DEF Next, Leaving

(* One more error is sorted.                                                *)
LEMMA SortedStep ==
  ASSUME IndInv, [Next]_vars
  PROVE  Sorted'
<1> USE DEF IndInv, Sorted
<1>1. CASE Demote \/ Keep
  <2>1. /\ cursor \in Nat /\ 1 <= cursor /\ cursor' = cursor + 1 /\ UNCHANGED errors /\ phase = "tolerate"
        /\ errors[cursor] \in Issue
    BY <1>1, LenProperties, ElementOfSeq DEF Demote, Keep, Examining, TypeOK
  <2>2. 1..(cursor' - 1) = (1..(cursor - 1)) \cup {cursor}
    BY <2>1
  <2>3. CASE Demote
    <3> DEFINE demoted == [errors[cursor] EXCEPT !.severity = "warning"]
    <3>1. /\ demoted \in Issue /\ Bare(demoted) = Bare(errors[cursor])
          /\ warnings' = Append(warnings, demoted) /\ UNCHANGED kept /\ IsTolerated(errors[cursor])
      BY <2>1, <2>3, DemotedType DEF Demote
    <3> HIDE DEF demoted
    <3>2. Mentioned(warnings') = Mentioned(warnings) \cup {demoted}
      BY <3>1, MentionedAppend DEF TypeOK
    <3>3. Mentioned(kept)' = {errors[i] : i \in {j \in 1..(cursor - 1) : ~IsTolerated(errors[j])}}
      BY <2>1, <3>1
    <3>4. {j \in 1..(cursor' - 1) : ~IsTolerated(errors'[j])} = {j \in 1..(cursor - 1) : ~IsTolerated(errors[j])}
      BY <2>1, <2>2, <3>1
    <3>5. \A i \in 1..(cursor' - 1) :
            IsTolerated(errors[i]) => \E issue \in Mentioned(warnings)' : Bare(issue) = Bare(errors[i])
      BY <2>1, <2>2, <3>1, <3>2
    <3>6. QED
      BY <2>1, <3>3, <3>4, <3>5
  <2>4. CASE Keep
    <3>1. Mentioned(kept') = Mentioned(kept) \cup {errors[cursor]}
      BY <2>1, <2>4, MentionedAppend DEF Keep, TypeOK
    <3>2. {j \in 1..(cursor' - 1) : ~IsTolerated(errors'[j])}
            = {j \in 1..(cursor - 1) : ~IsTolerated(errors[j])} \cup {cursor}
      BY <2>1, <2>2, <2>4 DEF Keep
    <3>3. Mentioned(kept)' = {errors[i] : i \in {j \in 1..(cursor' - 1) : ~IsTolerated(errors'[j])}}
      BY <2>1, <3>1, <3>2
    <3>4. \A i \in 1..(cursor' - 1) :
            IsTolerated(errors[i]) => \E issue \in Mentioned(warnings)' : Bare(issue) = Bare(errors[i])
      BY <2>1, <2>2, <2>4 DEF Keep
    <3>5. QED
      BY <2>1, <3>3, <3>4
  <2>5. QED
    BY <1>1, <2>3, <2>4
<1>2. CASE EndRules
  <2>1. kept' = <<>> /\ cursor' = 1 /\ 1..(1 - 1) = {} /\ Mentioned(<<>>) = {}
    BY <1>2 DEF EndRules, PhaseOK, Mentioned
  <2>2. QED
    BY <2>1
<1>3. CASE UNCHANGED vars
  BY <1>3 DEF vars
<1>4. CASE ~(Demote \/ Keep \/ EndRules \/ UNCHANGED vars)
  <2>1. phase' # "tolerate"
    BY <1>4 DEF Next, RefuseText, RefuseNil, Enter, RunRule, StartUnknownKeys, ReportUnknown,
                SkipReported, EndUnknownKeys, EndTolerate, Finish, InOrder
  <2>2. QED
    BY <2>1
<1>5. QED
  BY <1>1, <1>2, <1>3, <1>4

(* When the last rule has run, the errors hold what every rule raised, and  *)
(* an unknown key has left one.                                             *)
LEMMA AllRaised ==
  ASSUME IndInv, Judging, next = Len(RuleOrder) + 1
  PROVE  /\ \A rule \in OtherRules : Mentioned(call.errors[rule]) \subseteq Mentioned(errors)
         /\ call.unknown # <<>> => HasKeyIssue
<1>1. next - 1 = 29 /\ Len(RuleOrder) = 29 /\ RuleOrder[28] = "unknownKeys" /\ 28 \in 1..29
  BY RuleOrderShape
<1>2. \A rule \in OtherRules : \E i \in 1..29 : RuleOrder[i] = rule /\ rule # "unknownKeys"
  BY <1>1 DEF OtherRules, Rules
<1>3. \A i \in 1..29 : RuleOrder[i] # "unknownKeys" =>
        Mentioned(call.errors[RuleOrder[i]]) \subseteq Mentioned(errors)
  BY <1>1 DEF IndInv, RulesRaised
<1>4. call.unknown # <<>> => HasKeyIssue
  BY <1>1 DEF IndInv, UnknownRaised
<1>5. QED
  BY <1>2, <1>3, <1>4

(* Then a flow is clean when every error is forgiven: the key issue an      *)
(* unknown key leaves never is.                                             *)
LEMMA CleanIsForgiven ==
  ASSUME IndInv, Judging, next = Len(RuleOrder) + 1
  PROVE  IsClean <=> \A issue \in Mentioned(errors) : IsForgiven(issue)
<1>1. \A issue \in Mentioned(errors) : IsKeyIssue(issue) => ~IsForgiven(issue)
  BY ToleratedAssumption DEF IsKeyIssue, KeyCodes, IsForgiven, IsTolerated
<1>2. \A issue \in Mentioned(errors) :
        \/ \E rule \in OtherRules : issue \in Mentioned(call.errors[rule])
        \/ IsKeyIssue(issue) /\ call.unknown # <<>>
  BY DEF IndInv, OnlyRaised
<1>3. QED
  BY <1>1, <1>2, AllRaised DEF IsClean, HasKeyIssue

LEMMA FinishStep ==
  ASSUME IndInv, [Next]_vars
  PROVE  FinishClean'
<1> USE DEF FinishClean
<1>1. CASE EndRules
  <2>1. Judging /\ next = Len(RuleOrder) + 1 /\ phase = "rules"
    BY <1>1, RuleOrderShape DEF EndRules, Judging, IndInv, TypeOK
  <2>2. CASE call.storedBytes
    BY <1>1, <2>2 DEF EndRules
  <2>3. CASE ~call.storedBytes
    <3>1. IsClean <=> Mentioned(errors) = {}
      BY <2>1, <2>3, CleanIsForgiven DEF IsForgiven
    <3>2. errors = <<>> <=> IsClean
      BY <3>1, MentionedEmpty DEF IndInv, TypeOK
    <3>3. QED
      BY <1>1, <3>2 DEF EndRules, IsClean, IsForgiven
  <2>4. QED
    BY <2>2, <2>3
<1>2. CASE EndTolerate
  <2>1. /\ Judging /\ next = Len(RuleOrder) + 1 /\ call.storedBytes
        /\ cursor \in Nat /\ Len(errors) \in Nat /\ cursor = Len(errors) + 1
    BY <1>2, LenProperties DEF EndTolerate, Judging, IndInv, PhaseOK, TypeOK
  <2>2. Mentioned(kept) = {errors[i] : i \in {j \in 1..Len(errors) : ~IsTolerated(errors[j])}}
    <3>1. cursor - 1 = Len(errors)
      BY <2>1
    <3>2. QED
      BY <1>2, <3>1 DEF EndTolerate, IndInv, Sorted
  <2>3. Mentioned(kept) = {} <=> \A issue \in Mentioned(errors) : IsForgiven(issue)
    BY <2>1, <2>2 DEF IsForgiven, Mentioned
  <2>4. kept = <<>> <=> IsClean
    BY <2>1, <2>3, CleanIsForgiven, MentionedEmpty DEF IndInv, TypeOK
  <2>5. QED
    BY <1>2, <2>4 DEF EndTolerate, IsClean, IsForgiven
<1>3. CASE UNCHANGED vars
  BY <1>3 DEF vars, IndInv, IsClean, IsForgiven
<1>4. CASE ~(EndRules \/ EndTolerate \/ UNCHANGED vars)
  <2>1. phase' # "finish"
    BY <1>4 DEF Next, RefuseText, RefuseNil, Enter, RunRule, StartUnknownKeys, ReportUnknown,
                SkipReported, EndUnknownKeys, Demote, Keep, Examining, Finish, InOrder
  <2>2. QED
    BY <2>1
<1>5. QED
  BY <1>1, <1>2, <1>3, <1>4

LEMMA VerdictStep ==
  ASSUME IndInv, [Next]_vars
  PROVE  VerdictExact'
<1> USE DEF VerdictExact
<1>1. CASE RefuseText \/ RefuseNil
  BY <1>1 DEF RefuseText, RefuseNil, Result, IndInv, TypeOK, IsCall
<1>2. CASE Finish
  <2>1. ~call.isNil /\ (result'.valid <=> IsClean) /\ UNCHANGED call
    BY <1>2 DEF Finish, Result, IndInv, PhaseOK, FinishClean
  <2>2. QED
    BY <2>1 DEF IsClean, IsForgiven
<1>3. CASE UNCHANGED vars
  BY <1>3 DEF vars, IndInv, IsForgiven
<1>4. CASE ~(RefuseText \/ RefuseNil \/ Finish \/ UNCHANGED vars)
  <2>1. phase' # "returned"
    BY <1>4 DEF Next, Enter, RunRule, StartUnknownKeys, ReportUnknown, SkipReported,
                EndUnknownKeys, EndRules, Demote, Keep, Examining, EndTolerate, InOrder
  <2>2. QED
    BY <2>1
<1>5. QED
  BY <1>1, <1>2, <1>3, <1>4

LEMMA InvInit == Init => IndInv
<1>1. Init => RulesRaised /\ OnlyRaised /\ UnknownRaised /\ Sorted /\ FinishClean /\ VerdictExact
  BY DEF Init, RulesRaised, OnlyRaised, UnknownRaised, Sorted, FinishClean, VerdictExact, Judging
<1>2. QED
  BY <1>1, TypeInit, SeverityInit DEF IndInv

LEMMA InvStep == IndInv /\ [Next]_vars => IndInv'
<1> SUFFICES ASSUME IndInv, [Next]_vars PROVE IndInv'
  OBVIOUS
<1>1. TypeOK' /\ PhaseOK' /\ FiledBySeverity'
  BY TypeStep, PhaseStep, SeverityStep DEF IndInv
<1>2. QED
  BY <1>1, RaisedStep, UnknownStep, SortedStep, FinishStep, VerdictStep DEF IndInv

(* A flow is valid exactly when it has no unknown key and every error a     *)
(* rule raised is one that the call forgives stored bytes.                  *)
THEOREM VerdictIsExact == Spec => []VerdictExact
<1>1. IndInv => VerdictExact
  BY DEF IndInv
<1>2. QED
  BY InvInit, InvStep, <1>1, PTL DEF Spec

------------------------------------------------------------------------------
(* No step drops a finding: it may only change its severity.                *)
LEMMA SurviveStep ==
  ASSUME IndInv, Next
  PROVE  Findings \subseteq Findings'
<1> USE DEF Findings
<1>1. CASE RefuseText \/ RefuseNil
  <2>1. errors = <<>> /\ warnings = <<>>
    BY <1>1 DEF RefuseText, RefuseNil, IndInv, PhaseOK
  <2>2. Mentioned(<<>>) = {}
    BY DEF Mentioned
  <2>3. QED
    BY <2>1, <2>2
<1>2. CASE RunRule
  <2>1. PICK rule \in Rules \ {"unknownKeys"} :
          errors' = errors \o call.errors[rule] /\ warnings' = warnings \o call.warnings[rule]
    BY <1>2 DEF RunRule
  <2>2. Mentioned(errors) \subseteq Mentioned(errors') /\ Mentioned(warnings) \subseteq Mentioned(warnings')
    BY <2>1, CallShape, MentionedConcat DEF IndInv, TypeOK
  <2>3. QED
    BY <2>2
<1>3. CASE ReportUnknown
  <2>1. Head(pending) \in Location
    BY <1>3, HeadTail DEF ReportUnknown, IndInv, TypeOK
  <2>2. Mentioned(errors) \subseteq Mentioned(errors') /\ UNCHANGED warnings
    BY <1>3, <2>1, UnknownIssueType, MentionedAppend DEF ReportUnknown, IndInv, TypeOK
  <2>3. QED
    BY <2>2
<1>4. CASE Demote
  <2> DEFINE demoted == [errors[cursor] EXCEPT !.severity = "warning"]
  <2>1. errors[cursor] \in Issue
    BY <1>4, LenProperties, ElementOfSeq DEF Demote, Examining, IndInv, TypeOK
  <2>2. demoted \in Issue /\ warnings' = Append(warnings, demoted) /\ UNCHANGED errors
    BY <1>4, <2>1, DemotedType DEF Demote
  <2> HIDE DEF demoted
  <2>3. Mentioned(warnings) \subseteq Mentioned(warnings')
    BY <2>2, MentionedAppend DEF IndInv, TypeOK
  <2>4. QED
    BY <2>2, <2>3
<1>5. CASE EndTolerate
  <2>1. cursor \in Nat /\ Len(errors) \in Nat /\ cursor - 1 = Len(errors)
    BY <1>5, LenProperties DEF EndTolerate, IndInv, PhaseOK, TypeOK
  <2>2. \A i \in 1..Len(errors) :
          errors[i] \in Mentioned(kept) \/ \E issue \in Mentioned(warnings) : Bare(issue) = Bare(errors[i])
    BY <1>5, <2>1 DEF EndTolerate, IndInv, Sorted
  <2>3. ASSUME NEW issue \in Mentioned(errors) PROVE Bare(issue) \in Findings'
    <3>1. PICK i \in 1..Len(errors) : issue = errors[i]
      BY DEF Mentioned
    <3>2. errors' = kept /\ UNCHANGED warnings
      BY <1>5 DEF EndTolerate
    <3>3. QED
      BY <2>2, <3>1, <3>2
  <2>4. UNCHANGED warnings
    BY <1>5 DEF EndTolerate
  <2>5. QED
    BY <2>3, <2>4
<1>6. CASE Enter \/ StartUnknownKeys \/ SkipReported \/ EndUnknownKeys \/ EndRules \/ Keep \/ Finish
  <2>1. UNCHANGED <<errors, warnings>>
    BY <1>6 DEF Enter, StartUnknownKeys, SkipReported, EndUnknownKeys, EndRules, Keep, Finish
  <2>2. QED
    BY <2>1
<1>7. QED
  BY <1>1, <1>2, <1>3, <1>4, <1>5, <1>6 DEF Next

(* Every finding that was ever raised is still among the errors or the      *)
(* warnings, with its code, field and step.                                 *)
THEOREM NothingIsLost == Spec => FindingsSurvive
<1>1. IndInv /\ [Next]_vars => [Findings \subseteq Findings']_vars
  BY SurviveStep
<1>2. QED
  BY InvInit, InvStep, <1>1, PTL DEF Spec, FindingsSurvive

------------------------------------------------------------------------------
(* How often a list holds a location, and what the list operations do to    *)
(* that number.                                                             *)
Count(l, list) == Cardinality(Occurrences(l, list))

LEMMA OccurrencesFinite ==
  ASSUME NEW S, NEW s \in Seq(S), NEW l
  PROVE  /\ IsFiniteSet(Occurrences(l, s))
         /\ Count(l, s) \in Nat
         /\ Count(l, s) = 0 <=> \A i \in 1..Len(s) : LocationOf(s[i]) # l
<1>1. Len(s) \in Nat
  BY LenProperties
<1>2. IsFiniteSet(1..Len(s))
  BY <1>1, FS_Interval
<1>3. Occurrences(l, s) \in SUBSET (1..Len(s))
  BY DEF Occurrences
<1>4. IsFiniteSet(Occurrences(l, s))
  BY <1>2, <1>3, FS_Subset
<1>5. Count(l, s) = 0 <=> Occurrences(l, s) = {}
  BY <1>4, FS_EmptySet DEF Count
<1>6. QED
  BY <1>4, <1>5, FS_CardinalityType DEF Count, Occurrences

LEMMA CountAppend ==
  ASSUME NEW S, NEW s \in Seq(S), NEW e \in S, NEW l
  PROVE  Count(l, Append(s, e)) = Count(l, s) + IF LocationOf(e) = l THEN 1 ELSE 0
<1>1. /\ Len(Append(s, e)) = Len(s) + 1
      /\ \A i \in 1..Len(s) : Append(s, e)[i] = s[i]
      /\ Append(s, e)[Len(s) + 1] = e
      /\ Len(s) \in Nat
  BY AppendProperties, LenProperties
<1>2. 1..(Len(s) + 1) = (1..Len(s)) \cup {Len(s) + 1} /\ Len(s) + 1 \notin 1..Len(s)
  BY <1>1
<1>3. Occurrences(l, Append(s, e)) =
        IF LocationOf(e) = l THEN Occurrences(l, s) \cup {Len(s) + 1} ELSE Occurrences(l, s)
  BY <1>1, <1>2 DEF Occurrences
<1>4. IsFiniteSet(Occurrences(l, s)) /\ Count(l, s) \in Nat /\ Len(s) + 1 \notin Occurrences(l, s)
  BY <1>2, OccurrencesFinite DEF Occurrences
<1>5. CASE LocationOf(e) = l
  BY <1>3, <1>4, <1>5, FS_AddElement DEF Count
<1>6. CASE LocationOf(e) # l
  BY <1>3, <1>4, <1>6 DEF Count
<1>7. QED
  BY <1>5, <1>6

(* A set and its image under an injective renaming have equally many        *)
(* members.                                                                 *)
LEMMA SameCount ==
  ASSUME NEW A, IsFiniteSet(A), NEW B, NEW f \in [A -> B],
         \A b \in B : \E a \in A : f[a] = b,
         \A a, c \in A : f[a] = f[c] => a = c
  PROVE  IsFiniteSet(B) /\ Cardinality(B) = Cardinality(A)
<1>1. f \in Bijection(A, B)
  BY DEF Bijection, Injection, Surjection, IsInjective
<1>2. ExistsBijection(A, B)
  BY <1>1 DEF ExistsBijection
<1>3. QED
  BY <1>2, FS_Bijection

LEMMA DisjointCount ==
  ASSUME NEW A, IsFiniteSet(A), NEW B, IsFiniteSet(B), A \cap B = {}
  PROVE  /\ IsFiniteSet(A \cup B)
         /\ Cardinality(A \cup B) = Cardinality(A) + Cardinality(B)
<1>1. Cardinality(A) \in Nat /\ Cardinality(B) \in Nat
  BY FS_CardinalityType
<1>2. Cardinality(A \cap B) = 0
  BY FS_EmptySet
<1>3. /\ IsFiniteSet(A \cup B)
      /\ Cardinality(A \cup B) = Cardinality(A) + Cardinality(B) - Cardinality(A \cap B)
  BY FS_Union
<1>4. QED
  BY <1>1, <1>2, <1>3

LEMMA CountConcat ==
  ASSUME NEW S, NEW s \in Seq(S), NEW t \in Seq(S), NEW l
  PROVE  Count(l, s \o t) = Count(l, s) + Count(l, t)
<1>1. /\ Len(s \o t) = Len(s) + Len(t)
      /\ Len(s) \in Nat /\ Len(t) \in Nat
      /\ \A i \in 1..(Len(s) + Len(t)) : (s \o t)[i] = IF i <= Len(s) THEN s[i] ELSE t[i - Len(s)]
  BY ConcatProperties, LenProperties
<1> DEFINE shifted == {i \in 1..(Len(s) + Len(t)) : Len(s) < i /\ LocationOf(t[i - Len(s)]) = l}
           f == [i \in Occurrences(l, t) |-> Len(s) + i]
<1>2. IsFiniteSet(Occurrences(l, s)) /\ IsFiniteSet(Occurrences(l, t))
  BY OccurrencesFinite
<1>3. IsFiniteSet(shifted) /\ Cardinality(shifted) = Count(l, t)
  <2>1. ASSUME NEW i \in Occurrences(l, t) PROVE Len(s) + i \in shifted /\ f[i] = Len(s) + i
    <3>1. i \in 1..Len(t) /\ LocationOf(t[i]) = l
      BY DEF Occurrences
    <3>2. Len(s) + i \in 1..(Len(s) + Len(t)) /\ Len(s) < Len(s) + i /\ (Len(s) + i) - Len(s) = i
      BY <1>1, <3>1
    <3>3. QED
      BY <3>1, <3>2
  <2>2. ASSUME NEW b \in shifted PROVE \E a \in Occurrences(l, t) : f[a] = b
    <3>1. b - Len(s) \in 1..Len(t) /\ Len(s) + (b - Len(s)) = b
      BY <1>1
    <3>2. b - Len(s) \in Occurrences(l, t)
      BY <3>1 DEF Occurrences
    <3>3. QED
      BY <3>1, <3>2
  <2>3. f \in [Occurrences(l, t) -> shifted]
    BY <2>1
  <2>4. \A a, c \in Occurrences(l, t) : f[a] = f[c] => a = c
    BY <1>1 DEF Occurrences
  <2> HIDE DEF f, shifted
  <2>5. QED
    BY <1>2, <2>2, <2>3, <2>4, SameCount DEF Count
<1>4. Occurrences(l, s \o t) = Occurrences(l, s) \cup shifted
  <2>1. ASSUME NEW i \in 1..(Len(s) + Len(t))
        PROVE  LocationOf((s \o t)[i]) = l <=> i \in Occurrences(l, s) \cup shifted
    <3>1. CASE i <= Len(s)
      BY <1>1, <3>1 DEF Occurrences
    <3>2. CASE ~(i <= Len(s))
      BY <1>1, <3>2 DEF Occurrences
    <3>3. QED
      BY <3>1, <3>2
  <2>2. Occurrences(l, s) \cup shifted \subseteq 1..(Len(s) + Len(t))
    BY <1>1 DEF Occurrences
  <2>3. Occurrences(l, s \o t) = {i \in 1..(Len(s) + Len(t)) : LocationOf((s \o t)[i]) = l}
    BY <1>1 DEF Occurrences
  <2> HIDE DEF shifted
  <2>4. QED
    BY <2>1, <2>2, <2>3
<1>5. Occurrences(l, s) \cap shifted = {}
  BY <1>1 DEF Occurrences
<1> HIDE DEF shifted
<1>6. QED
  BY <1>2, <1>3, <1>4, <1>5, DisjointCount DEF Count

(* The places of the first m rules at which a location is raised.           *)
Pairs(n, A) == {<<n, i>> : i \in A}
RaisedTo(c, l, m) ==
  UNION {Pairs(n, Occurrences(l, c.errors[RuleOrder[n]])) :
           n \in {k \in 1..m : RuleOrder[k] # "unknownKeys"}}
Raised(c, l, m) == Cardinality(RaisedTo(c, l, m))

LEMMA PairCount ==
  ASSUME NEW n, NEW A, IsFiniteSet(A)
  PROVE  IsFiniteSet(Pairs(n, A)) /\ Cardinality(Pairs(n, A)) = Cardinality(A)
<1> DEFINE f == [i \in A |-> <<n, i>>]
<1>1. f \in [A -> Pairs(n, A)] /\ \A b \in Pairs(n, A) : \E a \in A : f[a] = b
  BY DEF Pairs
<1>2. \A a, c \in A : f[a] = f[c] => a = c
  OBVIOUS
<1> HIDE DEF f
<1>3. QED
  BY <1>1, <1>2, SameCount

(* One rule more: its places are added, and the unknown-key rule has none.  *)
LEMMA RaisedNext ==
  ASSUME NEW c, NEW l, NEW m \in Nat, IsFiniteSet(RaisedTo(c, l, m)),
         NEW S, c.errors[RuleOrder[m + 1]] \in Seq(S) \/ RuleOrder[m + 1] = "unknownKeys"
  PROVE  /\ IsFiniteSet(RaisedTo(c, l, m + 1))
         /\ Raised(c, l, m + 1) =
              IF RuleOrder[m + 1] = "unknownKeys" THEN Raised(c, l, m)
              ELSE Raised(c, l, m) + Count(l, c.errors[RuleOrder[m + 1]])
<1> DEFINE new == Occurrences(l, c.errors[RuleOrder[m + 1]])
<1>1. 1..(m + 1) = (1..m) \cup {m + 1} /\ m + 1 \notin 1..m
  OBVIOUS
<1>2. CASE RuleOrder[m + 1] = "unknownKeys"
  <2>1. {k \in 1..(m + 1) : RuleOrder[k] # "unknownKeys"} = {k \in 1..m : RuleOrder[k] # "unknownKeys"}
    BY <1>1, <1>2
  <2>2. RaisedTo(c, l, m + 1) = RaisedTo(c, l, m)
    BY <2>1 DEF RaisedTo
  <2>3. QED
    BY <1>2, <2>2 DEF Raised
<1>3. CASE RuleOrder[m + 1] # "unknownKeys"
  <2>1. {k \in 1..(m + 1) : RuleOrder[k] # "unknownKeys"}
          = {k \in 1..m : RuleOrder[k] # "unknownKeys"} \cup {m + 1}
    BY <1>1, <1>3
  <2>2. RaisedTo(c, l, m + 1) = RaisedTo(c, l, m) \cup Pairs(m + 1, new)
    BY <2>1 DEF RaisedTo
  <2>3. RaisedTo(c, l, m) \cap Pairs(m + 1, new) = {}
    BY <1>1 DEF RaisedTo, Pairs
  <2>4. IsFiniteSet(new) /\ Cardinality(new) = Count(l, c.errors[RuleOrder[m + 1]])
    BY <1>3, OccurrencesFinite DEF Count
  <2> HIDE DEF new
  <2>5. IsFiniteSet(Pairs(m + 1, new)) /\ Cardinality(Pairs(m + 1, new)) = Cardinality(new)
    BY <2>4, PairCount
  <2>6. QED
    BY <1>3, <2>2, <2>3, <2>4, <2>5, DisjointCount DEF Raised
<1>4. QED
  BY <1>2, <1>3

------------------------------------------------------------------------------
(* What the errors hold of a location: what the rules so far have raised,   *)
(* or else the one report of the unknown-key walk.                          *)
Due(raised, extra) == IF raised # 0 THEN raised ELSE IF extra THEN 1 ELSE 0
IsExtra(l) == IF phase = "unknown" THEN l \in reported ELSE next > 28 /\ l \in Mentioned(call.unknown)
Past == phase # "entry" /\ ~call.isNil

RaisedFinite == \A l \in Location : IsFiniteSet(RaisedTo(call, l, next - 1))

Counted ==
  Past => \A l \in Location : Count(l, errors) = Due(Raised(call, l, next - 1), IsExtra(l))

(* Only a judged document leaves the entry, and its rules have all run when *)
(* the demotion starts.                                                     *)
Gone == Past /\ phase \notin {"rules", "unknown"} => next = 30

(* What the walk knows: a location is remembered because a rule raised it   *)
(* or because the walk has come by, and no other is behind it.              *)
WalkKnows ==
  phase = "unknown" =>
    /\ next = 28
    /\ Mentioned(pending) \subseteq Mentioned(call.unknown)
    /\ \A l \in Location :
         /\ Raised(call, l, 27) # 0 => l \in reported
         /\ l \in reported => Raised(call, l, 27) # 0 \/ l \in Mentioned(call.unknown)
         /\ l \in Mentioned(call.unknown) => l \in reported \/ l \in Mentioned(pending)

(* The demotion keeps every error at a location of the unknown-key rule.    *)
Seen(l) == {i \in 1..(cursor - 1) : LocationOf(errors[i]) = l}
KeptCount ==
  phase = "tolerate" => \A l \in Location : Count(l, kept) = Cardinality(Seen(l))

CountInv == RaisedFinite /\ Counted /\ Gone /\ WalkKnows /\ KeptCount

LEMMA MentionedHead ==
  ASSUME NEW S, NEW s \in Seq(S), s # <<>>
  PROVE  Mentioned(s) = {Head(s)} \cup Mentioned(Tail(s))
<1>1. /\ Len(s) \in Nat /\ Len(s) >= 1 /\ Len(Tail(s)) = Len(s) - 1 /\ Head(s) = s[1]
      /\ \A i \in 1..Len(Tail(s)) : Tail(s)[i] = s[i + 1]
  BY HeadTailProperties, LenProperties, EmptySeq
<1>2. ASSUME NEW i \in 1..Len(s) PROVE s[i] \in {Head(s)} \cup Mentioned(Tail(s))
  <2>1. CASE i = 1
    BY <1>1, <2>1
  <2>2. CASE i # 1
    <3>1. i - 1 \in 1..Len(Tail(s)) /\ (i - 1) + 1 = i
      BY <1>1, <2>2
    <3>2. Tail(s)[i - 1] = s[i]
      BY <1>1, <3>1
    <3>3. QED
      BY <3>1, <3>2 DEF Mentioned
  <2>3. QED
    BY <2>1, <2>2
<1>3. \A i \in 1..Len(Tail(s)) : i + 1 \in 1..Len(s) /\ Tail(s)[i] = s[i + 1]
  BY <1>1
<1>4. s[1] \in Mentioned(s)
  BY <1>1 DEF Mentioned
<1>5. Mentioned(Tail(s)) \subseteq Mentioned(s)
  BY <1>3 DEF Mentioned
<1>6. Mentioned(s) \subseteq {Head(s)} \cup Mentioned(Tail(s))
  BY <1>2 DEF Mentioned
<1>7. QED
  BY <1>1, <1>4, <1>5, <1>6

(* A list holds a location when the unknown-key rule finds it there.        *)
LEMMA RememberedCounts ==
  ASSUME NEW s \in Seq(Issue), NEW l \in Location
  PROVE  l \in LocationsIn(s) <=> Count(l, s) # 0
<1>1. \A i \in 1..Len(s) : LocationOf(s[i]) = l => s[i].code \in KeyCodes
  BY DEF Location, LocationOf
<1>2. l \in LocationsIn(s) <=> \E i \in 1..Len(s) : LocationOf(s[i]) = l
  BY <1>1 DEF LocationsIn
<1>3. QED
  BY <1>2, OccurrencesFinite

(* Nothing is raised before the first rule.                                 *)
LEMMA RaisedNone ==
  ASSUME NEW c, NEW l
  PROVE  IsFiniteSet(RaisedTo(c, l, 0)) /\ Raised(c, l, 0) = 0
<1>1. 1..0 = {}
  OBVIOUS
<1>2. RaisedTo(c, l, 0) = {}
  BY <1>1 DEF RaisedTo
<1>3. QED
  BY <1>2, FS_EmptySet DEF Raised

LEMMA RaisedNat ==
  ASSUME NEW c, NEW l, NEW m, IsFiniteSet(RaisedTo(c, l, m))
  PROVE  Raised(c, l, m) \in Nat
BY FS_CardinalityType DEF Raised

(* The control state, as far as the counting needs it.                      *)
LEMMA ControlShape ==
  ASSUME IndInv
  PROVE  /\ next \in 1..30 /\ next \in Nat /\ cursor \in Nat /\ Len(errors) \in Nat
         /\ errors \in Seq(Issue) /\ kept \in Seq(Issue) /\ PhaseOK
<1>1. TypeOK /\ PhaseOK /\ Len(RuleOrder) = 29
  BY LastRules DEF IndInv
<1>2. QED
  BY <1>1, LenProperties DEF TypeOK

LEMMA CountInit == Init => CountInv
<1>1. Init => next = 1 /\ phase = "entry" /\ 1 - 1 = 0
  BY DEF Init
<1>2. QED
  BY <1>1, RaisedNone DEF CountInv, RaisedFinite, Counted, Gone, WalkKnows, KeptCount, Past

LEMMA RunRuleCount ==
  ASSUME IndInv, CountInv, RunRule
  PROVE  CountInv'
<1>1. PICK rule \in Rules \ {"unknownKeys"} :
        InOrder(rule) /\ errors' = errors \o call.errors[rule]
  BY DEF RunRule
<1>2. /\ phase = "rules" /\ next \in 1..29 /\ rule = RuleOrder[next] /\ next # 28
      /\ next' = next + 1 /\ phase' = "rules" /\ UNCHANGED call
      /\ (next - 1) + 1 = next /\ next' - 1 = next /\ next - 1 \in Nat
  <2>1. /\ phase = "rules" /\ next <= 29 /\ rule = RuleOrder[next] /\ rule # "unknownKeys"
        /\ next' = next + 1 /\ phase' = phase /\ UNCHANGED call
    BY <1>1, LastRules DEF RunRule, InOrder
  <2>2. next \in 1..29
    BY <2>1, ControlShape
  <2>3. next # 28
    BY <2>1, LastRules
  <2>4. QED
    BY <2>1, <2>2, <2>3
<1>3. ~call.isNil /\ call.errors[rule] \in Seq(Issue) /\ errors \in Seq(Issue)
  BY <1>1, <1>2, CallShape DEF IndInv, TypeOK, PhaseOK
<1>4. ASSUME NEW l \in Location
      PROVE  /\ IsFiniteSet(RaisedTo(call, l, next))
             /\ Raised(call, l, next) = Raised(call, l, next - 1) + Count(l, call.errors[rule])
             /\ Count(l, errors') = Count(l, errors) + Count(l, call.errors[rule])
             /\ Raised(call, l, next - 1) \in Nat /\ Count(l, call.errors[rule]) \in Nat
             /\ Count(l, errors) = Due(Raised(call, l, next - 1), next > 28 /\ l \in Mentioned(call.unknown))
  <2>1. IsFiniteSet(RaisedTo(call, l, next - 1))
    BY DEF CountInv, RaisedFinite
  <2>2. /\ IsFiniteSet(RaisedTo(call, l, (next - 1) + 1))
        /\ Raised(call, l, (next - 1) + 1) = Raised(call, l, next - 1) + Count(l, call.errors[rule])
    BY <1>1, <1>2, <1>3, <2>1, RaisedNext
  <2>3. Count(l, errors') = Count(l, errors) + Count(l, call.errors[rule])
    BY <1>1, <1>3, CountConcat
  <2>4. Count(l, errors) = Due(Raised(call, l, next - 1), next > 28 /\ l \in Mentioned(call.unknown))
    BY <1>2, <1>3 DEF CountInv, Counted, Past, IsExtra
  <2>5. QED
    BY <1>2, <1>3, <2>1, <2>2, <2>3, <2>4, RaisedNat, OccurrencesFinite
<1>5. ASSUME NEW l \in Location, next > 28
      PROVE  Count(l, call.errors[rule]) = 0
  <2>1. rule = "templates"
    BY <1>2, <1>5, LastRules
  <2>2. LocationsIn(call.errors[rule]) = {}
    BY <2>1 DEF IndInv, TypeOK, IsCall
  <2>3. QED
    BY <1>3, <2>2, RememberedCounts
<1>6. ASSUME NEW l \in Location
      PROVE  Count(l, errors') = Due(Raised(call, l, next), next' > 28 /\ l \in Mentioned(call.unknown))
  <2>1. CASE next > 28
    BY <1>2, <1>4, <1>5, <2>1 DEF Due
  <2>2. CASE ~(next > 28)
    BY <1>2, <1>4, <2>2 DEF Due
  <2>3. QED
    BY <2>1, <2>2
<1>7. RaisedFinite'
  BY <1>2, <1>4 DEF RaisedFinite
<1>8. Counted'
  BY <1>2, <1>6 DEF Counted, IsExtra
<1>9. QED
  BY <1>2, <1>7, <1>8 DEF CountInv, Gone, WalkKnows, KeptCount

LEMMA StartCount ==
  ASSUME IndInv, CountInv, StartUnknownKeys
  PROVE  CountInv'
<1>1. /\ phase = "rules" /\ next = 28 /\ phase' = "unknown" /\ ~call.isNil /\ errors \in Seq(Issue)
      /\ reported' = LocationsIn(errors) /\ pending' = call.unknown /\ UNCHANGED <<call, next, errors>>
      /\ 28 - 1 = 27
  <2>1. /\ phase = "rules" /\ next <= 29 /\ RuleOrder[next] = "unknownKeys" /\ phase' = "unknown"
        /\ reported' = LocationsIn(errors) /\ pending' = call.unknown /\ UNCHANGED <<call, next, errors>>
    BY LastRules DEF StartUnknownKeys, InOrder
  <2>2. next \in 1..29 /\ ~call.isNil /\ errors \in Seq(Issue)
    BY <2>1, ControlShape DEF PhaseOK
  <2>3. next = 28
    BY <2>1, <2>2, LastRules
  <2>4. QED
    BY <2>1, <2>2, <2>3
<1>2. ASSUME NEW l \in Location
      PROVE  /\ Count(l, errors) = Raised(call, l, 27)
             /\ l \in LocationsIn(errors) <=> Count(l, errors) # 0
  BY <1>1, RememberedCounts DEF CountInv, Counted, Past, IsExtra, Due
<1>3. RaisedFinite'
  BY <1>1 DEF CountInv, RaisedFinite
<1>4. Counted'
  BY <1>1, <1>2 DEF Counted, IsExtra, Due
<1>5. WalkKnows'
  BY <1>1, <1>2 DEF WalkKnows
<1>6. QED
  BY <1>1, <1>3, <1>4, <1>5 DEF CountInv, Gone, KeptCount

LEMMA ReportCount ==
  ASSUME IndInv, CountInv, ReportUnknown
  PROVE  CountInv'
<1> DEFINE h == Head(pending)
<1>1. /\ phase = "unknown" /\ next = 28 /\ 28 - 1 = 27 /\ phase' = "unknown" /\ ~call.isNil
      /\ errors' = Append(errors, UnknownIssue(h)) /\ reported' = reported \cup {h}
      /\ h \notin reported /\ pending' = Tail(pending) /\ UNCHANGED <<call, next>>
  BY DEF ReportUnknown, CountInv, WalkKnows, IndInv, PhaseOK
<1>2. /\ h \in Location /\ errors \in Seq(Issue)
      /\ Mentioned(pending) = {h} \cup Mentioned(Tail(pending))
  BY HeadTail, MentionedHead DEF ReportUnknown, IndInv, TypeOK
<1>3. UnknownIssue(h) \in Issue /\ LocationOf(UnknownIssue(h)) = h
  BY <1>2, UnknownIssueType
<1> HIDE DEF h
<1>4. ASSUME NEW l \in Location
      PROVE  /\ Count(l, errors') = Count(l, errors) + IF h = l THEN 1 ELSE 0
             /\ Count(l, errors) = Due(Raised(call, l, 27), l \in reported)
             /\ Raised(call, l, 27) # 0 => l \in reported
  BY <1>1, <1>2, <1>3, CountAppend DEF CountInv, Counted, Past, IsExtra, WalkKnows
<1>5. RaisedFinite'
  BY <1>1 DEF CountInv, RaisedFinite
<1>6. ASSUME NEW l \in Location
      PROVE  Count(l, errors') = Due(Raised(call, l, 27), l \in reported')
  <2>1. CASE l = h
    BY <1>1, <1>4, <2>1 DEF Due
  <2>2. CASE l # h
    <3>1. Count(l, errors) \in Nat
      BY <1>2, OccurrencesFinite
    <3>2. QED
      BY <1>1, <1>4, <2>2, <3>1
  <2>3. QED
    BY <2>1, <2>2
<1>7. Counted'
  BY <1>1, <1>6 DEF Counted, IsExtra
<1>8. WalkKnows'
  BY <1>1, <1>2 DEF CountInv, WalkKnows
<1>9. QED
  BY <1>1, <1>5, <1>7, <1>8 DEF CountInv, Gone, KeptCount

LEMMA SkipCount ==
  ASSUME IndInv, CountInv, SkipReported
  PROVE  CountInv'
<1>1. /\ phase = "unknown" /\ phase' = "unknown" /\ Head(pending) \in reported
      /\ pending' = Tail(pending) /\ UNCHANGED <<call, next, errors, reported>>
      /\ Mentioned(pending) = {Head(pending)} \cup Mentioned(Tail(pending))
  BY MentionedHead DEF SkipReported, IndInv, TypeOK
<1>2. RaisedFinite' /\ Counted'
  BY <1>1 DEF CountInv, RaisedFinite, Counted, Past, IsExtra
<1>3. WalkKnows'
  BY <1>1 DEF CountInv, WalkKnows
<1>4. QED
  BY <1>1, <1>2, <1>3 DEF CountInv, Gone, KeptCount

LEMMA EndCount ==
  ASSUME IndInv, CountInv, EndUnknownKeys
  PROVE  CountInv'
<1>1. /\ phase = "unknown" /\ next = 28 /\ next' = 29 /\ 28 - 1 = 27 /\ 27 + 1 = 28 /\ 29 - 1 = 28
      /\ phase' = "rules" /\ ~call.isNil /\ pending = <<>> /\ UNCHANGED <<call, errors>>
  BY DEF EndUnknownKeys, CountInv, WalkKnows, IndInv, PhaseOK
<1>2. Mentioned(pending) = {}
  BY <1>1 DEF Mentioned
<1>3. ASSUME NEW l \in Location
      PROVE  IsFiniteSet(RaisedTo(call, l, 28)) /\ Raised(call, l, 28) = Raised(call, l, 27)
  <2>1. IsFiniteSet(RaisedTo(call, l, 27)) /\ RuleOrder[27 + 1] = "unknownKeys"
    BY <1>1, LastRules DEF CountInv, RaisedFinite
  <2>2. QED
    BY <1>1, <2>1, RaisedNext
<1>4. RaisedFinite'
  BY <1>1, <1>3 DEF RaisedFinite
<1>5. \A l \in Location : Count(l, errors) = Due(Raised(call, l, 27), l \in Mentioned(call.unknown))
  BY <1>1, <1>2 DEF CountInv, Counted, Past, IsExtra, WalkKnows, Due
<1>6. Counted'
  BY <1>1, <1>3, <1>5 DEF Counted, IsExtra
<1>7. QED
  BY <1>1, <1>4, <1>6 DEF CountInv, Gone, WalkKnows, KeptCount

LEMMA EndRulesCount ==
  ASSUME IndInv, CountInv, EndRules
  PROVE  CountInv'
<1>1. /\ phase = "rules" /\ phase' \in {"tolerate", "finish"} /\ next = 30
      /\ UNCHANGED <<call, next, errors, kept, cursor>> /\ kept = <<>> /\ cursor = 1
  <2>1. /\ phase = "rules" /\ phase' \in {"tolerate", "finish"} /\ next > 29
        /\ UNCHANGED <<call, next, errors, kept, cursor>>
    BY LastRules DEF EndRules
  <2>2. next = 30
    <3>1. next \in 1..30
      BY ControlShape
    <3>2. next > 29
      BY <2>1
    <3>3. QED
      BY <3>1, <3>2
  <2>3. kept = <<>> /\ cursor = 1
    BY <2>1, ControlShape DEF PhaseOK
  <2>4. QED
    BY <2>1, <2>2, <2>3
<1>2. RaisedFinite' /\ Counted'
  BY <1>1 DEF CountInv, RaisedFinite, Counted, Past, IsExtra
<1>3. ASSUME NEW l PROVE Count(l, <<>>) = 0 /\ Cardinality({i \in 1..(1 - 1) : LocationOf(errors[i]) = l}) = 0
  <2>1. 1..(1 - 1) = {} /\ Len(<<>>) = 0 /\ 1..0 = {}
    OBVIOUS
  <2>2. Occurrences(l, <<>>) = {} /\ {i \in 1..(1 - 1) : LocationOf(errors[i]) = l} = {}
    BY <2>1 DEF Occurrences
  <2>3. QED
    BY <2>2, FS_EmptySet DEF Count
<1>4. KeptCount'
  BY <1>1, <1>3 DEF KeptCount, Seen
<1>5. QED
  BY <1>1, <1>2, <1>4 DEF CountInv, Gone, WalkKnows

LEMMA DemotionCount ==
  ASSUME IndInv, CountInv, Demote \/ Keep
  PROVE  CountInv'
<1>1. /\ phase = "tolerate" /\ phase' = "tolerate" /\ UNCHANGED <<call, next, errors>>
      /\ cursor \in Nat /\ 1 <= cursor /\ cursor' = cursor + 1 /\ cursor \in 1..Len(errors)
      /\ errors[cursor] \in Issue /\ kept \in Seq(Issue)
  BY LenProperties, ElementOfSeq DEF Demote, Keep, Examining, IndInv, TypeOK
<1>2. RaisedFinite' /\ Counted'
  BY <1>1 DEF CountInv, RaisedFinite, Counted, Past, IsExtra
<1>3. 1..(cursor' - 1) = (1..(cursor - 1)) \cup {cursor} /\ cursor \notin 1..(cursor - 1)
  BY <1>1
<1>4. ASSUME NEW l \in Location
      PROVE  /\ IsFiniteSet(Seen(l)) /\ Cardinality(Seen(l)) \in Nat
             /\ Seen(l)' = IF LocationOf(errors[cursor]) = l THEN Seen(l) \cup {cursor} ELSE Seen(l)
             /\ cursor \notin Seen(l)
             /\ Count(l, kept) = Cardinality(Seen(l))
  <2>1. IsFiniteSet(1..(cursor - 1)) /\ Seen(l) \in SUBSET (1..(cursor - 1))
    BY <1>1, FS_Interval DEF Seen
  <2>2. IsFiniteSet(Seen(l)) /\ Cardinality(Seen(l)) \in Nat
    BY <2>1, FS_Subset, FS_CardinalityType
  <2>3. Seen(l)' = IF LocationOf(errors[cursor]) = l THEN Seen(l) \cup {cursor} ELSE Seen(l)
    BY <1>1, <1>3 DEF Seen
  <2>4. QED
    BY <1>1, <1>3, <2>1, <2>2, <2>3 DEF CountInv, KeptCount
<1>5. ASSUME NEW l \in Location
      PROVE  Count(l, kept') = Cardinality(Seen(l)')
  <2>1. CASE Demote
    <3>1. LocationOf(errors[cursor]) # l
      BY <2>1, ToleratedAssumption DEF Demote, IsTolerated, LocationOf, Location, KeyCodes
    <3>2. UNCHANGED kept
      BY <2>1 DEF Demote
    <3>3. QED
      BY <1>4, <3>1, <3>2
  <2>2. CASE Keep
    <3>1. Count(l, kept') = Count(l, kept) + IF LocationOf(errors[cursor]) = l THEN 1 ELSE 0
      BY <1>1, <2>2, CountAppend DEF Keep
    <3>2. Cardinality(Seen(l)') = Cardinality(Seen(l)) + IF LocationOf(errors[cursor]) = l THEN 1 ELSE 0
      BY <1>4, FS_AddElement
    <3>3. QED
      BY <1>4, <3>1, <3>2
  <2>3. QED
    BY <2>1, <2>2
<1>6. KeptCount'
  BY <1>5 DEF KeptCount
<1>7. QED
  BY <1>1, <1>2, <1>6 DEF CountInv, Gone, WalkKnows, Past

LEMMA EndTolerateCount ==
  ASSUME IndInv, CountInv, EndTolerate
  PROVE  CountInv'
<1>1. /\ phase = "tolerate" /\ phase' = "finish" /\ errors' = kept /\ UNCHANGED <<call, next>>
      /\ cursor - 1 = Len(errors)
  BY ControlShape DEF EndTolerate, PhaseOK
<1>2. \A l \in Location : Count(l, kept) = Count(l, errors)
  BY <1>1 DEF CountInv, KeptCount, Seen, Count, Occurrences
<1>3. RaisedFinite' /\ Counted'
  BY <1>1, <1>2 DEF CountInv, RaisedFinite, Counted, Past, IsExtra
<1>4. QED
  BY <1>1, <1>3 DEF CountInv, Gone, WalkKnows, KeptCount, Past

LEMMA CountStep ==
  ASSUME IndInv, CountInv, [Next]_vars
  PROVE  CountInv'
<1> USE DEF CountInv, RaisedFinite, Counted, Gone, WalkKnows, KeptCount, Past, IsExtra
<1>1. CASE RefuseText \/ RefuseNil
  <2>1. call.isNil /\ phase' = "returned" /\ UNCHANGED <<call, next>>
    BY <1>1 DEF RefuseText, RefuseNil, IndInv, TypeOK, IsCall
  <2>2. QED
    BY <2>1
<1>2. CASE Enter
  <2>1. phase' = "rules" /\ next = 1 /\ errors = <<>> /\ UNCHANGED <<call, next, errors>>
    BY <1>2 DEF Enter, IndInv, PhaseOK
  <2>2. \A l : Raised(call, l, 1 - 1) = 0
    BY RaisedNone
  <2>3. \A l : Count(l, <<>>) = 0
    <3>1. \A l : Occurrences(l, <<>>) = {}
      BY DEF Occurrences
    <3>2. QED
      BY <3>1, FS_EmptySet DEF Count
  <2>4. QED
    BY <2>1, <2>2, <2>3 DEF Due
<1>3. CASE Finish
  BY <1>3 DEF Finish
<1>4. CASE UNCHANGED vars
  BY <1>4 DEF vars, Seen
<1>5. QED
  BY <1>1, <1>2, <1>3, <1>4, RunRuleCount, StartCount, ReportCount, SkipCount, EndCount,
     EndRulesCount, DemotionCount, EndTolerateCount DEF Next

(* A location gets its advice once: its errors are those the rules raised   *)
(* there, and where none did, one of the unknown-key walk.                  *)
THEOREM AdviceIsGivenOnce == Spec => []ReportedOnce
<1>1. IndInv /\ CountInv /\ [Next]_vars => (IndInv /\ CountInv)'
  BY InvStep, CountStep
<1>2. IndInv /\ CountInv => ReportedOnce
  <2> SUFFICES ASSUME IndInv, CountInv, Returned, NEW l \in Location
               PROVE  Cardinality(Occurrences(l, errors)) =
                        IF RaisedAt(l) # {} THEN Cardinality(RaisedAt(l))
                        ELSE IF l \in Mentioned(call.unknown) THEN 1 ELSE 0
    BY DEF ReportedOnce
  <2>1. next = 30 /\ 30 - 1 = 29 /\ 30 > 28 /\ Past /\ phase = "returned"
    BY DEF Returned, Past, CountInv, Gone
  <2>2. RaisedTo(call, l, 29) = RaisedAt(l) /\ Count(l, errors) = Cardinality(Occurrences(l, errors))
    BY LastRules DEF RaisedTo, RaisedAt, Pairs, Count
  <2>3. IsFiniteSet(RaisedAt(l)) /\ Cardinality(RaisedAt(l)) = Raised(call, l, 29)
    BY <2>1, <2>2 DEF CountInv, RaisedFinite, Raised
  <2>4. Count(l, errors) = Due(Raised(call, l, 29), l \in Mentioned(call.unknown))
    BY <2>1 DEF CountInv, Counted, IsExtra
  <2>5. RaisedAt(l) = {} <=> Raised(call, l, 29) = 0
    BY <2>3, FS_EmptySet
  <2>6. QED
    BY <2>2, <2>3, <2>4, <2>5 DEF Due
<1>3. QED
  BY InvInit, CountInit, <1>1, <1>2, PTL DEF Spec
==============================================================================
