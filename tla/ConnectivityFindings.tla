------------------------- MODULE ConnectivityFindings -------------------------
(****************************************************************************)
(* The findings of validateConnectivity, and which of them are true of a    *)
(* document.  A finding is a code, the step it names (Absent for the flow)  *)
(* and a place: the kind of route and, for a list, the entry.  Wording,     *)
(* suggestions and the list of available steps are left out.                *)
(****************************************************************************)
EXTENDS FlowPaths, SequencesExt

CONSTANT Order   \* Names in lexical order: what sortedKeys sorts by

ASSUME OrderAssumption == Order \in Seq(Names) /\ IsInjective(Order) /\ Mentioned(Order) = Names

Finding(code, step, at) == [code |-> code, step |-> step, at |-> at]

AtDefault == <<"default", 0>>
AtCondition(i) == <<"goto", i>>
AtStep == <<"step", 0>>

StepNotFound(id, at) == Finding("step_not_found", id, at)
UnknownYamlKey(id, at) == Finding("unknown_yaml_key", id, at)
UnreachableStep(id) == Finding("unreachable_step", id, AtStep)
PotentialInfiniteLoop == Finding("potential_infinite_loop", Absent, AtStep)

(* sortedKeys: the loops over stepNames take the step ids in lexical order. *)
Position(id) == CHOOSE i \in 1..Len(Order) : Order[i] = id

IsFirst(id, ids) == id \in ids /\ \A other \in ids : Position(id) <= Position(other)

(* Step findings in the order of the steps and their entries; the finding   *)
(* about the whole flow is the last one.                                    *)
Rank(finding) == IF finding.step = Absent THEN Len(Order) + 1 ELSE Position(finding.step)

InOrder(findings) ==
  \A i, j \in 1..Len(findings) : i < j =>
    \/ Rank(findings[i]) < Rank(findings[j])
    \/ /\ Rank(findings[i]) = Rank(findings[j])
       /\ findings[i].at[2] <= findings[j].at[2]

(* A target text that neither names a step nor is a save-door marker.       *)
IsDangling(f, target) ==
  target # Absent /\ ~IsSaveDoorMarker(target) /\ target \notin StepIds(f)

DanglingConditions(f, n) ==
  {i \in 1..Len(f.steps[n].conditions) : IsDangling(f, f.steps[n].conditions[i].goto)}

MiskeyedConditions(f, n) ==
  {i \in 1..Len(f.steps[n].conditions) : f.steps[n].conditions[i].wrongKey}

TrueErrors(f) ==
  {StepNotFound(n, AtDefault) : n \in {m \in StepIds(f) : IsDangling(f, f.steps[m].default)}}
    \cup (UNION {{StepNotFound(n, AtCondition(i)) : i \in DanglingConditions(f, n)} : n \in StepIds(f)})
    \cup (UNION {{UnknownYamlKey(n, AtCondition(i)) : i \in MiskeyedConditions(f, n)} : n \in StepIds(f)})

(* Without a start that names a step the rule judges references only.       *)
TrueWarnings(f) ==
  IF HasStart(f)
  THEN {UnreachableStep(n) : n \in StepIds(f) \ ReachableFrom(f)}
         \cup (IF HasTrap(f) THEN {PotentialInfiniteLoop} ELSE {})
  ELSE {}
==============================================================================
