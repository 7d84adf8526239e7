----------------------------- MODULE Connectivity -----------------------------
(****************************************************************************)
(* validateConnectivity as a whole: reference existence over the sorted     *)
(* steps, the guard on start, the breadth-first walk, the unreachable_step  *)
(* warnings, the cycle walk and its warning.  The walks are the machines of *)
(* Reachability and CycleDetect, run one after the other on one document.   *)
(****************************************************************************)
EXTENDS ConnectivityFindings, Reachability, CycleDetect

VARIABLES
  phase,      \* references, walk, warn, loop, returned
  todo,       \* the step ids the loop over stepNames under way has not finished
  entry,      \* within the first of them: 0 for default, i for conditions[i]
  errors,     \* what this rule appended to iss.errors
  warnings    \* what it appended to iss.warnings

vars == <<flow, phase, todo, entry, errors, warnings, walkVars, loopVars>>

Init ==
  /\ WalkInit /\ LoopInit
  /\ phase = "references"
  /\ todo = StepIds(flow) /\ entry = 0
  /\ errors = <<>> /\ warnings = <<>>

------------------------------------------------------------------------------
(* Reference existence, one reading of a target per step.                   *)
Checking(id) == phase = "references" /\ IsFirst(id, todo)

(* Mutant: a marker is not exempt from naming a step.                       *)
CheckDefaultAll(id) ==
  /\ Checking(id) /\ entry = 0
  /\ errors' = IF flow.steps[id].default \notin StepIds(flow) \cup {Absent}
               THEN Append(errors, StepNotFound(id, AtDefault)) ELSE errors
  /\ entry' = 1
  /\ UNCHANGED <<flow, phase, todo, warnings, walkVars, loopVars>>

CheckDefault(id) ==
  /\ Checking(id) /\ entry = 0
  /\ errors' = IF IsDangling(flow, flow.steps[id].default)
               THEN Append(errors, StepNotFound(id, AtDefault)) ELSE errors
  /\ entry' = 1
  /\ UNCHANGED <<flow, phase, todo, warnings, walkVars, loopVars>>

(* The wrong key is reported first, then goto is judged like a default: one *)
(* condition can yield both findings.                                       *)
CheckCondition(id) ==
  /\ Checking(id) /\ entry \in 1..Len(flow.steps[id].conditions)
  /\ LET condition == flow.steps[id].conditions[entry]
         keyErrors == IF condition.wrongKey
                      THEN Append(errors, UnknownYamlKey(id, AtCondition(entry))) ELSE errors
     IN  errors' = IF IsDangling(flow, condition.goto)
                   THEN Append(keyErrors, StepNotFound(id, AtCondition(entry))) ELSE keyErrors
  /\ entry' = entry + 1
  /\ UNCHANGED <<flow, phase, todo, warnings, walkVars, loopVars>>

NextStep(id) ==
  /\ Checking(id) /\ entry = Len(flow.steps[id].conditions) + 1
  /\ todo' = todo \ {id} /\ entry' = 0
  /\ UNCHANGED <<flow, phase, errors, warnings, walkVars, loopVars>>

ReferencesChecked ==
  /\ phase = "references" /\ todo = {}
  /\ phase' = "walk"
  /\ UNCHANGED <<flow, todo, entry, errors, warnings, walkVars, loopVars>>

------------------------------------------------------------------------------
(* The early return on a start that names no step.                          *)
ReturnEarly ==
  /\ phase = "walk" /\ Skip
  /\ phase' = "returned"
  /\ UNCHANGED <<todo, entry, errors, warnings, loopVars>>

WalkStep ==
  /\ phase = "walk"
  /\ Seed \/ PopSeen \/ PopNew \/ Push \/ PassTarget \/ NextPop
  /\ UNCHANGED <<phase, todo, entry, errors, warnings, loopVars>>

(* Mutant: the second loop ranges over the names the walk has visited.      *)
WalkedVisited ==
  /\ phase = "walk" /\ Report
  /\ phase' = "warn" /\ todo' = reachable
  /\ UNCHANGED <<entry, errors, warnings, loopVars>>

(* The queue is empty: the second loop over stepNames begins.               *)
Walked ==
  /\ phase = "walk" /\ Report
  /\ phase' = "warn" /\ todo' = StepIds(flow)
  /\ UNCHANGED <<entry, errors, warnings, loopVars>>

WarnUnreachable(id) ==
  /\ phase = "warn" /\ IsFirst(id, todo)
  /\ warnings' = IF id \in unreachable THEN Append(warnings, UnreachableStep(id)) ELSE warnings
  /\ todo' = todo \ {id}
  /\ UNCHANGED <<flow, phase, entry, errors, walkVars, loopVars>>

Warned ==
  /\ phase = "warn" /\ todo = {}
  /\ phase' = "loop"
  /\ UNCHANGED <<flow, todo, entry, errors, warnings, walkVars, loopVars>>

(* start names a step here, so the cycle walk always begins.                *)
LoopStep ==
  /\ phase = "loop"
  /\ Begin \/ PassEdge \/ Call \/ Revisit \/ ReturnOpen \/ CloseComponent
  /\ UNCHANGED <<phase, todo, entry, errors, warnings, walkVars>>

WarnLoop ==
  /\ phase = "loop" /\ Finish
  /\ warnings' = IF found THEN Append(warnings, PotentialInfiniteLoop) ELSE warnings
  /\ phase' = "returned"
  /\ UNCHANGED <<todo, entry, errors, walkVars>>

Next ==
  \/ \E id \in todo :
       CheckDefault(id) \/ CheckCondition(id) \/ NextStep(id) \/ WarnUnreachable(id)
  \/ ReferencesChecked \/ ReturnEarly \/ WalkStep \/ Walked \/ Warned \/ LoopStep \/ WarnLoop

(* A sequential call without I/O: it keeps taking steps until it returns.   *)
Spec == Init /\ [][Next]_vars /\ WF_vars(Next)

------------------------------------------------------------------------------
(* Every variable keeps its type.                                           *)
TypeOK ==
  /\ WalkTypeOK /\ LoopTypeOK
  /\ phase \in {"references", "walk", "warn", "loop", "returned"}
  /\ todo \in SUBSET StepIds(flow) /\ entry \in Nat
  /\ \A finding \in Mentioned(errors) \cup Mentioned(warnings) :
       finding.step \in StepIds(flow) \cup {Absent} /\ finding.at[2] \in Nat

(* The two walks agree although they keep their own marker tests and edge   *)
(* lists: a step the cycle walk judges has been visited by the first walk,  *)
(* so no step is both part of a reported loop and reported unreachable.     *)
WalksAgree == DOMAIN indices \subseteq reachable

(* The rule keeps the promise its caller relies on.                         *)
Promise == INSTANCE ConnectivityPromise WITH returned <- phase = "returned"
KeepsPromise == Promise!Spec

------------------------------------------------------------------------------
(* Which walk runs in which phase.                                          *)
PhaseOK ==
  /\ phase = "references" => walkPc = "begin"
  /\ phase = "walk" => walkPc \notin {"done", "skipped"}
  /\ phase \in {"warn", "loop"} => walkPc = "done"
  /\ phase \in {"references", "walk", "warn"} => loopPc = "begin"
  /\ phase = "returned" => IF HasStart(flow) THEN walkPc = "done" /\ loopPc = "done"
                                             ELSE loopPc = "begin"
  /\ phase \in {"walk", "loop"} => todo = {}

(* A loop over stepNames has finished with the first steps.                 *)
StepsInOrder ==
  \A earlier \in StepIds(flow) \ todo : \A later \in todo : Position(earlier) < Position(later)

(* An error is about a reading the reference check has done.                *)
IsRead(finding) ==
  \/ finding.step \notin todo
  \/ IsFirst(finding.step, todo) /\ finding.at[2] < entry

(* Each true error is there as soon as its place has been read.             *)
ErrorsTold ==
  /\ errors \in Seq(TrueErrors(flow)) /\ IsInjective(errors) /\ InOrder(errors)
  /\ \A finding \in TrueErrors(flow) :
       finding \in Mentioned(errors) <=> phase # "references" \/ IsRead(finding)

(* Each true warning is there as soon as its loop has come by.              *)
WarningsTold ==
  /\ warnings \in Seq(TrueWarnings(flow)) /\ IsInjective(warnings) /\ InOrder(warnings)
  /\ Mentioned(warnings) =
       CASE phase \in {"references", "walk"} -> {}
         [] phase \in {"warn", "loop"} -> {UnreachableStep(id) : id \in unreachable \ todo}
         [] phase = "returned" -> TrueWarnings(flow)

(* The inductive invariant behind KeepsPromise, beside those of the walks.  *)
RuleInv ==
  /\ phase \in {"references", "walk", "warn", "loop", "returned"}
  /\ todo \in SUBSET StepIds(flow) /\ entry \in Nat
  /\ PhaseOK
  /\ StepsInOrder
  /\ ErrorsTold
  /\ WarningsTold
==============================================================================
