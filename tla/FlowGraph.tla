------------------------------ MODULE FlowGraph ------------------------------
(****************************************************************************)
(* The routing part of a flow document, as the rules of                     *)
(* validate.connectivity.go read it: the steps mapping, each step's         *)
(* next.default, next.conditions[], next.parallel and error_strategy, and   *)
(* the flow's start and error_strategy.                                     *)
(*                                                                          *)
(* A target is what issues.stringOf / issues.stringAt deliver: a text, or   *)
(* Absent for a key that is missing, null, a mapping, a list or the empty   *)
(* text (every reader in this file treats those alike).  A step that is not *)
(* a mapping, and a step without a next mapping, have no targets and let    *)
(* the flow end, exactly like an empty next, so one record stands for all.  *)
(****************************************************************************)
EXTENDS Naturals, Sequences

CONSTANTS
  Names,         \* the texts that can stand as a step id or as a target
  Absent,        \* no target text at all
  NextMarkers,   \* spec nextMarkers: targets the save door accepts without a step
  ReachMarkers,  \* spec reachabilityTerminalMarkers: where the two walks stop
  Flows          \* the documents under consideration

ASSUME NamesAssumption ==
  /\ Absent \notin Names
  /\ NextMarkers \subseteq Names
  /\ ReachMarkers \subseteq Names

Targets == Names \cup {Absent}

(* One next.conditions[] entry; wrongKey: it carries a goto_step key.       *)
Condition == [goto : Targets, wrongKey : BOOLEAN]

(* fans: next.parallel is present and not null (its members and rendezvous  *)
(* are then read; without it they are empty and Absent).                    *)
StepRecord ==
  [default    : Targets,
   conditions : Seq(Condition),
   fans       : BOOLEAN,
   members    : Seq(Targets),
   rendezvous : Targets,
   errorGoto  : Targets]

IsFlow(flow) ==
  /\ DOMAIN flow = {"start", "errorGoto", "steps"}
  /\ flow.start \in Targets /\ flow.errorGoto \in Targets
  /\ DOMAIN flow.steps \subseteq Names
  /\ flow.steps \in [DOMAIN flow.steps -> StepRecord]

ASSUME FlowsAssumption == \A flow \in Flows : IsFlow(flow)

StepIds(flow) == DOMAIN flow.steps

(* isSaveDoorMarker and isNextMarker: two sets kept apart by the code.      *)
IsSaveDoorMarker(target) == target \in NextMarkers
IsNextMarker(target) == target \in ReachMarkers

ConditionTargets(step) ==
  [i \in 1..Len(step.conditions) |-> step.conditions[i].goto]

(* next.default and next.conditions[].goto in reading order, Absent and the *)
(* markers still among them: cycleEdges drops Absent only, cycleTargets the *)
(* markers too, and the loops that consume the list here do the dropping.   *)
CycleEdges(flow, id) ==
  IF id \in StepIds(flow)
  THEN <<flow.steps[id].default>> \o ConditionTargets(flow.steps[id])
  ELSE <<>>

(* Mutant: where a fan-out joins again is not an edge.                      *)
ReachEdgesNoRendezvous(flow, id) ==
  IF id \in StepIds(flow)
  THEN CycleEdges(flow, id) \o flow.steps[id].members \o <<flow.steps[id].errorGoto>>
  ELSE <<>>

(* reachTargets appends next.parallel.steps[], next.parallel.rendezvous and *)
(* the step's error_strategy.goto_step: five edge kinds in all.             *)
ReachEdges(flow, id) ==
  IF id \in StepIds(flow)
  THEN CycleEdges(flow, id) \o flow.steps[id].members
         \o <<flow.steps[id].rendezvous, flow.steps[id].errorGoto>>
  ELSE <<>>

(* The guard of every push in cycleTargets and reachTargets, and of the     *)
(* flow-level error_strategy seed.                                          *)
IsWalkTarget(target) == target # Absent /\ ~IsNextMarker(target)

(* Mutant: the cycle walk follows a step that is named like a marker.       *)
IsFollowedMarkers(f, target) == target # Absent /\ target \in StepIds(f)

(* The guard of the cycle walk's range loop: markers and unknown steps are  *)
(* not followed (and a missing text is not among cycleEdges at all).        *)
IsFollowed(f, target) == IsWalkTarget(target) /\ target \in StepIds(f)

(* The texts a list of edges names.                                         *)
Mentioned(edges) == {edges[i] : i \in 1..Len(edges)}

(* The early return: without a start that names a step neither walk runs.   *)
HasStart(flow) == flow.start # Absent /\ flow.start \in StepIds(flow)
==============================================================================
