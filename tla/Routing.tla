-------------------------------- MODULE Routing --------------------------------
(****************************************************************************)
(* The rules that judge where a flow can go, in the order validate.go runs  *)
(* them, the verdict, and what the verdict is for: a run of the accepted    *)
(* flow.  The engine is not part of the repository; its routes are those    *)
(* the rules say it takes, and a run may take any of them at any time.      *)
(*                                                                          *)
(* Rules that do not read routes are left out: they only add errors, so     *)
(* the flows accepted here include those the whole validator accepts.       *)
(****************************************************************************)
EXTENDS ConnectivityFindings

CONSTANTS
  Null,           \* nextMarkerNull
  Orchestrator,   \* nextMarkerOrch, and the removed orchestrator's NextMarker
  Documents       \* the documents under consideration

ASSUME MarkersAssumption == Null \in NextMarkers /\ Orchestrator \in NextMarkers

(* error_strategy.action: absent, goto, another known action, an unknown    *)
(* one.  quality_gate.on_fail: no gate at all, goto, another known value    *)
(* (or none), human, an unknown one.                                        *)
Actions == {"none", "goto", "other", "unknown"}
OnFail == {"no gate", "goto", "other", "human", "unknown"}

(* What the routing rules read of a step beside its FlowGraph record.       *)
(* block: next.parallel is a mapping; repeats: the step has a loop or       *)
(* for_each mapping; wellFormed: the gate's rubric and threshold are fine.  *)
StepExtra == [action : Actions, block : BOOLEAN, repeats : BOOLEAN,
              onFail : OnFail, gateGoto : Targets, wellFormed : BOOLEAN]

(* A document: its graph, its steps' extras, the flow-level error action    *)
(* and Options.StoredBytes.                                                 *)
IsDocument(d) ==
  /\ DOMAIN d = {"graph", "extras", "action", "storedBytes"}
  /\ IsFlow(d.graph)
  /\ d.extras \in [StepIds(d.graph) -> StepExtra]
  /\ d.action \in Actions /\ d.storedBytes \in BOOLEAN
  /\ \A n \in StepIds(d.graph) :
       /\ d.extras[n].block => d.graph.steps[n].fans
       /\ ~d.extras[n].block =>
            d.graph.steps[n].members = <<>> /\ d.graph.steps[n].rendezvous = Absent

ASSUME DocumentsAssumption == \A d \in Documents : IsDocument(d)

AtStart == <<"start", 0>>
AtMember(i) == <<"member", i>>
AtRendezvous == <<"rendezvous", 0>>
AtError == <<"error", 0>>
AtGate == <<"gate", 0>>

------------------------------------------------------------------------------
(* Mutant: a flow without a start text is let through.                      *)
StructureErrorsUnstarted(d) ==
  LET flow == d.graph IN
  IF StepIds(flow) = {}
  THEN {Finding("missing_field", Absent, AtStep)}
  ELSE (IF flow.start \notin StepIds(flow) \cup {Absent}
        THEN {StepNotFound(Absent, AtStart)} ELSE {})
         \cup {Finding("reserved_step_id_orchestrator", n, AtStep) :
                 n \in StepIds(flow) \cap {Orchestrator}}

(* validateBasicStructure: start, and the reserved step id.                 *)
StructureErrors(d) ==
  LET flow == d.graph IN
  (IF flow.start = Absent THEN {Finding("missing_field", Absent, AtStart)} ELSE {})
    \cup IF StepIds(flow) = {}
         THEN {Finding("missing_field", Absent, AtStep)}
         ELSE (IF flow.start \notin StepIds(flow) \cup {Absent}
               THEN {StepNotFound(Absent, AtStart)} ELSE {})
                \cup {Finding("reserved_step_id_orchestrator", n, AtStep) :
                        n \in StepIds(flow) \cap {Orchestrator}}

(* validateErrorStrategy, on the flow's own strategy (step Absent) and on   *)
(* each step's: a goto_step is judged under action goto only.               *)
StrategyErrors(flow, step, action, target) ==
  IF action = "unknown" THEN {Finding("invalid_error_strategy", step, AtError)}
  ELSE IF action # "goto" THEN {}
  ELSE IF target = Absent THEN {Finding("goto_step_missing", step, AtError)}
  ELSE IF target \notin StepIds(flow) THEN {StepNotFound(step, AtError)}
  ELSE {}

ErrorStrategyErrors(d) ==
  StrategyErrors(d.graph, Absent, d.action, d.graph.errorGoto)
    \cup UNION {StrategyErrors(d.graph, n, d.extras[n].action, d.graph.steps[n].errorGoto) :
                  n \in StepIds(d.graph)}

InertGoto(step) == Finding("unreachable_error_goto", step, AtError)

ErrorStrategyWarnings(d) ==
  {InertGoto(n) : n \in {m \in StepIds(d.graph) :
       d.graph.steps[m].errorGoto # Absent /\ d.extras[m].action # "goto"}}
    \cup (IF d.graph.errorGoto # Absent /\ d.action # "goto" THEN {InertGoto(Absent)} ELSE {})

(* Mutant: the rendezvous is exempt like a next target is.                  *)
ParallelErrorsMarkers(d, n) ==
  LET step == d.graph.steps[n] IN
  (IF step.rendezvous = Absent THEN {Finding("missing_field", n, AtRendezvous)}
   ELSE IF IsDangling(d.graph, step.rendezvous) THEN {StepNotFound(n, AtRendezvous)} ELSE {})
    \cup (IF step.members = <<>> THEN {Finding("missing_field", n, AtMember(0))} ELSE {})
    \cup {StepNotFound(n, AtMember(i)) :
            i \in {j \in 1..Len(step.members) : IsDangling(d.graph, step.members[j])}}

(* validateParallel: no member may be a marker; the rendezvous may be null. *)
ParallelErrors(d, n) ==
  LET step == d.graph.steps[n] IN
  (IF step.rendezvous = Absent THEN {Finding("missing_field", n, AtRendezvous)}
   ELSE IF step.rendezvous \notin StepIds(d.graph) \cup {Null}
   THEN {StepNotFound(n, AtRendezvous)} ELSE {})
    \cup (IF step.members = <<>> THEN {Finding("missing_field", n, AtMember(0))} ELSE {})
    \cup {StepNotFound(n, AtMember(i)) :
            i \in {j \in 1..Len(step.members) : step.members[j] \notin StepIds(d.graph)}}

NextLogicErrors(d) ==
  UNION {ParallelErrors(d, n) : n \in {m \in StepIds(d.graph) : d.extras[m].block}}

(* Mutant: only members that fan out themselves are remembered.             *)
ParallelMembersNested(d) ==
  UNION {{m \in Mentioned(d.graph.steps[n].members) \cap StepIds(d.graph) : d.extras[m].block} :
           n \in StepIds(d.graph)}

(* parallelMembers: the names some fan-out lists (which of several owners   *)
(* is named decides the wording only).                                      *)
ParallelMembers(d) ==
  UNION {Mentioned(d.graph.steps[n].members) : n \in StepIds(d.graph)}

HasGate(d, n) == d.extras[n].onFail # "no gate"

(* validateQualityGate on one gate, parallelMembers having run before.      *)
GateErrors(d, n) ==
  LET extra == d.extras[n] IN
  (IF extra.wellFormed THEN {} ELSE {Finding("quality_gate_malformed", n, AtGate)})
    \cup (CASE extra.onFail = "human"   -> {Finding("quality_gate_on_fail_unsupported", n, AtGate)}
            [] extra.onFail = "unknown" -> {Finding("quality_gate_invalid_on_fail", n, AtGate)}
            [] extra.onFail = "goto" ->
                 IF extra.gateGoto = Absent THEN {Finding("quality_gate_goto_missing", n, AtGate)}
                 ELSE IF extra.gateGoto \notin StepIds(d.graph) THEN {StepNotFound(n, AtGate)}
                 ELSE IF extra.gateGoto = n THEN {Finding("quality_gate_goto_self", n, AtGate)}
                 ELSE {}
            [] OTHER -> {})
    \cup (IF extra.repeats \/ extra.block THEN {Finding("quality_gate_on_composite", n, AtGate)} ELSE {})
    \cup (IF n \in ParallelMembers(d) THEN {Finding("quality_gate_on_parallel_member", n, AtGate)} ELSE {})

QualityGateErrors(d) ==
  UNION {GateErrors(d, n) : n \in {m \in StepIds(d.graph) : HasGate(d, m)}}

(* validateRemovedOrchestrator: a next that hands over to the orchestrator. *)
OrchestratorErrors(d) ==
  {Finding("orchestrator_removed", n, AtStep) :
     n \in {m \in StepIds(d.graph) : Orchestrator \in Mentioned(CycleEdges(d.graph, m))}}

(* spec storedBytesTolerated, as far as these rules raise its codes.        *)
Tolerated == {"orchestrator_removed"}

------------------------------------------------------------------------------
VARIABLES
  doc,        \* the document: chosen once, never written
  phase,      \* the rule to run next, then running or refused
  errors,     \* iss.errors
  warnings,   \* iss.warnings
  entered,    \* the run: every step it has been at
  fanned,     \* the steps it entered as members of a fan-out
  viaGate     \* it has followed a quality gate's redirect

vars == <<doc, phase, errors, warnings, entered, fanned, viaGate>>
run == <<entered, fanned, viaGate>>

Init ==
  /\ doc \in Documents
  /\ phase = "structure"
  /\ errors = {} /\ warnings = {}
  /\ entered = {} /\ fanned = {} /\ viaGate = FALSE

Rule(this, next, newErrors, newWarnings) ==
  /\ phase = this
  /\ errors' = errors \cup newErrors
  /\ warnings' = warnings \cup newWarnings
  /\ phase' = next
  /\ UNCHANGED <<doc, run>>

BasicStructure == Rule("structure", "strategies", StructureErrors(doc), {})
ErrorStrategies ==
  Rule("strategies", "connectivity", ErrorStrategyErrors(doc), ErrorStrategyWarnings(doc))
Connectivity == Rule("connectivity", "next", TrueErrors(doc.graph), TrueWarnings(doc.graph))
NextLogic == Rule("next", "gates", NextLogicErrors(doc), {})
QualityGates == Rule("gates", "orchestrator", QualityGateErrors(doc), {})
RemovedOrchestrator == Rule("orchestrator", "verdict", OrchestratorErrors(doc), {})

(* Mutant: stored bytes drop every error, tolerated or not.                 *)
BlockingAll(found) == IF doc.storedBytes THEN {} ELSE found

(* tolerateStoredBytes: the errors that are left when it is on.             *)
Blocking(found) ==
  IF doc.storedBytes THEN {e \in found : e.code \notin Tolerated} ELSE found

(* finish: valid when no error is left; a valid flow can be run.            *)
Verdict ==
  /\ phase = "verdict"
  /\ errors' = Blocking(errors)
  /\ warnings' = warnings \cup (errors \ Blocking(errors))
  /\ IF errors' = {}
     THEN phase' = "running" /\ entered' = {doc.graph.start}
     ELSE phase' = "refused" /\ UNCHANGED entered
  /\ UNCHANGED <<doc, fanned, viaGate>>

------------------------------------------------------------------------------
(* The run.  A next or a rendezvous that is a marker ends it.               *)
Enter(target) == entered' = entered \cup {target}

FollowNext ==
  /\ phase = "running"
  /\ \E n \in entered \cap StepIds(doc.graph) :
       \E t \in Mentioned(CycleEdges(doc.graph, n)) \cup {doc.graph.steps[n].rendezvous} :
         t # Absent /\ ~IsSaveDoorMarker(t) /\ Enter(t)
  /\ UNCHANGED <<doc, phase, errors, warnings, fanned, viaGate>>

FanOut ==
  /\ phase = "running"
  /\ \E n \in entered \cap StepIds(doc.graph) :
       \E t \in Mentioned(doc.graph.steps[n].members) : Enter(t) /\ fanned' = fanned \cup {t}
  /\ UNCHANGED <<doc, phase, errors, warnings, viaGate>>

(* A failing step: its own strategy, or the flow's.                         *)
RedirectError ==
  /\ phase = "running"
  /\ \/ \E n \in entered \cap StepIds(doc.graph) :
          doc.extras[n].action = "goto" /\ Enter(doc.graph.steps[n].errorGoto)
     \/ doc.action = "goto" /\ Enter(doc.graph.errorGoto)
  /\ UNCHANGED <<doc, phase, errors, warnings, fanned, viaGate>>

RedirectGate ==
  /\ phase = "running"
  /\ \E n \in entered \cap StepIds(doc.graph) :
       doc.extras[n].onFail = "goto" /\ Enter(doc.extras[n].gateGoto)
  /\ viaGate' = TRUE
  /\ UNCHANGED <<doc, phase, errors, warnings, fanned>>

Next == BasicStructure \/ ErrorStrategies \/ Connectivity \/ NextLogic \/ QualityGates
          \/ RemovedOrchestrator \/ Verdict
          \/ FollowNext \/ FanOut \/ RedirectError \/ RedirectGate

Spec == Init /\ [][Next]_vars
------------------------------------------------------------------------------
(* Every variable keeps its type; a run only ever enters names (a text that *)
(* is missing where a route needs one is refused).                          *)
TypeOK ==
  /\ IsDocument(doc)
  /\ phase \in {"structure", "strategies", "connectivity", "next", "gates", "orchestrator",
                "verdict", "running", "refused"}
  /\ entered \in SUBSET Names /\ fanned \in SUBSET entered
  /\ viaGate \in BOOLEAN

(* Accepting a flow means that no route of it leads nowhere: whatever the   *)
(* run does, it is only ever sent to steps the document defines, although   *)
(* the five kinds of route are judged by four rules with four exemptions.   *)
RoutesResolve == entered \subseteq StepIds(doc.graph)

(* Quality gates are not wired into fan-outs: an accepted flow never enters *)
(* a gated step as a member of one.                                         *)
FannedNotGated == \A m \in fanned : ~HasGate(doc, m)

(* What each rule has found stays found until the verdict, and a flow that  *)
(* runs has passed the five rules that judge its routes.                    *)
Later(rule) ==
  CASE rule = "structure"    -> {"strategies", "connectivity", "next", "gates", "orchestrator", "verdict"}
    [] rule = "strategies"   -> {"connectivity", "next", "gates", "orchestrator", "verdict"}
    [] rule = "connectivity" -> {"next", "gates", "orchestrator", "verdict"}
    [] rule = "next"         -> {"gates", "orchestrator", "verdict"}
    [] rule = "gates"        -> {"orchestrator", "verdict"}

Kept ==
  /\ phase \in Later("structure") => StructureErrors(doc) \subseteq errors
  /\ phase \in Later("strategies") => ErrorStrategyErrors(doc) \subseteq errors
  /\ phase \in Later("connectivity") => TrueErrors(doc.graph) \subseteq errors
  /\ phase \in Later("next") => NextLogicErrors(doc) \subseteq errors
  /\ phase \in Later("gates") => QualityGateErrors(doc) \subseteq errors

RoutesClean(d) ==
  /\ StructureErrors(d) = {}
  /\ ErrorStrategyErrors(d) = {}
  /\ TrueErrors(d.graph) = {}
  /\ NextLogicErrors(d) = {}
  /\ QualityGateErrors(d) = {}

(* The inductive invariant behind RoutesResolve and FannedNotGated.         *)
IndInv ==
  /\ TypeOK
  /\ Kept
  /\ phase = "running" => RoutesClean(doc)
  /\ phase # "running" => entered = {}
  /\ RoutesResolve
  /\ fanned \subseteq ParallelMembers(doc) \cap StepIds(doc.graph)

(* The breadth-first walk is blind in two places: it knows no redirect of a *)
(* quality gate, and it stops at a step that is named like a marker, which  *)
(* an error redirect or a fan-out may enter all the same.  Only a run that  *)
(* has been at one of them enters a step accused of being unreachable: for  *)
(* every other, the walk and the rules read the same routes.                *)
Accused == {n \in StepIds(doc.graph) : UnreachableStep(n) \in warnings}
ViaMarkerStep == (entered \cap ReachMarkers) \ {doc.graph.start} # {}
AccusedOnlyThroughGaps == viaGate \/ ViaMarkerStep \/ entered \cap Accused = {}

(* The claim of the warning itself ("is not reachable from start step"): a  *)
(* run that was accepted never enters an accused step.                      *)
AccusedNeverEntered == entered \cap Accused = {}
==============================================================================
