----------------------------- MODULE RoutingProofs -----------------------------
(****************************************************************************)
(* Machine-checked proofs, for every document: a flow the routing rules     *)
(* accept never sends a run to a step it does not define, nor into a gated  *)
(* step through a fan-out.                                                  *)
(****************************************************************************)
EXTENDS Routing, FlowGraphProofs

(* Where each route of a clean document can lead.                           *)
LEMMA StartResolves ==
  ASSUME NEW d, IsDocument(d), RoutesClean(d)
  PROVE  d.graph.start \in StepIds(d.graph)
<1>1. d.graph.start # Absent
  BY DEF RoutesClean, StructureErrors
<1>2. StepIds(d.graph) # {}
  BY <1>1 DEF RoutesClean, StructureErrors
<1>3. QED
  BY <1>1, <1>2 DEF RoutesClean, StructureErrors

LEMMA NextResolves ==
  ASSUME NEW d, IsDocument(d), RoutesClean(d), NEW n \in StepIds(d.graph),
         NEW t \in Mentioned(CycleEdges(d.graph, n)), t # Absent, ~IsSaveDoorMarker(t)
  PROVE  t \in StepIds(d.graph)
<1> DEFINE step == d.graph.steps[n]
<1>1. t \in {step.default} \cup {step.conditions[i].goto : i \in 1..Len(step.conditions)}
  BY MentionedCycleEdges DEF IsDocument
<1>2. ~IsDangling(d.graph, step.default)
  <2>1. n \notin {m \in StepIds(d.graph) : IsDangling(d.graph, d.graph.steps[m].default)}
    <3>1. \A m \in StepIds(d.graph) : IsDangling(d.graph, d.graph.steps[m].default) =>
            StepNotFound(m, AtDefault) \in TrueErrors(d.graph)
      BY DEF TrueErrors
    <3>2. QED
      BY <3>1 DEF RoutesClean
  <2>2. QED
    BY <2>1
<1>3. \A i \in 1..Len(step.conditions) : ~IsDangling(d.graph, step.conditions[i].goto)
  <2>1. DanglingConditions(d.graph, n) = {}
    <3>1. \A i \in DanglingConditions(d.graph, n) :
            StepNotFound(n, AtCondition(i)) \in TrueErrors(d.graph)
      BY DEF TrueErrors
    <3>2. QED
      BY <3>1 DEF RoutesClean
  <2>2. QED
    BY <2>1 DEF DanglingConditions
<1>4. ~IsDangling(d.graph, t)
  BY <1>1, <1>2, <1>3
<1>5. QED
  BY <1>4 DEF IsDangling

(* A step without a parallel block has no members and no rendezvous.        *)
LEMMA ParallelResolves ==
  ASSUME NEW d, IsDocument(d), RoutesClean(d), NEW n \in StepIds(d.graph)
  PROVE  /\ d.graph.steps[n].rendezvous \in StepIds(d.graph) \cup {Null, Absent}
         /\ Mentioned(d.graph.steps[n].members) \subseteq StepIds(d.graph)
<1>1. CASE d.extras[n].block
  <2>1. ParallelErrors(d, n) = {}
    BY <1>1 DEF RoutesClean, NextLogicErrors
  <2>2. d.graph.steps[n].rendezvous \in StepIds(d.graph) \cup {Null, Absent}
    BY <2>1 DEF ParallelErrors
  <2>3. \A i \in 1..Len(d.graph.steps[n].members) : d.graph.steps[n].members[i] \in StepIds(d.graph)
    BY <2>1 DEF ParallelErrors
  <2>4. QED
    BY <2>2, <2>3 DEF Mentioned
<1>2. CASE ~d.extras[n].block
  <2>1. d.graph.steps[n].members = <<>> /\ d.graph.steps[n].rendezvous = Absent
    BY <1>2 DEF IsDocument
  <2>2. QED
    BY <2>1, MentionedEmpty
<1>3. QED
  BY <1>1, <1>2

LEMMA StepRedirectResolves ==
  ASSUME NEW d, IsDocument(d), RoutesClean(d), NEW n \in StepIds(d.graph),
         d.extras[n].action = "goto"
  PROVE  d.graph.steps[n].errorGoto \in StepIds(d.graph)
<1>1. StrategyErrors(d.graph, n, d.extras[n].action, d.graph.steps[n].errorGoto) = {}
  BY DEF RoutesClean, ErrorStrategyErrors
<1>2. QED
  BY <1>1 DEF StrategyErrors

LEMMA FlowRedirectResolves ==
  ASSUME NEW d, IsDocument(d), RoutesClean(d), d.action = "goto"
  PROVE  d.graph.errorGoto \in StepIds(d.graph)
<1>1. StrategyErrors(d.graph, Absent, d.action, d.graph.errorGoto) = {}
  BY DEF RoutesClean, ErrorStrategyErrors
<1>2. QED
  BY <1>1 DEF StrategyErrors

(* A gate's redirect names a step, and no gated step is a member.           *)
LEMMA GateResolves ==
  ASSUME NEW d, IsDocument(d), RoutesClean(d), NEW n \in StepIds(d.graph), HasGate(d, n)
  PROVE  /\ d.extras[n].onFail = "goto" => d.extras[n].gateGoto \in StepIds(d.graph)
         /\ n \notin ParallelMembers(d)
<1>1. GateErrors(d, n) = {}
  BY DEF RoutesClean, QualityGateErrors
<1>2. n \notin ParallelMembers(d)
  BY <1>1 DEF GateErrors
<1>3. ASSUME d.extras[n].onFail = "goto" PROVE d.extras[n].gateGoto \in StepIds(d.graph)
  <2>1. /\ d.extras[n].gateGoto # Absent
        /\ d.extras[n].gateGoto \notin StepIds(d.graph) => FALSE
    BY <1>1, <1>3 DEF GateErrors
  <2>2. QED
    BY <2>1
<1>4. QED
  BY <1>2, <1>3

------------------------------------------------------------------------------
LEMMA InitIndInv == Init => IndInv
<1> SUFFICES ASSUME Init PROVE IndInv
  OBVIOUS
<1>1. /\ IsDocument(doc) /\ phase = "structure"
      /\ entered = {} /\ fanned = {} /\ viaGate = FALSE
  BY DocumentsAssumption DEF Init
<1>2. TypeOK
  BY <1>1 DEF TypeOK
<1>3. Kept
  BY <1>1 DEF Kept, Later
<1>4. QED
  BY <1>1, <1>2, <1>3 DEF IndInv, RoutesResolve

(* Running a rule keeps what was found and adds the rule's own errors.      *)
LEMMA RulePreserves ==
  ASSUME IndInv, NEW this, NEW next, NEW e, NEW w, Rule(this, next, e, w),
         <<this, next, e>> \in
           {<<"structure", "strategies", StructureErrors(doc)>>,
            <<"strategies", "connectivity", ErrorStrategyErrors(doc)>>,
            <<"connectivity", "next", TrueErrors(doc.graph)>>,
            <<"next", "gates", NextLogicErrors(doc)>>,
            <<"gates", "orchestrator", QualityGateErrors(doc)>>,
            <<"orchestrator", "verdict", OrchestratorErrors(doc)>>}
  PROVE  IndInv'
<1>1. /\ phase = this /\ phase' = next /\ errors' = errors \cup e
      /\ doc' = doc /\ entered' = entered /\ fanned' = fanned /\ viaGate' = viaGate
  BY DEF Rule, run
<1>2. phase # "running" /\ phase' # "running" /\ entered = {}
  BY <1>1 DEF IndInv
<1>3. TypeOK'
  BY <1>1 DEF IndInv, TypeOK
<1>4. Kept'
  <2>1. Kept
    BY DEF IndInv
  <2>2. CASE this = "structure"
    BY <1>1, <2>1, <2>2 DEF Kept, Later
  <2>3. CASE this = "strategies"
    BY <1>1, <2>1, <2>3 DEF Kept, Later
  <2>4. CASE this = "connectivity"
    BY <1>1, <2>1, <2>4 DEF Kept, Later
  <2>5. CASE this = "next"
    BY <1>1, <2>1, <2>5 DEF Kept, Later
  <2>6. CASE this = "gates"
    BY <1>1, <2>1, <2>6 DEF Kept, Later
  <2>7. CASE this = "orchestrator"
    BY <1>1, <2>1, <2>7 DEF Kept, Later
  <2>8. QED
    BY <2>2, <2>3, <2>4, <2>5, <2>6, <2>7
<1>5. QED
  BY <1>1, <1>2, <1>3, <1>4 DEF IndInv, RoutesResolve

(* No routing error is among the tolerated codes, so a flow that becomes    *)
(* valid, stored bytes or not, has none.                                    *)
LEMMA VerdictClean ==
  ASSUME IndInv, phase = "verdict", Blocking(errors) = {}
  PROVE  RoutesClean(doc)
<1>1. /\ StructureErrors(doc) \subseteq errors /\ ErrorStrategyErrors(doc) \subseteq errors
      /\ TrueErrors(doc.graph) \subseteq errors /\ NextLogicErrors(doc) \subseteq errors
      /\ QualityGateErrors(doc) \subseteq errors
  BY DEF IndInv, Kept, Later
<1>2. \A e \in errors : e.code = "orchestrator_removed"
  BY DEF Blocking, Tolerated
<1>3. \A e \in StructureErrors(doc) : e.code # "orchestrator_removed"
  BY DEF StructureErrors, Finding, StepNotFound
<1>4. \A e \in ErrorStrategyErrors(doc) : e.code # "orchestrator_removed"
  BY DEF ErrorStrategyErrors, StrategyErrors, Finding, StepNotFound
<1>5. \A e \in TrueErrors(doc.graph) : e.code # "orchestrator_removed"
  BY DEF TrueErrors, Finding, StepNotFound, UnknownYamlKey
<1>6. \A e \in NextLogicErrors(doc) : e.code # "orchestrator_removed"
  BY DEF NextLogicErrors, ParallelErrors, Finding, StepNotFound
<1>7. \A e \in QualityGateErrors(doc) : e.code # "orchestrator_removed"
  <2>1. ASSUME NEW n \in StepIds(doc.graph), NEW e \in GateErrors(doc, n)
        PROVE  e.code # "orchestrator_removed"
    BY DEF GateErrors, Finding, StepNotFound
  <2>2. QED
    BY <2>1 DEF QualityGateErrors
<1>8. QED
  BY <1>1, <1>2, <1>3, <1>4, <1>5, <1>6, <1>7 DEF RoutesClean

(* A step of the run: it stays accepted, and enters a step of the document. *)
LEMMA RunPreserves ==
  ASSUME IndInv, phase = "running", UNCHANGED <<doc, phase, errors, warnings>>,
         NEW t \in StepIds(doc.graph), entered' = entered \cup {t},
         \/ fanned' = fanned
         \/ (fanned' = fanned \cup {t} /\ t \in ParallelMembers(doc)),
         viaGate' \in BOOLEAN
  PROVE  IndInv'
<1>1. doc' = doc /\ phase' = phase /\ errors' = errors
  OBVIOUS
<1>2. IsDocument(doc) /\ entered \subseteq StepIds(doc.graph) /\ fanned \subseteq entered
  BY DEF IndInv, TypeOK, RoutesResolve
<1>3. StepIds(doc.graph) \subseteq Names
  BY <1>2 DEF IsDocument, IsFlow, StepIds
<1>4. TypeOK'
  BY <1>1, <1>2, <1>3 DEF TypeOK
<1>5. Kept'
  BY <1>1 DEF IndInv, Kept, Later
<1>6. QED
  BY <1>1, <1>2, <1>4, <1>5 DEF IndInv, RoutesResolve

LEMMA NextIndInv == IndInv /\ [Next]_vars => IndInv'
<1> SUFFICES ASSUME IndInv, [Next]_vars PROVE IndInv'
  OBVIOUS
<1>1. IsDocument(doc) /\ entered \subseteq StepIds(doc.graph)
  BY DEF IndInv, TypeOK, RoutesResolve
<1>2. phase = "running" => RoutesClean(doc)
  BY DEF IndInv
<1>3. viaGate \in BOOLEAN
  BY DEF IndInv, TypeOK
<1>4. CASE BasicStructure
  BY <1>4, RulePreserves DEF BasicStructure
<1>5. CASE ErrorStrategies
  BY <1>5, RulePreserves DEF ErrorStrategies
<1>6. CASE Connectivity
  BY <1>6, RulePreserves DEF Connectivity
<1>7. CASE NextLogic
  BY <1>7, RulePreserves DEF NextLogic
<1>8. CASE QualityGates
  BY <1>8, RulePreserves DEF QualityGates
<1>9. CASE RemovedOrchestrator
  BY <1>9, RulePreserves DEF RemovedOrchestrator
<1>10. CASE Verdict
  <2>1. /\ phase = "verdict" /\ errors' = Blocking(errors)
        /\ doc' = doc /\ fanned' = fanned /\ viaGate' = viaGate
        /\ entered = {} /\ fanned = {}
    BY <1>10 DEF Verdict, IndInv, TypeOK
  <2>2. CASE errors' = {}
    <3>1. phase' = "running" /\ entered' = {doc.graph.start}
      BY <1>10, <2>2 DEF Verdict
    <3>2. RoutesClean(doc)
      BY <2>1, <2>2, VerdictClean
    <3>3. doc.graph.start \in StepIds(doc.graph) /\ StepIds(doc.graph) \subseteq Names
      BY <1>1, <3>2, StartResolves DEF IsDocument, IsFlow, StepIds
    <3>4. TypeOK'
      BY <1>1, <1>3, <2>1, <3>1, <3>3 DEF TypeOK
    <3>5. Kept'
      BY <3>1 DEF Kept, Later
    <3>6. QED
      BY <2>1, <3>1, <3>2, <3>3, <3>4, <3>5 DEF IndInv, RoutesResolve
  <2>3. CASE errors' # {}
    <3>1. phase' = "refused" /\ entered' = entered
      BY <1>10, <2>3 DEF Verdict
    <3>2. TypeOK'
      BY <1>1, <1>3, <2>1, <3>1 DEF TypeOK
    <3>3. Kept'
      BY <3>1 DEF Kept, Later
    <3>4. QED
      BY <2>1, <3>1, <3>2, <3>3 DEF IndInv, RoutesResolve
  <2>4. QED
    BY <2>2, <2>3
<1>11. CASE FollowNext
  <2>1. PICK n \in entered \cap StepIds(doc.graph) :
          \E t \in Mentioned(CycleEdges(doc.graph, n)) \cup {doc.graph.steps[n].rendezvous} :
            t # Absent /\ ~IsSaveDoorMarker(t) /\ Enter(t)
    BY <1>11 DEF FollowNext
  <2>2. PICK t \in Mentioned(CycleEdges(doc.graph, n)) \cup {doc.graph.steps[n].rendezvous} :
          t # Absent /\ ~IsSaveDoorMarker(t) /\ Enter(t)
    BY <2>1
  <2>3. RoutesClean(doc) /\ phase = "running"
    BY <1>2, <1>11 DEF FollowNext
  <2>4. t \in StepIds(doc.graph)
    <3>1. CASE t \in Mentioned(CycleEdges(doc.graph, n))
      BY <1>1, <2>2, <2>3, <3>1, NextResolves
    <3>2. CASE t = doc.graph.steps[n].rendezvous
      <4>1. t # Null
        BY <2>2, MarkersAssumption DEF IsSaveDoorMarker
      <4>2. QED
        BY <1>1, <2>2, <2>3, <3>2, <4>1, ParallelResolves
    <3>3. QED
      BY <2>2, <3>1, <3>2
  <2>5. /\ UNCHANGED <<doc, phase, errors, warnings>> /\ fanned' = fanned /\ viaGate' \in BOOLEAN
        /\ entered' = entered \cup {t}
    BY <1>3, <1>11, <2>2 DEF FollowNext, Enter
  <2>6. QED
    BY <2>3, <2>4, <2>5, RunPreserves
<1>12. CASE FanOut
  <2>1. PICK n \in entered \cap StepIds(doc.graph) :
          \E t \in Mentioned(doc.graph.steps[n].members) : Enter(t) /\ fanned' = fanned \cup {t}
    BY <1>12 DEF FanOut
  <2>2. PICK t \in Mentioned(doc.graph.steps[n].members) : Enter(t) /\ fanned' = fanned \cup {t}
    BY <2>1
  <2>3. RoutesClean(doc) /\ phase = "running"
    BY <1>2, <1>12 DEF FanOut
  <2>4. t \in StepIds(doc.graph) /\ t \in ParallelMembers(doc)
    BY <1>1, <2>2, <2>3, ParallelResolves DEF ParallelMembers
  <2>5. /\ UNCHANGED <<doc, phase, errors, warnings>> /\ viaGate' \in BOOLEAN
        /\ entered' = entered \cup {t}
    BY <1>3, <1>12, <2>2 DEF FanOut, Enter
  <2>6. QED
    BY <2>2, <2>3, <2>4, <2>5, RunPreserves
<1>13. CASE RedirectError
  <2>1. RoutesClean(doc) /\ phase = "running"
    BY <1>2, <1>13 DEF RedirectError
  <2>2. \E t \in StepIds(doc.graph) : Enter(t)
    <3>1. CASE \E n \in entered \cap StepIds(doc.graph) :
                 doc.extras[n].action = "goto" /\ Enter(doc.graph.steps[n].errorGoto)
      BY <1>1, <2>1, <3>1, StepRedirectResolves
    <3>2. CASE doc.action = "goto" /\ Enter(doc.graph.errorGoto)
      BY <1>1, <2>1, <3>2, FlowRedirectResolves
    <3>3. QED
      BY <1>13, <3>1, <3>2 DEF RedirectError
  <2>3. PICK t \in StepIds(doc.graph) : entered' = entered \cup {t}
    BY <2>2 DEF Enter
  <2>4. UNCHANGED <<doc, phase, errors, warnings>> /\ fanned' = fanned /\ viaGate' \in BOOLEAN
    BY <1>3, <1>13 DEF RedirectError
  <2>5. QED
    BY <2>1, <2>3, <2>4, RunPreserves
<1>14. CASE RedirectGate
  <2>1. RoutesClean(doc) /\ phase = "running"
    BY <1>2, <1>14 DEF RedirectGate
  <2>2. PICK n \in entered \cap StepIds(doc.graph) :
          doc.extras[n].onFail = "goto" /\ Enter(doc.extras[n].gateGoto)
    BY <1>14 DEF RedirectGate
  <2>3. doc.extras[n].gateGoto \in StepIds(doc.graph)
    BY <1>1, <2>1, <2>2, GateResolves DEF HasGate
  <2>4. /\ UNCHANGED <<doc, phase, errors, warnings>> /\ fanned' = fanned /\ viaGate' \in BOOLEAN
        /\ entered' = entered \cup {doc.extras[n].gateGoto}
    BY <1>14, <2>2 DEF RedirectGate, Enter
  <2>5. QED
    BY <2>1, <2>3, <2>4, RunPreserves
<1>15. CASE UNCHANGED vars
  BY <1>15 DEF vars, IndInv, TypeOK, Kept, Later, RoutesResolve
<1>16. QED
  BY <1>4, <1>5, <1>6, <1>7, <1>8, <1>9, <1>10, <1>11, <1>12, <1>13, <1>14, <1>15 DEF Next

LEMMA SpecIndInv == Spec => []IndInv
BY InitIndInv, NextIndInv, PTL DEF Spec

(* Types, for every document; a run only enters names.                      *)
THEOREM RoutingTypeCorrect == Spec => []TypeOK
<1>1. IndInv => TypeOK
  BY DEF IndInv
<1>2. QED
  BY <1>1, SpecIndInv, PTL

(* A flow without a routing error sends a run nowhere but to its own steps. *)
THEOREM AcceptedRoutesResolve == Spec => []RoutesResolve
<1>1. IndInv => RoutesResolve
  BY DEF IndInv
<1>2. QED
  BY <1>1, SpecIndInv, PTL

(* No gated step of an accepted flow is entered through a fan-out.          *)
THEOREM GatesStaySequential == Spec => []FannedNotGated
<1>1. IndInv => FannedNotGated
  <2> SUFFICES ASSUME IndInv, NEW m \in fanned PROVE ~HasGate(doc, m)
    BY DEF FannedNotGated
  <2>1. /\ m \in ParallelMembers(doc) /\ m \in StepIds(doc.graph) /\ m \in entered
        /\ IsDocument(doc)
    BY DEF IndInv, TypeOK
  <2>2. RoutesClean(doc)
    BY <2>1 DEF IndInv
  <2>3. QED
    BY <2>1, <2>2, GateResolves
<1>2. QED
  BY <1>1, SpecIndInv, PTL

------------------------------------------------------------------------------
(* The accusation.  A step is called unreachable only if the least closed   *)
(* set lacks it, and no error ever turns into such a warning.               *)
IsAccusation(finding) == finding.code = "unreachable_step"

AccusationsTrue ==
  /\ \A e \in errors : ~IsAccusation(e)
  /\ \A n \in StepIds(doc.graph) :
       UnreachableStep(n) \in warnings => n \notin ReachableFrom(doc.graph)

(* A run that has seen neither gap of the walk is where the walk has been.  *)
WithinWalk == viaGate \/ ViaMarkerStep \/ entered \subseteq ReachableFrom(doc.graph)

AccuseInv == AccusationsTrue /\ (phase = "running" => WithinWalk)

LEMMA NoRuleAccuses ==
  ASSUME NEW d
  PROVE  /\ \A e \in StructureErrors(d) : ~IsAccusation(e)
         /\ \A e \in ErrorStrategyErrors(d) : ~IsAccusation(e)
         /\ \A e \in TrueErrors(d.graph) : ~IsAccusation(e)
         /\ \A e \in NextLogicErrors(d) : ~IsAccusation(e)
         /\ \A e \in QualityGateErrors(d) : ~IsAccusation(e)
         /\ \A e \in OrchestratorErrors(d) : ~IsAccusation(e)
         /\ \A w \in ErrorStrategyWarnings(d) : ~IsAccusation(w)
<1> USE DEF IsAccusation, Finding, StepNotFound
<1>1. \A e \in StructureErrors(d) : ~IsAccusation(e)
  BY DEF StructureErrors
<1>2. \A e \in ErrorStrategyErrors(d) : ~IsAccusation(e)
  BY DEF ErrorStrategyErrors, StrategyErrors
<1>3. \A e \in TrueErrors(d.graph) : ~IsAccusation(e)
  BY DEF TrueErrors, UnknownYamlKey
<1>4. \A e \in NextLogicErrors(d) : ~IsAccusation(e)
  BY DEF NextLogicErrors, ParallelErrors
<1>5. \A e \in QualityGateErrors(d) : ~IsAccusation(e)
  <2>1. ASSUME NEW n \in StepIds(d.graph), NEW e \in GateErrors(d, n) PROVE ~IsAccusation(e)
    BY DEF GateErrors
  <2>2. QED
    BY <2>1 DEF QualityGateErrors
<1>6. \A e \in OrchestratorErrors(d) : ~IsAccusation(e)
  BY DEF OrchestratorErrors
<1>7. \A w \in ErrorStrategyWarnings(d) : ~IsAccusation(w)
  BY DEF ErrorStrategyWarnings, InertGoto
<1>8. QED
  BY <1>1, <1>2, <1>3, <1>4, <1>5, <1>6, <1>7

LEMMA WarningsTrue ==
  ASSUME NEW d, NEW n \in StepIds(d.graph), UnreachableStep(n) \in TrueWarnings(d.graph)
  PROVE  n \notin ReachableFrom(d.graph)
BY DEF TrueWarnings, UnreachableStep, PotentialInfiniteLoop, Finding

(* A rule adds no accusation but the connectivity rule's.                   *)
LEMMA RuleAccuses ==
  ASSUME AccusationsTrue, NEW this, NEW next, NEW e, NEW w, Rule(this, next, e, w),
         this # "running", next # "running",
         \A x \in e : ~IsAccusation(x),
         \A n \in StepIds(doc.graph) : UnreachableStep(n) \in w => n \notin ReachableFrom(doc.graph)
  PROVE  AccuseInv'
<1>1. /\ doc' = doc /\ errors' = errors \cup e /\ warnings' = warnings \cup w /\ phase' = next
  BY DEF Rule
<1>2. QED
  BY <1>1 DEF AccuseInv, AccusationsTrue

(* One more step of a run, along an edge the walk knows or to a seed.       *)
LEMMA WalkFollows ==
  ASSUME IndInv, AccuseInv, phase = "running", UNCHANGED <<doc, phase, errors, warnings, viaGate>>,
         NEW t \in StepIds(doc.graph), entered' = entered \cup {t},
         \/ \E n \in entered \cap StepIds(doc.graph) : t \in Mentioned(ReachEdges(doc.graph, n))
         \/ t = doc.graph.errorGoto
  PROVE  AccuseInv'
<1>1. IsFlow(doc.graph) /\ RoutesClean(doc) /\ IsDocument(doc)
  BY DEF IndInv, TypeOK, IsDocument
<1>2. doc.graph.start \in StepIds(doc.graph) /\ StepIds(doc.graph) \subseteq Names
  BY <1>1, StartResolves DEF IsFlow, StepIds
<1>3. HasStart(doc.graph) /\ t # Absent
  BY <1>2, NamesAssumption DEF HasStart
<1>4. AccusationsTrue'
  BY DEF AccuseInv, AccusationsTrue
<1>5. CASE viaGate \/ ViaMarkerStep
  BY <1>4, <1>5 DEF AccuseInv, WithinWalk, ViaMarkerStep
<1>6. CASE ~(viaGate \/ ViaMarkerStep)
  <2>1. entered \subseteq ReachableFrom(doc.graph)
    BY <1>6 DEF AccuseInv, WithinWalk
  <2>2. doc.graph.start \in ReachableFrom(doc.graph)
    BY <1>1, <1>3, LeastClosed DEF Seeds
  <2>3. CASE t \in ReachMarkers
    BY <1>4, <2>1, <2>2, <2>3 DEF AccuseInv, WithinWalk, ViaMarkerStep
  <2>4. CASE t \notin ReachMarkers
    <3>1. IsWalkTarget(t)
      BY <1>3, <2>4 DEF IsWalkTarget, IsNextMarker
    <3>2. t \in ReachableFrom(doc.graph)
      <4>1. CASE \E n \in entered \cap StepIds(doc.graph) : t \in Mentioned(ReachEdges(doc.graph, n))
        BY <1>1, <1>3, <2>1, <3>1, <4>1, LeastClosed DEF Closed
      <4>2. CASE t = doc.graph.errorGoto
        BY <1>1, <1>3, <3>1, <4>2, LeastClosed DEF Seeds
      <4>3. QED
        BY <4>1, <4>2
    <3>3. QED
      BY <1>4, <2>1, <3>2 DEF AccuseInv, WithinWalk
  <2>5. QED
    BY <2>3, <2>4
<1>7. QED
  BY <1>5, <1>6

LEMMA AccuseStep == IndInv /\ IndInv' /\ AccuseInv /\ [Next]_vars => AccuseInv'
<1> SUFFICES ASSUME IndInv, IndInv', AccuseInv, [Next]_vars PROVE AccuseInv'
  OBVIOUS
<1>1. IsDocument(doc) /\ IsFlow(doc.graph)
  BY DEF IndInv, TypeOK, IsDocument
<1>2. AccusationsTrue
  BY DEF AccuseInv
<1>3. CASE BasicStructure
  BY <1>2, <1>3, RuleAccuses, NoRuleAccuses DEF BasicStructure
<1>4. CASE ErrorStrategies
  <2>1. \A n : UnreachableStep(n) \notin ErrorStrategyWarnings(doc)
    BY NoRuleAccuses DEF IsAccusation, UnreachableStep, Finding
  <2>2. QED
    BY <1>2, <1>4, <2>1, RuleAccuses, NoRuleAccuses DEF ErrorStrategies
<1>5. CASE Connectivity
  BY <1>2, <1>5, RuleAccuses, NoRuleAccuses, WarningsTrue DEF Connectivity
<1>6. CASE NextLogic
  BY <1>2, <1>6, RuleAccuses, NoRuleAccuses DEF NextLogic
<1>7. CASE QualityGates
  BY <1>2, <1>7, RuleAccuses, NoRuleAccuses DEF QualityGates
<1>8. CASE RemovedOrchestrator
  BY <1>2, <1>8, RuleAccuses, NoRuleAccuses DEF RemovedOrchestrator
<1>9. CASE Verdict
  <2>1. /\ errors' = Blocking(errors) /\ warnings' = warnings \cup (errors \ Blocking(errors))
        /\ doc' = doc /\ errors' \subseteq errors
    BY <1>9 DEF Verdict, Blocking
  <2>2. \A n : UnreachableStep(n) \notin errors
    BY <1>2 DEF AccusationsTrue, IsAccusation, UnreachableStep, Finding
  <2>3. AccusationsTrue'
    BY <1>2, <2>1, <2>2 DEF AccusationsTrue
  <2>4. ASSUME phase' = "running" PROVE entered' \subseteq ReachableFrom(doc.graph)
    <3>1. entered' = {doc.graph.start}
      BY <1>9, <2>4 DEF Verdict
    <3>2. RoutesClean(doc)
      BY <2>1, <2>4 DEF IndInv
    <3>3. HasStart(doc.graph)
      BY <1>1, <3>2, StartResolves, NamesAssumption DEF HasStart, IsFlow, StepIds
    <3>4. QED
      BY <1>1, <3>1, <3>3, LeastClosed DEF Seeds
  <2>5. QED
    BY <2>1, <2>3, <2>4 DEF AccuseInv, WithinWalk
<1>10. CASE FollowNext
  <2>1. PICK t : /\ Enter(t)
                 /\ \E n \in entered \cap StepIds(doc.graph) :
                      t \in Mentioned(CycleEdges(doc.graph, n)) \cup {doc.graph.steps[n].rendezvous}
    BY <1>10 DEF FollowNext
  <2>2. phase = "running" /\ UNCHANGED <<doc, phase, errors, warnings, viaGate>> /\ entered' = entered \cup {t}
    BY <1>10, <2>1 DEF FollowNext, Enter
  <2>3. \E n \in entered \cap StepIds(doc.graph) : t \in Mentioned(ReachEdges(doc.graph, n))
    BY <1>1, <2>1, MentionedReachEdges
  <2>4. t \in StepIds(doc.graph)
    BY <2>2 DEF IndInv, RoutesResolve
  <2>5. QED
    BY <2>2, <2>3, <2>4, WalkFollows
<1>11. CASE FanOut
  <2>1. PICK t : /\ Enter(t)
                 /\ \E n \in entered \cap StepIds(doc.graph) : t \in Mentioned(doc.graph.steps[n].members)
    BY <1>11 DEF FanOut
  <2>2. phase = "running" /\ UNCHANGED <<doc, phase, errors, warnings, viaGate>> /\ entered' = entered \cup {t}
    BY <1>11, <2>1 DEF FanOut, Enter
  <2>3. \E n \in entered \cap StepIds(doc.graph) : t \in Mentioned(ReachEdges(doc.graph, n))
    BY <1>1, <2>1, MentionedReachEdges
  <2>4. t \in StepIds(doc.graph)
    BY <2>2 DEF IndInv, RoutesResolve
  <2>5. QED
    BY <2>2, <2>3, <2>4, WalkFollows
<1>12. CASE RedirectError
  <2>1. PICK t : /\ Enter(t)
                 /\ \/ \E n \in entered \cap StepIds(doc.graph) : t = doc.graph.steps[n].errorGoto
                    \/ t = doc.graph.errorGoto
    BY <1>12 DEF RedirectError
  <2>2. phase = "running" /\ UNCHANGED <<doc, phase, errors, warnings, viaGate>> /\ entered' = entered \cup {t}
    BY <1>12, <2>1 DEF RedirectError, Enter
  <2>3. \/ \E n \in entered \cap StepIds(doc.graph) : t \in Mentioned(ReachEdges(doc.graph, n))
        \/ t = doc.graph.errorGoto
    BY <1>1, <2>1, MentionedReachEdges
  <2>4. t \in StepIds(doc.graph)
    BY <2>2 DEF IndInv, RoutesResolve
  <2>5. QED
    BY <2>2, <2>3, <2>4, WalkFollows
<1>13. CASE RedirectGate
  <2>1. viaGate' /\ UNCHANGED <<doc, phase, errors, warnings>>
    BY <1>13 DEF RedirectGate
  <2>2. QED
    BY <1>2, <2>1 DEF AccuseInv, AccusationsTrue, WithinWalk
<1>14. CASE UNCHANGED vars
  BY <1>14 DEF vars, AccuseInv, AccusationsTrue, WithinWalk, ViaMarkerStep
<1>15. QED
  BY <1>3, <1>4, <1>5, <1>6, <1>7, <1>8, <1>9, <1>10, <1>11, <1>12, <1>13, <1>14 DEF Next

(* A run enters a step accused of being unreachable only through a gate or  *)
(* after a step that is named like a marker.                                *)
THEOREM AccusationsHold == Spec => []AccusedOnlyThroughGaps
<1>1. Init => AccuseInv
  BY DEF Init, AccuseInv, AccusationsTrue
<1>2. IndInv /\ AccuseInv => AccusedOnlyThroughGaps
  <2> SUFFICES ASSUME IndInv, AccuseInv, ~viaGate, ~ViaMarkerStep, NEW n \in entered \cap Accused
               PROVE  FALSE
    BY DEF AccusedOnlyThroughGaps
  <2>1. n \notin ReachableFrom(doc.graph)
    BY DEF Accused, AccuseInv, AccusationsTrue
  <2>2. phase = "running"
    BY DEF IndInv
  <2>3. QED
    BY <2>1, <2>2 DEF AccuseInv, WithinWalk
<1>3. IndInv /\ AccuseInv /\ [Next]_vars => (IndInv /\ AccuseInv)'
  BY NextIndInv, AccuseStep
<1>4. QED
  BY InitIndInv, <1>1, <1>2, <1>3, PTL DEF Spec
==============================================================================
