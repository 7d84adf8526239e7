---------------------------- MODULE CallSitesProofs ----------------------------
(****************************************************************************)
(* Machine-checked proofs about the call-site rules, for every set of flows *)
(* and every table of the spec.                                             *)
(****************************************************************************)
EXTENDS CallSites, SequenceTheorems, WellFoundedInduction, TLAPS

(* Where the walk may stand: in a loop only at a step that has one, in one  *)
(* of its two passes only at a sub-step.                                    *)
Shape ==
  /\ flow \in Flows /\ phase \in Phases
  /\ step \in 1..Len(flow.steps) /\ sub \in Nat
  /\ part \in {"forEach", "head", "collect", "jump", "tail", "next"}
  /\ phase # "loop" => sub <= Len(SubsOf(Current)) /\ part = "forEach"
  /\ (phase = "loop" /\ part \in {"head", "collect", "jump", "tail"}) => HasLoop(Current)
  /\ (phase = "loop" /\ part \in {"collect", "jump"}) => sub \in 1..Len(Current.loop.subs)
Counters ==
  /\ using \in [ConfigProviders -> Nat] /\ withoutOwnKey \in [ConfigProviders -> Nat]
  /\ \A p \in ConfigProviders : withoutOwnKey[p] <= using[p]

(* The numbers of steps and of sub-steps.                                   *)
LEMMA Lengths ==
  ASSUME NEW f \in Flows, NEW n \in 1..Len(f.steps)
  PROVE  /\ Len(f.steps) \in Nat \ {0} /\ Len(SubsOf(f.steps[n])) \in Nat
         /\ HasLoop(f.steps[n]) =>
              /\ f.steps[n].loop.maxIterations \in Int \cup {Other}
              /\ Len(f.steps[n].loop.subs) \in Nat
              /\ f.steps[n].loop.subs = <<>> <=> Len(f.steps[n].loop.subs) = 0
<1>1. Len(f.steps) \in Nat \ {0}
  BY FlowsAssumption
<1>2. HasLoop(f.steps[n]) =>
        /\ f.steps[n].loop.maxIterations \in Int \cup {Other}
        /\ Len(f.steps[n].loop.subs) \in Nat
        /\ f.steps[n].loop.subs = <<>> <=> Len(f.steps[n].loop.subs) = 0
  BY FlowsAssumption
<1>3. Len(SubsOf(f.steps[n])) \in Nat
  <2>1. CASE HasLoop(f.steps[n])
    BY <1>2, <2>1 DEF SubsOf
  <2>2. CASE ~HasLoop(f.steps[n])
    BY <2>2 DEF SubsOf
  <2> QED BY <2>1, <2>2
<1> QED BY <1>1, <1>2, <1>3

(* The walk over the sites keeps its place.                                 *)
LEMMA AdvanceShape ==
  ASSUME Shape, phase # "loop", NEW following \in Phases,
         Advance(following), UNCHANGED <<flow, part>>
  PROVE  Shape'
<1>1. flow \in Flows /\ step \in 1..Len(flow.steps) /\ sub \in Nat /\ part = "forEach"
  BY DEF Shape
<1>2. Len(flow.steps) \in Nat \ {0} /\ Len(SubsOf(flow.steps[step])) \in Nat
  BY <1>1, Lengths
<1>3. CASE sub < Len(SubsOf(Current))
  <2>1. sub' = sub + 1 /\ step' = step /\ phase' = phase /\ flow' = flow /\ part' = part
    BY <1>3 DEF Advance
  <2>2. sub' \in Nat /\ sub' <= Len(SubsOf(Current))
    BY <1>1, <1>2, <1>3, <2>1 DEF Current
  <2> QED BY <1>1, <2>1, <2>2 DEF Shape, Current
<1>4. CASE ~(sub < Len(SubsOf(Current)))
  <2>1. sub' = 0 /\ step' \in 1..Len(flow.steps) /\ phase' \in {phase, following} /\ flow' = flow /\ part' = part
    BY <1>1, <1>2, <1>4 DEF Advance
  <2>2. 0 <= Len(SubsOf(flow.steps[step']))
    BY <1>1, <2>1, Lengths
  <2> QED BY <1>1, <2>1, <2>2 DEF Shape, Current
<1> QED BY <1>3, <1>4

(* The shape is kept by every step.                                         *)
LEMMA ShapeKept == Shape /\ [Next]_vars => Shape'
<1> SUFFICES ASSUME Shape, [Next]_vars PROVE Shape'
  OBVIOUS
<1>0. /\ flow \in Flows /\ step \in 1..Len(flow.steps) /\ sub \in Nat
      /\ Len(flow.steps) \in Nat \ {0} /\ Len(SubsOf(flow.steps[step])) \in Nat
  BY Lengths DEF Shape
<1>1. CASE UNCHANGED vars
  BY <1>1 DEF vars, loopVars, Shape, Current
<1>2. CASE StepIdentity
  BY <1>2 DEF StepIdentity, Shape, Phases, Current
<1>3. CASE ValidateExecutors
  BY <1>3, AdvanceShape DEF ValidateExecutors, Phases
<1>4. CASE ValidateCredentialBindings
  BY <1>4, AdvanceShape DEF ValidateCredentialBindings, Phases
<1>5. CASE PairProvider
  BY <1>5, AdvanceShape DEF PairProvider, Phases
<1>6. CASE PairConfig
  BY <1>6 DEF PairConfig, Shape, Phases, Current
<1>7. CASE PairFamily
  BY <1>7, AdvanceShape DEF PairFamily, Phases
<1>8. CASE EnforceResidency
  BY <1>8, AdvanceShape DEF EnforceResidency, Phases
<1>9. CASE ValidateForEach
  BY <1>0, <1>9 DEF ValidateForEach, Shape, Current
<1>10. CASE LoopHead
  <2>1. HasLoop(Current)
    BY <1>10 DEF LoopHead, Shape
  <2>2. Len(Current.loop.subs) \in Nat /\ (Current.loop.subs = <<>> <=> Len(Current.loop.subs) = 0)
    BY <1>0, <2>1, Lengths DEF Current
  <2>3. CASE Current.loop.subs = <<>>
    BY <1>0, <1>10, <2>1, <2>3 DEF LoopHead, Shape, Current
  <2>4. CASE Current.loop.subs # <<>>
    <3>1. sub' = 1 /\ part' = "collect" /\ 1 \in 1..Len(Current.loop.subs)
      BY <1>10, <2>2, <2>4 DEF LoopHead
    <3> QED BY <1>0, <1>10, <2>1, <3>1 DEF LoopHead, Shape, Current
  <2> QED BY <2>3, <2>4
<1>11. ASSUME phase = "loop", part \in {"collect", "jump"}, NEW following \in {"jump", "tail"},
              Proceed(following), UNCHANGED <<flow, phase, step>>
       PROVE  Shape'
  <2>1. HasLoop(Current) /\ sub \in 1..Len(Current.loop.subs)
    BY <1>11 DEF Shape
  <2>2. Len(Current.loop.subs) \in Nat
    BY <1>0, <2>1, Lengths DEF Current
  <2>3. sub' \in 1..Len(Current.loop.subs) /\ part' \in {part, following}
    BY <1>11, <2>1, <2>2 DEF Proceed
  <2> QED BY <1>0, <1>11, <2>1, <2>2, <2>3 DEF Shape, Current
<1>12. CASE CollectSubStep
  BY <1>11, <1>12 DEF CollectSubStep
<1>13. CASE ValidateLoopSubStepNext
  BY <1>11, <1>13 DEF ValidateLoopSubStepNext
<1>14. CASE LoopTail
  BY <1>14 DEF LoopTail, Shape, Current
<1>15. CASE NextStep
  <2>1. /\ step' \in 1..Len(flow.steps) /\ phase' \in Phases /\ sub' = 0 /\ part' = "forEach" /\ flow' = flow
    BY <1>0, <1>15 DEF NextStep, Phases
  <2>2. 0 <= Len(SubsOf(flow.steps[step']))
    BY <1>0, <2>1, Lengths
  <2> QED BY <1>0, <2>1, <2>2 DEF Shape, Current
<1> QED
  BY <1>1, <1>2, <1>3, <1>4, <1>5, <1>6, <1>7, <1>8, <1>9, <1>10, <1>12, <1>13, <1>14, <1>15
  DEF Next, LoopStep, LoopNext

(* A counter grows by one at one provider.                                  *)
LEMMA CountedType ==
  ASSUME NEW c \in [ConfigProviders -> Nat], NEW p
  PROVE  /\ Counted(c, p) \in [ConfigProviders -> Nat]
         /\ \A q \in ConfigProviders : Counted(c, p)[q] = c[q] + IF q = p THEN 1 ELSE 0
BY DEF Counted

LEMMA CountersKept == Counters /\ [Next]_vars => Counters'
<1> SUFFICES ASSUME Counters, [Next]_vars PROVE Counters'
  OBVIOUS
<1>1. CASE UNCHANGED <<using, withoutOwnKey>>
  BY <1>1 DEF Counters
<1>2. CASE PairProvider
  <2>1. PICK p : \/ UNCHANGED <<using, withoutOwnKey>>
                 \/ /\ using' = Counted(using, p)
                    /\ withoutOwnKey' \in {withoutOwnKey, Counted(withoutOwnKey, p)}
    BY <1>2 DEF PairProvider
  <2>2. CASE using' = Counted(using, p) /\ withoutOwnKey' \in {withoutOwnKey, Counted(withoutOwnKey, p)}
    BY <2>2, CountedType DEF Counters
  <2> QED BY <1>1, <2>1, <2>2
<1> QED
  BY <1>1, <1>2 DEF Next, vars, StepIdentity, ValidateExecutors, LoopStep, ValidateCredentialBindings,
                    PairConfig, PairFamily, EnforceResidency

(* Type correctness: the walk over the sites never leaves the flow, and no  *)
(* call lacks a key that was not counted as using its provider.             *)
THEOREM TypeCorrect == Spec => []TypeOK
<1>1. Init => Shape /\ Counters
  <2> SUFFICES ASSUME Init PROVE Shape /\ Counters
    OBVIOUS
  <2>1. flow \in Flows /\ step = 1 /\ sub = 0 /\ 1 \in 1..Len(flow.steps)
    BY FlowsAssumption DEF Init
  <2>2. 0 <= Len(SubsOf(flow.steps[1]))
    BY <2>1, Lengths
  <2> QED BY <2>1, <2>2 DEF Init, Shape, Counters, Phases, Current
<1>2. Shape /\ Counters => TypeOK
  BY DEF Shape, Counters, TypeOK
<1> QED BY <1>1, <1>2, ShapeKept, CountersKept, PTL DEF Spec

------------------------------------------------------------------------------
(* What a body without an error has shown so far: its head, the ids of its  *)
(* first k sub-steps, the jumps of its first k sub-steps.                   *)
Subs(n) == flow.steps[n].loop.subs
GoodHead(n) == flow.steps[n].loop.maxIterations \in 1..MaxIterations /\ Len(Subs(n)) > 0
GoodIds(n, k) ==
  \A i \in 1..k :
    /\ Subs(n)[i] # Other /\ HasId(Subs(n)[i]) /\ ~(Len(Subs(n)[i].id) > 1)
    /\ \A l \in 1..k : Subs(n)[i].id = Subs(n)[l].id => i = l
GoodJump(n, i) ==
  Subs(n)[i].next # Absent =>
    /\ IsMapping(Subs(n)[i].next) /\ ~Subs(n)[i].next.parallel
    /\ \A j \in 1..Len(Subs(n)[i].next.targets) :
         Subs(n)[i].next.targets[j] \in {Absent, <<>>} \/ IsKnown(Subs(n), Subs(n)[i].next.targets[j])
GoodJumps(n, k) == \A i \in 1..k : GoodJump(n, i)
GoodBody(n) == GoodHead(n) /\ GoodIds(n, Len(Subs(n))) /\ GoodJumps(n, Len(Subs(n)))

(* The ids of the first k sub-steps of a body.                              *)
IdsUpTo(n, k) == {Subs(n)[i].id : i \in {l \in 1..k : Subs(n)[l] # Other /\ HasId(Subs(n)[l])}}
SeenExact ==
  phase = "loop" =>
    /\ part = "collect" => seen = IdsUpTo(step, sub - 1)
    /\ part = "jump" => seen = IdsUpTo(step, Len(Subs(step)))

(* The body under way, as far as it has been read, and those before it.     *)
BodyUnderWay ==
  (phase = "loop" /\ HasLoop(Current) /\ IsClean(step)) =>
    /\ part = "collect" => GoodHead(step) /\ GoodIds(step, sub - 1)
    /\ part = "jump" => GoodHead(step) /\ GoodIds(step, Len(Subs(step))) /\ GoodJumps(step, sub - 1)
    /\ part \in {"tail", "next"} => GoodBody(step)
BodiesJudged == \A n \in Judged : (HasLoop(flow.steps[n]) /\ IsClean(n)) => GoodBody(n)

BodyInv == Shape /\ SeenExact /\ BodyUnderWay /\ BodiesJudged

(* A clean step was clean before: errors are only ever added.               *)
LEMMA ErrorsGrow == [Next]_vars => errors \subseteq errors' /\ flow' = flow
BY DEF Next, vars, loopVars, StepIdentity, ValidateExecutors, LoopStep, LoopNext, ValidateCredentialBindings,
       PairProvider, PairConfig, PairFamily, EnforceResidency, ValidateForEach, LoopHead, CollectSubStep,
       ValidateLoopSubStepNext, LoopTail, NextStep, Raise, Warn, report

LEMMA CleanBefore ==
  ASSUME errors \subseteq errors', NEW n, IsClean(n)' PROVE IsClean(n)
BY DEF IsClean

(* An error about the n-th step makes it unclean.                           *)
LEMMA Unclean ==
  ASSUME NEW n, IsClean(n), NEW codes, NEW at, at[1] = n, NEW id, Findings(codes, at, id) \subseteq errors
  PROVE  codes = {}
<1> SUFFICES ASSUME NEW code \in codes PROVE FALSE
  OBVIOUS
<1>1. Finding(code, at, id) \in errors
  BY DEF Findings
<1>2. Finding(code, at, id).at = at
  BY DEF Finding
<1> QED BY <1>1, <1>2 DEF IsClean

(* What a body shows depends on the flow alone.                             *)
LEMMA GoodKept ==
  ASSUME flow' = flow
  PROVE  \A n, k : /\ GoodHead(n)' = GoodHead(n) /\ GoodIds(n, k)' = GoodIds(n, k)
                    /\ GoodJumps(n, k)' = GoodJumps(n, k) /\ GoodBody(n)' = GoodBody(n)
<1>1. \A n : Subs(n)' = Subs(n)
  BY DEF Subs
<1>2. \A n : GoodHead(n)' = GoodHead(n)
  BY DEF GoodHead, Subs
<1>3. \A n, k : GoodIds(n, k)' = GoodIds(n, k)
  BY DEF GoodIds, Subs
<1>4. \A n, i : GoodJump(n, i)' = GoodJump(n, i)
  BY DEF GoodJump, Subs
<1>5. \A n, k : GoodJumps(n, k)' = GoodJumps(n, k)
  BY <1>4 DEF GoodJumps
<1>6. \A n : GoodBody(n)' = GoodBody(n)
  BY <1>1, <1>2, <1>3, <1>5 DEF GoodBody
<1> QED BY <1>2, <1>3, <1>5, <1>6

(* Outside of the loop rule every body is judged or none is, and the rule   *)
(* begins with none.                                                        *)
LEMMA OtherRules ==
  ASSUME BodyInv, [Next]_vars, phase # "loop" \/ UNCHANGED loopVars
  PROVE  BodyInv'
<1>1. Shape /\ Shape' /\ errors \subseteq errors' /\ flow' = flow
  BY ShapeKept, ErrorsGrow DEF BodyInv
<1>2. CASE UNCHANGED loopVars
  <2>1. SeenExact'
    BY <1>2 DEF BodyInv, loopVars, SeenExact, IdsUpTo, Subs
  <2>2. BodyUnderWay'
    BY <1>2, GoodKept DEF BodyInv, loopVars, BodyUnderWay, Current, IsClean, Subs
  <2>3. BodiesJudged'
    BY <1>2, GoodKept DEF BodyInv, loopVars, BodiesJudged, Judged, IsClean
  <2> QED BY <1>1, <2>1, <2>2, <2>3 DEF BodyInv
<1>3. CASE phase # "loop"
  <2>1. part' = "forEach"
    BY <1>1, <1>3 DEF Shape, Next, vars, loopVars, StepIdentity, ValidateExecutors, LoopStep, LoopNext,
      ValidateCredentialBindings, PairProvider, PairConfig, PairFamily, EnforceResidency, ValidateForEach, LoopHead,
      CollectSubStep, ValidateLoopSubStepNext, LoopTail, NextStep
  <2>2. phase' = "loop" => step' = 1
    BY <1>3 DEF Next, vars, loopVars, StepIdentity, ValidateExecutors, LoopStep, LoopNext,
      ValidateCredentialBindings, PairProvider, PairConfig, PairFamily, EnforceResidency, ValidateForEach, LoopHead,
      CollectSubStep, ValidateLoopSubStepNext, LoopTail, NextStep, Advance
  <2>3. phase \in {"identity", "executors"} \/ phase' \notin {"identity", "executors", "loop"}
    BY <1>1, <1>3 DEF Shape, Phases, Next, vars, loopVars, StepIdentity, ValidateExecutors, LoopStep, LoopNext,
      ValidateCredentialBindings, PairProvider, PairConfig, PairFamily, EnforceResidency, ValidateForEach, LoopHead,
      CollectSubStep, ValidateLoopSubStepNext, LoopTail, NextStep, Advance
  <2>4. phase \in {"identity", "executors"} => phase' \in {"identity", "executors", "loop"}
    BY DEF Next, vars, loopVars, StepIdentity, ValidateExecutors, LoopStep, LoopNext,
      ValidateCredentialBindings, PairProvider, PairConfig, PairFamily, EnforceResidency, ValidateForEach, LoopHead,
      CollectSubStep, ValidateLoopSubStepNext, LoopTail, NextStep, Advance
  <2>5. SeenExact' /\ BodyUnderWay'
    BY <2>1 DEF SeenExact, BodyUnderWay
  <2>6. Judged' = {} \/ (Judged' = 1..Len(flow.steps) /\ Judged = 1..Len(flow.steps))
    BY <1>1, <1>3, <2>2, <2>3, <2>4 DEF Judged
  <2>7. BodiesJudged'
    BY <1>1, <2>6, CleanBefore, GoodKept DEF BodyInv, BodiesJudged
  <2> QED BY <1>1, <2>5, <2>7 DEF BodyInv
<1> QED BY <1>2, <1>3

(* A step of the loop rule that stays at its step judges no other body.     *)
LEMMA SameStep ==
  ASSUME BodyInv, [Next]_vars, phase = "loop", UNCHANGED <<step, phase>>, SeenExact', BodyUnderWay'
  PROVE  BodyInv'
<1>1. Shape' /\ errors \subseteq errors' /\ flow' = flow
  BY ShapeKept, ErrorsGrow DEF BodyInv
<1>2. Judged' = Judged
  BY DEF Judged
<1>3. BodiesJudged'
  BY <1>1, <1>2, CleanBefore, GoodKept DEF BodyInv, BodiesJudged
<1> QED BY <1>1, <1>3 DEF BodyInv

LEMMA HeadKept ==
  ASSUME BodyInv, [Next]_vars, LoopHead PROVE BodyInv'
<1>1. /\ flow \in Flows /\ step \in 1..Len(flow.steps) /\ HasLoop(Current) /\ flow' = flow /\ errors \subseteq errors'
  BY ErrorsGrow DEF BodyInv, Shape, LoopHead
<1>2. /\ Current.loop.maxIterations \in Int \cup {Other} /\ Len(Subs(step)) \in Nat
      /\ (Subs(step) = <<>> <=> Len(Subs(step)) = 0)
  BY <1>1, Lengths DEF Current, Subs
<1>3. SeenExact'
  <2>1. IdsUpTo(step, 0) = {}
    BY DEF IdsUpTo
  <2>2. part' # "collect" \/ (seen' = {} /\ sub' = 1)
    BY DEF LoopHead
  <2>3. part' # "jump" /\ step' = step
    BY DEF LoopHead
  <2>4. 1 - 1 = 0
    OBVIOUS
  <2> QED BY <1>1, <2>1, <2>2, <2>3, <2>4 DEF SeenExact, IdsUpTo, Subs
<1>4. BodyUnderWay'
  <2> SUFFICES ASSUME IsClean(step)'
               PROVE  part' = "collect" /\ sub' = 1 /\ GoodHead(step)
    <3>1. \A n : GoodIds(n, 1 - 1)
      BY DEF GoodIds
    <3> QED BY <1>1, <3>1, GoodKept DEF BodyUnderWay, LoopHead
  <2>1. Findings(HeadCodes(Current.loop), <<step>>, Current.id) \subseteq errors'
    BY DEF LoopHead
  <2>2. HeadCodes(Current.loop) = {}
    <3> SUFFICES ASSUME NEW code \in HeadCodes(Current.loop) PROVE FALSE
      OBVIOUS
    <3>1. Finding(code, <<step>>, Current.id) \in errors'
      BY <2>1 DEF Findings
    <3>2. Finding(code, <<step>>, Current.id).at[1] = step
      BY DEF Finding
    <3>3. step' = step
      BY DEF LoopHead
    <3> QED BY <3>1, <3>2, <3>3 DEF IsClean
  <2>3. /\ Current.loop.subs # <<>> /\ Current.loop.maxIterations # Other
        /\ ~(Current.loop.maxIterations <= 0) /\ ~(Current.loop.maxIterations > MaxIterations)
    BY <2>2 DEF HeadCodes, If
  <2>4. GoodHead(step)
    BY <1>2, <2>3, CeilingsAssumption DEF GoodHead, Subs, Current
  <2> QED BY <2>3, <2>4 DEF LoopHead
<1>5. phase = "loop" /\ UNCHANGED <<step, phase>>
  BY DEF LoopHead
<1> QED BY <1>3, <1>4, <1>5, SameStep

(* The ids of one sub-step more.                                            *)
LEMMA IdsOneMore ==
  ASSUME NEW n, NEW k \in Nat \ {0}
  PROVE  IdsUpTo(n, k) = IdsUpTo(n, k - 1) \cup
           (IF Subs(n)[k] # Other /\ HasId(Subs(n)[k]) THEN {Subs(n)[k].id} ELSE {})
<1>1. 1..k = (1..(k - 1)) \cup {k}
  OBVIOUS
<1> QED BY <1>1 DEF IdsUpTo

LEMMA CollectKept ==
  ASSUME BodyInv, [Next]_vars, CollectSubStep PROVE BodyInv'
<1>1. /\ flow \in Flows /\ step \in 1..Len(flow.steps) /\ HasLoop(Current) /\ sub \in 1..Len(Subs(step))
      /\ phase = "loop" /\ part = "collect" /\ UNCHANGED <<flow, phase, step>> /\ errors \subseteq errors'
  BY ErrorsGrow DEF BodyInv, Shape, CollectSubStep, Subs, Current
<1>2. Len(Subs(step)) \in Nat
  BY <1>1, Lengths DEF Current, Subs
<1>3. Sub = Subs(step)[sub]
  BY DEF Sub, Subs, Current
<1>4. \/ sub < Len(Subs(step)) /\ sub' = sub + 1 /\ part' = "collect"
      \/ sub = Len(Subs(step)) /\ sub' = 1 /\ part' = "jump"
  BY <1>1, <1>2 DEF CollectSubStep, Proceed, Subs, Current
<1>5. seen' = IdsUpTo(step, sub)
  <2>1. seen = IdsUpTo(step, sub - 1)
    BY <1>1 DEF BodyInv, SeenExact
  <2>2. seen' = IF Sub # Other /\ HasId(Sub) THEN seen \cup {Sub.id} ELSE seen
    BY DEF CollectSubStep
  <2>3. sub \in Nat \ {0}
    BY <1>1, <1>2
  <2>4. IdsUpTo(step, sub) = IdsUpTo(step, sub - 1) \cup (IF Sub # Other /\ HasId(Sub) THEN {Sub.id} ELSE {})
    BY <1>3, <2>3, IdsOneMore
  <2>5. CASE Sub # Other /\ HasId(Sub)
    BY <2>1, <2>2, <2>4, <2>5
  <2>6. CASE ~(Sub # Other /\ HasId(Sub))
    BY <2>1, <2>2, <2>4, <2>6
  <2> QED BY <2>5, <2>6
<1>6. SeenExact'
  <2>1. \A n, k : IdsUpTo(n, k)' = IdsUpTo(n, k) /\ Subs(n)' = Subs(n)
    BY <1>1 DEF IdsUpTo, Subs
  <2>2. sub + 1 - 1 = sub
    BY <1>1, <1>2
  <2> QED BY <1>1, <1>4, <1>5, <2>1, <2>2 DEF SeenExact
<1>7. IsClean(step)' => GoodHead(step) /\ GoodIds(step, sub)
  <2> SUFFICES ASSUME IsClean(step)' PROVE GoodHead(step) /\ GoodIds(step, sub)
    OBVIOUS
  <2>1. GoodHead(step) /\ GoodIds(step, sub - 1)
    BY <1>1, CleanBefore DEF BodyInv, BodyUnderWay
  <2>2. \A e \in errors' : e.at[1] # step
    BY <1>1 DEF IsClean
  <2>3. Sub # Other
    <3>1. Finding("invalid_type", <<step, sub>>, Current.id).at[1] = step
      BY DEF Finding
    <3> QED BY <2>2, <3>1 DEF CollectSubStep
  <2>4. SubStepCodes(Sub) = {}
    <3> SUFFICES ASSUME NEW code \in SubStepCodes(Sub) PROVE FALSE
      OBVIOUS
    <3>1. Finding(code, <<step, sub>>, Current.id) \in errors'
      BY <2>3 DEF CollectSubStep, Findings
    <3>2. Finding(code, <<step, sub>>, Current.id).at[1] = step
      BY DEF Finding
    <3> QED BY <2>2, <3>1, <3>2
  <2>5. HasId(Sub) /\ ~(Len(Sub.id) > 1) /\ Sub.id \notin seen
    BY <2>4 DEF SubStepCodes, If
  <2>6. seen = IdsUpTo(step, sub - 1)
    BY <1>1 DEF BodyInv, SeenExact
  <2>7. \A i \in 1..(sub - 1) : Subs(step)[i].id # Subs(step)[sub].id
    BY <1>3, <2>1, <2>5, <2>6 DEF GoodIds, IdsUpTo
  <2>8. 1..sub = (1..(sub - 1)) \cup {sub}
    BY <1>1, <1>2
  <2> QED BY <1>3, <2>1, <2>3, <2>5, <2>7, <2>8 DEF GoodIds
<1>8. BodyUnderWay'
  <2>1. \A n : Subs(n)' = Subs(n)
    BY <1>1 DEF Subs
  <2>2. sub + 1 - 1 = sub /\ GoodJumps(step, 1 - 1)
    BY <1>1, <1>2 DEF GoodJumps
  <2> QED BY <1>1, <1>4, <1>7, <2>1, <2>2, GoodKept DEF BodyUnderWay
<1> QED BY <1>1, <1>6, <1>8, SameStep

LEMMA JumpKept ==
  ASSUME BodyInv, [Next]_vars, ValidateLoopSubStepNext PROVE BodyInv'
<1>1. /\ flow \in Flows /\ step \in 1..Len(flow.steps) /\ HasLoop(Current) /\ sub \in 1..Len(Subs(step))
      /\ phase = "loop" /\ part = "jump" /\ UNCHANGED <<flow, phase, step, seen>> /\ errors \subseteq errors'
  BY ErrorsGrow DEF BodyInv, Shape, ValidateLoopSubStepNext, Subs, Current
<1>2. Len(Subs(step)) \in Nat
  BY <1>1, Lengths DEF Current, Subs
<1>3. Sub = Subs(step)[sub]
  BY DEF Sub, Subs, Current
<1>4. \/ sub < Len(Subs(step)) /\ sub' = sub + 1 /\ part' = "jump"
      \/ sub = Len(Subs(step)) /\ sub' = 1 /\ part' = "tail"
  BY <1>1, <1>2 DEF ValidateLoopSubStepNext, Proceed, Subs, Current
<1>5. seen = IdsUpTo(step, Len(Subs(step)))
  BY <1>1 DEF BodyInv, SeenExact
<1>6. SeenExact'
  <2>1. \A n, k : IdsUpTo(n, k)' = IdsUpTo(n, k) /\ Subs(n)' = Subs(n)
    BY <1>1 DEF IdsUpTo, Subs
  <2> QED BY <1>1, <1>4, <1>5, <2>1 DEF SeenExact
<1>7. ASSUME IsClean(step)'
      PROVE  GoodHead(step) /\ GoodIds(step, Len(Subs(step))) /\ GoodJumps(step, sub)
  <2>1. GoodHead(step) /\ GoodIds(step, Len(Subs(step))) /\ GoodJumps(step, sub - 1)
    BY <1>1, <1>7, CleanBefore DEF BodyInv, BodyUnderWay
  <2>2. \A e \in errors' : e.at[1] # step
    BY <1>1, <1>7 DEF IsClean
  <2>3. Sub # Other
    BY <1>1, <1>3, <2>1 DEF GoodIds
  <2>4. NextFindings(Sub.next) = {}
    <3>1. NextFindings(Sub.next) \subseteq errors'
      BY <2>3 DEF ValidateLoopSubStepNext
    <3>2. \A e \in NextFindings(Sub.next) : e.at[1] = step
      BY DEF NextFindings, Findings, Finding
    <3> QED BY <2>2, <3>1, <3>2
  <2>5. GoodJump(step, sub)
    <3> SUFFICES ASSUME Sub.next # Absent
                 PROVE  /\ IsMapping(Sub.next) /\ ~Sub.next.parallel
                        /\ \A j \in 1..Len(Sub.next.targets) :
                             Sub.next.targets[j] \in {Absent, <<>>} \/ IsKnown(Subs(step), Sub.next.targets[j])
      BY <1>3 DEF GoodJump
    <3>1. Sub.next # Other /\ ~Sub.next.parallel
      BY <2>4 DEF NextFindings
    <3>2. ASSUME NEW j \in 1..Len(Sub.next.targets)
          PROVE  Sub.next.targets[j] \in {Absent, <<>>} \/ IsKnown(Subs(step), Sub.next.targets[j])
      <4> DEFINE target == Sub.next.targets[j]
      <4>1. Findings(TargetCodes(target), <<step, sub, j>>, Current.id) = {}
        BY <2>4, <3>1, <3>2 DEF NextFindings
      <4>2. TargetCodes(target) = {}
        BY <4>1 DEF Findings
      <4>3. target \in {Absent, <<>>} \/ target \in seen
        BY <4>2 DEF TargetCodes, If
      <4>4. target \in seen => IsKnown(Subs(step), target)
        BY <1>5 DEF IdsUpTo, IsKnown
      <4> QED BY <4>3, <4>4
    <3> QED BY <3>1, <3>2 DEF IsMapping
  <2>6. 1..sub = (1..(sub - 1)) \cup {sub}
    BY <1>1, <1>2
  <2> QED BY <2>1, <2>5, <2>6 DEF GoodJumps
<1>8. BodyUnderWay'
  <2>1. \A n : Subs(n)' = Subs(n)
    BY <1>1 DEF Subs
  <2>2. sub + 1 - 1 = sub
    BY <1>1, <1>2
  <2> QED BY <1>1, <1>4, <1>7, <2>1, <2>2, GoodKept DEF BodyUnderWay, GoodBody
<1> QED BY <1>1, <1>6, <1>8, SameStep

(* A body is handed over to those judged when its step is left.             *)
LEMMA LeaveKept ==
  ASSUME BodyInv, [Next]_vars, NextStep PROVE BodyInv'
<1>1. /\ flow \in Flows /\ step \in 1..Len(flow.steps) /\ phase = "loop" /\ part = "next"
      /\ part' = "forEach" /\ flow' = flow /\ errors' = errors /\ Shape'
      /\ Len(flow.steps) \in Nat
  BY ShapeKept, Lengths DEF BodyInv, Shape, NextStep, report
<1>2. SeenExact' /\ BodyUnderWay'
  BY <1>1 DEF SeenExact, BodyUnderWay
<1>3. Judged' = 1..step /\ Judged = 1..(step - 1)
  <2>1. CASE step < Len(flow.steps)
    BY <1>1, <2>1 DEF NextStep, Judged
  <2>2. CASE ~(step < Len(flow.steps))
    BY <1>1, <2>2 DEF NextStep, Judged
  <2> QED BY <2>1, <2>2
<1>4. 1..step = (1..(step - 1)) \cup {step}
  BY <1>1
<1>5. (HasLoop(flow.steps[step]) /\ IsClean(step)) => GoodBody(step)
  BY <1>1 DEF BodyInv, BodyUnderWay, Current
<1>6. BodiesJudged'
  BY <1>1, <1>3, <1>4, <1>5, GoodKept DEF BodyInv, BodiesJudged, IsClean
<1> QED BY <1>1, <1>2, <1>6 DEF BodyInv

LEMMA BodyInvKept == BodyInv /\ [Next]_vars => BodyInv'
<1> SUFFICES ASSUME BodyInv, [Next]_vars PROVE BodyInv'
  OBVIOUS
<1>1. CASE phase # "loop" \/ UNCHANGED loopVars
  BY <1>1, OtherRules
<1>2. CASE ValidateForEach
  <2>1. phase = "loop" /\ part' \in {"head", "next"} /\ UNCHANGED <<flow, step, phase>> /\ (part' = "next" => ~HasLoop(Current))
    BY <1>2 DEF ValidateForEach
  <2>2. SeenExact' /\ BodyUnderWay'
    BY <2>1 DEF SeenExact, BodyUnderWay, Current
  <2> QED BY <2>1, <2>2, SameStep
<1>3. CASE LoopTail
  <2>1. /\ phase = "loop" /\ part = "tail" /\ part' = "next" /\ UNCHANGED <<flow, step, phase>>
        /\ errors \subseteq errors'
    BY <1>3, ErrorsGrow DEF LoopTail
  <2>2. SeenExact' /\ BodyUnderWay'
    BY <2>1, CleanBefore, GoodKept DEF BodyInv, SeenExact, BodyUnderWay, Current
  <2> QED BY <2>1, <2>2, SameStep
<1> QED
  BY <1>1, <1>2, <1>3, HeadKept, CollectKept, JumpKept, LeaveKept
  DEF Next, vars, StepIdentity, ValidateExecutors, LoopStep, LoopNext, ValidateCredentialBindings,
      PairProvider, PairConfig, PairFamily, EnforceResidency

LEMMA BodyInvInit == Init => BodyInv
<1> SUFFICES ASSUME Init PROVE BodyInv
  OBVIOUS
<1>1. Shape
  <2>1. flow \in Flows /\ step = 1 /\ sub = 0 /\ 1 \in 1..Len(flow.steps)
    BY FlowsAssumption DEF Init
  <2>2. 0 <= Len(SubsOf(flow.steps[1]))
    BY <2>1, Lengths
  <2> QED BY <2>1, <2>2 DEF Init, Shape, Phases, Current
<1> QED BY <1>1 DEF Init, BodyInv, SeenExact, BodyUnderWay, BodiesJudged, Judged

(* What the loop driver relies on: a step without an error has a body whose *)
(* sub-steps have ids of their own and whose jumps all name one of them.    *)
THEOREM AcceptedBodyRunsAlways == Spec => []AcceptedBodyRuns
<1>1. BodyInv => AcceptedBodyRuns
  BY DEF BodyInv, BodiesJudged, AcceptedBodyRuns, GoodBody, GoodHead, GoodIds, GoodJumps, GoodJump, Subs
<1> QED BY <1>1, BodyInvInit, BodyInvKept, PTL DEF Spec

------------------------------------------------------------------------------
(* A dot in the id of a step is an error from the first rule on.            *)
DotsRefused == (phase # "identity" /\ errors = {}) => \A n \in 1..Len(flow.steps) : ~(Len(flow.steps[n].id) > 1)

LEMMA DotsRefusedKept == Shape /\ DotsRefused /\ [Next]_vars => DotsRefused'
<1> SUFFICES ASSUME Shape, DotsRefused, [Next]_vars PROVE DotsRefused'
  OBVIOUS
<1>1. errors \subseteq errors' /\ flow' = flow
  BY ErrorsGrow
<1>2. CASE StepIdentity
  <2> SUFFICES ASSUME NEW n \in 1..Len(flow.steps), Len(flow.steps[n].id) > 1 PROVE errors' # {}
    BY <1>1 DEF DotsRefused
  <2>1. Findings({"reserved_step_id_char"}, <<n>>, flow.steps[n].id) \subseteq errors'
    BY <1>2 DEF StepIdentity, If
  <2> QED BY <2>1 DEF Findings
<1>3. CASE phase # "identity"
  BY <1>1, <1>3 DEF DotsRefused
<1>4. phase = "identity" => StepIdentity \/ UNCHANGED phase
  BY DEF Next, vars, loopVars, ValidateExecutors, LoopStep, LoopNext, ValidateCredentialBindings, PairProvider,
         PairConfig, PairFamily, EnforceResidency, ValidateForEach, LoopHead, CollectSubStep,
         ValidateLoopSubStepNext, LoopTail, NextStep
<1>5. CASE phase = "identity" /\ UNCHANGED phase
  BY <1>5 DEF DotsRefused
<1> QED BY <1>2, <1>3, <1>4, <1>5

(* Ids of one part, and of two.                                             *)
LEMMA OnePart ==
  ASSUME NEW a \in Seq(STRING), Len(a) > 0, ~(Len(a) > 1) PROVE Len(a) = 1
<1> DEFINE n == Len(a)
<1>1. n \in Nat /\ n > 0 /\ ~(n > 1)
  BY LenProperties
<1>2. n = 1
  <2> HIDE DEF n
  <2> QED BY <1>1
<1> QED BY <1>2

LEMMA TwoParts ==
  ASSUME NEW a \in Seq(STRING), Len(a) = 1, NEW b \in Seq(STRING), Len(b) = 1
  PROVE  Len(a \o b) = 2 /\ (a \o b)[1] = a[1] /\ (a \o b)[2] = b[1]
<1>1. /\ Len(a \o b) = Len(a) + Len(b)
      /\ \A i \in 1..(Len(a) + Len(b)) : (a \o b)[i] = IF i <= Len(a) THEN a[i] ELSE b[i - Len(a)]
  BY ConcatProperties
<1> QED BY <1>1

(* A composite id has two parts, the id of a step has one.                  *)
LEMMA SitesNamedByIds ==
  ASSUME Shape, BodiesJudged, DotsRefused, phase \notin {"identity", "executors", "loop"}, errors = {}
  PROVE  \A s, t \in Sites : SubStepId(s[1], s[2]) = SubStepId(t[1], t[2]) => s = t
<1>0. flow \in Flows /\ Judged = 1..Len(flow.steps)
  BY DEF Shape, Judged
<1>1. ASSUME NEW n \in 1..Len(flow.steps)
      PROVE  flow.steps[n].id \in Seq(STRING) /\ Len(flow.steps[n].id) = 1
  <2>1. flow.steps[n].id \in Seq(STRING) /\ Len(flow.steps[n].id) > 0 /\ ~(Len(flow.steps[n].id) > 1)
    BY <1>0, IdsAssumption DEF DotsRefused
  <2> QED BY <2>1, OnePart
<1>2. ASSUME NEW n \in 1..Len(flow.steps), NEW i \in 1..Len(SubsOf(flow.steps[n]))
      PROVE  /\ SiteAt(n, i) # Other /\ HasId(SiteAt(n, i))
             /\ SiteAt(n, i).id \in Seq(STRING) /\ Len(SiteAt(n, i).id) = 1
             /\ \A k \in 1..Len(SubsOf(flow.steps[n])) : SiteAt(n, i).id = SiteAt(n, k).id => i = k
  <2>0. Len(SubsOf(flow.steps[n])) \in Nat
    BY <1>0, Lengths
  <2>1. HasLoop(flow.steps[n])
    BY <2>0 DEF SubsOf
  <2>2. SubsOf(flow.steps[n]) = Subs(n) /\ \A k \in 1..Len(Subs(n)) : SiteAt(n, k) = Subs(n)[k]
    BY <2>0, <2>1 DEF SubsOf, Subs, SiteAt
  <2>3. GoodIds(n, Len(Subs(n)))
    BY <1>0, <2>1 DEF BodiesJudged, IsClean, GoodBody
  <2>4. SiteAt(n, i) # Other /\ HasId(SiteAt(n, i)) /\ ~(Len(SiteAt(n, i).id) > 1)
        /\ \A k \in 1..Len(SubsOf(flow.steps[n])) : SiteAt(n, i).id = SiteAt(n, k).id => i = k
    BY <2>2, <2>3 DEF GoodIds
  <2>5. SubsOf(flow.steps[n])[i] = SiteAt(n, i)
    BY <2>2
  <2>6. SiteAt(n, i).id \in Seq(STRING)
    BY <1>0, <2>4, <2>5, IdsAssumption
  <2>7. SiteAt(n, i).id # <<>>
    BY <2>4 DEF HasId
  <2>8. Len(SiteAt(n, i).id) > 0
    BY <2>6, <2>7, EmptySeq
  <2>9. Len(SiteAt(n, i).id) = 1
    BY <2>4, <2>6, <2>8, OnePart
  <2> QED BY <2>4, <2>6, <2>9
<1>3. ASSUME NEW s \in Sites
      PROVE  s[1] \in 1..Len(flow.steps) /\ s[2] \in 0..Len(SubsOf(flow.steps[s[1]])) /\ s = <<s[1], s[2]>>
  BY DEF Sites
<1>4. ASSUME NEW n \in 1..Len(flow.steps), NEW i \in 0..Len(SubsOf(flow.steps[n]))
      PROVE  /\ Len(SubStepId(n, i)) = (IF i = 0 THEN 1 ELSE 2)
             /\ SubStepId(n, i)[1] = flow.steps[n].id[1]
             /\ i # 0 => SubStepId(n, i)[2] = SiteAt(n, i).id[1]
  <2>0. Len(SubsOf(flow.steps[n])) \in Nat
    BY <1>0, Lengths
  <2>1. CASE i = 0
    BY <1>1, <2>1 DEF SubStepId
  <2>2. CASE i # 0
    <3>1. i \in 1..Len(SubsOf(flow.steps[n]))
      BY <2>0, <2>2
    <3>2. SubStepId(n, i) = flow.steps[n].id \o SiteAt(n, i).id
      BY <1>2, <2>2, <3>1 DEF SubStepId
    <3>3. /\ flow.steps[n].id \in Seq(STRING) /\ Len(flow.steps[n].id) = 1
          /\ SiteAt(n, i).id \in Seq(STRING) /\ Len(SiteAt(n, i).id) = 1
      BY <1>1, <1>2, <3>1
    <3> DEFINE a == flow.steps[n].id
               b == SiteAt(n, i).id
    <3> HIDE DEF a, b
    <3>4. Len(a \o b) = 2 /\ (a \o b)[1] = a[1] /\ (a \o b)[2] = b[1]
      BY <3>3, TwoParts DEF a, b
    <3>5. SubStepId(n, i) = a \o b
      BY <3>2 DEF a, b
    <3>6. /\ Len(SubStepId(n, i)) = 2
          /\ SubStepId(n, i)[1] = flow.steps[n].id[1] /\ SubStepId(n, i)[2] = SiteAt(n, i).id[1]
      BY <3>4, <3>5 DEF a, b
    <3> QED BY <2>2, <3>6
  <2> QED BY <2>1, <2>2
<1>5. ASSUME NEW a, a \in Seq(STRING), Len(a) = 1, NEW b, b \in Seq(STRING), Len(b) = 1, a[1] = b[1]
      PROVE  a = b
  BY <1>5, SeqEqual
<1> SUFFICES ASSUME NEW s \in Sites, NEW t \in Sites, SubStepId(s[1], s[2]) = SubStepId(t[1], t[2]) PROVE s = t
  OBVIOUS
<1>6. s[1] = t[1]
  <2>1. /\ SubStepId(s[1], s[2])[1] = flow.steps[s[1]].id[1]
        /\ SubStepId(t[1], t[2])[1] = flow.steps[t[1]].id[1]
    BY <1>3, <1>4
  <2>2. flow.steps[s[1]].id = flow.steps[t[1]].id
    BY <1>1, <1>3, <1>5, <2>1
  <2> QED BY <1>0, <1>3, <2>2, IdsAssumption
<1>7. s[2] = t[2]
  <2>0. Len(SubsOf(flow.steps[s[1]])) \in Nat
    BY <1>0, <1>3, Lengths
  <2>1. s[2] = 0 <=> t[2] = 0
    BY <1>3, <1>4
  <2>2. CASE s[2] # 0
    <3>1. SiteAt(s[1], s[2]).id[1] = SiteAt(t[1], t[2]).id[1]
      BY <1>3, <1>4, <2>1, <2>2
    <3>2. s[2] \in 1..Len(SubsOf(flow.steps[s[1]])) /\ t[2] \in 1..Len(SubsOf(flow.steps[s[1]]))
      BY <1>3, <1>6, <2>0, <2>1, <2>2
    <3>3. SiteAt(s[1], s[2]).id = SiteAt(s[1], t[2]).id
      BY <1>2, <1>3, <1>5, <1>6, <3>1, <3>2
    <3> QED BY <1>2, <1>3, <3>2, <3>3
  <2> QED BY <2>1, <2>2
<1> QED BY <1>3, <1>6, <1>7

(* In a flow without an error no two call sites share an id, so that a      *)
(* finding, or the engine, means one of them.                               *)
THEOREM SitesNamedAlways == Spec => []SitesNamed
<1>1. Init => BodyInv /\ DotsRefused
  BY BodyInvInit DEF DotsRefused, Init
<1>2. BodyInv /\ DotsRefused /\ [Next]_vars => BodyInv' /\ DotsRefused'
  BY BodyInvKept, DotsRefusedKept DEF BodyInv
<1>3. BodyInv /\ DotsRefused => SitesNamed
  BY SitesNamedByIds DEF BodyInv, SitesNamed
<1> QED BY <1>1, <1>2, <1>3, PTL DEF Spec

------------------------------------------------------------------------------
(* What the pairing has established of a site, of a block of                *)
(* executor_config, and residency of a site.                                *)
ProviderOf(s) == AiProvider(ExecutorOf(s))
SitePaired(s) ==
  (ProviderOf(s) # "" /\ ~HasQueryKey(QueryOf(s), ProviderOf(s))) =>
    /\ ProviderOf(s) \in ConfigProviders => withoutOwnKey[ProviderOf(s)] > 0
    /\ (StringAt(QueryOf(s), <<ProviderOf(s), "base_url">>) # "" /\ ~HasConfigKey(ProviderOf(s))) =>
         Unpaired(<<s[1], Named(s[1], s[2])>>, <<ProviderOf(s), "base_url">>) \in warnings
BlockPaired(p) ==
  (ConfigAt(p).baseURL # "" /\ ~IsEnv(ConfigAt(p).baseURL) /\ ~HasConfigKey(p) /\ withoutOwnKey[p] > 0) =>
    Unpaired(<<>>, <<p, "base_url">>) \in warnings
SiteConfined(s) ==
  (IsEuOnly /\ IsUnpinned(SiteAt(s[1], s[2]))) => Unconfined(s) \in warnings

(* The sites the walk has passed.                                           *)
Passed == {s \in Sites : s[1] < step \/ (s[1] = step /\ s[2] < sub)}

HostInv ==
  /\ phase = "providers" => \A s \in Passed : SitePaired(s)
  /\ phase \in {"config", "families", "residency", "done"} => \A s \in Sites : SitePaired(s)
  /\ phase \in {"families", "residency", "done"} => \A p \in ConfigProviders \ Keyless : BlockPaired(p)
  /\ phase = "residency" => \A s \in Passed : SiteConfined(s)
  /\ phase = "done" => \A s \in Sites : SiteConfined(s)

LEMMA SitesAre ==
  ASSUME Shape, NEW s \in Sites
  PROVE  /\ s = <<s[1], s[2]>> /\ s[1] \in 1..Len(flow.steps) /\ s[2] \in 0..Len(SubsOf(flow.steps[s[1]]))
         /\ s[1] \in Nat /\ s[2] \in Nat /\ Len(SubsOf(flow.steps[s[1]])) \in Nat
         /\ SiteAt(s[1], s[2]) # Other
<1>1. /\ s = <<s[1], s[2]>> /\ s[1] \in 1..Len(flow.steps) /\ s[2] \in 0..Len(SubsOf(flow.steps[s[1]]))
      /\ SiteAt(s[1], s[2]) # Other
  BY DEF Sites, IsSiteAt
<1>2. Len(flow.steps) \in Nat /\ Len(SubsOf(flow.steps[s[1]])) \in Nat
  BY <1>1, Lengths DEF Shape
<1> QED BY <1>1, <1>2

(* The walk passes the site it is at, or, with the last one, all of them.   *)
LEMMA WalkPasses ==
  ASSUME Shape, NEW following, Advance(following), flow' = flow, NEW s \in Sites
  PROVE  /\ (phase' = phase /\ s \in Passed') => s \in Passed \/ s = <<step, sub>>
         /\ phase' # phase => s \in Passed \/ s = <<step, sub>>
         /\ phase' \in {phase, following}
<1>0. /\ flow \in Flows /\ step \in Nat /\ step \in 1..Len(flow.steps) /\ Len(flow.steps) \in Nat /\ sub \in Nat
      /\ Len(SubsOf(flow.steps[step])) \in Nat
  BY Lengths DEF Shape
<1>1. /\ s = <<s[1], s[2]>> /\ s[1] \in 1..Len(flow.steps) /\ s[2] \in 0..Len(SubsOf(flow.steps[s[1]]))
      /\ s[1] \in Nat /\ s[2] \in Nat
  BY SitesAre
<1>2. s[1] = step /\ s[2] = sub => s = <<step, sub>>
  BY <1>1
<1>3. s[1] = step => s[2] <= Len(SubsOf(flow.steps[step]))
  BY <1>0, <1>1
<1>4. s \in Passed <=> (s[1] < step \/ (s[1] = step /\ s[2] < sub))
  BY DEF Passed
<1>6. Sites' = Sites
  BY DEF Sites, IsSiteAt, SiteAt
<1>5. s \in Passed' <=> (s[1] < step' \/ (s[1] = step' /\ s[2] < sub'))
  BY <1>6 DEF Passed
<1>7. CASE sub < Len(SubsOf(Current))
  <2>1. sub' = sub + 1 /\ step' = step /\ phase' = phase
    BY <1>7 DEF Advance
  <2> QED BY <1>0, <1>1, <1>2, <1>4, <1>5, <1>6, <2>1
<1>8. CASE ~(sub < Len(SubsOf(Current)))
  <2>1. sub >= Len(SubsOf(flow.steps[step]))
    BY <1>0, <1>8 DEF Current
  <2>2. CASE step < Len(flow.steps)
    <3>1. sub' = 0 /\ step' = step + 1 /\ phase' = phase
      BY <1>8, <2>2 DEF Advance
    <3> QED BY <1>0, <1>1, <1>2, <1>3, <1>4, <1>5, <1>6, <2>1, <3>1
  <2>3. CASE ~(step < Len(flow.steps))
    <3>1. sub' = 0 /\ step' = 1 /\ phase' = following
      BY <1>8, <2>3 DEF Advance
    <3>2. s \in Passed \/ s = <<step, sub>>
      BY <1>0, <1>1, <1>2, <1>3, <1>4, <2>1, <2>3
    <3>3. s \notin Passed'
      BY <1>1, <1>5, <1>6, <3>1
    <3> QED BY <3>1, <3>2, <3>3
  <2> QED BY <2>2, <2>3
<1> QED BY <1>7, <1>8

(* What is established stays so: warnings and counters only grow.           *)
LEMMA HostKept ==
  ASSUME Counters, flow' = flow, warnings \subseteq warnings',
         \A p \in ConfigProviders : withoutOwnKey[p] > 0 => withoutOwnKey'[p] > 0
  PROVE  /\ Sites' = Sites
         /\ \A s \in Sites : (SitePaired(s) => SitePaired(s)') /\ (SiteConfined(s) => SiteConfined(s)')
<1>1. Sites' = Sites
  BY DEF Sites, IsSiteAt, SiteAt
<1>2. ASSUME NEW s \in Sites PROVE SitePaired(s) => SitePaired(s)'
  BY DEF SitePaired, ProviderOf, ExecutorOf, QueryOf, SiteAt, Named, FirstOf, HasConfigKey, ConfigAt
<1>3. ASSUME NEW s \in Sites PROVE SiteConfined(s) => SiteConfined(s)'
  BY DEF SiteConfined, Unconfined, SiteAt, NamedByString, FirstOf, IsEuOnly, IsUnpinned, PinsEndpoint, ConfigAt
<1> QED BY <1>1, <1>2, <1>3

LEMMA NothingPassed ==
  ASSUME Shape', step' = 1, sub' = 0 PROVE Passed' = {}
<1> SUFFICES ASSUME NEW s \in Sites' PROVE ~(s[1] < 1 \/ (s[1] = 1 /\ s[2] < 0))
  BY DEF Passed
<1>1. s[1] \in 1..Len(flow'.steps) /\ s[2] \in 0..Len(SubsOf(flow'.steps[s[1]])) /\ flow' \in Flows
  BY DEF Sites, IsSiteAt, Shape
<1>2. Len(flow'.steps) \in Nat /\ Len(SubsOf(flow'.steps[s[1]])) \in Nat
  BY <1>1, Lengths
<1> QED BY <1>1, <1>2

(* The rules before, none of which reaches past the pairing.                *)
LEMMA EarlierRules ==
  ASSUME Shape, HostInv, [Next]_vars, phase \in {"identity", "executors", "loop", "bindings"}
  PROVE  HostInv'
<1>1. \/ phase' \in {"identity", "executors", "loop", "bindings"}
      \/ phase' = "providers" /\ step' = 1 /\ sub' = 0
  BY DEF Next, vars, loopVars, StepIdentity, ValidateExecutors, LoopStep, LoopNext, ValidateCredentialBindings,
         PairProvider, PairConfig, PairFamily, EnforceResidency, ValidateForEach, LoopHead, CollectSubStep,
         ValidateLoopSubStepNext, LoopTail, NextStep, Advance
<1>2. Shape'
  BY ShapeKept
<1>3. CASE phase' = "providers" /\ step' = 1 /\ sub' = 0
  <2>1. Passed' = {}
    BY <1>2, <1>3, NothingPassed
  <2> QED BY <1>3, <2>1 DEF HostInv
<1>4. CASE phase' \in {"identity", "executors", "loop", "bindings"}
  BY <1>4 DEF HostInv
<1> QED BY <1>1, <1>3, <1>4

LEMMA ProviderKept ==
  ASSUME Shape, Counters, HostInv, PairProvider PROVE HostInv'
<1>1. flow' = flow /\ warnings \subseteq warnings' /\ phase = "providers" /\ Advance("config")
  BY DEF PairProvider
<1>2. \A p \in ConfigProviders : withoutOwnKey[p] > 0 => withoutOwnKey'[p] > 0
  <2>1. PICK q : withoutOwnKey' \in {withoutOwnKey, Counted(withoutOwnKey, q)}
    BY DEF PairProvider
  <2> QED BY <2>1, CountedType DEF Counters
<1>3. /\ Sites' = Sites /\ \A s \in Sites : SitePaired(s) => SitePaired(s)'
  BY <1>1, <1>2, HostKept
<1>4. ASSUME NEW s \in Sites, s = <<step, sub>> PROVE SitePaired(s)'
  <2>1. SiteAt(s[1], s[2]) = Site /\ IsSite /\ <<s[1], Named(s[1], s[2])>> = <<step, Named(step, sub)>>
    BY <1>4, SitesAre DEF Site, IsSite
  <2>2. PICK p : p = AiProvider(Site.executor)
    OBVIOUS
  <2>3. PICK q : q = Site.query
    OBVIOUS
  <2>4. ProviderOf(s) = p /\ QueryOf(s) = q
    BY <2>1, <2>2, <2>3 DEF ProviderOf, QueryOf, ExecutorOf
  <2>5. /\ ProviderOf(s)' = ProviderOf(s) /\ QueryOf(s)' = QueryOf(s)
        /\ HasConfigKey(p)' = HasConfigKey(p) /\ Named(s[1], s[2])' = Named(s[1], s[2])
    BY <1>1 DEF ProviderOf, QueryOf, ExecutorOf, SiteAt, HasConfigKey, ConfigAt, Named, FirstOf
  <2>6. ASSUME p # "", ~HasQueryKey(q, p)
        PROVE  /\ p \in ConfigProviders => withoutOwnKey'[p] > 0
               /\ (StringAt(q, <<p, "base_url">>) # "" /\ ~HasConfigKey(p)) =>
                     Unpaired(<<s[1], Named(s[1], s[2])>>, <<p, "base_url">>) \in warnings'
    <3>1. withoutOwnKey' = Counted(withoutOwnKey, p)
      BY <2>1, <2>2, <2>3, <2>6 DEF PairProvider
    <3>2. p \in ConfigProviders => withoutOwnKey[p] \in Nat /\ withoutOwnKey'[p] = withoutOwnKey[p] + 1
      BY <3>1, CountedType DEF Counters
    <3>3. (StringAt(q, <<p, "base_url">>) # "" /\ ~HasConfigKey(p)) =>
            Unpaired(<<step, Named(step, sub)>>, <<p, "base_url">>) \in warnings'
      BY <2>1, <2>2, <2>3, <2>6 DEF PairProvider
    <3>4. p \in ConfigProviders => withoutOwnKey'[p] > 0
      BY <3>2
    <3> QED BY <2>1, <3>3, <3>4
  <2> QED BY <2>4, <2>5, <2>6 DEF SitePaired, Unpaired, Finding
<1>5. ASSUME NEW s \in Sites
      PROVE  /\ (phase' = phase /\ s \in Passed') => s \in Passed \/ s = <<step, sub>>
             /\ phase' # phase => s \in Passed \/ s = <<step, sub>>
             /\ phase' \in {phase, "config"}
  BY <1>1, WalkPasses
<1>6. \A s \in Passed : SitePaired(s)
  BY <1>1 DEF HostInv
<1>7. phase' \in {"providers", "config"}
  BY <1>1 DEF Advance
<1>8. phase' = "providers" => \A s \in Passed' : SitePaired(s)'
  BY <1>1, <1>3, <1>4, <1>5, <1>6 DEF Passed
<1>9. phase' = "config" => \A s \in Sites' : SitePaired(s)'
  BY <1>1, <1>3, <1>4, <1>5, <1>6
<1> QED BY <1>7, <1>8, <1>9 DEF HostInv

LEMMA Positive ==
  ASSUME NEW n \in Nat, n > 0 PROVE n # 0
OBVIOUS

LEMMA ConfigKept ==
  ASSUME Shape, Counters, HostInv, PairConfig PROVE HostInv'
<1>1. flow' = flow /\ warnings \subseteq warnings' /\ withoutOwnKey' = withoutOwnKey /\ phase = "config" /\ phase' = "families"
  BY DEF PairConfig
<1>2. \A s \in Sites' : SitePaired(s)'
  BY <1>1, HostKept DEF HostInv
<1>3. ASSUME NEW p \in ConfigProviders \ Keyless PROVE BlockPaired(p)'
  <2> SUFFICES ASSUME ConfigAt(p).baseURL # "", ~IsEnv(ConfigAt(p).baseURL), ~HasConfigKey(p), withoutOwnKey[p] > 0
               PROVE  Unpaired(<<>>, <<p, "base_url">>) \in warnings'
    BY <1>1 DEF BlockPaired, ConfigAt, HasConfigKey
  <2>1. p \in DOMAIN flow.config
    BY DEF ConfigAt
  <2>2. withoutOwnKey[p] # 0
    <3>1. withoutOwnKey[p] \in Nat
      BY DEF Counters
    <3> QED BY <3>1, Positive
  <2> QED BY <2>1, <2>2 DEF PairConfig
<1> QED BY <1>1, <1>2, <1>3 DEF HostInv

LEMMA LaterKept ==
  ASSUME Shape, Counters, HostInv, PairFamily \/ EnforceResidency PROVE HostInv'
<1>1. /\ flow' = flow /\ warnings \subseteq warnings' /\ withoutOwnKey' = withoutOwnKey
  BY DEF PairFamily, EnforceResidency
<1>2. /\ Sites' = Sites /\ \A s \in Sites : SitePaired(s) => SitePaired(s)'
      /\ \A s \in Sites : SiteConfined(s) => SiteConfined(s)'
  BY <1>1, HostKept
<1>3. (\A s \in Sites' : SitePaired(s)') /\ \A p \in ConfigProviders \ Keyless : BlockPaired(p)'
  BY <1>1, <1>2 DEF HostInv, PairFamily, EnforceResidency, BlockPaired, ConfigAt, HasConfigKey
<1>4. CASE PairFamily
  <2>1. phase' = "families" \/ (phase' = "residency" /\ step' = 1 /\ sub' = 0)
    BY <1>4 DEF PairFamily, Advance
  <2>2. Shape'
    BY <1>4, AdvanceShape DEF PairFamily, Phases
  <2>3. phase' = "residency" => Passed' = {}
    BY <2>1, <2>2, NothingPassed
  <2> QED BY <1>3, <2>1, <2>3 DEF HostInv
<1>5. CASE EnforceResidency
  <2>1. phase = "residency" /\ Advance("done") /\ phase' \in {"residency", "done"}
    BY <1>5 DEF EnforceResidency, Advance
  <2>2. ASSUME NEW s \in Sites, s = <<step, sub>> PROVE SiteConfined(s)'
    <3>1. SiteAt(step, sub) = Site /\ Site # Other
      BY <2>2, SitesAre DEF Site
    <3>2. SUFFICES ASSUME IsEuOnly, IsUnpinned(Site)
                   PROVE  Finding("compliance_residency_unenforced", <<step, NamedByString(step, sub)>>, flow.steps[step].id) \in warnings'
      BY <1>1, <2>2, <3>1 DEF SiteConfined, Unconfined, SiteAt, NamedByString, FirstOf, IsEuOnly, IsUnpinned, PinsEndpoint, ConfigAt
    <3> QED BY <1>5, <3>1, <3>2 DEF EnforceResidency, IsSite, Current
  <2>3. ASSUME NEW s \in Sites
        PROVE  /\ (phase' = phase /\ s \in Passed') => s \in Passed \/ s = <<step, sub>>
               /\ phase' # phase => s \in Passed \/ s = <<step, sub>>
    BY <1>1, <2>1, WalkPasses
  <2>4. \A s \in Passed : SiteConfined(s)
    BY <2>1 DEF HostInv
  <2>5. phase' = "residency" => \A s \in Passed' : SiteConfined(s)'
    BY <1>2, <2>1, <2>2, <2>3, <2>4 DEF Passed
  <2>6. phase' = "done" => \A s \in Sites' : SiteConfined(s)'
    BY <1>2, <2>1, <2>2, <2>3, <2>4
  <2> QED BY <1>3, <2>1, <2>5, <2>6 DEF HostInv
<1> QED BY <1>4, <1>5

LEMMA HostInvKept == Shape /\ Counters /\ HostInv /\ [Next]_vars => HostInv'
<1> SUFFICES ASSUME Shape, Counters, HostInv, [Next]_vars PROVE HostInv'
  OBVIOUS
<1>1. CASE UNCHANGED vars
  <2>1. UNCHANGED <<flow, phase, step, sub, warnings, withoutOwnKey>>
    BY <1>1 DEF vars, loopVars
  <2>2. Sites' = Sites /\ \A s \in Sites : (SitePaired(s) => SitePaired(s)') /\ (SiteConfined(s) => SiteConfined(s)')
    BY <2>1, HostKept
  <2>3. Passed' = Passed /\ Passed \subseteq Sites
    BY <2>1, <2>2 DEF Passed
  <2>4. \A p : BlockPaired(p) => BlockPaired(p)'
    BY <2>1 DEF BlockPaired, ConfigAt, HasConfigKey
  <2> QED BY <2>1, <2>2, <2>3, <2>4 DEF HostInv
<1>2. phase \in {"identity", "executors", "loop", "bindings"} \/ PairProvider \/ PairConfig \/ PairFamily
        \/ EnforceResidency \/ UNCHANGED vars
  BY DEF Next, StepIdentity, ValidateExecutors, LoopStep, LoopNext, ValidateCredentialBindings, ValidateForEach,
         LoopHead, CollectSubStep, ValidateLoopSubStepNext, LoopTail, NextStep
<1> QED BY <1>1, <1>2, EarlierRules, ProviderKept, ConfigKept, LaterKept

(* In a flow confined to the EU, a call at a provider with regions brings a *)
(* key of the flow's own, is pinned, uses the deployment's endpoint, is     *)
(* warned about by one of two rules, or has its provider's name written in  *)
(* another way than the tables beside an endpoint that is named as they do. *)
THEOREM NoSilentForeignHostAlways == Spec => []NoSilentForeignHost
<1>1. Init => Shape /\ Counters /\ HostInv
  BY BodyInvInit DEF BodyInv, Init, Counters, HostInv
<1>2. Shape /\ HostInv => NoSilentForeignHost
  <2> SUFFICES ASSUME Shape, HostInv, phase = "done", IsEuOnly, NEW s \in Sites,
                      NEW p, p = ExecutorOf(s).provider, IsRegionLane(ExecutorOf(s)),
                      ~HasQueryKey(QueryOf(s), p), ~HasConfigKey(p),
                      ~PinsRegion(QueryOf(s)), ~IsEnv(ConfigAt(Lower[p]).baseURL)
               PROVE  \/ Unconfined(s) \in warnings
                      \/ Unpaired(<<s[1], Named(s[1], s[2])>>, <<p, "base_url">>) \in warnings
                      \/ Unpaired(<<>>, <<Lower[p], "base_url">>) \in warnings
                      \/ p \notin RegionLanes /\ PinsEndpoint(QueryOf(s), Lower[p])
    BY DEF NoSilentForeignHost
  <2>1. CASE IsUnpinned(SiteAt(s[1], s[2]))
    BY <2>1 DEF HostInv, SiteConfined
  <2>2. CASE ~IsUnpinned(SiteAt(s[1], s[2]))
    <3>1. PinsEndpoint(QueryOf(s), Lower[p])
      BY <2>2 DEF IsUnpinned, ExecutorOf, QueryOf
    <3>2. CASE p \in RegionLanes
      <4>1. /\ Lower[p] = p /\ p \in ConfigProviders \ Keyless /\ p # ""
            /\ ProviderOf(s) = p
        BY <3>2, TablesAssumption DEF IsRegionLane, ProviderOf, AiProvider
      <4>2. SitePaired(s) /\ BlockPaired(p)
        BY <4>1 DEF HostInv
      <4>3. CASE IsText(StringAt(QueryOf(s), <<p, "base_url">>))
        BY <4>1, <4>2, <4>3 DEF SitePaired, IsText
      <4>4. CASE IsText(StringOf(ConfigAt(p).baseURL))
        <5>1. ConfigAt(p).baseURL # ""
          BY <4>4 DEF IsText, StringOf
        <5> QED BY <4>1, <4>2, <5>1 DEF SitePaired, BlockPaired
      <4> QED BY <3>1, <4>1, <4>3, <4>4 DEF PinsEndpoint
    <3> QED BY <3>1, <3>2
  <2> QED BY <2>1, <2>2
<1> QED BY <1>1, <1>2, ShapeKept, CountersKept, HostInvKept, PTL DEF Spec

------------------------------------------------------------------------------
(* The warnings of the pairing, exactly: what each site and the blocks of   *)
(* executor_config contribute, and what the counters tell of some sites.    *)
PairCode == "credential_endpoint_unpaired"
Pairings == {w \in warnings : w.code = PairCode}
QueryUnpaired(s) ==
  IF /\ ProviderOf(s) # "" /\ StringAt(QueryOf(s), <<ProviderOf(s), "base_url">>) # ""
     /\ ~HasQueryKey(QueryOf(s), ProviderOf(s)) /\ ~HasConfigKey(ProviderOf(s))
  THEN {Unpaired(<<s[1], Named(s[1], s[2])>>, <<ProviderOf(s), "base_url">>)} ELSE {}
FamilyUnpaired(s) ==
  LET f == Families[FamilyKey(ExecutorOf(s))] IN
  IF HasFamily(FamilyKey(ExecutorOf(s))) /\ ~f.implicit /\ HasServerSecret(QueryOf(s), f)
  THEN {EndpointFinding(s[1], s[2], place, f) : place \in AuthorEndpoints(QueryOf(s), f)} ELSE {}
JudgedBlock(q) == ConfigAt(q).baseURL # "" /\ ~IsEnv(ConfigAt(q).baseURL) /\ ~HasConfigKey(q)
Keyed(q, s) == HasQueryKey(QueryOf(s), q)
BlocksUnpaired ==
  {Unpaired(<<>>, <<p, "base_url">>) : p \in
     {q \in ConfigProviders \ Keyless : JudgedBlock(q) /\ (Users(q) = {} \/ \E s \in Users(q) : ~Keyed(q, s))}}

QueriesOf(S) == UNION {QueryUnpaired(s) : s \in S}
FamiliesOf(S) == UNION {FamilyUnpaired(s) : s \in S}
CountersTell(S) ==
  \A q \in ConfigProviders :
    /\ using[q] > 0 <=> \E s \in S : ProviderOf(s) = q
    /\ withoutOwnKey[q] > 0 <=> \E s \in S : ProviderOf(s) = q /\ ~Keyed(q, s)

Earlier == {"identity", "executors", "loop", "bindings"}
PairInv ==
  /\ phase \in Earlier => Pairings = {} /\ CountersTell({})
  /\ phase = "providers" => Pairings = QueriesOf(Passed) /\ CountersTell(Passed)
  /\ phase = "config" => Pairings = QueriesOf(Sites) /\ CountersTell(Sites) /\ step = 1 /\ sub = 0
  /\ phase = "families" => Pairings = QueriesOf(Sites) \cup BlocksUnpaired \cup FamiliesOf(Passed)
  /\ phase \in {"residency", "done"} => Pairings = QueriesOf(Sites) \cup BlocksUnpaired \cup FamiliesOf(Sites)

(* What a site contributes depends on the flow alone.                       *)
LEMMA ContributionsKept ==
  ASSUME flow' = flow
  PROVE  /\ Sites' = Sites /\ BlocksUnpaired' = BlocksUnpaired
         /\ \A s : /\ QueryUnpaired(s)' = QueryUnpaired(s) /\ FamilyUnpaired(s)' = FamilyUnpaired(s)
                   /\ ProviderOf(s)' = ProviderOf(s) /\ \A q : Keyed(q, s)' = Keyed(q, s)
<1>1. Sites' = Sites
  BY DEF Sites, IsSiteAt, SiteAt
<1>2. \A s : QueryOf(s)' = QueryOf(s) /\ ExecutorOf(s)' = ExecutorOf(s) /\ ProviderOf(s)' = ProviderOf(s)
  BY DEF QueryOf, ExecutorOf, SiteAt, ProviderOf
<1>3. \A q, s : Keyed(q, s)' = Keyed(q, s)
  BY <1>2 DEF Keyed
<1>4. \A q : ConfigAt(q)' = ConfigAt(q) /\ HasConfigKey(q)' = HasConfigKey(q)
  BY DEF ConfigAt, HasConfigKey
<1>5. \A n, i : Named(n, i)' = Named(n, i)
  BY DEF Named, FirstOf, SiteAt
<1>6. \A s : QueryUnpaired(s)' = QueryUnpaired(s)
  BY <1>2, <1>4, <1>5 DEF QueryUnpaired
<1>7. \A q : Users(q)' = Users(q) /\ JudgedBlock(q)' = JudgedBlock(q)
  BY <1>1, <1>2, <1>4 DEF Users, JudgedBlock
<1>8. BlocksUnpaired' = BlocksUnpaired
  BY <1>3, <1>7 DEF BlocksUnpaired
<1>9. ASSUME NEW s PROVE FamilyUnpaired(s)' = FamilyUnpaired(s)
  <2>1. \A query, f : HasServerSecret(query, f)' = HasServerSecret(query, f)
    BY DEF HasServerSecret, IsFirst, ValueAt, OwnField, Extra, ConfigAt
  <2>2. \A query, f : AuthorEndpoints(query, f)' = AuthorEndpoints(query, f)
    BY DEF AuthorEndpoints, IsFirst, ValueAt, OwnField, Extra, ConfigAt
  <2>3. \A n, i, place, f : EndpointFinding(n, i, place, f)' = EndpointFinding(n, i, place, f)
    BY <1>5 DEF EndpointFinding
  <2> QED BY <1>2, <2>1, <2>2, <2>3 DEF FamilyUnpaired
<1> QED BY <1>1, <1>2, <1>3, <1>6, <1>8, <1>9

(* The walk passes just the site it is at.                                  *)
Here == {<<step, sub>>} \cap Sites
LEMMA WalkPassesHere ==
  ASSUME Shape, NEW following, following # phase, Advance(following), flow' = flow
  PROVE  \/ phase' = phase /\ Passed' = Passed \cup Here
         \/ phase' = following /\ step' = 1 /\ sub' = 0 /\ Sites = Passed \cup Here
<1>0. /\ step \in Nat /\ sub \in Nat /\ Sites' = Sites
  BY ContributionsKept DEF Shape
<1>1. \A s \in Sites : /\ (phase' = phase /\ s \in Passed') => s \in Passed \/ s = <<step, sub>>
                       /\ phase' # phase => s \in Passed \/ s = <<step, sub>>
  BY WalkPasses
<1>2. Passed \subseteq Sites /\ Passed' \subseteq Sites /\ Here \subseteq Sites
  BY <1>0 DEF Passed, Here
<1>3. CASE phase' = phase
  <2>1. \/ sub' = sub + 1 /\ step' = step
        \/ sub' = 0 /\ step' = step + 1
    BY <1>3 DEF Advance
  <2>2. ASSUME NEW s \in Sites, s \in Passed \/ s = <<step, sub>> PROVE s \in Passed'
    <3>1. s[1] \in Nat /\ s[2] \in Nat
      BY SitesAre
    <3>2. s[1] < step \/ (s[1] = step /\ s[2] < sub) \/ (s[1] = step /\ s[2] = sub)
      BY <2>2 DEF Passed
    <3>3. s[1] < step' \/ (s[1] = step' /\ s[2] < sub')
      BY <1>0, <2>1, <3>1, <3>2
    <3> QED BY <1>0, <3>3 DEF Passed
  <2>3. Passed' = Passed \cup Here
    BY <1>1, <1>2, <1>3, <2>2 DEF Here
  <2> QED BY <1>3, <2>3
<1>4. CASE phase' # phase
  <2>1. phase' = following /\ step' = 1 /\ sub' = 0
    BY <1>4 DEF Advance
  <2> QED BY <1>1, <1>2, <1>4, <2>1 DEF Here
<1> QED BY <1>3, <1>4

LEMMA AtHere ==
  ASSUME Shape, phase # "loop"
  PROVE  /\ IsSite => /\ <<step, sub>> \in Sites /\ ExecutorOf(<<step, sub>>) = Site.executor
                      /\ QueryOf(<<step, sub>>) = Site.query
         /\ ~IsSite => <<step, sub>> \notin Sites
<1>1. step \in 1..Len(flow.steps) /\ sub \in 0..Len(SubsOf(flow.steps[step]))
  <2>1. step \in 1..Len(flow.steps) /\ flow \in Flows /\ sub \in Nat /\ sub <= Len(SubsOf(flow.steps[step]))
    BY DEF Shape, Current
  <2>2. Len(SubsOf(flow.steps[step])) \in Nat
    BY <2>1, Lengths
  <2> QED BY <2>1, <2>2
<1>2. ASSUME IsSite
      PROVE  /\ <<step, sub>> \in Sites /\ ExecutorOf(<<step, sub>>) = Site.executor
             /\ QueryOf(<<step, sub>>) = Site.query
  BY <1>1, <1>2 DEF IsSite, Site, Sites, IsSiteAt, ExecutorOf, QueryOf
<1>3. ASSUME <<step, sub>> \in Sites PROVE IsSite
  BY <1>3, SitesAre DEF IsSite, Site
<1> QED BY <1>2, <1>3

(* Findings of the pairing are told by their code, and no other rule warns  *)
(* with it.                                                                 *)
LEMMA UnpairedCode ==
  /\ \A at, key : Unpaired(at, key).code = PairCode
  /\ \A n, i, place, f : EndpointFinding(n, i, place, f).code = PairCode
<1>1. \A at, key : Unpaired(at, key).code = PairCode
  BY DEF Unpaired, Finding, PairCode
<1> QED BY <1>1 DEF EndpointFinding

LEMMA PairingsGrow ==
  ASSUME NEW new, warnings' = warnings \cup new, \A w \in new : w.code = PairCode
  PROVE  Pairings' = Pairings \cup new
BY DEF Pairings

LEMMA OtherWarnings ==
  ASSUME [Next]_vars, phase \notin {"providers", "config", "families"}
  PROVE  Pairings' = Pairings
<1>1. ASSUME NEW codes, PairCode \notin codes, NEW at, NEW id, warnings' = warnings \cup Findings(codes, at, id)
      PROVE  Pairings' = Pairings
  <2>1. \A w \in Findings(codes, at, id) : w.code \in codes
    BY DEF Findings, Finding
  <2> QED BY <1>1, <2>1 DEF Pairings
<1>2. CASE ValidateExecutors
  <2>1. PairCode \notin If(HasUnknownScheme(Site.executor), "unknown_executor_scheme")
    BY DEF PairCode, If
  <2>2. CASE IsSite
    BY <1>1, <1>2, <2>1, <2>2 DEF ValidateExecutors, Warn
  <2>3. CASE ~IsSite
    BY <1>2, <2>3 DEF ValidateExecutors, report, Pairings
  <2> QED BY <2>2, <2>3
<1>3. CASE CollectSubStep
  <2>1. PairCode \notin If(HasId(Sub) /\ Sub.id \in SummaryFields, "loop_sub_step_id_reserved")
    BY DEF PairCode, If
  <2>2. CASE Sub = Other
    BY <1>3, <2>2 DEF CollectSubStep, Pairings
  <2>3. CASE Sub # Other
    <3>1. PICK at, id : warnings' = warnings \cup Findings(If(HasId(Sub) /\ Sub.id \in SummaryFields, "loop_sub_step_id_reserved"), at, id)
      BY <1>3, <2>3 DEF CollectSubStep
    <3> QED BY <1>1, <2>1, <3>1
  <2> QED BY <2>2, <2>3
<1>4. CASE EnforceResidency
  <2>1. \A at, id : Finding("compliance_residency_unenforced", at, id).code # PairCode
    BY DEF Finding, PairCode
  <2> QED BY <1>4, <2>1 DEF EnforceResidency, Pairings
<1>5. CASE UNCHANGED warnings
  BY <1>5 DEF Pairings
<1>6. ASSUME LoopStep, ~CollectSubStep PROVE UNCHANGED warnings
  BY <1>6 DEF LoopStep, LoopNext, ValidateForEach, LoopHead, ValidateLoopSubStepNext, LoopTail, NextStep, report
<1>7. ~PairProvider /\ ~PairConfig /\ ~PairFamily
  BY DEF PairProvider, PairConfig, PairFamily
<1>8. StepIdentity \/ ValidateCredentialBindings \/ UNCHANGED vars => UNCHANGED warnings
  BY DEF StepIdentity, ValidateCredentialBindings, vars, loopVars
<1> QED
  BY <1>2, <1>3, <1>4, <1>5, <1>6, <1>7, <1>8 DEF Next

(* What PairProvider does at its site: a call counts at its provider, and a *)
(* second time without a key, and adds what it contributes.                 *)
LEMMA ProviderStep ==
  ASSUME Shape, PairProvider
  PROVE  \/ /\ \A s \in Here : ProviderOf(s) \notin ConfigProviders /\ QueryUnpaired(s) = {}
            /\ UNCHANGED <<warnings, using, withoutOwnKey>>
         \/ /\ Here = {<<step, sub>>}
            /\ using' = Counted(using, ProviderOf(<<step, sub>>))
            /\ withoutOwnKey' = IF Keyed(ProviderOf(<<step, sub>>), <<step, sub>>) THEN withoutOwnKey
                                ELSE Counted(withoutOwnKey, ProviderOf(<<step, sub>>))
            /\ warnings' = warnings \cup QueryUnpaired(<<step, sub>>)
<1>0. phase # "loop"
  BY DEF PairProvider
<1>1. CASE ~IsSite
  <2>1. Here = {}
    BY <1>0, <1>1, AtHere DEF Here
  <2> QED BY <1>1, <2>1 DEF PairProvider
<1>2. CASE IsSite
  <2>1. /\ Here = {<<step, sub>>} /\ QueryOf(<<step, sub>>) = Site.query
        /\ ProviderOf(<<step, sub>>) = AiProvider(Site.executor)
    BY <1>0, <1>2, AtHere DEF Here, ProviderOf
  <2>2. <<step, sub>>[1] = step /\ <<step, sub>>[2] = sub
    OBVIOUS
  <2>3. CASE AiProvider(Site.executor) = ""
    <3>1. ProviderOf(<<step, sub>>) \notin ConfigProviders
      BY <2>1, <2>3, TablesAssumption
    <3>2. QueryUnpaired(<<step, sub>>) = {}
      BY <2>1, <2>3 DEF QueryUnpaired
    <3>3. UNCHANGED <<warnings, using, withoutOwnKey>>
      BY <1>2, <2>3 DEF PairProvider
    <3> QED BY <2>1, <3>1, <3>2, <3>3
  <2>4. CASE AiProvider(Site.executor) # ""
    <3>1. PICK p : p = AiProvider(Site.executor)
      OBVIOUS
    <3>2. PICK q : q = Site.query
      OBVIOUS
    <3>3. /\ using' = Counted(using, p)
          /\ withoutOwnKey' = IF HasQueryKey(q, p) THEN withoutOwnKey ELSE Counted(withoutOwnKey, p)
      BY <1>2, <2>4, <3>1, <3>2 DEF PairProvider
    <3>4. warnings' = IF StringAt(q, <<p, "base_url">>) # "" /\ ~HasQueryKey(q, p) /\ ~HasConfigKey(p)
                      THEN warnings \cup {Unpaired(<<step, Named(step, sub)>>, <<p, "base_url">>)} ELSE warnings
      BY <1>2, <2>4, <3>1, <3>2 DEF PairProvider
    <3>5. QueryUnpaired(<<step, sub>>) =
            IF StringAt(q, <<p, "base_url">>) # "" /\ ~HasQueryKey(q, p) /\ ~HasConfigKey(p)
            THEN {Unpaired(<<step, Named(step, sub)>>, <<p, "base_url">>)} ELSE {}
      BY <2>1, <2>2, <2>4, <3>1, <3>2 DEF QueryUnpaired
    <3>6. warnings' = warnings \cup QueryUnpaired(<<step, sub>>)
      BY <3>4, <3>5
    <3>7. Keyed(p, <<step, sub>>) = HasQueryKey(q, p)
      BY <2>1, <3>2 DEF Keyed
    <3> QED BY <2>1, <3>1, <3>3, <3>6, <3>7
  <2> QED BY <2>3, <2>4
<1> QED BY <1>1, <1>2

LEMMA CountersTold ==
  ASSUME Shape, Counters, CountersTell(Passed), PairProvider
  PROVE  \A q \in ConfigProviders :
           /\ using'[q] > 0 <=> \E t \in Passed \cup Here : ProviderOf(t) = q
           /\ withoutOwnKey'[q] > 0 <=> \E t \in Passed \cup Here : ProviderOf(t) = q /\ ~Keyed(q, t)
<1> SUFFICES ASSUME NEW q \in ConfigProviders
             PROVE  /\ using'[q] > 0 <=> \E t \in Passed \cup Here : ProviderOf(t) = q
                    /\ withoutOwnKey'[q] > 0 <=> \E t \in Passed \cup Here : ProviderOf(t) = q /\ ~Keyed(q, t)
  OBVIOUS
<1> DEFINE s == <<step, sub>>
<1>1. /\ using[q] > 0 <=> \E t \in Passed : ProviderOf(t) = q
      /\ withoutOwnKey[q] > 0 <=> \E t \in Passed : ProviderOf(t) = q /\ ~Keyed(q, t)
      /\ using[q] \in Nat /\ withoutOwnKey[q] \in Nat
  BY DEF CountersTell, Counters
<1>2. CASE (\A t \in Here : ProviderOf(t) \notin ConfigProviders) /\ UNCHANGED <<using, withoutOwnKey>>
  BY <1>1, <1>2
<1>3. CASE /\ Here = {s} /\ using' = Counted(using, ProviderOf(s))
           /\ withoutOwnKey' = IF Keyed(ProviderOf(s), s) THEN withoutOwnKey ELSE Counted(withoutOwnKey, ProviderOf(s))
  <2>1. using'[q] = using[q] + IF q = ProviderOf(s) THEN 1 ELSE 0
    BY <1>3, CountedType DEF Counters
  <2>2. withoutOwnKey'[q] = withoutOwnKey[q] + IF q = ProviderOf(s) /\ ~Keyed(q, s) THEN 1 ELSE 0
    <3>1. CASE Keyed(ProviderOf(s), s)
      <4>1. withoutOwnKey' = withoutOwnKey /\ ~(q = ProviderOf(s) /\ ~Keyed(q, s))
        BY <1>3, <3>1
      <4> QED BY <1>1, <4>1
    <3>2. CASE ~Keyed(ProviderOf(s), s)
      <4>1. withoutOwnKey' = Counted(withoutOwnKey, ProviderOf(s))
        BY <1>3, <3>2
      <4>2. withoutOwnKey'[q] = withoutOwnKey[q] + IF q = ProviderOf(s) THEN 1 ELSE 0
        BY <4>1, CountedType DEF Counters
      <4>3. q = ProviderOf(s) => ~Keyed(q, s)
        BY <3>2
      <4> QED BY <4>2, <4>3
    <3> QED BY <3>1, <3>2
  <2>3. using'[q] > 0 <=> using[q] > 0 \/ q = ProviderOf(s)
    BY <1>1, <2>1
  <2>4. withoutOwnKey'[q] > 0 <=> withoutOwnKey[q] > 0 \/ (q = ProviderOf(s) /\ ~Keyed(q, s))
    BY <1>1, <2>2
  <2>5. /\ using'[q] > 0 <=> \E t \in Passed \cup Here : ProviderOf(t) = q
    BY <1>1, <1>3, <2>3
  <2>6. withoutOwnKey'[q] > 0 <=> \E t \in Passed \cup Here : ProviderOf(t) = q /\ ~Keyed(q, t)
    BY <1>1, <1>3, <2>4
  <2> QED BY <2>5, <2>6
<1> QED BY <1>2, <1>3, ProviderStep

LEMMA UnionsSplit ==
  ASSUME NEW A, NEW B
  PROVE  QueriesOf(A \cup B) = QueriesOf(A) \cup QueriesOf(B) /\ FamiliesOf(A \cup B) = FamiliesOf(A) \cup FamiliesOf(B)
BY DEF QueriesOf, FamiliesOf

LEMMA QueriesCode == \A s : \A w \in QueryUnpaired(s) : w.code = PairCode
BY UnpairedCode DEF QueryUnpaired

LEMMA PairProviderExact ==
  ASSUME Shape, Counters, PairInv, PairProvider PROVE PairInv'
<1>1. /\ phase = "providers" /\ flow' = flow /\ Advance("config")
      /\ Pairings = QueriesOf(Passed) /\ CountersTell(Passed)
  BY DEF PairProvider, PairInv
<1>2. Pairings' = QueriesOf(Passed \cup Here)
  <2>1. CASE (\A s \in Here : QueryUnpaired(s) = {}) /\ UNCHANGED warnings
    <3>1. QueriesOf(Here) = {}
      BY <2>1 DEF QueriesOf
    <3>2. Pairings' = Pairings
      BY <2>1 DEF Pairings
    <3>3. QueriesOf(Passed \cup Here) = QueriesOf(Passed) \cup QueriesOf(Here)
      BY UnionsSplit
    <3> QED BY <1>1, <3>1, <3>2, <3>3
  <2>2. CASE Here = {<<step, sub>>} /\ warnings' = warnings \cup QueryUnpaired(<<step, sub>>)
    <3>1. QueriesOf(Here) = QueryUnpaired(<<step, sub>>)
      BY <2>2 DEF QueriesOf
    <3>2. Pairings' = Pairings \cup QueryUnpaired(<<step, sub>>)
      BY <2>2, PairingsGrow, QueriesCode
    <3>3. QueriesOf(Passed \cup Here) = QueriesOf(Passed) \cup QueriesOf(Here)
      BY UnionsSplit
    <3> QED BY <1>1, <3>1, <3>2, <3>3
  <2> QED BY <2>1, <2>2, ProviderStep
<1>3. /\ Sites' = Sites
      /\ \A S : QueriesOf(S)' = UNION {QueryUnpaired(s)' : s \in S}
  BY <1>1, ContributionsKept DEF QueriesOf
<1>4. \/ phase' = "providers" /\ Passed' = Passed \cup Here
      \/ phase' = "config" /\ Sites' = Passed \cup Here /\ step' = 1 /\ sub' = 0
  BY <1>1, <1>3, WalkPassesHere
<1>5. \A s : QueryUnpaired(s)' = QueryUnpaired(s) /\ ProviderOf(s)' = ProviderOf(s) /\ \A q : Keyed(q, s)' = Keyed(q, s)
  BY <1>1, ContributionsKept
<1>6. ASSUME NEW S, S = Passed \cup Here
      PROVE  /\ UNION {QueryUnpaired(s)' : s \in S} = Pairings'
             /\ \A q \in ConfigProviders :
                  /\ using'[q] > 0 <=> \E t \in S : ProviderOf(t)' = q
                  /\ withoutOwnKey'[q] > 0 <=> \E t \in S : ProviderOf(t)' = q /\ ~Keyed(q, t)'
  <2>1. UNION {QueryUnpaired(s)' : s \in S} = QueriesOf(S)
    BY <1>5 DEF QueriesOf
  <2>2. \A q \in ConfigProviders :
          /\ using'[q] > 0 <=> \E t \in S : ProviderOf(t) = q
          /\ withoutOwnKey'[q] > 0 <=> \E t \in S : ProviderOf(t) = q /\ ~Keyed(q, t)
    BY <1>1, <1>6, CountersTold
  <2> QED BY <1>2, <1>5, <1>6, <2>1, <2>2
<1>7. CASE phase' = "providers" /\ Passed' = Passed \cup Here
  <2>1. Pairings' = QueriesOf(Passed)'
    BY <1>6, <1>7 DEF QueriesOf
  <2>2. CountersTell(Passed)'
    BY <1>6, <1>7 DEF CountersTell
  <2> QED BY <1>7, <2>1, <2>2 DEF PairInv, Earlier
<1>8. CASE phase' = "config" /\ Sites' = Passed \cup Here /\ step' = 1 /\ sub' = 0
  <2>1. Pairings' = QueriesOf(Sites)'
    BY <1>6, <1>8 DEF QueriesOf
  <2>2. CountersTell(Sites)'
    BY <1>6, <1>8 DEF CountersTell
  <2> QED BY <1>8, <2>1, <2>2 DEF PairInv, Earlier
<1> QED BY <1>4, <1>7, <1>8

LEMMA PairConfigExact ==
  ASSUME Shape, Counters, PairInv, PairConfig PROVE PairInv'
<1>1. /\ phase = "config" /\ phase' = "families" /\ flow' = flow
      /\ Pairings = QueriesOf(Sites) /\ CountersTell(Sites)
  BY DEF PairConfig, PairInv
<1>2. \A q \in ConfigProviders :
        ~(using[q] > 0 /\ withoutOwnKey[q] = 0) <=> (Users(q) = {} \/ \E s \in Users(q) : ~Keyed(q, s))
  <2> SUFFICES ASSUME NEW q \in ConfigProviders
               PROVE  ~(using[q] > 0 /\ withoutOwnKey[q] = 0) <=> (Users(q) = {} \/ \E s \in Users(q) : ~Keyed(q, s))
    OBVIOUS
  <2>1. withoutOwnKey[q] \in Nat /\ (withoutOwnKey[q] = 0 <=> ~(withoutOwnKey[q] > 0))
    BY DEF Counters
  <2>2. Users(q) = {s \in Sites : ProviderOf(s) = q}
    BY DEF Users, ProviderOf
  <2> QED BY <1>1, <2>1, <2>2 DEF CountersTell
<1>3. \A q : JudgedBlock(q) => q \in DOMAIN flow.config
  BY DEF JudgedBlock, ConfigAt
<1>4. warnings' = warnings \cup BlocksUnpaired
  <2> DEFINE raised == {q \in (DOMAIN flow.config \cap ConfigProviders) \ Keyless :
                          JudgedBlock(q) /\ ~(using[q] > 0 /\ withoutOwnKey[q] = 0)}
             due == {q \in ConfigProviders \ Keyless :
                       JudgedBlock(q) /\ (Users(q) = {} \/ \E s \in Users(q) : ~Keyed(q, s))}
  <2>1. raised = due
    BY <1>2, <1>3
  <2>2. raised = {q \in (DOMAIN flow.config \cap ConfigProviders) \ Keyless :
                     /\ ConfigAt(q).baseURL # "" /\ ~IsEnv(ConfigAt(q).baseURL) /\ ~HasConfigKey(q)
                     /\ ~(using[q] > 0 /\ withoutOwnKey[q] = 0)}
    BY DEF JudgedBlock
  <2>3. warnings' = warnings \cup {Unpaired(<<>>, <<p, "base_url">>) : p \in raised}
    <3> HIDE DEF raised
    <3> QED BY <2>2 DEF PairConfig
  <2>4. BlocksUnpaired = {Unpaired(<<>>, <<p, "base_url">>) : p \in due}
    BY DEF BlocksUnpaired
  <2> HIDE DEF raised, due
  <2> QED BY <2>1, <2>3, <2>4
<1>5. Pairings' = Pairings \cup BlocksUnpaired
  <2>1. \A w \in BlocksUnpaired : w.code = PairCode
    BY UnpairedCode DEF BlocksUnpaired
  <2> QED BY <1>4, <2>1, PairingsGrow
<1>6. QueriesOf(Sites)' = QueriesOf(Sites) /\ BlocksUnpaired' = BlocksUnpaired
  BY <1>1, ContributionsKept DEF QueriesOf
<1>7. FamiliesOf(Passed)' = {}
  <2>1. step' = 1 /\ sub' = 0 /\ Shape'
    BY ShapeKept DEF PairInv, PairConfig, Next
  <2>2. Passed' = {}
    BY <2>1, NothingPassed
  <2> QED BY <2>2 DEF FamiliesOf
<1> QED BY <1>1, <1>5, <1>6, <1>7 DEF PairInv, Earlier

(* A set of positions that is not empty has a least one.                    *)
LEMMA LeastPosition ==
  ASSUME NEW S \in SUBSET Nat, S # {}
  PROVE  Min(S) \in S /\ \A n \in S : Min(S) <= n
<1>1. PICK x \in S : \A y \in S : ~(<<y, x>> \in OpToRel(<, Nat))
  BY NatLessThanWellFounded, WFMin
<1>2. ASSUME NEW y \in S PROVE x <= y
  <2>1. x \in Nat /\ y \in Nat
    OBVIOUS
  <2>2. ~(y < x)
    <3>1. y < x => <<y, x>> \in OpToRel(<, Nat)
      BY <2>1 DEF OpToRel
    <3> QED BY <1>1, <3>1
  <2> QED BY <2>1, <2>2
<1> QED BY <1>1, <1>2 DEF Min

(* The search, which returns from the first place that holds a value, and   *)
(* the definition of that place by precedence agree.                        *)
LEMMA DecidingIsFirst ==
  ASSUME NEW f, NEW query, NEW params, NEW own,
         Len(params) \in Nat, Len(f.configKeys) \in Nat
  PROVE  Deciding(query, f, params, own) = {place \in Places(f, params) : IsFirst(place, query, f, params, own)}
<1> DEFINE Value(place) == ValueAt(place, query, f, params, own)
           Own(b) == OwnField(b, f, params, own)
           Asked == Held(query, params)
           Blocks == Holding(f, params, own)
           ExtraOf(b) == Held(Extra(b, f), params)
           First == {place \in Places(f, params) : IsFirst(place, query, f, params, own)}
<1>1. /\ Asked \in SUBSET Nat /\ Blocks \in SUBSET Nat /\ \A b : ExtraOf(b) \in SUBSET Nat
      /\ \A j \in Asked : j \in 1..Len(params)
      /\ \A b \in Blocks : b \in 1..Len(f.configKeys)
      /\ \A b : \A j \in ExtraOf(b) : j \in 1..Len(params)
  <2>1. 1..Len(params) \subseteq Nat /\ 1..Len(f.configKeys) \subseteq Nat
    OBVIOUS
  <2>2. Asked \subseteq 1..Len(params) /\ \A b : ExtraOf(b) \subseteq 1..Len(params)
    BY DEF Held
  <2>3. Blocks \subseteq 1..Len(f.configKeys)
    BY DEF Holding
  <2> HIDE DEF Asked, Blocks, ExtraOf
  <2> QED BY <2>1, <2>2, <2>3
<1>2. /\ \A j \in 1..Len(params) : <<0, j>> \in Places(f, params) /\ (Value(<<0, j>>) # "" <=> j \in Asked)
      /\ \A b \in 1..Len(f.configKeys) :
           /\ <<b, 0>> \in Places(f, params) /\ Value(<<b, 0>>) = Own(b)
           /\ \A j \in 1..Len(params) :
                <<b, j>> \in Places(f, params) /\ (Value(<<b, j>>) # "" <=> j \in ExtraOf(b))
           /\ b \in Blocks <=> Own(b) # "" \/ ExtraOf(b) # {}
  <2>1. ASSUME NEW j \in 1..Len(params)
        PROVE  <<0, j>> \in Places(f, params) /\ (Value(<<0, j>>) # "" <=> j \in Asked)
    BY DEF Places, ValueAt, Held
  <2>2. ASSUME NEW b \in 1..Len(f.configKeys)
        PROVE  <<b, 0>> \in Places(f, params) /\ Value(<<b, 0>>) = Own(b)
    BY DEF Places, ValueAt
  <2>3. ASSUME NEW b \in 1..Len(f.configKeys), NEW j \in 1..Len(params)
        PROVE  <<b, j>> \in Places(f, params) /\ (Value(<<b, j>>) # "" <=> j \in ExtraOf(b))
    <3>1. b # 0 /\ j # 0 /\ j \in 0..Len(params)
      OBVIOUS
    <3>2. Value(<<b, j>>) = StringAt(Extra(b, f), params[j])
      BY <3>1 DEF ValueAt
    <3>3. <<b, j>> \in Places(f, params)
      BY <3>1 DEF Places
    <3> QED BY <3>2, <3>3 DEF Held
  <2>4. ASSUME NEW b \in 1..Len(f.configKeys)
        PROVE  b \in Blocks <=> Own(b) # "" \/ ExtraOf(b) # {}
    BY DEF Holding
  <2> HIDE DEF Value, Own, Asked, Blocks, ExtraOf
  <2> QED BY <2>1, <2>2, <2>3, <2>4
<1>3. \A place \in Places(f, params) :
        \/ place[1] = 0 /\ place[2] \in 1..Len(params) /\ place = <<0, place[2]>>
        \/ /\ place[1] \in 1..Len(f.configKeys) /\ place[1] # 0 /\ place[1] > 0 /\ place = <<place[1], place[2]>>
           /\ place[2] = 0 \/ (place[2] \in 1..Len(params) /\ place[2] > 0)
  BY DEF Places
<1>8. \A b, j, place : Precedes(<<b, j>>, place) <=> b < place[1] \/ (b = place[1] /\ j < place[2])
  BY DEF Precedes
<1>9. ASSUME NEW place \in Places(f, params), Value(place) # "", place[1] # 0 PROVE place[1] \in Blocks
  <2>1. /\ place[1] \in 1..Len(f.configKeys) /\ place = <<place[1], place[2]>>
        /\ place[2] = 0 \/ place[2] \in 1..Len(params)
    BY <1>3, <1>9
  <2>2. CASE place[2] = 0
    <3>1. Value(<<place[1], 0>>) # ""
      BY <1>9, <2>1, <2>2
    <3> QED BY <1>2, <2>1, <3>1
  <2>3. CASE place[2] \in 1..Len(params)
    <3>1. Value(<<place[1], place[2]>>) # ""
      BY <1>9, <2>1
    <3>2. place[2] \in ExtraOf(place[1])
      BY <1>2, <2>1, <2>3, <3>1
    <3> QED BY <1>2, <2>1, <3>2
  <2> QED BY <2>1, <2>2, <2>3
<1>10. ASSUME NEW place \in Places(f, params), Value(place) # "", place[1] = 0 PROVE place[2] \in Asked
  <2>1. place[2] \in 1..Len(params) /\ place = <<0, place[2]>>
    BY <1>3, <1>10
  <2>2. Value(<<0, place[2]>>) # ""
    BY <1>10, <2>1
  <2> QED BY <1>2, <2>1, <2>2
(* At most one place is the first.                                          *)
<1>4. ASSUME NEW place \in Places(f, params), Value(place) # "",
             \A other \in Places(f, params) : Value(other) # "" => other = place \/ Precedes(place, other)
      PROVE  First = {place}
  <2>1. \A a, b \in Places(f, params) : ~(Precedes(a, b) /\ Precedes(b, a)) /\ ~Precedes(a, a)
    BY <1>3 DEF Precedes
  <2>2. IsFirst(place, query, f, params, own)
    BY <1>4, <2>1 DEF IsFirst
  <2>3. ASSUME NEW other \in Places(f, params), IsFirst(other, query, f, params, own) PROVE other = place
    BY <1>4, <2>3 DEF IsFirst
  <2> QED BY <2>2, <2>3
<1>5. CASE Asked # {}
  <2>1. Min(Asked) \in Asked /\ \A j \in Asked : Min(Asked) <= j
    BY <1>1, <1>5, LeastPosition
  <2>2. PICK m \in 1..Len(params) : m = Min(Asked)
    BY <1>1, <2>1
  <2>3. <<0, m>> \in Places(f, params) /\ Value(<<0, m>>) # ""
    BY <1>2, <2>1, <2>2
  <2>4. ASSUME NEW other \in Places(f, params), Value(other) # "" PROVE other = <<0, m>> \/ Precedes(<<0, m>>, other)
    <3>1. CASE other[1] = 0
      <4>1. other = <<0, other[2]>> /\ other[2] \in 1..Len(params)
        BY <1>3, <3>1
      <4>2. other[2] \in Asked
        BY <1>2, <2>4, <4>1
      <4>3. m <= other[2]
        BY <2>1, <2>2, <4>2
      <4> QED BY <4>1, <4>3 DEF Precedes
    <3>2. CASE other[1] # 0
      BY <1>3, <3>2 DEF Precedes
    <3> QED BY <3>1, <3>2
  <2>5. First = {<<0, m>>}
    BY <1>4, <2>3, <2>4
  <2> QED BY <1>5, <2>2, <2>5 DEF Deciding
<1>6. CASE Asked = {} /\ Blocks = {}
  <2>1. ASSUME NEW place \in Places(f, params), Value(place) # "" PROVE FALSE
    <3>1. place[1] = 0 => place[2] \in Asked
      BY <1>10, <2>1
    <3>2. place[1] # 0 => place[1] \in Blocks
      BY <1>9, <2>1
    <3> QED BY <1>6, <3>1, <3>2
  <2>2. First = {}
    BY <2>1 DEF IsFirst
  <2> QED BY <1>6, <2>2 DEF Deciding
<1>7. CASE Asked = {} /\ Blocks # {}
  <2>1. Min(Blocks) \in Blocks /\ \A b \in Blocks : Min(Blocks) <= b
    BY <1>1, <1>7, LeastPosition
  <2>2. PICK b \in 1..Len(f.configKeys) : b = Min(Blocks)
    BY <1>1, <2>1
  <2>3. ASSUME NEW other \in Places(f, params), Value(other) # ""
        PROVE  other = <<other[1], other[2]>> /\ other[1] \in 1..Len(f.configKeys) /\ b <= other[1] /\ other[2] \in Nat
    <3>1. other[1] # 0
      <4>1. other[1] = 0 => other[2] \in Asked
        BY <1>10, <2>3
      <4> QED BY <1>7, <4>1
    <3>2. /\ other = <<other[1], other[2]>> /\ other[1] \in 1..Len(f.configKeys)
          /\ other[2] = 0 \/ other[2] \in 1..Len(params)
      BY <1>3, <3>1
    <3>3. other[1] \in Blocks
      BY <1>9, <2>3, <3>1
    <3> QED BY <2>1, <2>2, <3>2, <3>3
  <2>4. CASE Own(b) # ""
    <3>1. <<b, 0>> \in Places(f, params) /\ Value(<<b, 0>>) # ""
      BY <1>2, <2>4
    <3>2. ASSUME NEW other \in Places(f, params), Value(other) # "" PROVE other = <<b, 0>> \/ Precedes(<<b, 0>>, other)
      <4>1. other = <<other[1], other[2]>> /\ b <= other[1] /\ other[1] \in Nat /\ other[2] \in Nat
        <5> HIDE DEF Value
        <5>1. other = <<other[1], other[2]>>
          BY <2>3, <3>2
        <5>2. b <= other[1] /\ other[1] \in 1..Len(f.configKeys) /\ other[2] \in Nat
          BY <2>3, <3>2
        <5> QED BY <5>1, <5>2
      <4>2. (other[1] = b /\ other[2] = 0) \/ b < other[1] \/ (b = other[1] /\ 0 < other[2])
        BY <4>1
      <4> QED BY <1>8, <4>1, <4>2
    <3>3. First = {<<b, 0>>}
      BY <1>4, <3>1, <3>2
    <3> QED BY <1>7, <2>2, <2>4, <3>3 DEF Deciding
  <2>5. CASE Own(b) = ""
    <3>1. ExtraOf(b) # {}
      BY <1>2, <2>1, <2>2, <2>5
    <3>2. Min(ExtraOf(b)) \in ExtraOf(b) /\ \A j \in ExtraOf(b) : Min(ExtraOf(b)) <= j
      BY <1>1, <3>1, LeastPosition
    <3>3. PICK m \in 1..Len(params) : m = Min(ExtraOf(b))
      BY <1>1, <3>2
    <3>4. <<b, m>> \in Places(f, params) /\ Value(<<b, m>>) # ""
      BY <1>2, <3>2, <3>3
    <3>5. ASSUME NEW other \in Places(f, params), Value(other) # "" PROVE other = <<b, m>> \/ Precedes(<<b, m>>, other)
      <4>1. CASE other[1] = b
        <5>1. other = <<b, other[2]>>
          BY <2>3, <3>5, <4>1
        <5>2. other[2] # 0
          BY <1>2, <2>5, <3>5, <5>1
        <5>3. other[2] \in 1..Len(params)
          BY <1>3, <4>1, <5>2
        <5>4. other[2] \in ExtraOf(b)
          BY <1>2, <3>5, <5>1, <5>3
        <5>5. m <= other[2]
          BY <3>2, <3>3, <5>4
        <5> QED BY <1>8, <5>1, <5>3, <5>5
      <4>2. CASE other[1] # b
        <5>1. b <= other[1] /\ other[1] \in 1..Len(f.configKeys)
          <6> HIDE DEF Value
          <6> QED BY <2>3, <3>5
        <5>2. b < other[1]
          BY <4>2, <5>1
        <5> QED BY <1>8, <5>2
      <4> QED BY <4>1, <4>2
    <3>6. First = {<<b, m>>}
      BY <1>4, <3>4, <3>5
    <3> QED BY <1>7, <2>2, <2>5, <3>3, <3>6 DEF Deciding
  <2> QED BY <2>4, <2>5
<1> QED BY <1>5, <1>6, <1>7

(* A family's call contributes at its site what it contributes to the whole.*)
LEMMA PairFamilyExact ==
  ASSUME Shape, PairInv, PairFamily PROVE PairInv'
<1>1. /\ phase = "families" /\ phase # "loop" /\ flow' = flow /\ Advance("residency")
      /\ Pairings = QueriesOf(Sites) \cup BlocksUnpaired \cup FamiliesOf(Passed)
  BY DEF PairFamily, PairInv
<1>2. Pairings' = Pairings \cup FamiliesOf(Here)
  <2>1. CASE ~IsSite
    <3>1. Here = {} /\ warnings' = warnings
      BY <1>1, <2>1, AtHere DEF Here, PairFamily
    <3> QED BY <3>1 DEF Pairings, FamiliesOf
  <2>2. CASE IsSite
    <3>1. /\ Here = {<<step, sub>>} /\ QueryOf(<<step, sub>>) = Site.query
          /\ ExecutorOf(<<step, sub>>) = Site.executor
      BY <1>1, <2>2, AtHere DEF Here
    <3>2. <<step, sub>>[1] = step /\ <<step, sub>>[2] = sub
      OBVIOUS
    <3>3. PICK f : f = Families[FamilyKey(Site.executor)]
      OBVIOUS
    <3>4. warnings' = IF HasFamily(FamilyKey(Site.executor)) /\ ~f.implicit /\ HasServerSecret(Site.query, f)
                      THEN warnings \cup {EndpointFinding(step, sub, place, f) : place \in AuthorEndpoints(Site.query, f)}
                      ELSE warnings
      <4> DEFINE Secret(place) == IsServerSecret(f, ValueAt(place, Site.query, f, f.secrets, "apiKey"))
                 Literal(place) == IsAuthorLiteral(f, ValueAt(place, Site.query, f, f.endpoints, "baseURL"))
                 Secrets == {place \in Deciding(Site.query, f, f.secrets, "apiKey") : Secret(place)}
                 Literals == {place \in Deciding(Site.query, f, f.endpoints, "baseURL") : Literal(place)}
      <4>1. warnings' = IF HasFamily(FamilyKey(Site.executor)) /\ ~f.implicit /\ Secrets # {}
                        THEN warnings \cup {EndpointFinding(step, sub, place, f) : place \in Literals}
                        ELSE warnings
        BY <2>2, <3>3 DEF PairFamily
      <4>2. CASE HasFamily(FamilyKey(Site.executor))
        <5>1. Len(f.secrets) \in Nat /\ Len(f.endpoints) \in Nat /\ Len(f.configKeys) \in Nat
          BY <3>3, <4>2, TablesAssumption DEF HasFamily
        <5>2. Secrets # {} <=> HasServerSecret(Site.query, f)
          BY <5>1, DecidingIsFirst DEF HasServerSecret
        <5>3. Literals = AuthorEndpoints(Site.query, f)
          BY <5>1, DecidingIsFirst DEF AuthorEndpoints
        <5> QED BY <4>1, <5>2, <5>3
      <4>3. CASE ~HasFamily(FamilyKey(Site.executor))
        BY <4>1, <4>3
      <4> QED BY <4>2, <4>3
    <3>5. FamilyUnpaired(<<step, sub>>) =
            IF HasFamily(FamilyKey(Site.executor)) /\ ~f.implicit /\ HasServerSecret(Site.query, f)
            THEN {EndpointFinding(step, sub, place, f) : place \in AuthorEndpoints(Site.query, f)} ELSE {}
      BY <3>1, <3>2, <3>3 DEF FamilyUnpaired
    <3>6. warnings' = warnings \cup FamilyUnpaired(<<step, sub>>)
      BY <3>4, <3>5
    <3>7. \A w \in FamilyUnpaired(<<step, sub>>) : w.code = PairCode
      BY <3>5, UnpairedCode
    <3>8. FamiliesOf(Here) = FamilyUnpaired(<<step, sub>>)
      BY <3>1 DEF FamiliesOf
    <3> QED BY <3>6, <3>7, <3>8, PairingsGrow
  <2> QED BY <2>1, <2>2
<1>3. Pairings' = QueriesOf(Sites) \cup BlocksUnpaired \cup FamiliesOf(Passed \cup Here)
  <2>1. FamiliesOf(Passed \cup Here) = FamiliesOf(Passed) \cup FamiliesOf(Here)
    BY UnionsSplit
  <2> QED BY <1>1, <1>2, <2>1
<1>4. /\ Sites' = Sites /\ QueriesOf(Sites)' = QueriesOf(Sites) /\ BlocksUnpaired' = BlocksUnpaired
      /\ \A s : FamilyUnpaired(s)' = FamilyUnpaired(s)
  BY <1>1, ContributionsKept DEF QueriesOf
<1>5. \/ phase' = "families" /\ Passed' = Passed \cup Here
      \/ phase' = "residency" /\ Sites = Passed \cup Here
  BY <1>1, WalkPassesHere
<1>6. CASE phase' = "families" /\ Passed' = Passed \cup Here
  <2>1. FamiliesOf(Passed)' = FamiliesOf(Passed \cup Here)
    BY <1>4, <1>6 DEF FamiliesOf
  <2> QED BY <1>3, <1>4, <1>6, <2>1 DEF PairInv, Earlier
<1>7. CASE phase' = "residency" /\ Sites = Passed \cup Here
  <2>1. FamiliesOf(Sites)' = FamiliesOf(Passed \cup Here)
    BY <1>4, <1>7 DEF FamiliesOf
  <2> QED BY <1>3, <1>4, <1>7, <2>1 DEF PairInv, Earlier
<1> QED BY <1>5, <1>6, <1>7

LEMMA PairInvKept == Shape /\ Counters /\ PairInv /\ [Next]_vars => PairInv'
<1> SUFFICES ASSUME Shape, Counters, PairInv, [Next]_vars PROVE PairInv'
  OBVIOUS
<1>0. /\ flow' = flow /\ Sites' = Sites /\ BlocksUnpaired' = BlocksUnpaired
      /\ QueriesOf(Sites)' = QueriesOf(Sites) /\ FamiliesOf(Sites)' = FamiliesOf(Sites)
      /\ \A s : /\ QueryUnpaired(s)' = QueryUnpaired(s) /\ FamilyUnpaired(s)' = FamilyUnpaired(s)
                /\ ProviderOf(s)' = ProviderOf(s) /\ \A q : Keyed(q, s)' = Keyed(q, s)
  BY ErrorsGrow, ContributionsKept DEF QueriesOf, FamiliesOf
<1>1. CASE UNCHANGED vars
  <2>1. UNCHANGED <<flow, phase, step, sub, warnings, using, withoutOwnKey>>
    BY <1>1 DEF vars, loopVars
  <2>2. Passed' = Passed /\ Pairings' = Pairings
    BY <1>0, <2>1 DEF Passed, Pairings
  <2>3. QueriesOf(Passed)' = QueriesOf(Passed) /\ FamiliesOf(Passed)' = FamiliesOf(Passed)
    BY <1>0, <2>2 DEF QueriesOf, FamiliesOf
  <2>4. /\ CountersTell({})' = CountersTell({}) /\ CountersTell(Passed)' = CountersTell(Passed)
        /\ CountersTell(Sites)' = CountersTell(Sites)
    BY <1>0, <2>1, <2>2 DEF CountersTell
  <2> QED BY <1>0, <2>1, <2>2, <2>3, <2>4 DEF PairInv
<1>2. CASE phase \in Earlier /\ ~(UNCHANGED vars)
  <2>1. UNCHANGED <<using, withoutOwnKey>>
    BY <1>2 DEF Earlier, Next, StepIdentity, ValidateExecutors, LoopStep, ValidateCredentialBindings, PairProvider,
                PairConfig, PairFamily, EnforceResidency
  <2>2. Pairings' = {} /\ CountersTell({})
    BY <1>2, OtherWarnings DEF Earlier, PairInv
  <2>3. CountersTell({})'
    BY <2>1, <2>2 DEF CountersTell
  <2>4. \/ phase' \in Earlier
        \/ phase' = "providers" /\ step' = 1 /\ sub' = 0
    BY <1>2 DEF Earlier, Next, vars, loopVars, StepIdentity, ValidateExecutors, LoopStep, LoopNext, ValidateCredentialBindings,
         PairProvider, PairConfig, PairFamily, EnforceResidency, ValidateForEach, LoopHead, CollectSubStep,
         ValidateLoopSubStepNext, LoopTail, NextStep, Advance
  <2>5. CASE phase' \in Earlier
    BY <2>2, <2>3, <2>5 DEF PairInv, Earlier
  <2>6. CASE phase' = "providers" /\ step' = 1 /\ sub' = 0
    <3>1. Passed' = {}
      BY <2>6, ShapeKept, NothingPassed
    <3>2. QueriesOf(Passed)' = {} /\ CountersTell(Passed)'
      BY <2>3, <3>1 DEF QueriesOf, CountersTell
    <3> QED BY <2>2, <2>6, <3>2 DEF PairInv, Earlier
  <2> QED BY <2>4, <2>5, <2>6
<1>3. CASE EnforceResidency
  <2>1. phase = "residency" /\ phase' \in {"residency", "done"}
    BY <1>3 DEF EnforceResidency, Advance
  <2>2. Pairings' = Pairings
    BY <2>1, OtherWarnings
  <2> QED BY <1>0, <2>1, <2>2 DEF PairInv, Earlier
<1>4. phase \in Earlier \/ PairProvider \/ PairConfig \/ PairFamily \/ EnforceResidency \/ UNCHANGED vars
  BY DEF Earlier, Next, StepIdentity, ValidateExecutors, LoopStep, LoopNext, ValidateCredentialBindings, ValidateForEach,
         LoopHead, CollectSubStep, ValidateLoopSubStepNext, LoopTail, NextStep
<1> QED BY <1>1, <1>2, <1>3, <1>4, PairProviderExact, PairConfigExact, PairFamilyExact

(* The pairing warns about an endpoint exactly where, seen over the whole   *)
(* flow, no key of the flow stands beside it: its counters are complete when*)
(* the blocks of executor_config are judged by them.                        *)
THEOREM UnpairedExactAlways == Spec => []UnpairedExact
<1>1. Init => Shape /\ Counters /\ PairInv
  <2> SUFFICES ASSUME Init PROVE PairInv
    BY BodyInvInit DEF BodyInv, Init, Counters
  <2>1. phase = "identity" /\ Pairings = {}
    BY DEF Init, Pairings
  <2>2. CountersTell({})
    BY DEF Init, CountersTell
  <2> QED BY <2>1, <2>2 DEF PairInv, Earlier
<1>2. PairInv => UnpairedExact
  <2> SUFFICES ASSUME PairInv, phase \in {"residency", "done"}
               PROVE  Pairings = QueriesOf(Sites) \cup BlocksUnpaired \cup FamiliesOf(Sites)
    BY DEF UnpairedExact, Pairings, PairCode, QueriesOf, QueryUnpaired, ProviderOf, BlocksUnpaired, JudgedBlock, Keyed,
           FamiliesOf, FamilyUnpaired
  <2> QED BY DEF PairInv
<1> QED BY <1>1, <1>2, ShapeKept, CountersKept, PairInvKept, PTL DEF Spec

------------------------------------------------------------------------------
(* The j-th jump of a sub-step names nothing, and the second pass has been  *)
(* over that sub-step.                                                      *)
MissCode == "loop_substep_next_target_not_found"
MissAt(n, i, j) == Finding(MissCode, <<n, i, j>>, flow.steps[n].id)
IsMissed(n, i, j) ==
  LET s == SubsOf(flow.steps[n])[i] IN
  /\ s # Other /\ IsMapping(s.next) /\ ~s.next.parallel
  /\ j \in 1..Len(s.next.targets)
  /\ s.next.targets[j] \notin {Absent, Other, <<>>} \cup Sentinels
  /\ ~IsKnown(SubsOf(flow.steps[n]), s.next.targets[j])
JumpsPassed(n, i) ==
  n \in Judged \/ (phase = "loop" /\ n = step /\ ((part = "jump" /\ i < sub) \/ part \in {"tail", "next"}))
MissInv ==
  \A n \in 1..Len(flow.steps) : \A i \in 1..Len(SubsOf(flow.steps[n])) : \A j :
    MissAt(n, i, j) \in errors <=> JumpsPassed(n, i) /\ IsMissed(n, i, j)

(* No other rule, and no other part of this one, raises the code.           *)
LEMMA OtherCodes ==
  /\ \A s : MissCode \notin ForEachCodes(s)
  /\ \A loop : MissCode \notin HeadCodes(loop)
  /\ \A s : MissCode \notin SubStepCodes(s)
  /\ \A x, query : MissCode \notin SurfaceCodes(x, query) \cup ExecutorCodes(x) \cup AtlasCodes(x, query)
  /\ \A site : MissCode \notin CredentialCodes(site)
<1>1. \A s : MissCode \notin ForEachCodes(s)
  <2>1. \A d, max : MissCode \notin DurationCodes(d, max, "throttle_delay_exceeds_max")
                      /\ MissCode \notin DurationCodes(d, max, "throttle_batch_delay_exceeds_max")
    BY DEF MissCode, DurationCodes, If
  <2>2. \A t : MissCode \notin ThrottleCodes(t)
    BY <2>1 DEF MissCode, ThrottleCodes, If
  <2> QED BY <2>2 DEF MissCode, ForEachCodes, If
<1>2. \A loop : MissCode \notin HeadCodes(loop)
  BY DEF MissCode, HeadCodes, If
<1>3. \A s : MissCode \notin SubStepCodes(s)
  BY DEF MissCode, SubStepCodes, If
<1>4. \A x, query : MissCode \notin SurfaceCodes(x, query) \cup ExecutorCodes(x) \cup AtlasCodes(x, query)
  <2>1. \A x, query : MissCode \notin SurfaceCodes(x, query)
    BY DEF MissCode, SurfaceCodes, If
  <2>2. \A x : MissCode \notin ExecutorCodes(x)
    BY DEF MissCode, ExecutorCodes, If
  <2>3. \A query, operation : MissCode \notin SharedCodes(query, operation)
    BY DEF MissCode, SharedCodes, If
  <2>4. \A query : MissCode \notin AgentCodes(query)
    BY DEF MissCode, AgentCodes, If
  <2>5. \A x, query : MissCode \notin AtlasCodes(x, query)
    BY <2>3, <2>4 DEF MissCode, AtlasCodes, If
  <2> QED BY <2>1, <2>2, <2>5
<1>5. \A site : MissCode \notin CredentialCodes(site)
  <2>1. \A v : /\ MissCode \notin SourceCodes(v, "cred_bind_invalid_source", "cred_bind_source_format")
              /\ MissCode \notin SourceCodes(v, "cred_bind_shorthand_source", "cred_bind_shorthand_format")
    BY DEF MissCode, SourceCodes, If
  <2>2. \A b : MissCode \notin BindingCodes(b)
    BY <2>1 DEF MissCode, BindingCodes, If
  <2>3. \A site : MissCode \notin UNION {BindingCodes(b) : b \in site.bindings}
    BY <2>2
  <2>4. \A site : MissCode \notin If(site.bindings # {} /\ site.shorthand # "", "cred_bind_mutual_exclusive")
    BY DEF MissCode, If
  <2>5. ASSUME NEW site PROVE MissCode \notin CredentialCodes(site)
    <3>1. CASE site.shorthand = ""
      BY <2>3, <2>4, <3>1 DEF CredentialCodes
    <3>2. CASE site.shorthand # ""
      <4>1. MissCode \notin SourceCodes(site.shorthand, "cred_bind_shorthand_source", "cred_bind_shorthand_format")
        BY <2>1
      <4>2. CredentialCodes(site) =
              If(site.bindings # {} /\ site.shorthand # "", "cred_bind_mutual_exclusive")
                \cup (UNION {BindingCodes(b) : b \in site.bindings})
                \cup SourceCodes(site.shorthand, "cred_bind_shorthand_source", "cred_bind_shorthand_format")
        BY <3>2 DEF CredentialCodes
      <4> QED BY <2>3, <2>4, <4>1, <4>2
    <3> QED BY <3>1, <3>2
  <2> QED BY <2>5
<1> QED BY <1>1, <1>2, <1>3, <1>4, <1>5

LEMMA OtherFindings ==
  ASSUME NEW codes, MissCode \notin codes, NEW at, NEW id, NEW n, NEW i, NEW j
  PROVE  MissAt(n, i, j) \notin Findings(codes, at, id)
<1>1. \A code \in codes : Finding(code, at, id).code = code
  BY DEF Finding
<1>2. MissAt(n, i, j).code = MissCode
  BY DEF MissAt, Finding
<1> QED BY <1>1, <1>2 DEF Findings

LEMMA NoOtherMisses ==
  ASSUME [Next]_vars, ~ValidateLoopSubStepNext, NEW n, NEW i, NEW j
  PROVE  MissAt(n, i, j) \in errors' <=> MissAt(n, i, j) \in errors
<1>1. CASE StepIdentity
  <2>1. \A k : MissCode \notin If(Len(flow.steps[k].id) > 1, "reserved_step_id_char")
    BY DEF MissCode, If
  <2>2. \A k : MissAt(n, i, j) \notin Findings(If(Len(flow.steps[k].id) > 1, "reserved_step_id_char"), <<k>>, flow.steps[k].id)
    BY <2>1, OtherFindings
  <2> QED BY <1>1, <2>2 DEF StepIdentity
<1>2. CASE ValidateExecutors
  BY <1>2, OtherCodes, OtherFindings DEF ValidateExecutors, Raise, report
<1>3. CASE ValidateCredentialBindings
  BY <1>3, OtherCodes, OtherFindings DEF ValidateCredentialBindings, Raise
<1>4. CASE ValidateForEach
  BY <1>4, OtherCodes, OtherFindings DEF ValidateForEach
<1>5. CASE LoopHead
  BY <1>5, OtherCodes, OtherFindings DEF LoopHead
<1>6. CASE CollectSubStep
  <2>1. MissAt(n, i, j) # Finding("invalid_type", <<step, sub>>, Current.id)
    <3>1. Finding("invalid_type", <<step, sub>>, Current.id).code = "invalid_type" /\ MissAt(n, i, j).code = MissCode
      BY DEF MissAt, Finding
    <3> QED BY <3>1 DEF MissCode
  <2> QED BY <1>6, <2>1, OtherCodes, OtherFindings DEF CollectSubStep
<1>7. CASE LoopTail
  <2>1. MissCode \notin If(Current.forEach # Absent, "loop_mutual_exclusion_for_each")
                          \cup If(Current.hasExecutor, "loop_mutual_exclusion_executor")
    BY DEF MissCode, If
  <2> QED BY <1>7, <2>1, OtherFindings DEF LoopTail
<1>8. CASE UNCHANGED errors
  BY <1>8
<1> QED
  BY <1>1, <1>2, <1>3, <1>4, <1>5, <1>6, <1>7, <1>8
  DEF Next, vars, loopVars, LoopStep, LoopNext, NextStep, report, PairProvider, PairConfig, PairFamily, EnforceResidency

(* The second pass raises it for the targets of its sub-step that name none.*)
LEMMA MissesOfSubStep ==
  ASSUME BodyInv, phase = "loop", part = "jump", Sub # Other,
         NEW n \in 1..Len(flow.steps), NEW i \in 1..Len(SubsOf(flow.steps[n])), NEW j
  PROVE  MissAt(n, i, j) \in NextFindings(Sub.next) <=> n = step /\ i = sub /\ IsMissed(n, i, j)
<1>1. /\ HasLoop(Current) /\ Sub = SubsOf(flow.steps[step])[sub] /\ SubsOf(flow.steps[step]) = Subs(step)
      /\ seen = IdsUpTo(step, Len(Subs(step)))
  BY DEF BodyInv, Shape, SeenExact, Sub, Subs, SubsOf, Current
<1>2. \A target : target \in seen <=> IsKnown(Subs(step), target)
  BY <1>1 DEF IdsUpTo, IsKnown
<1>3. /\ MissAt(n, i, j).code = MissCode /\ MissAt(n, i, j).at = <<n, i, j>> /\ MissAt(n, i, j).about = flow.steps[n].id
      /\ \A code, at, id : /\ Finding(code, at, id).code = code /\ Finding(code, at, id).at = at
                            /\ Finding(code, at, id).about = id
  BY DEF MissAt, Finding
<1>4. \A target : MissCode \in TargetCodes(target) <=>
                     target \notin {Absent, Other, <<>>} \cup Sentinels /\ target \notin seen
  BY DEF MissCode, TargetCodes, If
<1>5. CASE ~IsMapping(Sub.next) \/ Sub.next.parallel
  <2>1. MissAt(n, i, j) \notin NextFindings(Sub.next)
    BY <1>3, <1>5 DEF NextFindings, IsMapping, MissCode
  <2>2. ~(n = step /\ i = sub /\ IsMissed(n, i, j))
    BY <1>1, <1>5 DEF IsMissed
  <2> QED BY <2>1, <2>2
<1>6. CASE IsMapping(Sub.next) /\ ~Sub.next.parallel
  <2>1. NextFindings(Sub.next) =
          UNION {Findings(TargetCodes(Sub.next.targets[k]), <<step, sub, k>>, Current.id) : k \in 1..Len(Sub.next.targets)}
    BY <1>6 DEF NextFindings, IsMapping
  <2>2. MissAt(n, i, j) \in NextFindings(Sub.next) <=>
          \E k \in 1..Len(Sub.next.targets) :
            MissAt(n, i, j) \in Findings(TargetCodes(Sub.next.targets[k]), <<step, sub, k>>, Current.id)
    BY <2>1
  <2>3. ASSUME n = step, i = sub, IsMissed(n, i, j) PROVE MissAt(n, i, j) \in NextFindings(Sub.next)
    <3>1. j \in 1..Len(Sub.next.targets) /\ MissCode \in TargetCodes(Sub.next.targets[j])
      BY <1>1, <1>2, <1>4, <2>3 DEF IsMissed
    <3>2. MissAt(n, i, j) = Finding(MissCode, <<step, sub, j>>, Current.id)
      BY <2>3 DEF MissAt, Current
    <3>3. MissAt(n, i, j) \in Findings(TargetCodes(Sub.next.targets[j]), <<step, sub, j>>, Current.id)
      BY <3>1, <3>2 DEF Findings
    <3> QED BY <2>2, <3>1, <3>3
  <2>4. ASSUME MissAt(n, i, j) \in NextFindings(Sub.next) PROVE n = step /\ i = sub /\ IsMissed(n, i, j)
    <3>0. PICK k \in 1..Len(Sub.next.targets) :
            MissAt(n, i, j) \in Findings(TargetCodes(Sub.next.targets[k]), <<step, sub, k>>, Current.id)
      BY <2>2, <2>4
    <3>1. PICK code \in TargetCodes(Sub.next.targets[k]) : MissAt(n, i, j) = Finding(code, <<step, sub, k>>, Current.id)
      BY <3>0 DEF Findings
    <3>2. code = MissCode /\ <<n, i, j>> = <<step, sub, k>>
      BY <1>3, <3>1
    <3>3. n = step /\ i = sub /\ j = k
      BY <3>2
    <3> QED BY <1>1, <1>2, <1>4, <1>6, <3>1, <3>2, <3>3 DEF IsMissed
  <2> QED BY <2>3, <2>4
<1> QED BY <1>5, <1>6

(* What is passed changes by one sub-step at a time, or not at all.         *)
LEMMA PassedByOthers ==
  ASSUME BodyInv, [Next]_vars, ~ValidateLoopSubStepNext,
         NEW n \in 1..Len(flow.steps), NEW i \in 1..Len(SubsOf(flow.steps[n]))
  PROVE  JumpsPassed(n, i)' <=> JumpsPassed(n, i)
<1>0. /\ flow \in Flows /\ step \in 1..Len(flow.steps) /\ Len(flow.steps) \in Nat \ {0} /\ flow' = flow
      /\ Len(SubsOf(flow.steps[n])) \in Nat
  BY Lengths, ErrorsGrow DEF BodyInv, Shape
<1>1. CASE phase = "loop" /\ UNCHANGED <<step, phase>>
  <2>1. Judged' = Judged
    BY <1>1 DEF Judged
  <2>2. CASE ValidateForEach
    <3>1. n = step => HasLoop(Current)
      BY <1>0 DEF SubsOf, Current
    <3> QED BY <1>1, <2>1, <2>2, <3>1 DEF ValidateForEach, JumpsPassed
  <2>3. CASE LoopHead
    <3>1. HasLoop(Current)
      BY <2>3 DEF BodyInv, Shape, LoopHead
    <3>2. n = step => Current.loop.subs # <<>>
      BY <1>0, <3>1 DEF SubsOf, Current
    <3> QED BY <1>1, <2>1, <2>3, <3>2 DEF LoopHead, JumpsPassed
  <2>4. CASE CollectSubStep
    BY <1>0, <1>1, <2>1, <2>4 DEF CollectSubStep, Proceed, JumpsPassed
  <2>5. CASE LoopTail
    BY <1>1, <2>1, <2>5 DEF LoopTail, JumpsPassed
  <2>6. CASE UNCHANGED <<part, sub>>
    BY <1>1, <2>1, <2>6 DEF JumpsPassed
  <2>7. ~NextStep
    BY <1>0, <1>1 DEF NextStep
  <2> QED
    BY <1>1, <2>2, <2>3, <2>4, <2>5, <2>6, <2>7
    DEF Next, vars, loopVars, LoopStep, LoopNext, StepIdentity, ValidateExecutors, ValidateCredentialBindings,
        PairProvider, PairConfig, PairFamily, EnforceResidency
<1>2. CASE NextStep
  <2>1. /\ phase = "loop" /\ part = "next" /\ part' = "forEach"
        /\ Judged = 1..(step - 1) /\ Judged' = 1..step
    BY <1>0, <1>2 DEF NextStep, Judged
  <2>2. 1..step = (1..(step - 1)) \cup {step}
    BY <1>0
  <2> QED BY <2>1, <2>2 DEF JumpsPassed
<1>3. CASE phase # "loop"
  <2>1. /\ part' = "forEach" /\ (phase' = "loop" => step' = 1)
        /\ (phase \in {"identity", "executors"} => phase' \in {"identity", "executors", "loop"})
        /\ (phase \notin {"identity", "executors"} => phase' \notin {"identity", "executors", "loop"})
    BY <1>3 DEF BodyInv, Shape, Phases, Next, vars, loopVars, StepIdentity, ValidateExecutors, LoopStep, LoopNext,
      ValidateCredentialBindings, PairProvider, PairConfig, PairFamily, EnforceResidency, ValidateForEach, LoopHead,
      CollectSubStep, ValidateLoopSubStepNext, LoopTail, NextStep, Advance
  <2>2. n \in Judged' <=> n \in Judged
    BY <1>0, <1>3, <2>1 DEF Judged
  <2> QED BY <1>3, <2>1, <2>2 DEF JumpsPassed
<1>4. phase = "loop" => UNCHANGED <<step, phase>> \/ NextStep
  BY DEF Next, vars, loopVars, StepIdentity, ValidateExecutors, LoopStep, LoopNext,
      ValidateCredentialBindings, PairProvider, PairConfig, PairFamily, EnforceResidency, ValidateForEach, LoopHead,
      CollectSubStep, ValidateLoopSubStepNext, LoopTail
<1> QED BY <1>1, <1>2, <1>3, <1>4

LEMMA PassedByJump ==
  ASSUME BodyInv, ValidateLoopSubStepNext,
         NEW n \in 1..Len(flow.steps), NEW i \in 1..Len(SubsOf(flow.steps[n]))
  PROVE  JumpsPassed(n, i)' <=> JumpsPassed(n, i) \/ (n = step /\ i = sub)
<1>0. /\ flow \in Flows /\ step \in 1..Len(flow.steps) /\ HasLoop(Current) /\ sub \in 1..Len(Current.loop.subs)
      /\ phase = "loop" /\ part = "jump" /\ UNCHANGED <<step, phase>> /\ Len(flow.steps) \in Nat
  BY Lengths DEF BodyInv, Shape, ValidateLoopSubStepNext
<1>1. Len(Current.loop.subs) \in Nat /\ SubsOf(flow.steps[step]) = Current.loop.subs
  BY <1>0, Lengths DEF Current, SubsOf
<1>2. Judged' = Judged
  BY <1>0 DEF Judged
<1>3. CASE sub < Len(Current.loop.subs)
  <2>1. sub' = sub + 1 /\ part' = "jump"
    BY <1>0, <1>3 DEF ValidateLoopSubStepNext, Proceed
  <2>2. n = step => (i < sub + 1 <=> i < sub \/ i = sub)
    BY <1>0, <1>1
  <2> QED BY <1>0, <1>2, <2>1, <2>2 DEF JumpsPassed
<1>4. CASE ~(sub < Len(Current.loop.subs))
  <2>1. part' = "tail"
    BY <1>4 DEF ValidateLoopSubStepNext, Proceed
  <2>2. n = step => i < sub \/ i = sub
    BY <1>0, <1>1, <1>4
  <2> QED BY <1>0, <1>2, <2>1, <2>2 DEF JumpsPassed
<1> QED BY <1>3, <1>4

LEMMA MissInvKept == BodyInv /\ MissInv /\ [Next]_vars => MissInv'
<1> SUFFICES ASSUME BodyInv, MissInv, [Next]_vars PROVE MissInv'
  OBVIOUS
<1>0. flow' = flow
  BY ErrorsGrow
<1>4. \A n, i, j : MissAt(n, i, j)' = MissAt(n, i, j) /\ IsMissed(n, i, j)' = IsMissed(n, i, j)
  BY <1>0 DEF MissAt, IsMissed
<1> SUFFICES ASSUME NEW n \in 1..Len(flow.steps), NEW i \in 1..Len(SubsOf(flow.steps[n])), NEW j
             PROVE  MissAt(n, i, j) \in errors' <=> JumpsPassed(n, i)' /\ IsMissed(n, i, j)
  BY <1>0, <1>4 DEF MissInv
<1>1. MissAt(n, i, j) \in errors <=> JumpsPassed(n, i) /\ IsMissed(n, i, j)
  BY DEF MissInv
<1>2. CASE ~ValidateLoopSubStepNext
  BY <1>1, <1>2, NoOtherMisses, PassedByOthers
<1>3. CASE ValidateLoopSubStepNext
  <2>1. JumpsPassed(n, i)' <=> JumpsPassed(n, i) \/ (n = step /\ i = sub)
    BY <1>3, PassedByJump
  <2>2. CASE Sub = Other
    <3>1. errors' = errors
      BY <1>3, <2>2 DEF ValidateLoopSubStepNext
    <3>2. HasLoop(Current)
      BY <1>3 DEF BodyInv, Shape, ValidateLoopSubStepNext
    <3>3. (n = step /\ i = sub) => ~IsMissed(n, i, j)
      BY <2>2, <3>2 DEF IsMissed, Sub, SubsOf, Current
    <3> QED BY <1>1, <2>1, <3>1, <3>3
  <2>3. CASE Sub # Other
    <3>1. errors' = errors \cup NextFindings(Sub.next)
      BY <1>3, <2>3 DEF ValidateLoopSubStepNext
    <3>2. MissAt(n, i, j) \in NextFindings(Sub.next) <=> n = step /\ i = sub /\ IsMissed(n, i, j)
      BY <1>3, <2>3, MissesOfSubStep DEF ValidateLoopSubStepNext
    <3> QED BY <1>1, <2>1, <3>1, <3>2
  <2> QED BY <2>2, <2>3
<1> QED BY <1>2, <1>3

(* A jump of a sub-step is reported exactly if no sub-step of its own body  *)
(* has that id, wherever it stands.                                         *)
THEOREM MissesExactAlways == Spec => []MissesExact
<1>1. Init => BodyInv /\ MissInv
  BY BodyInvInit DEF Init, MissInv, JumpsPassed, Judged
<1>2. BodyInv /\ MissInv => MissesExact
  <2> SUFFICES ASSUME BodyInv, MissInv, NEW n \in Judged, NEW i \in 1..Len(SubsOf(flow.steps[n])),
                      SubsOf(flow.steps[n])[i] # Other, IsMapping(SubsOf(flow.steps[n])[i].next),
                      ~SubsOf(flow.steps[n])[i].next.parallel,
                      NEW j \in 1..Len(SubsOf(flow.steps[n])[i].next.targets)
               PROVE  MissAt(n, i, j) \in errors <=>
                        /\ SubsOf(flow.steps[n])[i].next.targets[j] \notin {Absent, Other, <<>>} \cup Sentinels
                        /\ ~IsKnown(SubsOf(flow.steps[n]), SubsOf(flow.steps[n])[i].next.targets[j])
    BY DEF MissesExact, MissAt, MissCode
  <2>1. step \in 1..Len(flow.steps) /\ flow \in Flows
    BY DEF BodyInv, Shape
  <2>2. Len(flow.steps) \in Nat
    BY <2>1, Lengths
  <2>3. n \in 1..Len(flow.steps)
    BY <2>1, <2>2 DEF Judged
  <2> QED BY <2>3 DEF MissInv, JumpsPassed, IsMissed
<1> QED BY <1>1, <1>2, BodyInvKept, MissInvKept, PTL DEF Spec
==============================================================================
