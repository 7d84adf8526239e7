--------------------------- MODULE FlowGraphProofs ---------------------------
(****************************************************************************)
(* Lemmas shared by the proofs about the two walks and the routes: what a   *)
(* list of edges mentions, that the edges of a step are target texts, and   *)
(* what makes the least closed set the reachable names.                     *)
(****************************************************************************)
EXTENDS FlowPaths, SequenceTheorems, TLAPS

(* Appending one element adds exactly that element to the mentioned ones.   *)
LEMMA MentionedAppend ==
  ASSUME NEW S, NEW s \in Seq(S), NEW e \in S
  PROVE  Mentioned(Append(s, e)) = Mentioned(s) \cup {e}
<1>1. /\ Len(Append(s, e)) = Len(s) + 1
      /\ \A i \in 1..Len(s) : Append(s, e)[i] = s[i]
      /\ Append(s, e)[Len(s) + 1] = e
      /\ Len(s) \in Nat
  BY AppendProperties, LenProperties
<1>2. 1..(Len(s) + 1) = (1..Len(s)) \cup {Len(s) + 1}
  BY <1>1
<1>3. QED
  BY <1>1, <1>2 DEF Mentioned

(* A non-empty sequence mentions its head and what its tail mentions.       *)
LEMMA MentionedHeadTail ==
  ASSUME NEW S, NEW s \in Seq(S), s # <<>>
  PROVE  /\ Mentioned(s) = {Head(s)} \cup Mentioned(Tail(s))
         /\ Head(s) \in S
         /\ Tail(s) \in Seq(S)
<1>1. /\ Head(s) \in S /\ Tail(s) \in Seq(S)
      /\ Len(Tail(s)) = Len(s) - 1
      /\ \A i \in 1..Len(Tail(s)) : Tail(s)[i] = s[i + 1]
      /\ Head(s) = s[1]
      /\ Len(s) \in Nat /\ Len(s) >= 1
  BY HeadTailProperties, LenProperties, EmptySeq
<1>2. ASSUME NEW x \in Mentioned(s) PROVE x \in {Head(s)} \cup Mentioned(Tail(s))
  <2>1. PICK i \in 1..Len(s) : x = s[i]
    BY DEF Mentioned
  <2>2. CASE i = 1
    BY <1>1, <2>1, <2>2
  <2>3. CASE i # 1
    <3>1. i - 1 \in 1..Len(Tail(s)) /\ Tail(s)[i - 1] = s[(i - 1) + 1]
      BY <1>1, <2>1, <2>3
    <3>2. (i - 1) + 1 = i
      BY <2>1
    <3>3. QED
      BY <2>1, <3>1, <3>2 DEF Mentioned
  <2>4. QED
    BY <2>2, <2>3
<1>3. ASSUME NEW x \in {Head(s)} \cup Mentioned(Tail(s)) PROVE x \in Mentioned(s)
  <2>1. CASE x = Head(s)
    BY <1>1, <2>1 DEF Mentioned
  <2>2. CASE x \in Mentioned(Tail(s))
    <3>1. PICK i \in 1..Len(Tail(s)) : x = Tail(s)[i]
      BY <2>2 DEF Mentioned
    <3>2. i + 1 \in 1..Len(s) /\ x = s[i + 1]
      BY <1>1, <3>1
    <3>3. QED
      BY <3>2 DEF Mentioned
  <2>3. QED
    BY <1>3, <2>1, <2>2
<1>4. QED
  BY <1>1, <1>2, <1>3

LEMMA MentionedEmpty == Mentioned(<<>>) = {}
BY DEF Mentioned

(* What a sequence over S mentions is in S.                                 *)
LEMMA MentionedType ==
  ASSUME NEW S, NEW s \in Seq(S)
  PROVE  Mentioned(s) \subseteq S
BY ElementOfSeq DEF Mentioned

(* A prefix of a sequence.                                                  *)
LEMMA PrefixProperties ==
  ASSUME NEW S, NEW s \in Seq(S), NEW m \in Nat, m <= Len(s)
  PROVE  /\ SubSeq(s, 1, m) \in Seq(S) /\ Len(SubSeq(s, 1, m)) = m
         /\ \A i \in 1..m : SubSeq(s, 1, m)[i] = s[i]
<1>1. Len(s) \in Nat /\ \A i \in 1..m : s[i] \in S
  BY LenProperties, ElementOfSeq
<1>2. /\ SubSeq(s, 1, m) \in Seq(S)
      /\ Len(SubSeq(s, 1, m)) = IF 1 <= m THEN m - 1 + 1 ELSE 0
      /\ \A i \in 1..(m - 1 + 1) : SubSeq(s, 1, m)[i] = s[1 + i - 1]
  BY <1>1, SubSeqProperties
<1>3. m - 1 + 1 = m /\ \A i \in 1..m : 1 + i - 1 = i
  OBVIOUS
<1>4. Len(SubSeq(s, 1, m)) = m
  BY <1>2
<1>5. QED
  BY <1>2, <1>3, <1>4

(* The followed edges of a step are a sequence of targets.                  *)
LEMMA CycleEdgesType ==
  ASSUME NEW f, IsFlow(f), NEW n
  PROVE  CycleEdges(f, n) \in Seq(Targets)
<1>1. CASE n \notin StepIds(f)
  BY <1>1 DEF CycleEdges
<1>2. CASE n \in StepIds(f)
  <2> DEFINE step == f.steps[n]
  <2>1. step \in StepRecord
    BY <1>2 DEF IsFlow, StepIds
  <2>2. step.default \in Targets /\ step.conditions \in Seq(Condition)
    BY <2>1 DEF StepRecord
  <2>3. ConditionTargets(step) \in Seq(Targets)
    <3>1. Len(step.conditions) \in Nat
      BY <2>2, LenProperties
    <3>2. \A i \in 1..Len(step.conditions) : step.conditions[i].goto \in Targets
      <4>1. \A i \in 1..Len(step.conditions) : step.conditions[i] \in Condition
        BY <2>2, ElementOfSeq
      <4>2. QED
        BY <4>1 DEF Condition
    <3>3. QED
      BY <3>1, <3>2, IsASeq DEF ConditionTargets
  <2>4. <<step.default>> \in Seq(Targets)
    BY <2>2
  <2>5. <<step.default>> \o ConditionTargets(step) \in Seq(Targets)
    BY <2>3, <2>4, ConcatProperties
  <2>6. QED
    BY <1>2, <2>5 DEF CycleEdges
<1>3. QED
  BY <1>1, <1>2

(* A concatenation mentions what its parts mention.                         *)
LEMMA MentionedConcat ==
  ASSUME NEW S, NEW s \in Seq(S), NEW t \in Seq(S)
  PROVE  Mentioned(s \o t) = Mentioned(s) \cup Mentioned(t)
<1>1. /\ Len(s \o t) = Len(s) + Len(t) /\ Len(s) \in Nat /\ Len(t) \in Nat
      /\ \A i \in 1..(Len(s) + Len(t)) :
           (s \o t)[i] = IF i <= Len(s) THEN s[i] ELSE t[i - Len(s)]
  BY ConcatProperties, LenProperties
<1>2. ASSUME NEW x \in Mentioned(s \o t) PROVE x \in Mentioned(s) \cup Mentioned(t)
  <2>1. PICK i \in 1..(Len(s) + Len(t)) : x = (s \o t)[i]
    BY <1>1 DEF Mentioned
  <2>2. CASE i <= Len(s)
    BY <1>1, <2>1, <2>2 DEF Mentioned
  <2>3. CASE i > Len(s)
    <3>1. i - Len(s) \in 1..Len(t) /\ x = t[i - Len(s)]
      BY <1>1, <2>1, <2>3
    <3>2. QED
      BY <3>1 DEF Mentioned
  <2>4. QED
    BY <1>1, <2>2, <2>3
<1>3. ASSUME NEW x \in Mentioned(s) PROVE x \in Mentioned(s \o t)
  <2>1. PICK i \in 1..Len(s) : x = s[i]
    BY <1>3 DEF Mentioned
  <2>2. i \in 1..(Len(s) + Len(t)) /\ (s \o t)[i] = x
    BY <1>1, <2>1
  <2>3. QED
    BY <1>1, <2>2 DEF Mentioned
<1>4. ASSUME NEW x \in Mentioned(t) PROVE x \in Mentioned(s \o t)
  <2>1. PICK i \in 1..Len(t) : x = t[i]
    BY <1>4 DEF Mentioned
  <2>2. /\ Len(s) + i \in 1..(Len(s) + Len(t)) /\ ~(Len(s) + i <= Len(s))
        /\ (Len(s) + i) - Len(s) = i
    BY <1>1, <2>1
  <2>3. (s \o t)[Len(s) + i] = x
    BY <1>1, <2>1, <2>2
  <2>4. QED
    BY <1>1, <2>2, <2>3 DEF Mentioned
<1>5. QED
  BY <1>2, <1>3, <1>4

(* The edges the cycle walk reads: the default and every condition's goto.  *)
LEMMA MentionedCycleEdges ==
  ASSUME NEW f, IsFlow(f), NEW n \in StepIds(f)
  PROVE  Mentioned(CycleEdges(f, n)) =
           {f.steps[n].default} \cup
           {f.steps[n].conditions[i].goto : i \in 1..Len(f.steps[n].conditions)}
<1> DEFINE step == f.steps[n]
<1>1. step.default \in Targets /\ step.conditions \in Seq(Condition)
  BY DEF IsFlow, StepIds, StepRecord
<1>2. /\ Len(step.conditions) \in Nat
      /\ \A i \in 1..Len(step.conditions) : step.conditions[i].goto \in Targets
  <2>1. \A i \in 1..Len(step.conditions) : step.conditions[i] \in Condition
    BY <1>1, ElementOfSeq
  <2>2. QED
    BY <1>1, <2>1, LenProperties DEF Condition
<1>3. /\ ConditionTargets(step) \in Seq(Targets)
      /\ Len(ConditionTargets(step)) = Len(step.conditions)
      /\ \A i \in 1..Len(step.conditions) : ConditionTargets(step)[i] = step.conditions[i].goto
  BY <1>2, IsASeq DEF ConditionTargets
<1>4. Mentioned(ConditionTargets(step)) =
        {step.conditions[i].goto : i \in 1..Len(step.conditions)}
  BY <1>3 DEF Mentioned
<1>5. <<step.default>> \in Seq(Targets) /\ Mentioned(<<step.default>>) = {step.default}
  <2>1. /\ <<step.default>> \in Seq(Targets) /\ Len(<<step.default>>) = 1
        /\ <<step.default>>[1] = step.default
    BY <1>1
  <2>2. 1..1 = {1}
    OBVIOUS
  <2>3. Mentioned(<<step.default>>) = {<<step.default>>[i] : i \in {1}}
    BY <2>1, <2>2 DEF Mentioned
  <2>4. QED
    BY <2>1, <2>3
<1>6. Mentioned(<<step.default>> \o ConditionTargets(step)) =
        Mentioned(<<step.default>>) \cup Mentioned(ConditionTargets(step))
  <2> DEFINE first == <<step.default>>
             rest == ConditionTargets(step)
  <2>1. first \in Seq(Targets) /\ rest \in Seq(Targets)
    BY <1>3, <1>5
  <2> HIDE DEF first, rest
  <2>2. Mentioned(first \o rest) = Mentioned(first) \cup Mentioned(rest)
    BY <2>1, MentionedConcat
  <2>3. QED
    BY <2>2 DEF first, rest
<1>7. CycleEdges(f, n) = <<step.default>> \o ConditionTargets(step)
  BY DEF CycleEdges
<1>8. QED
  BY <1>4, <1>5, <1>6, <1>7

(* All the edges of a step are a sequence of targets.                       *)
LEMMA ReachEdgesType ==
  ASSUME NEW f, IsFlow(f), NEW n
  PROVE  ReachEdges(f, n) \in Seq(Targets)
<1>1. CASE n \notin StepIds(f)
  BY <1>1 DEF ReachEdges
<1>2. CASE n \in StepIds(f)
  <2> DEFINE step == f.steps[n]
  <2>1. step \in StepRecord
    BY <1>2 DEF IsFlow, StepIds
  <2>2. /\ step.members \in Seq(Targets)
        /\ step.rendezvous \in Targets /\ step.errorGoto \in Targets
    BY <2>1 DEF StepRecord
  <2>3. <<step.rendezvous, step.errorGoto>> \in Seq(Targets)
    BY <2>2
  <2>4. CycleEdges(f, n) \o step.members \in Seq(Targets)
    BY <2>2, CycleEdgesType, ConcatProperties
  <2>5. (CycleEdges(f, n) \o step.members) \o <<step.rendezvous, step.errorGoto>> \in Seq(Targets)
    BY <2>3, <2>4, ConcatProperties
  <2>6. QED
    BY <1>2, <2>5 DEF ReachEdges
<1>3. QED
  BY <1>1, <1>2

(* All the edges of a step: its next targets and three further kinds.       *)
LEMMA MentionedReachEdges ==
  ASSUME NEW f, IsFlow(f), NEW n \in StepIds(f)
  PROVE  Mentioned(ReachEdges(f, n)) =
           Mentioned(CycleEdges(f, n)) \cup Mentioned(f.steps[n].members)
             \cup {f.steps[n].rendezvous, f.steps[n].errorGoto}
<1> DEFINE step == f.steps[n]
           last == <<step.rendezvous, step.errorGoto>>
<1>1. step \in StepRecord
  BY DEF IsFlow, StepIds
<1>2. step.members \in Seq(Targets) /\ step.rendezvous \in Targets /\ step.errorGoto \in Targets
  BY <1>1 DEF StepRecord
<1>3. last \in Seq(Targets) /\ Mentioned(last) = {step.rendezvous, step.errorGoto}
  <2>1. /\ last \in Seq(Targets) /\ Len(last) = 2
        /\ last[1] = step.rendezvous /\ last[2] = step.errorGoto
    BY <1>2
  <2>2. 1..2 = {1, 2}
    OBVIOUS
  <2>3. Mentioned(last) = {last[i] : i \in {1, 2}}
    BY <2>1, <2>2 DEF Mentioned
  <2>4. QED
    BY <2>1, <2>3
<1>4. CycleEdges(f, n) \in Seq(Targets)
  BY CycleEdgesType
<1>5. ReachEdges(f, n) = (CycleEdges(f, n) \o step.members) \o last
  BY DEF ReachEdges
<1> HIDE DEF step, last
<1>6. /\ CycleEdges(f, n) \o step.members \in Seq(Targets)
      /\ Mentioned(CycleEdges(f, n) \o step.members) = Mentioned(CycleEdges(f, n)) \cup Mentioned(step.members)
  BY <1>2, <1>4, MentionedConcat, ConcatProperties
<1>7. Mentioned((CycleEdges(f, n) \o step.members) \o last)
        = Mentioned(CycleEdges(f, n) \o step.members) \cup Mentioned(last)
  <2> DEFINE first == CycleEdges(f, n) \o step.members
  <2>1. first \in Seq(Targets)
    BY <1>6
  <2> HIDE DEF first
  <2>2. Mentioned(first \o last) = Mentioned(first) \cup Mentioned(last)
    BY <1>3, <2>1, MentionedConcat
  <2>3. QED
    BY <2>2 DEF first
<1>8. QED
  BY <1>3, <1>5, <1>6, <1>7 DEF step

(* The least closed set holds the seeds and is closed under the edges.      *)
LEMMA LeastClosed ==
  ASSUME NEW f, IsFlow(f), HasStart(f)
  PROVE  /\ Seeds(f) \subseteq ReachableFrom(f)
         /\ Closed(f, ReachableFrom(f))
         /\ \A S \in SUBSET Names :
              Seeds(f) \subseteq S /\ Closed(f, S) => ReachableFrom(f) \subseteq S
<1>1. Seeds(f) \subseteq Names
  BY DEF IsFlow, HasStart, Seeds, IsWalkTarget, Targets, StepIds
<1>2. Seeds(f) \subseteq ReachableFrom(f)
  BY <1>1 DEF ReachableFrom, ClosedSets
<1>3. Closed(f, ReachableFrom(f))
  <2> SUFFICES ASSUME NEW n \in ReachableFrom(f),
                      NEW t \in Mentioned(ReachEdges(f, n)), IsWalkTarget(t)
               PROVE  t \in ReachableFrom(f)
    BY DEF Closed
  <2>1. t \in Names
    BY ReachEdgesType, MentionedType DEF IsWalkTarget, Targets
  <2>2. ASSUME NEW S \in ClosedSets(f) PROVE t \in S
    <3>1. n \in S
      BY <2>2 DEF ReachableFrom
    <3>2. QED
      BY <2>2, <3>1 DEF ClosedSets, Closed
  <2>3. QED
    BY <2>1, <2>2 DEF ReachableFrom
<1>4. \A S \in SUBSET Names :
        Seeds(f) \subseteq S /\ Closed(f, S) => ReachableFrom(f) \subseteq S
  BY DEF ReachableFrom, ClosedSets
<1>5. QED
  BY <1>2, <1>3, <1>4
==============================================================================
