--------------------------- MODULE ConnectivityProofs ---------------------------
(****************************************************************************)
(* Machine-checked proofs about validateConnectivity, for every set of      *)
(* names, every marker set, every order and every set of documents, in      *)
(* three parts: the cycle walk on its own, the breadth-first walk on its    *)
(* own, the whole rule.                                                     *)
(*                                                                          *)
(* Of the cycle walk: LoopInv carries the types, the agreement of its       *)
(* stacks and the soundness of the warning; LinksInv is the invariant of    *)
(* Tarjan's algorithm: what the low links mean, how the steps on the stack  *)
(* and the activations are connected, and that what has been popped is      *)
(* closed under edges.                                                      *)
(*                                                                          *)
(* The rule runs the two walks one after the other, so the invariants of    *)
(* both hold in it (StepsOfTheWalks); RuleInv says which findings are there *)
(* by the place the two loops over the sorted steps have come to, and gives *)
(* the promise the rule makes to its caller, step by step.                  *)
(****************************************************************************)
EXTENDS Connectivity, FlowGraphProofs, FiniteSetTheorems

------------------------------------------------------------------------------
(* The cycle walk.                                                          *)

(* The followed set of a step holds the step, is closed and has steps only. *)
LEMMA FollowedLeast ==
  ASSUME NEW f, NEW id \in StepIds(f)
  PROVE  /\ id \in FollowedFrom(f, id)
         /\ FollowClosed(f, FollowedFrom(f, id))
         /\ FollowedFrom(f, id) \subseteq StepIds(f)
<1>1. id \in FollowedFrom(f, id) /\ FollowedFrom(f, id) \subseteq StepIds(f)
  BY DEF FollowedFrom
<1>2. FollowClosed(f, FollowedFrom(f, id))
  <2> SUFFICES ASSUME NEW n \in FollowedFrom(f, id),
                      NEW t \in Mentioned(CycleEdges(f, n)), IsFollowed(f, t)
               PROVE  t \in FollowedFrom(f, id)
    BY DEF FollowClosed
  <2>1. t \in StepIds(f)
    BY DEF IsFollowed
  <2>2. ASSUME NEW S \in SUBSET StepIds(f), id \in S, FollowClosed(f, S) PROVE t \in S
    <3>1. n \in S
      BY <2>2 DEF FollowedFrom
    <3>2. QED
      BY <2>2, <3>1 DEF FollowClosed
  <2>3. QED
    BY <2>1, <2>2 DEF FollowedFrom
<1>3. QED
  BY <1>1, <1>2

(* Moving the last activation on touches nothing but its pending edges.     *)
LEMMA AdvanceProperties ==
  ASSUME NEW seq \in Seq(Frame), seq # <<>>, seq[Len(seq)].rest # <<>>
  PROVE  /\ Advance(seq) \in Seq(Frame) /\ Advance(seq) # <<>>
         /\ Len(Advance(seq)) = Len(seq)
         /\ \A i \in 1..Len(seq) : Advance(seq)[i].id = seq[i].id
         /\ \A i \in 1..(Len(seq) - 1) : Advance(seq)[i] = seq[i]
         /\ \A i \in 1..Len(seq) :
              Mentioned(Advance(seq)[i].rest) \subseteq Mentioned(seq[i].rest)
<1> DEFINE n == Len(seq)
           last == seq[n]
           moved == [last EXCEPT !.rest = Tail(@)]
<1>1. n \in 1..n /\ n \in Nat
  BY LenProperties, EmptySeq
<1>2. last \in Frame
  BY <1>1, ElementOfSeq
<1>3. last.rest \in Seq(Targets) /\ last.id \in Names
  BY <1>2 DEF Frame
<1>4. /\ Mentioned(last.rest) = {Head(last.rest)} \cup Mentioned(Tail(last.rest))
      /\ Tail(last.rest) \in Seq(Targets)
  BY <1>3, MentionedHeadTail
<1>5. moved \in Frame /\ moved.id = last.id /\ moved.rest = Tail(last.rest)
  BY <1>2, <1>4 DEF Frame
<1>6. Advance(seq) = [seq EXCEPT ![n] = moved]
  BY DEF Advance
<1>7. /\ Advance(seq) \in Seq(Frame)
      /\ Len(Advance(seq)) = n
      /\ \A i \in 1..n : Advance(seq)[i] = IF i = n THEN moved ELSE seq[i]
  BY <1>1, <1>5, <1>6, ExceptSeq
<1> HIDE DEF moved
<1>8. \A i \in 1..(n - 1) : Advance(seq)[i] = seq[i]
  BY <1>1, <1>7
<1>9. \A i \in 1..n : /\ Advance(seq)[i].id = seq[i].id
                      /\ Mentioned(Advance(seq)[i].rest) \subseteq Mentioned(seq[i].rest)
  <2> TAKE i \in 1..n
  <2>1. CASE i = n
    BY <1>1, <1>4, <1>5, <1>7, <2>1
  <2>2. CASE i # n
    BY <1>7, <2>2
  <2>3. QED
    BY <2>1, <2>2
<1>10. QED
  BY <1>1, <1>7, <1>8, <1>9, EmptySeq

(* The innermost activation, where there is one.                            *)
LEMMA TopProperties ==
  ASSUME LoopInv, frames # <<>>
  PROVE  /\ Len(frames) \in Nat /\ Len(frames) >= 1
         /\ Top = frames[Len(frames)] /\ Top \in Frame
         /\ Top.id \in onStack /\ Top.id \in DOMAIN indices
         /\ Top.rest \in Seq(Targets)
         /\ Mentioned(Top.rest) \subseteq Mentioned(CycleEdges(flow, Top.id))
<1>1. frames \in Seq(Frame)
  BY DEF LoopInv, LoopTypeOK
<1>2. Len(frames) \in Nat /\ Len(frames) >= 1
  BY <1>1, LenProperties, EmptySeq
<1>3. Top = frames[Len(frames)] /\ Top \in Frame
  BY <1>1, <1>2, ElementOfSeq DEF Top
<1>4. Top.id \in onStack /\ Top.id \in DOMAIN indices
  BY <1>2, <1>3 DEF LoopInv, StacksAgree, LoopTypeOK
<1>5. QED
  BY <1>2, <1>3, <1>4 DEF LoopInv, CallsOK, Frame

LEMMA InitLoopInv == LoopInit => LoopInv
<1> SUFFICES ASSUME LoopInit PROVE LoopInv
  OBVIOUS
<1>1. /\ IsFlow(flow) /\ loopPc = "begin" /\ index = 0 /\ indices = <<>> /\ low = <<>>
      /\ stack = <<>> /\ onStack = {} /\ frames = <<>> /\ found = FALSE
  BY FlowsAssumption DEF LoopInit, InitLoop
<1>2. DOMAIN indices = {} /\ indices \in [{} -> Nat] /\ low \in [{} -> Nat]
  BY <1>1
<1>3. stack \in Seq(DOMAIN indices) /\ frames \in Seq(Frame) /\ Len(stack) = 0 /\ Len(frames) = 0
  BY <1>1
<1>4. LoopTypeOK
  BY <1>1, <1>2, <1>3 DEF LoopTypeOK
<1>5. StacksAgree /\ NumbersOK /\ CallsOK /\ VisitsFollowed /\ FoundSound
  BY <1>1, <1>2, <1>3, MentionedEmpty
  DEF StacksAgree, NumbersOK, CallsOK, VisitsFollowed, FoundSound
<1>6. QED
  BY <1>4, <1>5 DEF LoopInv

(* Numbering, pushing and calling a step not seen before.                   *)
LEMMA EnterPreserves ==
  ASSUME LoopInv, NEW id \in StepIds(flow), id \notin DOMAIN indices,
         HasStart(flow), id \in FollowedFrom(flow, flow.start),
         frames = <<>> => index = 0,
         frames # <<>> => Top.rest # <<>>,
         loopPc' = "walk", Enter(id)
  PROVE  LoopInv'
<1> DEFINE D == DOMAIN indices
<1>1. /\ IsFlow(flow) /\ index \in Nat /\ D \subseteq StepIds(flow)
      /\ indices \in [D -> Nat] /\ low \in [D -> Nat]
      /\ stack \in Seq(D) /\ onStack \in SUBSET D /\ frames \in Seq(Frame) /\ found \in BOOLEAN
  BY DEF LoopInv, LoopTypeOK
<1>2. /\ index' = index + 1 /\ flow' = flow /\ found' = found
      /\ indices' = [x \in D \cup {id} |-> IF x = id THEN index ELSE indices[x]]
      /\ DOMAIN low = D
      /\ low' = [x \in D \cup {id} |-> IF x = id THEN index ELSE low[x]]
      /\ stack' = Append(stack, id) /\ onStack' = onStack \cup {id}
      /\ frames' = Append(frames, [id |-> id, rest |-> CycleEdges(flow, id)])
  BY <1>1 DEF Enter, Extend
<1>3. /\ DOMAIN indices' = D \cup {id}
      /\ indices' \in [D \cup {id} -> Nat] /\ low' \in [D \cup {id} -> Nat]
  BY <1>1, <1>2
<1>4. /\ stack \in Seq(D \cup {id})
      /\ stack' \in Seq(D \cup {id}) /\ Len(stack') = Len(stack) + 1
      /\ \A i \in 1..Len(stack) : stack'[i] = stack[i]
      /\ stack'[Len(stack) + 1] = id
      /\ Mentioned(stack') = Mentioned(stack) \cup {id}
  <2>1. stack \in Seq(D \cup {id})
    BY <1>1, SeqMonotonic
  <2>2. QED
    BY <1>2, <2>1, AppendProperties, MentionedAppend
<1>5. [id |-> id, rest |-> CycleEdges(flow, id)] \in Frame
  <2>1. id \in Names
    BY <1>1 DEF IsFlow, StepIds
  <2>2. QED
    BY <1>1, <2>1, CycleEdgesType DEF Frame
<1>6. /\ frames' \in Seq(Frame) /\ frames' # <<>> /\ Len(frames') = Len(frames) + 1
      /\ \A i \in 1..Len(frames) : frames'[i] = frames[i]
      /\ frames'[Len(frames) + 1] = [id |-> id, rest |-> CycleEdges(flow, id)]
      /\ Len(frames) \in Nat /\ Len(stack) \in Nat
  <2> DEFINE new == [id |-> id, rest |-> CycleEdges(flow, id)]
  <2>1. frames \in Seq(Frame) /\ frames' = Append(frames, new) /\ new \in Frame
    BY <1>1, <1>2, <1>5
  <2>2. Len(frames) \in Nat /\ Len(stack) \in Nat
    BY <1>1, LenProperties
  <2> HIDE DEF new
  <2>3. /\ frames' \in Seq(Frame) /\ frames' # <<>> /\ Len(frames') = Len(frames) + 1
        /\ \A i \in 1..Len(frames) : frames'[i] = frames[i]
        /\ frames'[Len(frames) + 1] = new
    BY <2>1, AppendProperties
  <2>4. QED
    BY <2>2, <2>3 DEF new
<1>7. LoopTypeOK'
  BY <1>1, <1>2, <1>3, <1>4, <1>6 DEF LoopTypeOK, StepIds
<1>8. NumbersOK'
  <2>1. \A x \in D : indices'[x] = indices[x] /\ low'[x] = low[x] /\ indices[x] < index
    BY <1>2 DEF LoopInv, NumbersOK
  <2>2. indices'[id] = index /\ low'[id] = index
    BY <1>2
  <2>3. \A x \in D : indices[x] \in Nat
    BY <1>1
  <2>4. \A x, y \in D \cup {id} : indices'[x] = indices'[y] => x = y
    BY <1>1, <2>1, <2>2, <2>3 DEF LoopInv, NumbersOK
  <2>5. \A x \in D \cup {id} : indices'[x] < index' /\ low'[x] <= indices'[x]
    BY <1>1, <1>2, <2>1, <2>2, <2>3 DEF LoopInv, NumbersOK
  <2>6. QED
    BY <1>3, <2>4, <2>5 DEF NumbersOK
<1>9. StacksAgree'
  <2>1. \A x \in D : indices'[x] = indices[x] /\ indices[x] < index /\ indices[x] \in Nat
    BY <1>1, <1>2 DEF LoopInv, NumbersOK
  <2>2. indices'[id] = index
    BY <1>2
  <2>3. \A i \in 1..Len(stack) : stack[i] \in D
    BY <1>1, ElementOfSeq
  <2>4. \A i, j \in 1..Len(stack') : i < j => indices'[stack'[i]] < indices'[stack'[j]]
    <3> SUFFICES ASSUME NEW i \in 1..Len(stack'), NEW j \in 1..Len(stack'), i < j
                 PROVE  indices'[stack'[i]] < indices'[stack'[j]]
      OBVIOUS
    <3>1. i \in 1..Len(stack) /\ stack'[i] = stack[i]
      BY <1>4, <1>6
    <3>2. CASE j \in 1..Len(stack)
      BY <1>4, <2>1, <2>3, <3>1, <3>2 DEF LoopInv, StacksAgree
    <3>3. CASE j = Len(stack) + 1
      BY <1>4, <2>1, <2>2, <2>3, <3>1, <3>3
    <3>4. QED
      BY <1>4, <1>6, <3>2, <3>3
  <2>5. \A i \in 1..Len(frames) : frames[i].id \in onStack /\ frames[i].id \in D
    BY <1>1 DEF LoopInv, StacksAgree
  <2>6. \A i \in 1..Len(frames') : frames'[i].id \in onStack'
    BY <1>2, <1>6, <2>5
  <2>7. \A i, j \in 1..Len(frames') : i < j => indices'[frames'[i].id] < indices'[frames'[j].id]
    <3> SUFFICES ASSUME NEW i \in 1..Len(frames'), NEW j \in 1..Len(frames'), i < j
                 PROVE  indices'[frames'[i].id] < indices'[frames'[j].id]
      OBVIOUS
    <3>1. i \in 1..Len(frames) /\ frames'[i] = frames[i]
      BY <1>6
    <3>2. CASE j \in 1..Len(frames)
      <4>1. frames'[j] = frames[j]
        BY <1>6, <3>2
      <4>2. indices[frames[i].id] < indices[frames[j].id]
        BY <3>1, <3>2 DEF LoopInv, StacksAgree
      <4>3. QED
        BY <2>1, <2>5, <3>1, <3>2, <4>1, <4>2
    <3>3. CASE j = Len(frames) + 1
      BY <1>6, <2>1, <2>2, <2>5, <3>1, <3>3
    <3>4. Len(frames') = Len(frames) + 1 /\ Len(frames) \in Nat
      BY <1>6
    <3>5. j \in 1..Len(frames) \/ j = Len(frames) + 1
      BY <3>4
    <3>6. QED
      BY <3>2, <3>3, <3>5
  <2>8. onStack' = Mentioned(stack')
    BY <1>2, <1>4 DEF LoopInv, StacksAgree
  <2>9. QED
    BY <1>6, <2>4, <2>6, <2>7, <2>8 DEF StacksAgree
<1>10. CallsOK'
  <2>1. \A i \in 1..Len(frames') :
          Mentioned(frames'[i].rest) \subseteq Mentioned(CycleEdges(flow, frames'[i].id))
    <3> TAKE i \in 1..Len(frames')
    <3>1. CASE i \in 1..Len(frames)
      BY <1>6, <3>1 DEF LoopInv, CallsOK
    <3>2. CASE i = Len(frames) + 1
      BY <1>6, <3>2
    <3>3. QED
      BY <1>6, <3>1, <3>2
  <2>2. \A i \in 1..(Len(frames') - 1) : frames'[i].rest # <<>>
    <3> TAKE i \in 1..(Len(frames') - 1)
    <3>1. i \in 1..Len(frames) /\ frames'[i] = frames[i]
      BY <1>6
    <3>2. CASE i = Len(frames)
      <4>1. frames # <<>>
        BY <1>1, <3>1, EmptySeq
      <4>2. QED
        BY <3>1, <3>2, <4>1 DEF Top
    <3>3. CASE i # Len(frames)
      BY <1>6, <3>1, <3>3 DEF LoopInv, CallsOK
    <3>4. QED
      BY <3>2, <3>3
  <2>3. indices'[frames'[1].id] = 0
    <3>1. CASE frames = <<>>
      BY <1>2, <1>6, <3>1
    <3>2. CASE frames # <<>>
      <4>1. 1 \in 1..Len(frames) /\ frames'[1] = frames[1]
        <5>1. Len(frames) >= 1
          BY <1>1, <3>2, LenProperties, EmptySeq
        <5>2. QED
          BY <1>6, <5>1
      <4>2. frames[1].id \in D /\ indices[frames[1].id] = 0
        BY <1>1, <3>2, <4>1 DEF LoopInv, StacksAgree, CallsOK
      <4>3. QED
        BY <1>2, <4>1, <4>2
    <3>3. QED
      BY <3>1, <3>2
  <2>4. QED
    BY <1>2, <2>1, <2>2, <2>3 DEF CallsOK
<1>11. VisitsFollowed'
  BY <1>2, <1>3 DEF LoopInv, VisitsFollowed
<1>12. FoundSound'
  BY <1>2 DEF LoopInv, FoundSound
<1>13. QED
  BY <1>7, <1>8, <1>9, <1>10, <1>11, <1>12 DEF LoopInv

(* Returning from an activation: the callers are kept, in order, with no    *)
(* new pending edges, and a low link can only drop.                         *)
LEMMA ReturnProperties ==
  ASSUME LoopInv, frames # <<>>, Return
  PROVE  /\ frames' \in Seq(Frame) /\ Len(frames') = Len(frames) - 1
         /\ \A i \in 1..(Len(frames) - 1) :
              /\ frames'[i].id = frames[i].id
              /\ Mentioned(frames'[i].rest) \subseteq Mentioned(frames[i].rest)
         /\ \A i \in 1..(Len(frames) - 2) : frames'[i].rest # <<>>
         /\ low' \in [DOMAIN indices -> Nat]
         /\ \A x \in DOMAIN indices : low'[x] <= low[x]
<1> DEFINE n == Len(frames)
<1>1. /\ frames \in Seq(Frame) /\ n \in Nat /\ n >= 1
      /\ low \in [DOMAIN indices -> Nat]
      /\ \A x \in DOMAIN indices : low[x] \in Nat
      /\ \A i \in 1..n : frames[i] \in Frame /\ frames[i].id \in DOMAIN indices
  <2>1. frames \in Seq(Frame) /\ low \in [DOMAIN indices -> Nat]
    BY DEF LoopInv, LoopTypeOK
  <2>2. \A i \in 1..n : frames[i] \in Frame /\ frames[i].id \in DOMAIN indices
    BY <2>1, ElementOfSeq DEF LoopInv, LoopTypeOK, StacksAgree
  <2>3. QED
    BY <2>1, <2>2, TopProperties
<1>2. /\ Callers \in Seq(Frame) /\ Len(Callers) = n - 1
      /\ \A i \in 1..(n - 1) : Callers[i] = frames[i]
  <2>1. n - 1 \in Nat /\ n - 1 <= Len(frames)
    BY <1>1
  <2>2. QED
    BY <1>1, <2>1, PrefixProperties DEF Callers
<1>3. CASE Callers = <<>>
  <2>1. n = 1 /\ frames' = <<>> /\ low' = low
    BY <1>1, <1>2, <1>3, EmptySeq DEF Return
  <2>2. frames' \in Seq(Frame) /\ Len(frames') = 0
    BY <2>1
  <2>3. QED
    BY <1>1, <2>1, <2>2
<1>4. CASE Callers # <<>>
  <2>1. n >= 2
    BY <1>1, <1>2, <1>4, EmptySeq
  <2>2. Callers[Len(Callers)] = frames[n - 1] /\ frames[n - 1].rest # <<>>
    BY <1>1, <1>2, <2>1 DEF LoopInv, CallsOK
  <2>3. frames' = Advance(Callers)
    BY <1>4 DEF Return
  <2>4. /\ frames' \in Seq(Frame) /\ Len(frames') = n - 1
        /\ \A i \in 1..(n - 1) :
             /\ frames'[i].id = frames[i].id
             /\ Mentioned(frames'[i].rest) \subseteq Mentioned(frames[i].rest)
        /\ \A i \in 1..(n - 2) : frames'[i] = frames[i]
    <3>1. Callers[Len(Callers)].rest # <<>>
      BY <2>2
    <3>2. /\ frames' \in Seq(Frame)
          /\ Len(frames') = Len(Callers)
          /\ \A i \in 1..Len(Callers) : frames'[i].id = Callers[i].id
          /\ \A i \in 1..(Len(Callers) - 1) : frames'[i] = Callers[i]
          /\ \A i \in 1..Len(Callers) :
               Mentioned(frames'[i].rest) \subseteq Mentioned(Callers[i].rest)
      BY <1>2, <1>4, <2>3, <3>1, AdvanceProperties
    <3>3. \A i \in 1..(n - 2) : i \in 1..(n - 1) /\ i \in 1..(Len(Callers) - 1)
      BY <1>1, <1>2
    <3>4. QED
      BY <1>2, <3>2, <3>3
  <2>5. \A i \in 1..(n - 2) : frames[i].rest # <<>>
    BY <1>1 DEF LoopInv, CallsOK
  <2>6. /\ low' \in [DOMAIN indices -> Nat]
        /\ \A x \in DOMAIN indices : low'[x] <= low[x]
    <3> DEFINE caller == frames[n - 1].id
    <3>1. caller \in DOMAIN indices /\ Top.id \in DOMAIN indices
      BY <1>1, <2>1, TopProperties
    <3>2. low' = IF low[Top.id] < low[caller] THEN [low EXCEPT ![caller] = low[Top.id]] ELSE low
      BY <1>4, <2>2 DEF Return
    <3> HIDE DEF caller
    <3>3. QED
      BY <1>1, <3>1, <3>2
  <2>7. QED
    BY <2>4, <2>5, <2>6
<1>5. QED
  BY <1>3, <1>4

(* The component popped for the innermost activation: the top of the stack  *)
(* from its step on, that is, its steps have the larger visit numbers.      *)
LEMMA ComponentProperties ==
  ASSUME LoopInv, frames # <<>>,
         stack' = SubSeq(stack, 1, PositionOf(Top.id) - 1)
  PROVE  /\ PositionOf(Top.id) \in 1..Len(stack) /\ stack[PositionOf(Top.id)] = Top.id
         /\ Top.id \in Component(Top.id)
         /\ Component(Top.id) \subseteq DOMAIN indices
         /\ \A c \in Component(Top.id) : indices[Top.id] <= indices[c]
         /\ stack' \in Seq(DOMAIN indices)
         /\ Len(stack') = PositionOf(Top.id) - 1
         /\ \A i \in 1..Len(stack') : stack'[i] = stack[i]
         /\ Mentioned(stack') = Mentioned(stack) \ Component(Top.id)
<1> DEFINE D == DOMAIN indices
           p == PositionOf(Top.id)
<1>1. /\ stack \in Seq(D) /\ indices \in [D -> Nat]
      /\ \A i \in 1..Len(stack) : stack[i] \in D /\ indices[stack[i]] \in Nat
      /\ Len(stack) \in Nat
  <2>1. stack \in Seq(D) /\ indices \in [D -> Nat]
    BY DEF LoopInv, LoopTypeOK
  <2>2. QED
    BY <2>1, ElementOfSeq, LenProperties
<1>2. p \in 1..Len(stack) /\ stack[p] = Top.id
  <2>1. Top.id \in Mentioned(stack)
    BY TopProperties DEF LoopInv, StacksAgree
  <2>2. \E i \in 1..Len(stack) : stack[i] = Top.id
    BY <2>1 DEF Mentioned
  <2>3. QED
    BY <2>2 DEF PositionOf
<1>3. \A i, j \in 1..Len(stack) : i < j => indices[stack[i]] < indices[stack[j]]
  BY DEF LoopInv, StacksAgree
<1>4. Component(Top.id) = {stack[i] : i \in p..Len(stack)}
  BY DEF Component
<1>5. /\ stack' \in Seq(D) /\ Len(stack') = p - 1
      /\ \A i \in 1..(p - 1) : stack'[i] = stack[i]
  <2>1. p - 1 \in Nat /\ p - 1 <= Len(stack)
    BY <1>1, <1>2
  <2>2. QED
    BY <1>1, <2>1, PrefixProperties
<1> HIDE DEF p
<1>6. \A c \in Component(Top.id) : c \in D /\ indices[Top.id] <= indices[c]
  <2> TAKE c \in Component(Top.id)
  <2>1. PICK i \in p..Len(stack) : c = stack[i]
    BY <1>4
  <2>2. CASE i = p
    BY <1>1, <1>2, <2>1, <2>2
  <2>3. CASE i # p
    BY <1>1, <1>2, <1>3, <2>1, <2>3
  <2>4. QED
    BY <2>2, <2>3
<1>7. Mentioned(stack') = Mentioned(stack) \ Component(Top.id)
  <2>1. ASSUME NEW x \in Mentioned(stack') PROVE x \in Mentioned(stack) \ Component(Top.id)
    <3>1. PICK i \in 1..(p - 1) : x = stack[i]
      BY <1>5 DEF Mentioned
    <3>2. x \in Mentioned(stack)
      BY <1>1, <1>2, <3>1 DEF Mentioned
    <3>3. indices[x] < indices[Top.id] /\ indices[x] \in Nat /\ indices[Top.id] \in Nat
      <4>1. i \in 1..Len(stack) /\ i < p
        BY <1>1, <1>2, <3>1
      <4>2. QED
        BY <1>1, <1>2, <1>3, <3>1, <4>1
    <3>4. QED
      BY <1>1, <1>6, <3>2, <3>3
  <2>2. ASSUME NEW x \in Mentioned(stack), x \notin Component(Top.id)
        PROVE  x \in Mentioned(stack')
    <3>1. PICK i \in 1..Len(stack) : x = stack[i]
      BY DEF Mentioned
    <3>2. i \in 1..(p - 1)
      BY <1>1, <1>2, <1>4, <2>2, <3>1
    <3>3. QED
      BY <1>5, <3>1, <3>2 DEF Mentioned
  <2>3. QED
    BY <2>1, <2>2
<1>8. Top.id \in Component(Top.id)
  BY <1>1, <1>2, <1>4
<1>9. QED
  BY <1>2, <1>5, <1>6, <1>7, <1>8 DEF p

(* A step of the walk that visits nothing new: it drops at most the last    *)
(* activation and the top of the stack, lowers low links, and is allowed a  *)
(* verdict that is sound.                                                   *)
LEMMA MoveOnPreserves ==
  ASSUME LoopInv, loopPc = "walk", UNCHANGED <<flow, loopPc, index, indices>>,
         frames' \in Seq(Frame), Len(frames') <= Len(frames), frames # <<>>,
         \A i \in 1..Len(frames') :
           /\ frames'[i].id = frames[i].id
           /\ Mentioned(frames'[i].rest) \subseteq Mentioned(frames[i].rest)
           /\ frames'[i].id \in onStack',
         \A i \in 1..(Len(frames') - 1) : frames'[i].rest # <<>>,
         low' \in [DOMAIN indices -> Nat],
         \A x \in DOMAIN indices : low'[x] <= low[x],
         stack' \in Seq(DOMAIN indices), Len(stack') <= Len(stack),
         \A i \in 1..Len(stack') : stack'[i] = stack[i],
         onStack' = Mentioned(stack'),
         frames' = <<>> => stack' = <<>>,
         found' \in BOOLEAN, found' => HasTrap(flow)
  PROVE  LoopInv'
<1> DEFINE D == DOMAIN indices
<1>1. /\ IsFlow(flow) /\ index \in Nat /\ D \subseteq StepIds(flow)
      /\ indices \in [D -> Nat] /\ low \in [D -> Nat]
      /\ Len(stack) \in Nat /\ Len(frames) \in Nat /\ Len(frames) >= 1
      /\ Len(stack') \in Nat /\ Len(frames') \in Nat
  BY TopProperties, LenProperties DEF LoopInv, LoopTypeOK
<1>2. flow' = flow /\ loopPc' = loopPc /\ index' = index /\ indices' = indices
  OBVIOUS
<1>3. onStack' \subseteq D
  BY MentionedType
<1>4. LoopTypeOK'
  BY <1>1, <1>2, <1>3 DEF LoopTypeOK
<1>5. StacksAgree'
  <2>1. \A i, j \in 1..Len(stack') : i < j => indices[stack'[i]] < indices[stack'[j]]
    <3>1. \A i \in 1..Len(stack') : i \in 1..Len(stack)
      BY <1>1
    <3>2. QED
      BY <3>1 DEF LoopInv, StacksAgree
  <2>2. \A i, j \in 1..Len(frames') : i < j => indices[frames'[i].id] < indices[frames'[j].id]
    <3>1. \A i \in 1..Len(frames') : i \in 1..Len(frames)
      BY <1>1
    <3>2. QED
      BY <3>1 DEF LoopInv, StacksAgree
  <2>3. QED
    BY <1>2, <2>1, <2>2 DEF StacksAgree
<1>6. NumbersOK'
  <2>1. \A x \in D : low'[x] <= indices[x]
    BY <1>1 DEF LoopInv, NumbersOK
  <2>2. QED
    BY <1>2, <2>1 DEF LoopInv, NumbersOK
<1>7. CallsOK'
  <2>1. \A i \in 1..Len(frames') :
          Mentioned(frames'[i].rest) \subseteq Mentioned(CycleEdges(flow, frames'[i].id))
    <3>1. \A i \in 1..Len(frames') : i \in 1..Len(frames)
      BY <1>1
    <3>2. QED
      BY <3>1 DEF LoopInv, CallsOK
  <2>2. frames' # <<>> => indices[frames'[1].id] = 0
    <3> SUFFICES ASSUME frames' # <<>> PROVE indices[frames'[1].id] = 0
      OBVIOUS
    <3>1. 1 \in 1..Len(frames')
      BY <1>1, EmptySeq
    <3>2. QED
      BY <3>1 DEF LoopInv, CallsOK
  <2>3. QED
    BY <1>2, <2>1, <2>2 DEF CallsOK
<1>8. VisitsFollowed'
  BY <1>2 DEF LoopInv, VisitsFollowed
<1>9. FoundSound'
  BY <1>2 DEF FoundSound
<1>10. QED
  BY <1>4, <1>5, <1>6, <1>7, <1>8, <1>9 DEF LoopInv

(* The pass from one edge to the next, with a low link that may drop.       *)
LEMMA AdvancePreserves ==
  ASSUME LoopInv, Walking, Top.rest # <<>>, frames' = Advance(frames),
         UNCHANGED <<flow, loopPc, index, indices, stack, onStack, found>>,
         low' \in [DOMAIN indices -> Nat],
         \A x \in DOMAIN indices : low'[x] <= low[x]
  PROVE  LoopInv'
<1>1. /\ frames \in Seq(Frame) /\ frames # <<>> /\ frames[Len(frames)].rest # <<>>
      /\ Len(frames) \in Nat /\ stack \in Seq(DOMAIN indices) /\ Len(stack) \in Nat
  BY TopProperties, LenProperties DEF LoopInv, LoopTypeOK, Walking
<1>2. /\ frames' \in Seq(Frame) /\ frames' # <<>> /\ Len(frames') = Len(frames)
      /\ \A i \in 1..Len(frames) : frames'[i].id = frames[i].id
      /\ \A i \in 1..(Len(frames) - 1) : frames'[i] = frames[i]
      /\ \A i \in 1..Len(frames) :
           Mentioned(frames'[i].rest) \subseteq Mentioned(frames[i].rest)
  BY <1>1, AdvanceProperties
<1>3. \A i \in 1..(Len(frames') - 1) : frames'[i].rest # <<>>
  BY <1>2 DEF LoopInv, CallsOK
<1>4. \A i \in 1..Len(frames') : frames'[i].id \in onStack'
  BY <1>2 DEF LoopInv, StacksAgree
<1>5. onStack' = Mentioned(stack') /\ found' \in BOOLEAN /\ (found' => HasTrap(flow))
  BY DEF LoopInv, StacksAgree, LoopTypeOK, FoundSound
<1>6. /\ stack' \in Seq(DOMAIN indices) /\ Len(stack') <= Len(stack)
      /\ \A i \in 1..Len(stack') : stack'[i] = stack[i]
      /\ Len(frames') <= Len(frames)
  BY <1>1, <1>2
<1>7. \A i \in 1..Len(frames') :
        /\ frames'[i].id = frames[i].id
        /\ Mentioned(frames'[i].rest) \subseteq Mentioned(frames[i].rest)
        /\ frames'[i].id \in onStack'
  BY <1>2, <1>4
<1>8. loopPc = "walk" /\ UNCHANGED <<flow, loopPc, index, indices>> /\ frames # <<>>
  BY DEF Walking
<1>9. QED
  BY <1>2, <1>3, <1>5, <1>6, <1>7, <1>8, MoveOnPreserves

(* A component judged inescapable is a set control cannot leave.            *)
LEMMA InescapableIsTrap ==
  ASSUME LoopInv, NEW component, component # {}, component \subseteq DOMAIN indices,
         NEW id, IsInescapable(flow, id, component)
  PROVE  HasTrap(flow)
<1>1. HasStart(flow) /\ component \in SUBSET FollowedFrom(flow, flow.start)
  BY DEF LoopInv, VisitsFollowed
<1>2. ASSUME NEW n \in component
      PROVE  /\ ~flow.steps[n].fans /\ flow.steps[n].default # Absent
             /\ \A t \in Mentioned(CycleEdges(flow, n)) \ {Absent} :
                  ~IsNextMarker(t) /\ t \in component
  BY DEF IsInescapable, StepLeavesCycle
<1>3. IsTrap(flow, component)
  BY <1>2 DEF IsTrap
<1>4. QED
  BY <1>1, <1>3 DEF HasTrap

LEMMA NextLoopInv == LoopInv /\ [LoopNext]_<<flow, loopVars>> => LoopInv'
<1> SUFFICES ASSUME LoopInv, [LoopNext]_<<flow, loopVars>> PROVE LoopInv'
  OBVIOUS
<1>1. CASE NoStart
  <2>1. /\ loopPc = "begin" /\ loopPc' = "done" /\ frames = <<>>
    BY <1>1 DEF NoStart, LoopInv, CallsOK
  <2>2. LoopTypeOK' /\ StacksAgree' /\ NumbersOK' /\ VisitsFollowed' /\ FoundSound'
    BY <1>1 DEF NoStart, LoopInv, LoopTypeOK, StacksAgree, NumbersOK, VisitsFollowed, FoundSound
  <2>3. CallsOK'
    BY <1>1, <2>1 DEF NoStart, LoopInv, CallsOK
  <2>4. QED
    BY <2>2, <2>3 DEF LoopInv
<1>2. CASE Begin
  <2>1. /\ HasStart(flow) /\ flow.start \in StepIds(flow) /\ loopPc' = "walk"
        /\ Enter(flow.start)
    BY <1>2 DEF Begin, HasStart
  <2>2. indices = <<>> /\ index = 0 /\ frames = <<>>
    BY <1>2 DEF Begin, LoopInv, CallsOK
  <2>3. flow.start \notin DOMAIN indices
    BY <2>2
  <2>4. flow.start \in FollowedFrom(flow, flow.start)
    BY <2>1, FollowedLeast
  <2>5. QED
    BY <2>1, <2>2, <2>3, <2>4, EnterPreserves
<1>3. CASE PassEdge
  <2>1. /\ low' = low /\ low \in [DOMAIN indices -> Nat]
        /\ \A x \in DOMAIN indices : low[x] \in Nat
    BY <1>3 DEF PassEdge, LoopInv, LoopTypeOK
  <2>2. \A x \in DOMAIN indices : low'[x] <= low[x]
    BY <2>1
  <2>3. QED
    BY <1>3, <2>1, <2>2, AdvancePreserves DEF PassEdge
<1>4. CASE Call
  <2>1. /\ frames # <<>> /\ loopPc' = "walk" /\ Top.rest # <<>>
        /\ IsFollowed(flow, Pending) /\ Pending \notin DOMAIN indices /\ Enter(Pending)
    BY <1>4 DEF Call, Walking
  <2>2. HasStart(flow) /\ Top.id \in FollowedFrom(flow, flow.start)
    BY <2>1, TopProperties DEF LoopInv, VisitsFollowed
  <2>3. Pending \in Mentioned(CycleEdges(flow, Top.id))
    BY <2>1, TopProperties, MentionedHeadTail DEF Pending
  <2>4. Pending \in FollowedFrom(flow, flow.start)
    <3>1. FollowClosed(flow, FollowedFrom(flow, flow.start))
      BY <2>2, FollowedLeast DEF HasStart
    <3>2. QED
      BY <2>1, <2>2, <2>3, <3>1 DEF FollowClosed
  <2>5. Pending \in StepIds(flow)
    BY <2>1 DEF IsFollowed
  <2>6. QED
    BY <2>1, <2>2, <2>4, <2>5, EnterPreserves
<1>5. CASE Revisit
  <2>1. /\ Walking /\ Top.rest # <<>> /\ frames' = Advance(frames)
        /\ UNCHANGED <<flow, loopPc, index, indices, stack, onStack, found>>
        /\ Pending \in DOMAIN indices
        /\ low' = IF Pending \in onStack /\ indices[Pending] < low[Top.id]
                  THEN [low EXCEPT ![Top.id] = indices[Pending]] ELSE low
    BY <1>5 DEF Revisit
  <2>2. /\ indices \in [DOMAIN indices -> Nat] /\ low \in [DOMAIN indices -> Nat]
        /\ indices[Pending] \in Nat /\ \A x \in DOMAIN indices : low[x] \in Nat
    BY <2>1 DEF LoopInv, LoopTypeOK
  <2>3. /\ low' \in [DOMAIN indices -> Nat]
        /\ \A x \in DOMAIN indices : low'[x] <= low[x]
    <3>1. CASE Pending \in onStack /\ indices[Pending] < low[Top.id]
      <4> DEFINE top == Top.id
                 n == indices[Pending]
      <4>1. low' = [low EXCEPT ![top] = n] /\ n \in Nat /\ n < low[top]
        BY <2>1, <2>2, <3>1
      <4>2. top \in DOMAIN indices
        BY <2>1, TopProperties DEF Walking
      <4> HIDE DEF top, n
      <4>3. QED
        BY <2>2, <4>1, <4>2
    <3>2. CASE ~(Pending \in onStack /\ indices[Pending] < low[Top.id])
      BY <2>1, <2>2, <3>2
    <3>3. QED
      BY <3>1, <3>2
  <2>4. QED
    BY <2>1, <2>3, AdvancePreserves
<1>6. CASE ReturnOpen
  <2>1. /\ loopPc = "walk" /\ frames # <<>> /\ low[Top.id] # indices[Top.id] /\ Return
        /\ UNCHANGED <<flow, loopPc, index, indices, stack, onStack, found>>
    BY <1>6 DEF ReturnOpen, Walking
  <2>2. /\ Len(frames) \in Nat /\ Len(frames) >= 1 /\ Top.id \in DOMAIN indices
        /\ Top = frames[Len(frames)]
    BY <2>1, TopProperties
  <2>3. Len(frames) # 1
    <3> SUFFICES ASSUME Len(frames) = 1 PROVE FALSE
      OBVIOUS
    <3>1. indices[Top.id] = 0
      BY <2>1, <2>2 DEF LoopInv, CallsOK
    <3>2. low[Top.id] <= indices[Top.id] /\ low[Top.id] \in Nat
      BY <2>2 DEF LoopInv, NumbersOK, LoopTypeOK
    <3>3. QED
      BY <2>1, <3>1, <3>2
  <2>4. /\ frames' \in Seq(Frame) /\ Len(frames') = Len(frames) - 1
        /\ \A i \in 1..(Len(frames) - 1) :
             /\ frames'[i].id = frames[i].id
             /\ Mentioned(frames'[i].rest) \subseteq Mentioned(frames[i].rest)
        /\ \A i \in 1..(Len(frames) - 2) : frames'[i].rest # <<>>
        /\ low' \in [DOMAIN indices -> Nat]
        /\ \A x \in DOMAIN indices : low'[x] <= low[x]
    BY <2>1, ReturnProperties
  <2>5. /\ stack' \in Seq(DOMAIN indices) /\ Len(stack') <= Len(stack)
        /\ onStack' = Mentioned(stack') /\ found' \in BOOLEAN /\ (found' => HasTrap(flow))
    BY <2>1, LenProperties DEF LoopInv, LoopTypeOK, StacksAgree, FoundSound
  <2>6. \A i \in 1..Len(frames') : frames'[i].id \in onStack'
    BY <2>1, <2>2, <2>4 DEF LoopInv, StacksAgree
  <2>7. frames' # <<>> /\ Len(frames') <= Len(frames)
    BY <2>2, <2>3, <2>4, EmptySeq
  <2>8. \A i \in 1..(Len(frames') - 1) : frames'[i].rest # <<>>
    BY <2>2, <2>4
  <2>9. QED
    BY <2>1, <2>2, <2>4, <2>5, <2>6, <2>7, <2>8, MoveOnPreserves
<1>7. CASE CloseComponent
  <2> DEFINE C == Component(Top.id)
  <2>1. /\ loopPc = "walk" /\ frames # <<>> /\ Return
        /\ stack' = SubSeq(stack, 1, PositionOf(Top.id) - 1)
        /\ onStack' = onStack \ C
        /\ found' = (found \/ IsInescapable(flow, Top.id, C))
        /\ UNCHANGED <<flow, loopPc, index, indices>>
    BY <1>7 DEF CloseComponent, Walking
  <2>2. /\ Len(frames) \in Nat /\ Len(frames) >= 1 /\ Top.id \in DOMAIN indices
        /\ Top = frames[Len(frames)]
    BY <2>1, TopProperties
  <2>3. /\ frames' \in Seq(Frame) /\ Len(frames') = Len(frames) - 1
        /\ \A i \in 1..(Len(frames) - 1) :
             /\ frames'[i].id = frames[i].id
             /\ Mentioned(frames'[i].rest) \subseteq Mentioned(frames[i].rest)
        /\ \A i \in 1..(Len(frames) - 2) : frames'[i].rest # <<>>
        /\ low' \in [DOMAIN indices -> Nat]
        /\ \A x \in DOMAIN indices : low'[x] <= low[x]
    BY <2>1, ReturnProperties
  <2>4. /\ PositionOf(Top.id) \in 1..Len(stack) /\ stack[PositionOf(Top.id)] = Top.id
        /\ Top.id \in C /\ C \subseteq DOMAIN indices
        /\ \A c \in C : indices[Top.id] <= indices[c]
        /\ stack' \in Seq(DOMAIN indices)
        /\ Len(stack') = PositionOf(Top.id) - 1
        /\ \A i \in 1..Len(stack') : stack'[i] = stack[i]
        /\ Mentioned(stack') = Mentioned(stack) \ C
    BY <2>1, ComponentProperties
  <2> HIDE DEF C
  <2>5. \A x \in DOMAIN indices : indices[x] \in Nat
    BY DEF LoopInv, LoopTypeOK
  <2>6. onStack' = Mentioned(stack') /\ Len(stack') <= Len(stack) /\ Len(stack) \in Nat
    <3>1. Len(stack) \in Nat
      BY LenProperties DEF LoopInv, LoopTypeOK
    <3>2. QED
      BY <2>1, <2>4, <3>1 DEF LoopInv, StacksAgree
  <2>7. \A i \in 1..Len(frames') : frames'[i].id \in onStack'
    <3> TAKE i \in 1..Len(frames')
    <3>1. i \in 1..Len(frames) /\ i < Len(frames) /\ frames'[i].id = frames[i].id
      BY <2>2, <2>3
    <3>2. Len(frames) \in 1..Len(frames)
      BY <2>2
    <3>3. frames[i].id \in onStack /\ indices[frames[i].id] < indices[Top.id]
      BY <2>2, <3>1, <3>2 DEF LoopInv, StacksAgree
    <3>4. frames[i].id \in DOMAIN indices
      BY <3>3 DEF LoopInv, LoopTypeOK
    <3>5. frames[i].id \notin C
      BY <2>2, <2>4, <2>5, <3>3, <3>4
    <3>6. QED
      BY <2>1, <3>1, <3>3, <3>5
  <2>8. frames' = <<>> => stack' = <<>>
    <3> SUFFICES ASSUME frames' = <<>> PROVE stack' = <<>>
      OBVIOUS
    <3>1. Len(frames) = 1
      BY <2>2, <2>3, EmptySeq
    <3>2. indices[Top.id] = 0
      BY <2>1, <2>2, <3>1 DEF LoopInv, CallsOK
    <3>3. PositionOf(Top.id) = 1
      <4> SUFFICES ASSUME PositionOf(Top.id) # 1 PROVE FALSE
        OBVIOUS
      <4>1. 1 \in 1..Len(stack) /\ 1 < PositionOf(Top.id)
        BY <2>4, <2>6
      <4>2. indices[stack[1]] < indices[Top.id]
        BY <2>4, <4>1 DEF LoopInv, StacksAgree
      <4>3. stack[1] \in DOMAIN indices
        BY <4>1, ElementOfSeq DEF LoopInv, LoopTypeOK
      <4>4. QED
        BY <2>5, <3>2, <4>2, <4>3
    <3>4. QED
      BY <2>4, <3>3, EmptySeq
  <2>9. found' \in BOOLEAN /\ (found' => HasTrap(flow))
    <3>1. found' \in BOOLEAN
      BY <2>1 DEF LoopInv, LoopTypeOK, IsInescapable
    <3>2. CASE found
      BY <3>1, <3>2 DEF LoopInv, FoundSound
    <3>3. CASE ~found
      <4>1. found' => IsInescapable(flow, Top.id, C)
        BY <2>1, <3>3
      <4>2. IsInescapable(flow, Top.id, C) => HasTrap(flow)
        BY <2>4, InescapableIsTrap
      <4>3. QED
        BY <3>1, <4>1, <4>2
    <3>4. QED
      BY <3>2, <3>3
  <2>10. Len(frames') <= Len(frames) /\ \A i \in 1..(Len(frames') - 1) : frames'[i].rest # <<>>
    BY <2>2, <2>3
  <2>11. \A i \in 1..Len(frames') :
           /\ frames'[i].id = frames[i].id
           /\ Mentioned(frames'[i].rest) \subseteq Mentioned(frames[i].rest)
           /\ frames'[i].id \in onStack'
    BY <2>3, <2>7
  <2>12. QED
    BY <2>1, <2>3, <2>4, <2>6, <2>8, <2>9, <2>10, <2>11, MoveOnPreserves
<1>8. CASE Finish
  <2>1. LoopTypeOK' /\ StacksAgree' /\ NumbersOK' /\ VisitsFollowed' /\ FoundSound'
    BY <1>8 DEF Finish, LoopInv, LoopTypeOK, StacksAgree, NumbersOK, VisitsFollowed, FoundSound
  <2>2. CallsOK'
    BY <1>8 DEF Finish, LoopInv, CallsOK
  <2>3. QED
    BY <2>1, <2>2 DEF LoopInv
<1>9. CASE UNCHANGED <<flow, loopVars>>
  BY <1>9 DEF loopVars, LoopInv, LoopTypeOK, StacksAgree, NumbersOK, CallsOK, VisitsFollowed, FoundSound
<1>10. QED
  BY <1>1, <1>2, <1>3, <1>4, <1>5, <1>6, <1>7, <1>8, <1>9 DEF LoopNext

LEMMA SpecLoopInv == LoopSpec => []LoopInv
BY InitLoopInv, NextLoopInv, PTL DEF LoopSpec

(* Every variable of the cycle walk keeps its type, for every document.     *)
THEOREM CycleTypeCorrect == LoopSpec => []LoopTypeOK
<1>1. LoopInv => LoopTypeOK
  BY DEF LoopInv
<1>2. QED
  BY <1>1, SpecLoopInv, PTL

(* The onStack flags, the stack and the recursion of strong() agree at      *)
(* every point of the walk, and the stack is empty when it returns.         *)
THEOREM StacksStayInStep == LoopSpec => []StacksAgree
<1>1. LoopInv => StacksAgree
  BY DEF LoopInv
<1>2. QED
  BY <1>1, SpecLoopInv, PTL

(* potential_infinite_loop is never a false accusation: cycleWithoutExit    *)
(* says true only when steps reachable from start trap control for ever.    *)
THEOREM LoopWarningSound == LoopSpec => []FoundSound
<1>1. LoopInv => FoundSound
  BY DEF LoopInv
<1>2. QED
  BY <1>1, SpecLoopInv, PTL

------------------------------------------------------------------------------
(* The followed set of a step is the least closed one that holds it.        *)
LEMMA FollowedWithin ==
  ASSUME NEW f, NEW id \in StepIds(f), NEW S \in SUBSET StepIds(f),
         id \in S, FollowClosed(f, S)
  PROVE  FollowedFrom(f, id) \subseteq S
BY DEF FollowedFrom

(* A path can be continued by another.                                      *)
LEMMA FollowedTransitive ==
  ASSUME NEW f, NEW m \in StepIds(f), NEW n \in FollowedFrom(f, m)
  PROVE  n \in StepIds(f) /\ FollowedFrom(f, n) \subseteq FollowedFrom(f, m)
BY FollowedLeast, FollowedWithin

(* An edge that is followed leads into the followed set.                    *)
LEMMA FollowedStep ==
  ASSUME NEW f, NEW m \in StepIds(f), NEW t \in Followed(f, m)
  PROVE  t \in StepIds(f) /\ t \in FollowedFrom(f, m)
<1>1. t \in Mentioned(CycleEdges(f, m)) /\ IsFollowed(f, t)
  BY DEF Followed
<1>2. QED
  BY <1>1, FollowedLeast DEF FollowClosed, IsFollowed

(* What LoopInv says of the numbers, the stack and the activations.         *)
LEMMA WalkFacts ==
  ASSUME LoopInv
  PROVE  /\ IsFlow(flow) /\ index \in Nat
         /\ DOMAIN indices \subseteq StepIds(flow) /\ onStack \subseteq DOMAIN indices
         /\ \A n \in DOMAIN indices :
              /\ indices[n] \in Nat /\ low[n] \in Nat
              /\ low[n] <= indices[n] /\ indices[n] < index
         /\ \A m, n \in DOMAIN indices : indices[m] = indices[n] => m = n
         /\ frames \in Seq(Frame) /\ Len(frames) \in Nat
         /\ \A i \in 1..Len(frames) :
              frames[i].id \in onStack /\ frames[i].id \in DOMAIN indices
         /\ \A i, j \in 1..Len(frames) :
              i <= j => indices[frames[i].id] <= indices[frames[j].id]
         /\ \A i, j \in 1..Len(frames) :
              i < j => indices[frames[i].id] < indices[frames[j].id]
<1>1. /\ IsFlow(flow) /\ index \in Nat
      /\ DOMAIN indices \subseteq StepIds(flow) /\ onStack \subseteq DOMAIN indices
      /\ frames \in Seq(Frame) /\ Len(frames) \in Nat
      /\ indices \in [DOMAIN indices -> Nat] /\ low \in [DOMAIN indices -> Nat]
  BY LenProperties DEF LoopInv, LoopTypeOK
<1>2. \A n \in DOMAIN indices :
        /\ indices[n] \in Nat /\ low[n] \in Nat
        /\ low[n] <= indices[n] /\ indices[n] < index
  BY <1>1 DEF LoopInv, NumbersOK
<1>3. \A m, n \in DOMAIN indices : indices[m] = indices[n] => m = n
  BY DEF LoopInv, NumbersOK
<1>4. \A i \in 1..Len(frames) : frames[i].id \in onStack /\ frames[i].id \in DOMAIN indices
  BY <1>1 DEF LoopInv, StacksAgree
<1>5. \A i, j \in 1..Len(frames) : i < j => indices[frames[i].id] < indices[frames[j].id]
  BY DEF LoopInv, StacksAgree
<1>6. \A i, j \in 1..Len(frames) : i <= j => indices[frames[i].id] <= indices[frames[j].id]
  <2> TAKE i, j \in 1..Len(frames)
  <2>1. CASE i = j
    BY <1>2, <1>4, <2>1
  <2>2. CASE i < j
    BY <1>2, <1>4, <1>5, <2>2
  <2>3. QED
    BY <1>1, <2>1, <2>2
<1>7. QED
  BY <1>1, <1>2, <1>3, <1>4, <1>5, <1>6

(* What Enter makes of the numbers, the stack and the activations.          *)
LEMMA EnterFacts ==
  ASSUME LoopInv, NEW id \in StepIds(flow), id \notin DOMAIN indices, Enter(id)
  PROVE  /\ flow' = flow /\ found' = found
         /\ DOMAIN indices' = DOMAIN indices \cup {id} /\ onStack' = onStack \cup {id}
         /\ \A n \in DOMAIN indices : indices'[n] = indices[n] /\ low'[n] = low[n]
         /\ indices'[id] = index /\ low'[id] = index
         /\ Len(frames') = Len(frames) + 1
         /\ \A i \in 1..Len(frames) : frames'[i] = frames[i]
         /\ frames'[Len(frames) + 1].id = id
         /\ frames'[Len(frames) + 1].rest = CycleEdges(flow, id)
<1>1. /\ frames \in Seq(Frame) /\ IsFlow(flow) /\ DOMAIN low = DOMAIN indices
  BY DEF LoopInv, LoopTypeOK
<1>2. /\ flow' = flow /\ found' = found
      /\ indices' = [x \in DOMAIN indices \cup {id} |-> IF x = id THEN index ELSE indices[x]]
      /\ low' = [x \in DOMAIN indices \cup {id} |-> IF x = id THEN index ELSE low[x]]
      /\ onStack' = onStack \cup {id}
      /\ frames' = Append(frames, [id |-> id, rest |-> CycleEdges(flow, id)])
  BY <1>1 DEF Enter, Extend
<1> DEFINE new == [id |-> id, rest |-> CycleEdges(flow, id)]
<1>3. new \in Frame /\ new.id = id /\ new.rest = CycleEdges(flow, id)
  BY <1>1, CycleEdgesType DEF Frame, IsFlow, StepIds
<1>4. frames' = Append(frames, new)
  BY <1>2
<1> HIDE DEF new
<1>5. /\ Len(frames') = Len(frames) + 1
      /\ \A i \in 1..Len(frames) : frames'[i] = frames[i]
      /\ frames'[Len(frames) + 1] = new
  BY <1>1, <1>3, <1>4, AppendProperties
<1>6. QED
  BY <1>2, <1>3, <1>5

(* A call keeps the facts about edges, links and traps.                     *)
LEMMA EnterLinks ==
  ASSUME LoopInv, LinksInv, NEW id \in StepIds(flow), id \notin DOMAIN indices, Enter(id),
         frames = <<>> => id = flow.start,
         frames # <<>> => /\ Top.rest # <<>> /\ Head(Top.rest) = id
                          /\ id \in FollowedFrom(flow, Top.id)
                          /\ loopPc = "walk"
  PROVE  LinksInv'
<1> DEFINE k == Len(frames)
<1>1. /\ DOMAIN indices \subseteq StepIds(flow) /\ onStack \subseteq DOMAIN indices
      /\ index \in Nat /\ frames \in Seq(Frame) /\ k \in Nat
      /\ \A n \in DOMAIN indices :
           indices[n] \in Nat /\ low[n] \in Nat /\ low[n] <= indices[n] /\ indices[n] < index
      /\ \A i \in 1..k : frames[i].id \in onStack /\ frames[i].id \in DOMAIN indices
      /\ \A i, j \in 1..k : i <= j => indices[frames[i].id] <= indices[frames[j].id]
  BY WalkFacts
<1>2. /\ flow' = flow /\ found' = found
      /\ DOMAIN indices' = DOMAIN indices \cup {id} /\ onStack' = onStack \cup {id}
      /\ \A n \in DOMAIN indices : indices'[n] = indices[n] /\ low'[n] = low[n]
      /\ indices'[id] = index /\ low'[id] = index
      /\ Len(frames') = k + 1
      /\ \A i \in 1..k : frames'[i] = frames[i]
      /\ frames'[k + 1].id = id
      /\ frames'[k + 1].rest = CycleEdges(flow, id)
  BY EnterFacts
<1>3. id \in FollowedFrom(flow, id)
  BY FollowedLeast
<1>4. \A i \in 1..(k + 1) : i \in 1..k \/ i = k + 1
  BY <1>1
<1>5. frames # <<>> => k >= 1 /\ k \in 1..k /\ Top = frames[k]
  BY TopProperties
<1>6. k >= 1 => frames # <<>>
  BY <1>1, EmptySeq
<1> HIDE DEF k
<1>7. Finished' = Finished
  BY <1>2 DEF Finished
<1>8. EdgesFollowed'
  <2>1. \A n \in Finished' : Followed(flow', n) \subseteq Finished'
    BY <1>2, <1>7 DEF LinksInv, EdgesFollowed
  <2>2. ASSUME NEW n \in onStack', NEW t \in Followed(flow', n)
        PROVE  t \in DOMAIN indices' \/ Pends(n, t)'
    <3>1. CASE n \in onStack
      <4>1. t \in DOMAIN indices \/ Pends(n, t)
        BY <1>2, <3>1 DEF LinksInv, EdgesFollowed
      <4>2. CASE t \in DOMAIN indices
        BY <1>2, <4>2
      <4>3. CASE Pends(n, t)
        <5>1. PICK i \in 1..k : frames[i].id = n /\ t \in Mentioned(frames[i].rest)
          BY <4>3 DEF Pends, k
        <5>2. i \in 1..Len(frames') /\ frames'[i].id = n /\ t \in Mentioned(frames'[i].rest)
          BY <1>1, <1>2, <5>1
        <5>3. QED
          BY <5>2 DEF Pends
      <4>4. QED
        BY <4>1, <4>2, <4>3
    <3>2. CASE n = id
      <4>1. t \in Mentioned(CycleEdges(flow, id))
        BY <1>2, <3>2 DEF Followed
      <4>2. /\ k + 1 \in 1..Len(frames') /\ frames'[k + 1].id = n
            /\ t \in Mentioned(frames'[k + 1].rest)
        BY <1>1, <1>2, <3>2, <4>1
      <4>3. QED
        BY <4>2 DEF Pends
    <3>3. QED
      BY <1>2, <3>1, <3>2
  <2>3. QED
    BY <2>1, <2>2 DEF EdgesFollowed
<1>9. CallsChained'
  <2> SUFFICES ASSUME NEW i \in 1..(Len(frames') - 1)
               PROVE  Head(frames'[i].rest) = frames'[i + 1].id
    BY DEF CallsChained
  <2>1. i \in 1..k /\ frames'[i] = frames[i]
    BY <1>1, <1>2
  <2>2. CASE i = k
    BY <1>1, <1>2, <1>5, <1>6, <2>1, <2>2
  <2>3. CASE i # k
    <3>1. i \in 1..(k - 1) /\ i + 1 \in 1..k
      BY <1>1, <2>1, <2>3
    <3>2. Head(frames[i].rest) = frames[i + 1].id
      BY <3>1 DEF LinksInv, CallsChained, k
    <3>3. QED
      BY <1>2, <2>1, <3>1, <3>2
  <2>4. QED
    BY <2>2, <2>3
<1>10. CallsConnect'
  <2>1. ASSUME NEW i \in 1..Len(frames'), NEW n \in onStack',
               indices'[frames'[i].id] <= indices'[n]
        PROVE  n \in FollowedFrom(flow', frames'[i].id)
    <3>1. CASE i = k + 1
      <4>1. n \notin onStack
        BY <1>1, <1>2, <2>1, <3>1
      <4>2. QED
        BY <1>2, <1>3, <3>1, <4>1
    <3>2. CASE i \in 1..k
      <4>1. frames'[i].id = frames[i].id /\ frames[i].id \in DOMAIN indices
        BY <1>1, <1>2, <3>2
      <4>2. CASE n \in onStack
        <5>1. indices[frames[i].id] <= indices[n]
          BY <1>1, <1>2, <2>1, <4>1, <4>2
        <5>2. n \in FollowedFrom(flow, frames[i].id)
          BY <3>2, <4>2, <5>1 DEF LinksInv, CallsConnect, k
        <5>3. QED
          BY <1>2, <4>1, <5>2
      <4>3. CASE n = id
        <5>1. k >= 1
          BY <1>1, <3>2
        <5>2. /\ Top.id \in onStack /\ id \in FollowedFrom(flow, Top.id)
              /\ indices[frames[i].id] <= indices[Top.id]
          BY <1>1, <1>5, <1>6, <3>2, <5>1
        <5>3. Top.id \in FollowedFrom(flow, frames[i].id)
          BY <3>2, <5>2 DEF LinksInv, CallsConnect, k
        <5>4. frames[i].id \in StepIds(flow)
          BY <1>1, <4>1
        <5>5. id \in FollowedFrom(flow, frames[i].id)
          BY <5>2, <5>3, <5>4, FollowedTransitive
        <5>6. QED
          BY <1>2, <4>1, <4>3, <5>5
      <4>4. QED
        BY <1>2, <4>2, <4>3
    <3>3. QED
      BY <1>2, <1>4, <3>1, <3>2
  <2>2. ASSUME NEW n \in onStack'
        PROVE  \E i \in 1..Len(frames') :
                 /\ indices'[frames'[i].id] <= indices'[n]
                 /\ frames'[i].id \in FollowedFrom(flow', n)
    <3>1. CASE n \in onStack
      <4>1. PICK i \in 1..k : /\ indices[frames[i].id] <= indices[n]
                              /\ frames[i].id \in FollowedFrom(flow, n)
        BY <3>1 DEF LinksInv, CallsConnect, k
      <4>2. i \in 1..Len(frames') /\ frames'[i].id = frames[i].id
        BY <1>1, <1>2, <4>1
      <4>3. QED
        BY <1>1, <1>2, <3>1, <4>1, <4>2
    <3>2. CASE n = id
      <4>1. k + 1 \in 1..Len(frames')
        BY <1>1, <1>2
      <4>2. indices'[frames'[k + 1].id] <= indices'[n]
        BY <1>1, <1>2, <3>2
      <4>3. frames'[k + 1].id \in FollowedFrom(flow', n)
        BY <1>2, <1>3, <3>2
      <4>4. QED
        BY <4>1, <4>2, <4>3
    <3>3. QED
      BY <1>2, <3>1, <3>2
  <2>3. QED
    BY <2>1, <2>2 DEF CallsConnect
<1>11. LowLinks'
  <2>1. ASSUME NEW n \in onStack'
        PROVE  \E m \in onStack' : indices'[m] = low'[n] /\ m \in FollowedFrom(flow', n)
    <3>1. CASE n \in onStack
      <4>1. PICK m \in onStack : indices[m] = low[n] /\ m \in FollowedFrom(flow, n)
        BY <3>1 DEF LinksInv, LowLinks
      <4>2. QED
        BY <1>1, <1>2, <3>1, <4>1
    <3>2. CASE n = id
      BY <1>2, <1>3, <3>2
    <3>3. QED
      BY <1>2, <3>1, <3>2
  <2>2. ASSUME NEW i \in 1..Len(frames'), NEW n \in onStack', VisitedUnder(i, n)',
               NEW t \in Followed(flow', n) \cap onStack'
        PROVE  \/ low'[frames'[i].id] <= indices'[t]
               \/ n = frames'[i].id /\ t \in Mentioned(frames'[i].rest)
    <3>1. CASE i = k + 1
      <4>1. n = id
        BY <1>1, <1>2, <2>2, <3>1 DEF VisitedUnder
      <4>2. t \in Mentioned(frames'[i].rest)
        BY <1>2, <3>1, <4>1 DEF Followed
      <4>3. QED
        BY <1>2, <3>1, <4>1, <4>2
    <3>2. CASE i \in 1..k
      <4>1. i + 1 \in 1..(k + 1) /\ i < Len(frames')
        BY <1>1, <1>2, <3>2
      <4>2. indices'[n] < indices'[frames'[i + 1].id] /\ indices'[frames'[i].id] <= indices'[n]
        BY <2>2, <4>1 DEF VisitedUnder
      <4>3. n \in onStack
        <5>1. CASE i = k
          BY <1>1, <1>2, <4>2, <5>1
        <5>2. CASE i # k
          BY <1>1, <1>2, <3>2, <4>2, <5>2
        <5>3. QED
          BY <5>1, <5>2
      <4>4. /\ frames'[i] = frames[i] /\ frames[i].id \in DOMAIN indices
            /\ n \in DOMAIN indices
        BY <1>1, <1>2, <3>2, <4>3
      <4>5. VisitedUnder(i, n)
        <5>1. indices[frames[i].id] <= indices[n]
          BY <1>2, <4>2, <4>4
        <5>2. ASSUME i < k PROVE indices[n] < indices[frames[i + 1].id]
          <6>1. i + 1 \in 1..k
            BY <1>1, <3>2, <5>2
          <6>2. frames'[i + 1] = frames[i + 1] /\ frames[i + 1].id \in DOMAIN indices
            BY <1>1, <1>2, <6>1
          <6>3. QED
            BY <1>2, <4>2, <4>4, <6>2
        <5>3. QED
          BY <5>1, <5>2 DEF VisitedUnder, k
      <4>6. CASE t \in onStack
        <5>1. t \in Followed(flow, n) \cap onStack
          BY <1>2, <2>2, <4>6
        <5>2. \/ low[frames[i].id] <= indices[t]
              \/ n = frames[i].id /\ t \in Mentioned(frames[i].rest)
          BY <3>2, <4>3, <4>5, <5>1 DEF LinksInv, LowLinks, k
        <5>3. t \in DOMAIN indices
          BY <1>1, <4>6
        <5>4. QED
          BY <1>2, <4>4, <5>2, <5>3
      <4>7. CASE t = id
        <5>1. low'[frames'[i].id] = low[frames[i].id] /\ indices'[t] = index
          BY <1>2, <4>4, <4>7
        <5>2. low[frames[i].id] \in Nat /\ low[frames[i].id] <= index
          BY <1>1, <4>4
        <5>3. QED
          BY <5>1, <5>2
      <4>8. QED
        BY <1>2, <2>2, <4>6, <4>7
    <3>3. QED
      BY <1>2, <1>4, <3>1, <3>2
  <2>3. QED
    BY <2>1, <2>2 DEF LowLinks
<1>12. TrapsJudged'
  <2>1. flow.start \in DOMAIN indices' \/ ~HasStart(flow)
    <3>1. CASE frames = <<>>
      BY <1>2, <3>1
    <3>2. CASE frames # <<>>
      BY <1>2, <3>2 DEF LinksInv, TrapsJudged
    <3>3. QED
      BY <3>1, <3>2
  <2>2. QED
    BY <1>2, <1>7, <2>1 DEF LinksInv, TrapsJudged
<1>13. QED
  BY <1>8, <1>9, <1>10, <1>11, <1>12 DEF LinksInv

(* The popped component is the top of the stack: the steps visited since    *)
(* the innermost activation began.                                          *)
LEMMA ComponentIsTop ==
  ASSUME LoopInv, frames # <<>>
  PROVE  /\ Component(Top.id) = {n \in onStack : indices[Top.id] <= indices[n]}
         /\ IsFiniteSet(Component(Top.id))
<1> DEFINE p == PositionOf(Top.id)
<1>1. /\ stack \in Seq(DOMAIN indices) /\ Len(stack) \in Nat
      /\ \A i \in 1..Len(stack) : stack[i] \in DOMAIN indices /\ indices[stack[i]] \in Nat
      /\ onStack = Mentioned(stack)
      /\ \A i, j \in 1..Len(stack) : i < j => indices[stack[i]] < indices[stack[j]]
  <2>1. stack \in Seq(DOMAIN indices) /\ indices \in [DOMAIN indices -> Nat]
    BY DEF LoopInv, LoopTypeOK
  <2>2. QED
    BY <2>1, ElementOfSeq, LenProperties DEF LoopInv, StacksAgree
<1>2. p \in 1..Len(stack) /\ stack[p] = Top.id
  <2>1. \E i \in 1..Len(stack) : stack[i] = Top.id
    BY <1>1, TopProperties DEF Mentioned
  <2>2. QED
    BY <2>1 DEF PositionOf
<1>3. Component(Top.id) = {stack[i] : i \in p..Len(stack)}
  BY DEF Component
<1> HIDE DEF p
<1>4. ASSUME NEW n \in Component(Top.id)
      PROVE  n \in onStack /\ indices[Top.id] <= indices[n]
  <2>1. PICK i \in p..Len(stack) : n = stack[i]
    BY <1>3
  <2>2. i \in 1..Len(stack)
    BY <1>1, <1>2, <2>1
  <2>3. n \in onStack
    BY <1>1, <2>1, <2>2 DEF Mentioned
  <2>4. CASE i = p
    BY <1>1, <1>2, <2>1, <2>3, <2>4
  <2>5. CASE p < i
    BY <1>1, <1>2, <2>1, <2>2, <2>3, <2>5
  <2>6. QED
    BY <1>2, <2>1, <2>4, <2>5
<1>5. ASSUME NEW n \in onStack, indices[Top.id] <= indices[n]
      PROVE  n \in Component(Top.id)
  <2>1. PICK i \in 1..Len(stack) : n = stack[i]
    BY <1>1 DEF Mentioned
  <2>2. CASE i < p
    BY <1>1, <1>2, <1>5, <2>1, <2>2
  <2>3. CASE i >= p
    BY <1>1, <1>2, <1>3, <2>1, <2>3
  <2>4. QED
    BY <1>2, <2>1, <2>2, <2>3
<1>6. IsFiniteSet(Component(Top.id))
  <2>1. IsFiniteSet(p..Len(stack))
    BY <1>1, <1>2, FS_Interval
  <2> DEFINE pick == [i \in p..Len(stack) |-> stack[i]]
  <2>2. pick \in Surjection(p..Len(stack), Component(Top.id))
    BY <1>3 DEF Surjection
  <2>3. QED
    BY <2>1, <2>2, FS_Surjection
<1>7. QED
  BY <1>4, <1>5, <1>6

(* When the low link of the innermost activation equals its number, its     *)
(* edges lead to finished steps and into the component, and the component   *)
(* is everything mutually connected with it.                                *)
LEMMA ComponentIsWhole ==
  ASSUME LoopInv, LinksInv, Walking, Top.rest = <<>>, low[Top.id] = indices[Top.id]
  PROVE  /\ \A n \in Component(Top.id) :
              Followed(flow, n) \subseteq Finished \cup Component(Top.id)
         /\ Component(Top.id) = {n \in StepIds(flow) : Connected(flow, Top.id, n)}
<1> DEFINE k == Len(frames)
           v == Top.id
           C == Component(Top.id)
<1>1. /\ frames # <<>> /\ k \in 1..k /\ Top = frames[k] /\ frames[k].rest = <<>>
      /\ v \in onStack /\ v \in DOMAIN indices /\ v \in StepIds(flow)
  BY TopProperties, WalkFacts DEF Walking
<1>2. /\ DOMAIN indices \subseteq StepIds(flow) /\ onStack \subseteq DOMAIN indices
      /\ \A n \in DOMAIN indices : indices[n] \in Nat
      /\ \A i \in 1..k : frames[i].id \in onStack
      /\ \A i, j \in 1..k : i <= j => indices[frames[i].id] <= indices[frames[j].id]
      /\ \A i, j \in 1..k : i < j => indices[frames[i].id] < indices[frames[j].id]
      /\ k \in Nat
  BY WalkFacts
<1>3. C = {n \in onStack : indices[v] <= indices[n]}
  BY <1>1, ComponentIsTop
<1>4. v = frames[k].id
  BY <1>1
<1>5. low[v] = indices[v] /\ Mentioned(frames[k].rest) = {}
  BY <1>1, MentionedEmpty
<1> HIDE DEF k, v, C
<1>6. ASSUME NEW n \in C, NEW t \in Followed(flow, n)
      PROVE  t \in Finished \cup C
  <2>1. n \in onStack /\ indices[v] <= indices[n]
    BY <1>3
  <2>2. ~Pends(n, t)
    <3> SUFFICES ASSUME NEW i \in 1..k, frames[i].id = n, t \in Mentioned(frames[i].rest)
                 PROVE  FALSE
      BY DEF Pends, k
    <3>1. i # k
      BY <1>5
    <3>2. i < k
      BY <1>2, <3>1
    <3>3. indices[n] < indices[v]
      BY <1>1, <1>2, <1>4, <3>2
    <3>4. QED
      BY <1>1, <1>2, <2>1, <3>3
  <2>3. t \in DOMAIN indices
    BY <2>1, <2>2 DEF LinksInv, EdgesFollowed
  <2>4. CASE t \in onStack
    <3>1. VisitedUnder(k, n)
      BY <1>2, <1>4, <2>1 DEF VisitedUnder, k
    <3>2. t \in Followed(flow, n) \cap onStack
      BY <2>4
    <3>3. low[frames[k].id] <= indices[t]
      BY <1>1, <1>5, <2>1, <3>1, <3>2 DEF LinksInv, LowLinks, k
    <3>4. QED
      BY <1>3, <1>4, <1>5, <2>4, <3>3
  <2>5. CASE t \notin onStack
    BY <2>3, <2>5 DEF Finished
  <2>6. QED
    BY <2>4, <2>5
<1>7. ASSUME NEW n \in C PROVE n \in StepIds(flow) /\ Connected(flow, v, n)
  <2>1. n \in onStack /\ indices[v] <= indices[n] /\ n \in StepIds(flow)
    BY <1>2, <1>3
  <2>2. n \in FollowedFrom(flow, v)
    BY <1>1, <1>4, <2>1 DEF LinksInv, CallsConnect, k
  <2>3. PICK i \in 1..k : frames[i].id \in FollowedFrom(flow, n)
    BY <2>1 DEF LinksInv, CallsConnect, k
  <2>4. v \in FollowedFrom(flow, frames[i].id)
    <3>1. indices[frames[i].id] <= indices[v]
      BY <1>1, <1>2, <1>4
    <3>2. QED
      BY <1>1, <3>1 DEF LinksInv, CallsConnect, k
  <2>5. v \in FollowedFrom(flow, n)
    BY <2>1, <2>3, <2>4, FollowedTransitive
  <2>6. QED
    BY <2>1, <2>2, <2>5 DEF Connected
<1>8. ASSUME NEW n \in StepIds(flow), Connected(flow, v, n) PROVE n \in C
  <2>1. n \in FollowedFrom(flow, v) /\ v \in FollowedFrom(flow, n)
    BY <1>8 DEF Connected
  <2>2. FollowClosed(flow, Finished \cup C)
    BY <1>6 DEF LinksInv, EdgesFollowed, Followed, FollowClosed
  <2>3. Finished \in SUBSET StepIds(flow) /\ C \in SUBSET StepIds(flow)
    BY <1>2, <1>3 DEF Finished
  <2>4. v \in C
    BY <1>1, <1>2, <1>3
  <2>5. n \in Finished \cup C
    BY <1>1, <2>1, <2>2, <2>3, <2>4, FollowedWithin
  <2>6. n \notin Finished
    <3> SUFFICES ASSUME n \in Finished PROVE FALSE
      OBVIOUS
    <3>1. FollowClosed(flow, Finished)
      BY DEF LinksInv, EdgesFollowed, Followed, FollowClosed
    <3>2. v \in Finished
      BY <2>1, <2>3, <3>1, FollowedWithin
    <3>3. QED
      BY <1>1, <3>2 DEF Finished
  <2>7. QED
    BY <2>5, <2>6
<1>9. QED
  BY <1>6, <1>7, <1>8 DEF v, C

(* Moving on drops exactly the head of the last activation's edges.         *)
LEMMA AdvanceDrops ==
  ASSUME NEW seq \in Seq(Frame), seq # <<>>, seq[Len(seq)].rest # <<>>
  PROVE  Mentioned(seq[Len(seq)].rest) =
           {Head(seq[Len(seq)].rest)} \cup Mentioned(Advance(seq)[Len(seq)].rest)
<1> DEFINE n == Len(seq)
           last == seq[n]
           moved == [last EXCEPT !.rest = Tail(@)]
<1>1. n \in 1..n
  BY LenProperties, EmptySeq
<1>2. last \in Frame
  BY <1>1, ElementOfSeq
<1>3. last.rest \in Seq(Targets)
  BY <1>2 DEF Frame
<1>4. Mentioned(last.rest) = {Head(last.rest)} \cup Mentioned(Tail(last.rest))
  BY <1>3, MentionedHeadTail
<1>5. moved \in Frame /\ moved.rest = Tail(last.rest)
  BY <1>2, <1>3, MentionedHeadTail DEF Frame
<1>6. Advance(seq) = [seq EXCEPT ![n] = moved]
  BY DEF Advance
<1>7. Advance(seq)[n] = moved
  <2> HIDE DEF moved
  <2>1. QED
    BY <1>1, <1>5, <1>6, ExceptSeq
<1>8. QED
  BY <1>4, <1>5, <1>7

(* The next edge is dealt with, and the low link may drop to its number.    *)
LEMMA AdvanceLinks ==
  ASSUME LoopInv, LinksInv, Walking, Top.rest # <<>>, frames' = Advance(frames),
         UNCHANGED <<flow, loopPc, indices, onStack, found>>,
         \A n \in DOMAIN indices : n # Top.id => low'[n] = low[n],
         low'[Top.id] \in Nat, low'[Top.id] <= low[Top.id],
         \E m \in onStack : indices[m] = low'[Top.id] /\ m \in FollowedFrom(flow, Top.id),
         Pending \in Followed(flow, Top.id) =>
           /\ Pending \in DOMAIN indices
           /\ Pending \in onStack => low'[Top.id] <= indices[Pending]
  PROVE  LinksInv'
<1> DEFINE k == Len(frames)
<1>1. /\ onStack \subseteq DOMAIN indices
      /\ frames \in Seq(Frame) /\ frames # <<>> /\ k \in Nat /\ k \in 1..k
      /\ Top = frames[k] /\ frames[k].rest # <<>>
      /\ \A n \in DOMAIN indices : indices[n] \in Nat /\ low[n] \in Nat
      /\ \A m, n \in DOMAIN indices : indices[m] = indices[n] => m = n
      /\ \A i \in 1..k : frames[i].id \in onStack /\ frames[i].id \in DOMAIN indices
      /\ \A i, j \in 1..k : i < j => indices[frames[i].id] < indices[frames[j].id]
  BY WalkFacts, TopProperties DEF Walking
<1>2. /\ Len(frames') = k
      /\ \A i \in 1..k : frames'[i].id = frames[i].id
      /\ \A i \in 1..(k - 1) : frames'[i] = frames[i]
      /\ Mentioned(frames[k].rest) = {Pending} \cup Mentioned(frames'[k].rest)
  BY <1>1, AdvanceProperties, AdvanceDrops DEF Pending
<1>3. /\ flow' = flow /\ indices' = indices /\ onStack' = onStack /\ found' = found /\ loopPc' = loopPc
  OBVIOUS
<1>4. \A i \in 1..k : frames'[i] = frames[i] \/ i = k
  <2> SUFFICES ASSUME NEW i \in 1..k, i # k PROVE frames'[i] = frames[i]
    OBVIOUS
  <2>1. i \in 1..(k - 1)
    BY <1>1
  <2>2. QED
    BY <1>2, <2>1
<1>5. \A i \in 1..k : frames[i].id = Top.id => i = k
  <2> SUFFICES ASSUME NEW i \in 1..k, frames[i].id = frames[k].id, i # k PROVE FALSE
    BY <1>1
  <2>1. i < k
    BY <1>1
  <2>2. QED
    BY <1>1, <2>1
<1> HIDE DEF k
<1>6. EdgesFollowed'
  <2>1. \A n \in Finished' : Followed(flow', n) \subseteq Finished'
    BY <1>3 DEF LinksInv, EdgesFollowed, Finished
  <2>2. ASSUME NEW n \in onStack', NEW t \in Followed(flow', n), t \notin DOMAIN indices'
        PROVE  Pends(n, t)'
    <3>1. n \in onStack /\ t \in Followed(flow, n) /\ t \notin DOMAIN indices
      BY <1>3, <2>2
    <3>2. PICK i \in 1..k : frames[i].id = n /\ t \in Mentioned(frames[i].rest)
      BY <3>1 DEF LinksInv, EdgesFollowed, Pends, k
    <3>3. t \in Mentioned(frames'[i].rest)
      <4>1. CASE i = k
        <5>1. n = Top.id
          BY <1>1, <3>2, <4>1
        <5>2. t # Pending
          BY <3>1, <5>1
        <5>3. QED
          BY <1>2, <3>2, <4>1, <5>2
      <4>2. CASE i # k
        BY <1>4, <3>2, <4>2
      <4>3. QED
        BY <4>1, <4>2
    <3>4. QED
      BY <1>2, <3>2, <3>3 DEF Pends
  <2>3. QED
    BY <2>1, <2>2 DEF EdgesFollowed
<1>7. CallsChained'
  <2> SUFFICES ASSUME NEW i \in 1..(Len(frames') - 1)
               PROVE  Head(frames'[i].rest) = frames'[i + 1].id
    BY DEF CallsChained
  <2>1. i \in 1..(k - 1) /\ i + 1 \in 1..k
    BY <1>1, <1>2
  <2>2. Head(frames[i].rest) = frames[i + 1].id
    BY <2>1 DEF LinksInv, CallsChained, k
  <2>3. QED
    BY <1>2, <2>1, <2>2
<1>8. CallsConnect'
  BY <1>2, <1>3 DEF LinksInv, CallsConnect, k
<1>9. LowLinks'
  <2>1. ASSUME NEW n \in onStack'
        PROVE  \E m \in onStack' : indices'[m] = low'[n] /\ m \in FollowedFrom(flow', n)
    <3>1. CASE n = Top.id
      BY <1>3, <3>1
    <3>2. CASE n # Top.id
      <4>1. PICK m \in onStack : indices[m] = low[n] /\ m \in FollowedFrom(flow, n)
        BY <1>3, <2>1 DEF LinksInv, LowLinks
      <4>2. low'[n] = low[n]
        BY <1>1, <1>3, <2>1, <3>2
      <4>3. QED
        BY <1>3, <4>1, <4>2
    <3>3. QED
      BY <3>1, <3>2
  <2>2. ASSUME NEW i \in 1..Len(frames'), NEW n \in onStack', VisitedUnder(i, n)',
               NEW t \in Followed(flow', n) \cap onStack'
        PROVE  \/ low'[frames'[i].id] <= indices'[t]
               \/ n = frames'[i].id /\ t \in Mentioned(frames'[i].rest)
    <3>1. /\ i \in 1..k /\ n \in onStack /\ t \in Followed(flow, n) \cap onStack
          /\ t \in DOMAIN indices /\ indices[t] \in Nat
      BY <1>1, <1>2, <1>3, <2>2
    <3>2. VisitedUnder(i, n)
      <4>1. indices[frames[i].id] <= indices[n]
        BY <1>2, <1>3, <2>2, <3>1 DEF VisitedUnder
      <4>2. ASSUME i < k PROVE indices[n] < indices[frames[i + 1].id]
        <5>1. i + 1 \in 1..k
          BY <1>1, <3>1, <4>2
        <5>2. QED
          BY <1>2, <1>3, <2>2, <4>2, <5>1 DEF VisitedUnder
      <4>3. QED
        BY <4>1, <4>2 DEF VisitedUnder, k
    <3>3. \/ low[frames[i].id] <= indices[t]
          \/ n = frames[i].id /\ t \in Mentioned(frames[i].rest)
      BY <3>1, <3>2 DEF LinksInv, LowLinks, k
    <3>4. CASE i = k
      <4>1. frames'[i].id = Top.id /\ frames[i].id = Top.id /\ Top.id \in DOMAIN indices
        BY <1>1, <1>2, <3>4
      <4>2. CASE low[frames[i].id] <= indices[t]
        BY <1>1, <1>3, <3>1, <4>1, <4>2
      <4>3. CASE n = frames[i].id /\ t \in Mentioned(frames[i].rest)
        <5>1. CASE t = Pending
          BY <1>3, <3>1, <4>1, <4>3, <5>1
        <5>2. CASE t # Pending
          BY <1>2, <3>4, <4>1, <4>3, <5>2
        <5>3. QED
          BY <5>1, <5>2
      <4>4. QED
        BY <3>3, <4>2, <4>3
    <3>5. CASE i # k
      <4>1. frames'[i] = frames[i] /\ frames[i].id # Top.id /\ frames[i].id \in DOMAIN indices
        BY <1>1, <1>4, <1>5, <3>1, <3>5
      <4>2. low'[frames'[i].id] = low[frames[i].id]
        BY <4>1
      <4>3. QED
        BY <1>3, <3>3, <4>1, <4>2
    <3>6. QED
      BY <3>4, <3>5
  <2>3. QED
    BY <2>1, <2>2 DEF LowLinks
<1>10. TrapsJudged'
  BY <1>3 DEF LinksInv, TrapsJudged, Finished
<1>11. QED
  BY <1>6, <1>7, <1>8, <1>9, <1>10 DEF LinksInv

(* What a return leaves of the activations and of the low links.            *)
LEMMA ReturnFacts ==
  ASSUME LoopInv, LinksInv, frames # <<>>, Return
  PROVE  /\ Len(frames') = Len(frames) - 1
         /\ \A i \in 1..(Len(frames) - 1) : frames'[i].id = frames[i].id
         /\ \A i \in 1..(Len(frames) - 2) : frames'[i] = frames[i]
         /\ Len(frames) = 1 => low' = low
         /\ Len(frames) > 1 =>
              LET caller == frames[Len(frames) - 1].id IN
              /\ Mentioned(frames[Len(frames) - 1].rest) =
                   {Top.id} \cup Mentioned(frames'[Len(frames) - 1].rest)
              /\ low'[caller] = IF low[Top.id] < low[caller] THEN low[Top.id] ELSE low[caller]
              /\ \A n \in DOMAIN indices : n # caller => low'[n] = low[n]
<1> DEFINE k == Len(frames)
<1>1. /\ frames \in Seq(Frame) /\ k \in Nat /\ k >= 1 /\ Top = frames[k]
      /\ \A i \in 1..k : frames[i].id \in DOMAIN indices
      /\ low \in [DOMAIN indices -> Nat]
  BY WalkFacts, TopProperties DEF LoopInv, LoopTypeOK
<1>2. /\ Callers \in Seq(Frame) /\ Len(Callers) = k - 1
      /\ \A i \in 1..(k - 1) : Callers[i] = frames[i]
  <2>1. k - 1 \in Nat /\ k - 1 <= Len(frames)
    BY <1>1
  <2>2. QED
    BY <1>1, <2>1, PrefixProperties DEF Callers
<1>3. CASE Callers = <<>>
  <2>1. k = 1 /\ frames' = <<>> /\ low' = low
    BY <1>1, <1>2, <1>3, EmptySeq DEF Return
  <2>2. QED
    BY <2>1
<1>4. CASE Callers # <<>>
  <2>1. k > 1 /\ k - 1 \in 1..(k - 1) /\ Callers[Len(Callers)] = frames[k - 1]
    BY <1>1, <1>2, <1>4, EmptySeq
  <2>2. Callers[Len(Callers)].rest # <<>>
    BY <1>1, <2>1 DEF LoopInv, CallsOK
  <2>3. frames' = Advance(Callers)
    BY <1>4 DEF Return
  <2>4. /\ Len(frames') = k - 1
        /\ \A i \in 1..(k - 1) : frames'[i].id = Callers[i].id
        /\ \A i \in 1..(k - 2) : frames'[i] = Callers[i]
        /\ Mentioned(Callers[k - 1].rest) =
             {Head(Callers[k - 1].rest)} \cup Mentioned(frames'[k - 1].rest)
    <3>1. Len(Callers) - 1 = k - 2
      BY <1>1, <1>2
    <3>2. QED
      BY <1>2, <1>4, <2>2, <2>3, <3>1, AdvanceProperties, AdvanceDrops
  <2>5. Head(frames[k - 1].rest) = Top.id
    <3>1. k - 1 \in 1..(Len(frames) - 1) /\ (k - 1) + 1 = k
      BY <1>1, <2>1
    <3>2. QED
      BY <1>1, <3>1 DEF LinksInv, CallsChained
  <2>6. \A i \in 1..(k - 2) : i \in 1..(k - 1)
    BY <1>1
  <2> DEFINE caller == frames[k - 1].id
  <2>7. caller \in DOMAIN indices
    BY <1>1, <2>1
  <2>8. low' = IF low[Top.id] < low[caller] THEN [low EXCEPT ![caller] = low[Top.id]] ELSE low
    BY <1>4, <2>1 DEF Return
  <2> HIDE DEF caller
  <2>9. /\ low'[caller] = IF low[Top.id] < low[caller] THEN low[Top.id] ELSE low[caller]
        /\ \A n \in DOMAIN indices : n # caller => low'[n] = low[n]
    BY <1>1, <2>7, <2>8
  <2>10. QED
    BY <1>2, <2>1, <2>4, <2>5, <2>6, <2>9 DEF caller
<1>5. QED
  BY <1>3, <1>4

(* A step whose low link is another's returns: the steps above it now lead  *)
(* back to an activation further down.                                      *)
LEMMA ReturnOpenLinks ==
  ASSUME LoopInv, LinksInv, ReturnOpen
  PROVE  LinksInv'
<1> DEFINE k == Len(frames)
           v == Top.id
<1>1. /\ frames # <<>> /\ loopPc = "walk" /\ Top.rest = <<>> /\ low[v] # indices[v] /\ Return
      /\ UNCHANGED <<flow, loopPc, indices, onStack, found>>
  BY DEF ReturnOpen, Walking
<1>2. /\ DOMAIN indices \subseteq StepIds(flow) /\ onStack \subseteq DOMAIN indices
      /\ k \in Nat /\ k >= 1 /\ Top = frames[k]
      /\ \A n \in DOMAIN indices :
           indices[n] \in Nat /\ low[n] \in Nat /\ low[n] <= indices[n]
      /\ \A i \in 1..k : frames[i].id \in onStack /\ frames[i].id \in DOMAIN indices
      /\ \A i, j \in 1..k : i < j => indices[frames[i].id] < indices[frames[j].id]
  BY <1>1, WalkFacts, TopProperties
<1>3. /\ Len(frames') = k - 1
      /\ \A i \in 1..(k - 1) : frames'[i].id = frames[i].id
      /\ \A i \in 1..(k - 2) : frames'[i] = frames[i]
      /\ k > 1 =>
           /\ Mentioned(frames[k - 1].rest) = {v} \cup Mentioned(frames'[k - 1].rest)
           /\ low'[frames[k - 1].id] = IF low[v] < low[frames[k - 1].id]
                                       THEN low[v] ELSE low[frames[k - 1].id]
           /\ \A n \in DOMAIN indices : n # frames[k - 1].id => low'[n] = low[n]
  BY <1>1, ReturnFacts
<1>4. /\ flow' = flow /\ indices' = indices /\ onStack' = onStack
      /\ found' = found /\ loopPc' = loopPc
  BY <1>1
<1>5. v = frames[k].id /\ Mentioned(frames[k].rest) = {} /\ v \in onStack
      /\ v \in DOMAIN indices /\ k \in 1..k
  BY <1>1, <1>2, MentionedEmpty
<1>6. low[v] < indices[v]
  BY <1>1, <1>2, <1>5
<1> HIDE DEF k, v
<1>7. PICK j \in 1..(k - 1) : frames[j].id \in FollowedFrom(flow, v)
  <2>1. PICK m \in onStack : indices[m] = low[v] /\ m \in FollowedFrom(flow, v)
    BY <1>5 DEF LinksInv, LowLinks
  <2>2. PICK j \in 1..k : /\ indices[frames[j].id] <= indices[m]
                          /\ frames[j].id \in FollowedFrom(flow, m)
    BY <2>1 DEF LinksInv, CallsConnect, k
  <2>3. j # k
    BY <1>2, <1>5, <1>6, <2>1, <2>2
  <2>4. frames[j].id \in FollowedFrom(flow, v)
    BY <1>2, <1>5, <2>1, <2>2, FollowedTransitive
  <2>5. j \in 1..(k - 1)
    BY <1>2, <2>3
  <2>6. QED
    BY <2>4, <2>5
<1>8. k > 1 /\ k - 1 \in 1..k /\ k - 1 \in 1..(k - 1)
  BY <1>2
<1>9. /\ \A i \in 1..(k - 1) : i \in 1..k
      /\ \A i \in 1..(k - 1) : i # k - 1 => i \in 1..(k - 2) /\ i + 1 \in 1..(k - 1)
  BY <1>2
<1> DEFINE u == frames[k - 1].id
<1>10. /\ u \in onStack /\ u \in DOMAIN indices /\ u \in StepIds(flow)
       /\ indices[u] < indices[v]
       /\ v \in FollowedFrom(flow, u)
  <2>1. u \in onStack /\ u \in DOMAIN indices /\ u \in StepIds(flow)
    BY <1>2, <1>8
  <2>2. indices[u] < indices[v] /\ indices[u] <= indices[v]
    BY <1>2, <1>5, <1>8, <2>1
  <2>3. v \in FollowedFrom(flow, u)
    BY <1>5, <1>8, <2>2 DEF LinksInv, CallsConnect, k
  <2>4. QED
    BY <2>1, <2>2, <2>3
<1>11. /\ low'[u] \in Nat /\ low'[u] <= low[u] /\ low'[u] <= low[v]
       /\ low'[u] = low[u] \/ low'[u] = low[v]
       /\ \A n \in DOMAIN indices : n # u => low'[n] = low[n]
  BY <1>2, <1>3, <1>5, <1>8, <1>10
<1>12. Mentioned(frames[k - 1].rest) = {v} \cup Mentioned(frames'[k - 1].rest)
  BY <1>3, <1>8
<1>13. \A i \in 1..(k - 1) : frames[i].id = u => i = k - 1
  <2> SUFFICES ASSUME NEW i \in 1..(k - 1), i # k - 1, frames[i].id = u PROVE FALSE
    OBVIOUS
  <2>1. i \in 1..k /\ i < k - 1
    BY <1>2
  <2>2. QED
    BY <1>2, <1>8, <1>10, <2>1
<1> HIDE DEF u
<1>14. EdgesFollowed'
  <2>1. \A n \in Finished' : Followed(flow', n) \subseteq Finished'
    BY <1>4 DEF LinksInv, EdgesFollowed, Finished
  <2>2. ASSUME NEW n \in onStack', NEW t \in Followed(flow', n), t \notin DOMAIN indices'
        PROVE  Pends(n, t)'
    <3>1. n \in onStack /\ t \in Followed(flow, n) /\ t \notin DOMAIN indices
      BY <1>4, <2>2
    <3>2. PICK i \in 1..k : frames[i].id = n /\ t \in Mentioned(frames[i].rest)
      BY <3>1 DEF LinksInv, EdgesFollowed, Pends, k
    <3>3. i \in 1..(k - 1) /\ t # v
      BY <1>2, <1>5, <3>1, <3>2
    <3>4. t \in Mentioned(frames'[i].rest)
      BY <1>3, <1>9, <1>12, <3>2, <3>3
    <3>5. QED
      BY <1>3, <3>2, <3>3, <3>4 DEF Pends
  <2>3. QED
    BY <2>1, <2>2 DEF EdgesFollowed
<1>15. CallsChained'
  <2> SUFFICES ASSUME NEW i \in 1..(Len(frames') - 1)
               PROVE  Head(frames'[i].rest) = frames'[i + 1].id
    BY DEF CallsChained
  <2>1. i \in 1..(k - 2) /\ i \in 1..(k - 1) /\ i + 1 \in 1..(k - 1)
    BY <1>2, <1>3
  <2>2. Head(frames[i].rest) = frames[i + 1].id
    BY <2>1 DEF LinksInv, CallsChained, k
  <2>3. QED
    BY <1>3, <2>1, <2>2
<1>16. CallsConnect'
  <2>1. ASSUME NEW i \in 1..Len(frames'), NEW n \in onStack',
               indices'[frames'[i].id] <= indices'[n]
        PROVE  n \in FollowedFrom(flow', frames'[i].id)
    <3>1. i \in 1..(k - 1) /\ i \in 1..k
      BY <1>3, <1>9
    <3>2. QED
      BY <1>3, <1>4, <2>1, <3>1 DEF LinksInv, CallsConnect, k
  <2>2. ASSUME NEW n \in onStack'
        PROVE  \E i \in 1..Len(frames') :
                 /\ indices'[frames'[i].id] <= indices'[n]
                 /\ frames'[i].id \in FollowedFrom(flow', n)
    <3>1. PICK i \in 1..k : /\ indices[frames[i].id] <= indices[n]
                            /\ frames[i].id \in FollowedFrom(flow, n)
      BY <1>4, <2>2 DEF LinksInv, CallsConnect, k
    <3>2. CASE i = k
      <4>1. frames[j].id \in FollowedFrom(flow, n)
        BY <1>2, <1>4, <1>5, <1>7, <2>2, <3>1, <3>2, FollowedTransitive
      <4>2. j \in 1..k /\ j < k
        BY <1>2
      <4>3. indices[frames[j].id] < indices[v] /\ indices[v] <= indices[n]
        BY <1>2, <1>5, <3>1, <3>2, <4>2
      <4>4. indices[frames[j].id] <= indices[n]
        <5>1. indices[frames[j].id] \in Nat /\ indices[v] \in Nat /\ indices[n] \in Nat
          BY <1>2, <1>4, <1>5, <2>2, <4>2
        <5>2. QED
          BY <4>3, <5>1
      <4>5. QED
        BY <1>3, <1>4, <4>1, <4>4
    <3>3. CASE i # k
      <4>1. i \in 1..(k - 1)
        BY <1>2, <3>3
      <4>2. QED
        BY <1>3, <1>4, <3>1, <4>1
    <3>4. QED
      BY <3>2, <3>3
  <2>3. QED
    BY <2>1, <2>2 DEF CallsConnect
<1>17. LowLinks'
  <2>1. ASSUME NEW n \in onStack'
        PROVE  \E m \in onStack' : indices'[m] = low'[n] /\ m \in FollowedFrom(flow', n)
    <3>1. n \in onStack /\ n \in DOMAIN indices
      BY <1>2, <1>4, <2>1
    <3>2. CASE low'[n] = low[n]
      BY <1>4, <3>1, <3>2 DEF LinksInv, LowLinks
    <3>3. CASE low'[n] # low[n]
      <4>1. n = u /\ low'[n] = low[v]
        BY <1>11, <3>1, <3>3
      <4>2. PICK m \in onStack : indices[m] = low[v] /\ m \in FollowedFrom(flow, v)
        BY <1>5 DEF LinksInv, LowLinks
      <4>3. m \in FollowedFrom(flow, u)
        BY <1>10, <4>2, FollowedTransitive
      <4>4. QED
        BY <1>4, <4>1, <4>2, <4>3
    <3>4. QED
      BY <3>2, <3>3
  <2>2. ASSUME NEW i \in 1..Len(frames'), NEW n \in onStack', VisitedUnder(i, n)',
               NEW t \in Followed(flow', n) \cap onStack'
        PROVE  \/ low'[frames'[i].id] <= indices'[t]
               \/ n = frames'[i].id /\ t \in Mentioned(frames'[i].rest)
    <3>1. /\ i \in 1..(k - 1) /\ i \in 1..k /\ frames'[i].id = frames[i].id
          /\ n \in onStack /\ n \in DOMAIN indices /\ indices[n] \in Nat
          /\ t \in Followed(flow, n) \cap onStack /\ t \in DOMAIN indices /\ indices[t] \in Nat
      BY <1>2, <1>3, <1>4, <1>9, <2>2
    <3>2. indices[frames[i].id] <= indices[n]
      BY <1>4, <2>2, <3>1 DEF VisitedUnder
    <3>3. CASE i # k - 1
      <4>1. i \in 1..(k - 2) /\ i + 1 \in 1..(k - 1) /\ i < Len(frames')
        BY <1>2, <1>3, <3>1, <3>3
      <4>2. indices[n] < indices[frames[i + 1].id]
        BY <1>3, <1>4, <2>2, <4>1 DEF VisitedUnder
      <4>3. VisitedUnder(i, n)
        BY <3>2, <4>2 DEF VisitedUnder
      <4>4. \/ low[frames[i].id] <= indices[t]
            \/ n = frames[i].id /\ t \in Mentioned(frames[i].rest)
        BY <3>1, <4>3 DEF LinksInv, LowLinks, k
      <4>5. low'[frames[i].id] = low[frames[i].id]
        BY <1>2, <1>11, <1>13, <3>1, <3>3
      <4>6. QED
        BY <1>3, <1>4, <3>1, <4>1, <4>4, <4>5
    <3>4. CASE i = k - 1
      <4>1. frames[i].id = u
        BY <3>4 DEF u
      <4>2. CASE indices[n] < indices[v]
        <5>1. VisitedUnder(i, n)
          BY <1>2, <1>5, <3>2, <3>4, <4>2 DEF VisitedUnder
        <5>2. \/ low[frames[i].id] <= indices[t]
              \/ n = frames[i].id /\ t \in Mentioned(frames[i].rest)
          BY <3>1, <5>1 DEF LinksInv, LowLinks, k
        <5>3. CASE low[u] <= indices[t]
          BY <1>2, <1>4, <1>10, <1>11, <3>1, <4>1, <5>3
        <5>4. CASE n = u /\ t = v
          <6>1. low[v] <= indices[v] /\ low[v] \in Nat /\ indices[v] \in Nat
            BY <1>2, <1>5
          <6>2. QED
            BY <1>4, <1>11, <3>1, <4>1, <5>4, <6>1
        <5>5. CASE n = u /\ t \in Mentioned(frames[i].rest) /\ t # v
          BY <1>12, <3>1, <3>4, <4>1, <5>5
        <5>6. QED
          BY <4>1, <5>2, <5>3, <5>4, <5>5
      <4>3. CASE indices[v] <= indices[n]
        <5>1. VisitedUnder(k, n)
          BY <1>2, <1>5, <4>3 DEF VisitedUnder, k
        <5>2. low[v] <= indices[t]
          BY <1>5, <3>1, <5>1 DEF LinksInv, LowLinks, k
        <5>3. low[v] \in Nat
          BY <1>2, <1>5
        <5>4. QED
          BY <1>4, <1>11, <3>1, <4>1, <5>2, <5>3
      <4>4. QED
        BY <1>2, <1>5, <3>1, <4>2, <4>3
    <3>5. QED
      BY <3>3, <3>4
  <2>3. QED
    BY <2>1, <2>2 DEF LowLinks
<1>18. TrapsJudged'
  BY <1>4 DEF LinksInv, TrapsJudged, Finished
<1>19. QED
  BY <1>14, <1>15, <1>16, <1>17, <1>18 DEF LinksInv

(* A finite set with two different elements.                                *)
LEMMA TwoElements ==
  ASSUME NEW S, IsFiniteSet(S), NEW x \in S, NEW y \in S, x # y
  PROVE  Cardinality(S) > 1
<1>1. IsFiniteSet({x}) /\ Cardinality({x}) = 1
  BY FS_Singleton
<1>2. IsFiniteSet({x} \cup {y}) /\ Cardinality({x} \cup {y}) = Cardinality({x}) + 1
  <2>1. y \notin {x}
    OBVIOUS
  <2>2. QED
    BY <1>1, <2>1, FS_AddElement
<1>3. {x} \cup {y} \in SUBSET S
  OBVIOUS
<1>4. Cardinality({x} \cup {y}) <= Cardinality(S) /\ Cardinality(S) \in Nat
  BY <1>3, FS_Subset, FS_CardinalityType
<1>5. QED
  BY <1>1, <1>2, <1>4

(* A component that a trap meets, and no finished step of the trap besides, *)
(* is judged inescapable: control stays in it whatever branch is taken.     *)
LEMMA TrapIsJudged ==
  ASSUME LoopInv, LinksInv, Walking, Top.rest = <<>>, low[Top.id] = indices[Top.id],
         NEW T \in SUBSET StepIds(flow), IsTrap(flow, T),
         T \cap Finished = {}, T \cap Component(Top.id) # {}
  PROVE  IsInescapable(flow, Top.id, Component(Top.id))
<1> DEFINE v == Top.id
           C == Component(Top.id)
<1>1. /\ \A n \in C : Followed(flow, n) \subseteq Finished \cup C
      /\ C = {n \in StepIds(flow) : Connected(flow, v, n)}
  BY ComponentIsWhole
<1>2. IsFiniteSet(C)
  BY ComponentIsTop DEF Walking
<1>3. v \in C
  <2>1. v \in onStack /\ v \in DOMAIN indices
    BY TopProperties DEF Walking
  <2>2. indices[v] \in Nat
    BY <2>1, WalkFacts
  <2>3. QED
    BY <2>1, <2>2, ComponentIsTop DEF Walking
<1> HIDE DEF v, C
<1>4. FollowClosed(flow, T)
  BY DEF IsTrap, FollowClosed, IsFollowed, IsWalkTarget
<1>5. PICK x \in T : x \in C
  BY DEF C
<1>6. C \subseteq T
  <2> SUFFICES ASSUME NEW n \in C PROVE n \in T
    OBVIOUS
  <2>1. v \in StepIds(flow) /\ x \in StepIds(flow)
    BY <1>1, <1>3, <1>5
  <2>2. v \in FollowedFrom(flow, x) /\ n \in FollowedFrom(flow, v)
    BY <1>1, <1>5 DEF Connected
  <2>3. n \in FollowedFrom(flow, x)
    BY <2>1, <2>2, FollowedTransitive
  <2>4. QED
    BY <1>4, <1>5, <2>1, <2>3, FollowedWithin
<1>7. ASSUME NEW n \in C, NEW t \in Mentioned(CycleEdges(flow, n)) \ {Absent}
      PROVE  ~IsNextMarker(t) /\ t \in C
  <2>1. ~IsNextMarker(t) /\ t \in T /\ t \in StepIds(flow)
    BY <1>6 DEF IsTrap
  <2>2. t \in Followed(flow, n)
    BY <1>7, <2>1 DEF Followed, IsFollowed, IsWalkTarget
  <2>3. QED
    BY <1>1, <1>7, <2>1, <2>2
<1>8. ASSUME NEW n \in C PROVE ~StepLeavesCycle(flow, n, C)
  <2>1. ~flow.steps[n].fans /\ flow.steps[n].default # Absent
    BY <1>6 DEF IsTrap
  <2>2. QED
    BY <1>7, <2>1 DEF StepLeavesCycle
<1>9. Cardinality(C) > 1 \/ v \in Mentioned(CycleEdges(flow, v))
  <2> DEFINE t == flow.steps[v].default
  <2>1. t # Absent /\ v \in StepIds(flow)
    BY <1>1, <1>3, <1>6 DEF IsTrap
  <2>2. t \in Mentioned(CycleEdges(flow, v))
    BY <2>1, WalkFacts, MentionedCycleEdges
  <2>3. t \in C
    BY <1>3, <1>7, <2>1, <2>2
  <2> HIDE DEF t
  <2>4. CASE t = v
    BY <2>2, <2>4
  <2>5. CASE t # v
    BY <1>2, <1>3, <2>3, <2>5, TwoElements
  <2>6. QED
    BY <2>4, <2>5
<1>10. QED
  BY <1>8, <1>9 DEF IsInescapable, v, C

(* A component is closed: its steps are finished, the links below stay.     *)
LEMMA CloseLinks ==
  ASSUME LoopInv, LinksInv, CloseComponent
  PROVE  LinksInv'
<1> DEFINE k == Len(frames)
           v == Top.id
           C == Component(Top.id)
<1>1. /\ Walking /\ frames # <<>> /\ loopPc = "walk" /\ Top.rest = <<>> /\ low[v] = indices[v]
      /\ Return
      /\ onStack' = onStack \ C
      /\ found' = (found \/ IsInescapable(flow, v, C))
      /\ UNCHANGED <<flow, loopPc, indices>>
  BY DEF CloseComponent, Walking
<1>2. /\ DOMAIN indices \subseteq StepIds(flow) /\ onStack \subseteq DOMAIN indices
      /\ k \in Nat /\ k >= 1 /\ Top = frames[k]
      /\ \A n \in DOMAIN indices :
           indices[n] \in Nat /\ low[n] \in Nat /\ low[n] <= indices[n]
      /\ \A i \in 1..k : frames[i].id \in onStack /\ frames[i].id \in DOMAIN indices
      /\ \A i, j \in 1..k : i < j => indices[frames[i].id] < indices[frames[j].id]
  BY <1>1, WalkFacts, TopProperties
<1>3. /\ Len(frames') = k - 1
      /\ \A i \in 1..(k - 1) : frames'[i].id = frames[i].id
      /\ \A i \in 1..(k - 2) : frames'[i] = frames[i]
      /\ k = 1 => low' = low
      /\ k > 1 =>
           /\ Mentioned(frames[k - 1].rest) = {v} \cup Mentioned(frames'[k - 1].rest)
           /\ low'[frames[k - 1].id] = IF low[v] < low[frames[k - 1].id]
                                       THEN low[v] ELSE low[frames[k - 1].id]
           /\ \A n \in DOMAIN indices : n # frames[k - 1].id => low'[n] = low[n]
  BY <1>1, ReturnFacts
<1>4. flow' = flow /\ indices' = indices /\ loopPc' = loopPc
  BY <1>1
<1>5. v = frames[k].id /\ Mentioned(frames[k].rest) = {} /\ v \in onStack
      /\ v \in DOMAIN indices /\ k \in 1..k
  BY <1>1, <1>2, MentionedEmpty
<1>6. /\ \A n \in C : Followed(flow, n) \subseteq Finished \cup C
      /\ C = {n \in onStack : indices[v] <= indices[n]}
  BY <1>1, ComponentIsWhole, ComponentIsTop
<1>7. /\ IsInescapable(flow, v, C) =>  found'
      /\ found => found'
      /\ \A T \in SUBSET StepIds(flow) :
           IsTrap(flow, T) /\ T \cap Finished = {} /\ T \cap C # {} => IsInescapable(flow, v, C)
  <2>1. \A T \in SUBSET StepIds(flow) :
           IsTrap(flow, T) /\ T \cap Finished = {} /\ T \cap C # {} => IsInescapable(flow, v, C)
    BY <1>1, TrapIsJudged
  <2>2. QED
    BY <1>1, <2>1
<1> HIDE DEF k, v, C
<1>8. /\ \A n \in onStack' : /\ n \in onStack /\ n \in DOMAIN indices /\ indices[n] \in Nat
                             /\ indices[n] < indices[v]
      /\ \A n \in onStack : indices[n] < indices[v] => n \in onStack'
  BY <1>1, <1>2, <1>5, <1>6
<1>9. Finished' = Finished \cup C
  BY <1>1, <1>2, <1>4, <1>6 DEF Finished
<1>10. \A i \in 1..(k - 1) :
         /\ i \in 1..k /\ frames[i].id \in DOMAIN indices /\ frames[i].id \in onStack
         /\ indices[frames[i].id] < indices[v]
         /\ i # k - 1 => i \in 1..(k - 2) /\ i + 1 \in 1..(k - 1)
  BY <1>2, <1>5
<1>11. \A n \in DOMAIN indices : low'[n] = low[n]
  <2>1. CASE k = 1
    BY <1>3, <2>1
  <2>2. CASE k > 1
    <3> DEFINE u == frames[k - 1].id
    <3>1. k - 1 \in 1..(k - 1)
      BY <1>2, <2>2
    <3>2. u \in DOMAIN indices /\ indices[u] < indices[v]
      BY <1>10, <3>1
    <3>3. ~(low[v] < low[u])
      BY <1>1, <1>2, <1>5, <3>2 DEF v
    <3>4. QED
      BY <1>3, <2>2, <3>3
  <2>3. QED
    BY <1>2, <2>1, <2>2
<1>12. EdgesFollowed'
  <2>1. \A n \in Finished' : Followed(flow', n) \subseteq Finished'
    BY <1>4, <1>6, <1>9 DEF LinksInv, EdgesFollowed
  <2>2. ASSUME NEW n \in onStack', NEW t \in Followed(flow', n), t \notin DOMAIN indices'
        PROVE  Pends(n, t)'
    <3>1. n \in onStack /\ t \in Followed(flow, n) /\ t \notin DOMAIN indices
      BY <1>4, <1>8, <2>2
    <3>2. PICK i \in 1..k : frames[i].id = n /\ t \in Mentioned(frames[i].rest)
      BY <3>1 DEF LinksInv, EdgesFollowed, Pends, k
    <3>3. i \in 1..(k - 1) /\ t # v
      BY <1>2, <1>5, <3>1, <3>2
    <3>4. t \in Mentioned(frames'[i].rest)
      <4>1. CASE i = k - 1
        <5>1. k > 1
          BY <1>2, <3>3
        <5>2. QED
          BY <1>3, <3>2, <3>3, <4>1, <5>1
      <4>2. CASE i # k - 1
        BY <1>3, <1>10, <3>2, <3>3, <4>2
      <4>3. QED
        BY <4>1, <4>2
    <3>5. QED
      BY <1>3, <3>2, <3>3, <3>4 DEF Pends
  <2>3. QED
    BY <2>1, <2>2 DEF EdgesFollowed
<1>13. CallsChained'
  <2> SUFFICES ASSUME NEW i \in 1..(Len(frames') - 1)
               PROVE  Head(frames'[i].rest) = frames'[i + 1].id
    BY DEF CallsChained
  <2>1. i \in 1..(k - 2) /\ i \in 1..(k - 1) /\ i + 1 \in 1..(k - 1)
    BY <1>2, <1>3
  <2>2. Head(frames[i].rest) = frames[i + 1].id
    BY <2>1 DEF LinksInv, CallsChained, k
  <2>3. QED
    BY <1>3, <2>1, <2>2
<1>14. CallsConnect'
  <2>1. ASSUME NEW i \in 1..Len(frames'), NEW n \in onStack',
               indices'[frames'[i].id] <= indices'[n]
        PROVE  n \in FollowedFrom(flow', frames'[i].id)
    <3>1. i \in 1..(k - 1) /\ i \in 1..k /\ n \in onStack
      BY <1>3, <1>8, <1>10
    <3>2. QED
      BY <1>3, <1>4, <2>1, <3>1 DEF LinksInv, CallsConnect, k
  <2>2. ASSUME NEW n \in onStack'
        PROVE  \E i \in 1..Len(frames') :
                 /\ indices'[frames'[i].id] <= indices'[n]
                 /\ frames'[i].id \in FollowedFrom(flow', n)
    <3>1. PICK i \in 1..k : /\ indices[frames[i].id] <= indices[n]
                            /\ frames[i].id \in FollowedFrom(flow, n)
      BY <1>8, <2>2 DEF LinksInv, CallsConnect, k
    <3>2. i # k
      BY <1>2, <1>5, <1>8, <2>2, <3>1
    <3>3. i \in 1..(k - 1)
      BY <1>2, <3>2
    <3>4. QED
      BY <1>3, <1>4, <3>1, <3>3
  <2>3. QED
    BY <2>1, <2>2 DEF CallsConnect
<1>15. LowLinks'
  <2>1. ASSUME NEW n \in onStack'
        PROVE  \E m \in onStack' : indices'[m] = low'[n] /\ m \in FollowedFrom(flow', n)
    <3>1. n \in onStack /\ n \in DOMAIN indices /\ indices[n] < indices[v] /\ low'[n] = low[n]
      BY <1>8, <1>11, <2>1
    <3>2. PICK m \in onStack : indices[m] = low[n] /\ m \in FollowedFrom(flow, n)
      BY <3>1 DEF LinksInv, LowLinks
    <3>3. m \in onStack'
      BY <1>2, <1>5, <1>8, <3>1, <3>2
    <3>4. QED
      BY <1>4, <3>1, <3>2, <3>3
  <2>2. ASSUME NEW i \in 1..Len(frames'), NEW n \in onStack', VisitedUnder(i, n)',
               NEW t \in Followed(flow', n) \cap onStack'
        PROVE  \/ low'[frames'[i].id] <= indices'[t]
               \/ n = frames'[i].id /\ t \in Mentioned(frames'[i].rest)
    <3>1. /\ i \in 1..(k - 1) /\ i \in 1..k /\ frames'[i].id = frames[i].id
          /\ n \in onStack /\ indices[n] < indices[v]
          /\ t \in Followed(flow, n) \cap onStack /\ indices[t] < indices[v]
          /\ low'[frames[i].id] = low[frames[i].id]
      BY <1>3, <1>4, <1>8, <1>10, <1>11, <2>2
    <3>2. VisitedUnder(i, n)
      <4>1. indices[frames[i].id] <= indices[n]
        BY <1>4, <2>2, <3>1 DEF VisitedUnder
      <4>2. indices[n] < indices[frames[i + 1].id]
        <5>1. CASE i = k - 1
          <6>1. i + 1 = k
            BY <1>2, <5>1
          <6>2. QED
            BY <1>5, <3>1, <6>1
        <5>2. CASE i # k - 1
          <6>1. i + 1 \in 1..(k - 1) /\ i < Len(frames')
            BY <1>2, <1>3, <1>10, <3>1, <5>2
          <6>2. QED
            BY <1>3, <1>4, <2>2, <6>1 DEF VisitedUnder
        <5>3. QED
          BY <5>1, <5>2
      <4>3. QED
        BY <4>1, <4>2 DEF VisitedUnder
    <3>3. \/ low[frames[i].id] <= indices[t]
          \/ n = frames[i].id /\ t \in Mentioned(frames[i].rest)
      BY <3>1, <3>2 DEF LinksInv, LowLinks, k
    <3>4. CASE low[frames[i].id] <= indices[t]
      BY <1>4, <3>1, <3>4
    <3>5. CASE n = frames[i].id /\ t \in Mentioned(frames[i].rest)
      <4>1. t # v
        BY <1>2, <1>5, <3>1
      <4>2. CASE i = k - 1
        <5>1. k > 1
          BY <1>2, <3>1
        <5>2. QED
          BY <1>3, <3>1, <3>5, <4>1, <4>2, <5>1
      <4>3. CASE i # k - 1
        BY <1>3, <1>10, <3>1, <3>5, <4>3
      <4>4. QED
        BY <4>2, <4>3
    <3>6. QED
      BY <3>3, <3>4, <3>5
  <2>3. QED
    BY <2>1, <2>2 DEF LowLinks
<1>16. TrapsJudged'
  <2>1. loopPc' # "begin" /\ HasStart(flow') => flow'.start \in DOMAIN indices'
    BY <1>1, <1>4 DEF LinksInv, TrapsJudged
  <2>2. ASSUME ~found', NEW T \in SUBSET StepIds(flow'), IsTrap(flow', T)
        PROVE  T \cap Finished' = {}
    <3>1. T \cap Finished = {}
      BY <1>4, <1>7, <2>2 DEF LinksInv, TrapsJudged
    <3>2. T \cap C = {}
      BY <1>4, <1>7, <2>2, <3>1
    <3>3. QED
      BY <1>9, <3>1, <3>2
  <2>3. QED
    BY <2>1, <2>2 DEF TrapsJudged
<1>17. QED
  BY <1>12, <1>13, <1>14, <1>15, <1>16 DEF LinksInv

LEMMA InitLinks == LoopInit => LinksInv
<1> SUFFICES ASSUME LoopInit PROVE LinksInv
  OBVIOUS
<1>1. /\ loopPc = "begin" /\ indices = <<>> /\ onStack = {} /\ frames = <<>>
      /\ DOMAIN indices = {} /\ Len(frames) = 0 /\ Finished = {}
  BY DEF LoopInit, InitLoop, Finished
<1>2. EdgesFollowed /\ CallsChained /\ CallsConnect /\ LowLinks
  BY <1>1 DEF EdgesFollowed, CallsChained, CallsConnect, LowLinks
<1>3. TrapsJudged
  BY <1>1 DEF TrapsJudged
<1>4. QED
  BY <1>2, <1>3 DEF LinksInv

LEMMA NextLinks == LoopInv /\ LinksInv /\ [LoopNext]_<<flow, loopVars>> => LinksInv'
<1> SUFFICES ASSUME LoopInv, LinksInv, [LoopNext]_<<flow, loopVars>> PROVE LinksInv'
  OBVIOUS
<1>1. CASE NoStart
  <2>1. /\ ~HasStart(flow) /\ flow' = flow
        /\ UNCHANGED <<indices, low, onStack, frames, found>>
    BY <1>1 DEF NoStart
  <2>2. TrapsJudged'
    BY <2>1 DEF LinksInv, TrapsJudged, Finished
  <2>3. EdgesFollowed' /\ CallsChained' /\ CallsConnect' /\ LowLinks'
    BY <2>1 DEF LinksInv, EdgesFollowed, Finished, Pends, CallsChained, CallsConnect,
                LowLinks, VisitedUnder
  <2>4. QED
    BY <2>2, <2>3 DEF LinksInv
<1>2. CASE Begin
  <2>1. /\ flow.start \in StepIds(flow) /\ Enter(flow.start) /\ loopPc = "begin"
    BY <1>2 DEF Begin, HasStart
  <2>2. frames = <<>> /\ flow.start \notin DOMAIN indices
    BY <2>1 DEF LoopInv, CallsOK
  <2>3. QED
    BY <2>1, <2>2, EnterLinks
<1>3. CASE PassEdge
  <2>1. /\ Walking /\ Top.rest # <<>> /\ ~IsFollowed(flow, Pending) /\ frames' = Advance(frames)
        /\ low' = low /\ UNCHANGED <<flow, loopPc, indices, onStack, found>>
    BY <1>3 DEF PassEdge
  <2>2. Top.id \in onStack /\ Top.id \in DOMAIN indices
    BY <2>1, TopProperties DEF Walking
  <2>3. low[Top.id] \in Nat
    BY <2>2, WalkFacts
  <2>4. \E m \in onStack : indices[m] = low[Top.id] /\ m \in FollowedFrom(flow, Top.id)
    BY <2>2 DEF LinksInv, LowLinks
  <2>5. Pending \notin Followed(flow, Top.id)
    BY <2>1 DEF Followed
  <2>6. low'[Top.id] \in Nat /\ low'[Top.id] <= low[Top.id]
    BY <2>1, <2>3
  <2>7. QED
    BY <2>1, <2>4, <2>5, <2>6, AdvanceLinks
<1>4. CASE Call
  <2>1. /\ Walking /\ loopPc = "walk" /\ frames # <<>> /\ Top.rest # <<>>
        /\ IsFollowed(flow, Pending) /\ Pending \notin DOMAIN indices /\ Enter(Pending)
    BY <1>4 DEF Call, Walking
  <2>2. Top.id \in StepIds(flow) /\ Pending \in Mentioned(CycleEdges(flow, Top.id))
    BY <2>1, TopProperties, WalkFacts, MentionedHeadTail DEF Pending
  <2>3. Pending \in StepIds(flow) /\ Pending \in FollowedFrom(flow, Top.id)
    BY <2>1, <2>2, FollowedStep DEF Followed
  <2>4. QED
    BY <2>1, <2>3, EnterLinks DEF Pending
<1>5. CASE Revisit
  <2>1. /\ Walking /\ Top.rest # <<>> /\ IsFollowed(flow, Pending)
        /\ Pending \in DOMAIN indices /\ frames' = Advance(frames)
        /\ low' = IF Pending \in onStack /\ indices[Pending] < low[Top.id]
                  THEN [low EXCEPT ![Top.id] = indices[Pending]] ELSE low
        /\ UNCHANGED <<flow, loopPc, indices, onStack, found>>
    BY <1>5 DEF Revisit
  <2>2. /\ Top.id \in onStack /\ Top.id \in DOMAIN indices /\ Top.id \in StepIds(flow)
        /\ low[Top.id] \in Nat /\ indices[Pending] \in Nat
        /\ low \in [DOMAIN indices -> Nat]
    BY <2>1, TopProperties, WalkFacts DEF Walking, LoopInv, LoopTypeOK
  <2>3. Pending \in FollowedFrom(flow, Top.id)
    <3>1. Pending \in Mentioned(CycleEdges(flow, Top.id))
      BY <2>1, TopProperties, MentionedHeadTail DEF Pending, Walking
    <3>2. QED
      BY <2>1, <2>2, <3>1, FollowedStep DEF Followed
  <2> DEFINE top == Top.id
             n == indices[Pending]
  <2>4. low' = IF Pending \in onStack /\ n < low[top] THEN [low EXCEPT ![top] = n] ELSE low
    BY <2>1
  <2>5. top \in DOMAIN indices /\ low[top] \in Nat /\ n \in Nat
    BY <2>2
  <2> HIDE DEF top, n
  <2>6. /\ \A x \in DOMAIN indices : x # top => low'[x] = low[x]
        /\ low'[top] \in Nat /\ low'[top] <= low[top]
        /\ Pending \in onStack => low'[top] <= n
        /\ low'[top] = low[top] \/ (Pending \in onStack /\ low'[top] = n)
    BY <2>2, <2>4, <2>5
  <2>7. \E m \in onStack : indices[m] = low'[top] /\ m \in FollowedFrom(flow, top)
    <3>1. CASE low'[top] = low[top]
      BY <2>2, <3>1 DEF LinksInv, LowLinks, top
    <3>2. CASE Pending \in onStack /\ low'[top] = n
      BY <2>3, <3>2 DEF top, n
    <3>3. QED
      BY <2>6, <3>1, <3>2
  <2>8. QED
    BY <2>1, <2>6, <2>7, AdvanceLinks DEF top, n
<1>6. CASE ReturnOpen
  BY <1>6, ReturnOpenLinks
<1>7. CASE CloseComponent
  BY <1>7, CloseLinks
<1>8. CASE Finish
  <2>1. /\ loopPc = "walk" /\ flow' = flow
        /\ UNCHANGED <<indices, low, onStack, frames, found>>
    BY <1>8 DEF Finish
  <2>2. TrapsJudged'
    BY <2>1 DEF LinksInv, TrapsJudged, Finished
  <2>3. EdgesFollowed' /\ CallsChained' /\ CallsConnect' /\ LowLinks'
    BY <2>1 DEF LinksInv, EdgesFollowed, Finished, Pends, CallsChained, CallsConnect,
                LowLinks, VisitedUnder
  <2>4. QED
    BY <2>2, <2>3 DEF LinksInv
<1>9. CASE UNCHANGED <<flow, loopVars>>
  BY <1>9 DEF loopVars, LinksInv, EdgesFollowed, Finished, Pends, CallsChained, CallsConnect,
              LowLinks, VisitedUnder, TrapsJudged
<1>10. QED
  BY <1>1, <1>2, <1>3, <1>4, <1>5, <1>6, <1>7, <1>8, <1>9 DEF LoopNext

LEMMA SpecLinks == LoopSpec => [](LoopInv /\ LinksInv)
<1>1. LoopInit => LoopInv /\ LinksInv
  BY InitLoopInv, InitLinks
<1>2. (LoopInv /\ LinksInv) /\ [LoopNext]_<<flow, loopVars>> => (LoopInv /\ LinksInv)'
  BY NextLoopInv, NextLinks
<1>3. QED
  BY <1>1, <1>2, PTL DEF LoopSpec

(* When the walk is done every step a path leads to has been judged, so a   *)
(* trap would have been met.                                                *)
LEMMA JudgedAll == LoopInv /\ LinksInv => FoundExact
<1> SUFFICES ASSUME LoopInv, LinksInv, loopPc = "done" PROVE found <=> HasTrap(flow)
  BY DEF FoundExact
<1>1. ASSUME HasTrap(flow), ~found PROVE FALSE
  <2>1. HasStart(flow) /\ flow.start \in StepIds(flow) /\ flow.start \in DOMAIN indices
    BY <1>1 DEF HasTrap, HasStart, LinksInv, TrapsJudged
  <2>2. onStack = {} /\ Finished = DOMAIN indices
    BY MentionedEmpty DEF LoopInv, CallsOK, StacksAgree, Finished
  <2>3. FollowClosed(flow, Finished) /\ Finished \in SUBSET StepIds(flow)
    BY <2>2, WalkFacts DEF LinksInv, EdgesFollowed, Followed, FollowClosed
  <2>4. FollowedFrom(flow, flow.start) \subseteq Finished
    BY <2>1, <2>2, <2>3, FollowedWithin
  <2>5. PICK T \in SUBSET FollowedFrom(flow, flow.start) : IsTrap(flow, T)
    BY <1>1 DEF HasTrap
  <2>6. T \in SUBSET StepIds(flow) /\ T \cap Finished # {}
    BY <2>3, <2>4, <2>5 DEF IsTrap
  <2>7. QED
    BY <1>1, <2>5, <2>6 DEF LinksInv, TrapsJudged
<1>2. found \in BOOLEAN /\ (found => HasTrap(flow))
  BY DEF LoopInv, LoopTypeOK, FoundSound
<1>3. QED
  BY <1>1, <1>2

(* Each time strong() pops a component, it pops the steps that are mutually *)
(* connected with its root, all of them and no other, for every graph.      *)
THEOREM ComponentsAreWhole == LoopSpec => []ClosesWholeComponent
<1>1. LoopInv /\ LinksInv => ClosesWholeComponent
  BY ComponentIsWhole DEF ClosesWholeComponent
<1>2. QED
  BY <1>1, SpecLinks, PTL

(* The rule returns potential_infinite_loop exactly for the documents that  *)
(* have reachable steps control cannot leave: none is missed.               *)
THEOREM LoopWarningExact == LoopSpec => []FoundExact
BY JudgedAll, SpecLinks, PTL

------------------------------------------------------------------------------
(* The breadth-first walk.                                                  *)

(* The initial states satisfy the inductive invariant.                      *)
LEMMA InitWalkInv == WalkInit => WalkInv
<1> SUFFICES ASSUME WalkInit PROVE WalkInv
  OBVIOUS
<1>1. /\ IsFlow(flow) /\ walkPc = "begin" /\ queue = <<>> /\ reachable = {}
      /\ current = Absent /\ edges = <<>> /\ unreachable = {}
  BY FlowsAssumption DEF WalkInit, InitWalk
<1>2. WalkTypeOK
  BY <1>1 DEF WalkTypeOK, Targets
<1>3. QED
  BY <1>1, <1>2, MentionedEmpty
  DEF WalkInv, WalkShape, SeedsKept, PendingEdges, NothingInvented, NoEdgeLost

(* Every step of the walk preserves it.                                     *)
LEMMA NextWalkInv == WalkInv /\ [WalkNext]_<<flow, walkVars>> => WalkInv'
<1> SUFFICES ASSUME WalkInv, [WalkNext]_<<flow, walkVars>> PROVE WalkInv'
  OBVIOUS
<1> USE DEF WalkInv
<1>0. /\ IsFlow(flow) /\ queue \in Seq(Names) /\ edges \in Seq(Targets)
      /\ reachable \in SUBSET Names
  BY DEF WalkTypeOK
<1>1. CASE UNCHANGED <<flow, walkVars>>
  BY <1>1 DEF walkVars, WalkTypeOK, WalkShape, SeedsKept, PendingEdges, NothingInvented, NoEdgeLost
<1>2. CASE Skip
  BY <1>2 DEF Skip, WalkTypeOK, WalkShape, SeedsKept, PendingEdges, NothingInvented, NoEdgeLost
<1>3. CASE Seed
  <2>1. /\ HasStart(flow) /\ walkPc' = "pop" /\ flow' = flow
        /\ reachable' = {} /\ edges' = <<>> /\ current' = current /\ unreachable' = unreachable
    BY <1>3 DEF Seed, WalkShape
  <2>2. flow.start \in Names /\ (IsWalkTarget(flow.errorGoto) => flow.errorGoto \in Names)
    BY <1>0, <2>1 DEF IsFlow, HasStart, IsWalkTarget, Targets
  <2>3. queue' \in Seq(Names) /\ Mentioned(queue') = Seeds(flow)
    <3>1. CASE IsWalkTarget(flow.errorGoto)
      BY <1>3, <2>2, <3>1 DEF Seed, Mentioned, Seeds
    <3>2. CASE ~IsWalkTarget(flow.errorGoto)
      BY <1>3, <2>2, <3>2 DEF Seed, Mentioned, Seeds
    <3>3. QED
      BY <3>1, <3>2
  <2>4. NothingInvented'
    BY <1>0, <2>1, <2>3, LeastClosed DEF NothingInvented
  <2>5. QED
    BY <2>1, <2>3, <2>4 DEF WalkTypeOK, WalkShape, SeedsKept, PendingEdges, NoEdgeLost
<1>4. CASE PopSeen
  <2>1. /\ Mentioned(queue) = {Head(queue)} \cup Mentioned(queue')
        /\ queue' \in Seq(Names) /\ Head(queue) \in reachable
        /\ UNCHANGED <<flow, walkPc, reachable, current, edges, unreachable>>
        /\ walkPc = "pop"
    BY <1>0, <1>4, MentionedHeadTail DEF PopSeen
  <2>2. SeedsKept' /\ NoEdgeLost' /\ NothingInvented'
    BY <2>1 DEF SeedsKept, NoEdgeLost, NothingInvented
  <2>3. QED
    BY <2>1, <2>2 DEF WalkTypeOK, WalkShape, PendingEdges
<1>5. CASE PopNew
  <2>1. /\ Mentioned(queue) = {Head(queue)} \cup Mentioned(queue')
        /\ queue' \in Seq(Names) /\ Head(queue) \in Names
        /\ reachable' = reachable \cup {Head(queue)} /\ current' = Head(queue)
        /\ edges' = ReachEdges(flow, Head(queue)) /\ walkPc = "pop" /\ walkPc' = "push"
        /\ UNCHANGED <<flow, unreachable>>
    BY <1>0, <1>5, MentionedHeadTail DEF PopNew
  <2>2. edges' \in Seq(Targets)
    BY <1>0, <2>1, ReachEdgesType
  <2>3. WalkTypeOK'
    BY <2>1, <2>2 DEF WalkTypeOK, Targets
  <2>4. SeedsKept' /\ NothingInvented' /\ PendingEdges' /\ WalkShape'
    BY <2>1 DEF SeedsKept, NothingInvented, PendingEdges, WalkShape
  <2>5. NoEdgeLost'
    <3>1. Mentioned(edges) = {}
      BY <2>1, MentionedEmpty DEF WalkShape
    <3>2. QED
      BY <2>1, <3>1 DEF NoEdgeLost
  <2>6. QED
    BY <2>3, <2>4, <2>5
<1>6. CASE Push
  <2>1. /\ Mentioned(edges) = {Head(edges)} \cup Mentioned(edges')
        /\ edges' \in Seq(Targets) /\ Head(edges) \in Targets /\ IsWalkTarget(Head(edges))
        /\ queue' = Append(queue, Head(edges))
        /\ UNCHANGED <<flow, walkPc, reachable, current, unreachable>> /\ walkPc = "push"
    BY <1>0, <1>6, MentionedHeadTail DEF Push
  <2>2. Head(edges) \in Names
    BY <2>1 DEF IsWalkTarget, Targets
  <2>3. queue' \in Seq(Names) /\ Mentioned(queue') = Mentioned(queue) \cup {Head(edges)}
    BY <1>0, <2>1, <2>2, MentionedAppend, AppendProperties
  <2>4. NothingInvented'
    <3>1. HasStart(flow) /\ current \in ReachableFrom(flow)
      BY <2>1 DEF WalkShape, NothingInvented
    <3>2. Head(edges) \in ReachableFrom(flow)
      BY <1>0, <2>1, <3>1, LeastClosed DEF PendingEdges, Closed
    <3>3. QED
      BY <2>1, <2>3, <3>2 DEF NothingInvented
  <2>5. SeedsKept' /\ NoEdgeLost' /\ PendingEdges'
    BY <2>1, <2>3 DEF SeedsKept, NoEdgeLost, PendingEdges
  <2>6. QED
    BY <2>1, <2>3, <2>4, <2>5 DEF WalkTypeOK, WalkShape
<1>7. CASE PassTarget
  <2>1. /\ Mentioned(edges) = {Head(edges)} \cup Mentioned(edges')
        /\ edges' \in Seq(Targets) /\ (~IsWalkTarget(Head(edges)) \/ Head(edges) \in reachable)
        /\ UNCHANGED <<flow, walkPc, queue, reachable, current, unreachable>> /\ walkPc = "push"
    BY <1>0, <1>7, MentionedHeadTail DEF PassTarget
  <2>2. NoEdgeLost'
    BY <2>1 DEF NoEdgeLost
  <2>3. QED
    BY <2>1, <2>2 DEF WalkTypeOK, WalkShape, SeedsKept, PendingEdges, NothingInvented
<1>8. CASE NextPop
  <2>1. /\ edges = <<>> /\ walkPc = "push" /\ walkPc' = "pop" /\ current' = Absent
        /\ UNCHANGED <<flow, queue, reachable, edges, unreachable>>
    BY <1>8 DEF NextPop
  <2>2. NoEdgeLost'
    BY <2>1, MentionedEmpty DEF NoEdgeLost
  <2>3. QED
    BY <2>1, <2>2
    DEF WalkTypeOK, Targets, WalkShape, SeedsKept, PendingEdges, NothingInvented
<1>9. CASE Report
  <2>1. /\ queue = <<>> /\ walkPc = "pop" /\ walkPc' = "done"
        /\ unreachable' = StepIds(flow) \ reachable
        /\ UNCHANGED <<flow, queue, reachable, current, edges>>
    BY <1>9 DEF Report
  <2>2. unreachable' \in SUBSET Names
    BY <1>0, <2>1 DEF IsFlow, StepIds
  <2>3. QED
    BY <2>1, <2>2
    DEF WalkTypeOK, WalkShape, SeedsKept, PendingEdges, NothingInvented, NoEdgeLost, StepIds
<1>10. QED
  BY <1>1, <1>2, <1>3, <1>4, <1>5, <1>6, <1>7, <1>8, <1>9 DEF WalkNext

LEMMA SpecWalkInv == WalkSpec => []WalkInv
BY InitWalkInv, NextWalkInv, PTL DEF WalkSpec

(* The invariant implies that the warnings are exact: at the end the        *)
(* visited names are closed and hold the seeds, so they are the least       *)
(* closed set.                                                              *)
LEMMA WalkInvReportExact == WalkInv => ReportExact
<1> SUFFICES ASSUME WalkInv, walkPc = "done"
             PROVE  unreachable = StepIds(flow) \ ReachableFrom(flow)
  BY DEF ReportExact
<1>1. /\ HasStart(flow) /\ queue = <<>> /\ edges = <<>> /\ IsFlow(flow)
      /\ unreachable = StepIds(flow) \ reachable /\ reachable \in SUBSET Names
  BY DEF WalkInv, WalkShape, WalkTypeOK
<1>2. Seeds(flow) \subseteq reachable
  BY <1>1, MentionedEmpty DEF WalkInv, SeedsKept
<1>3. Closed(flow, reachable)
  BY <1>1, MentionedEmpty DEF WalkInv, NoEdgeLost, Closed
<1>4. ReachableFrom(flow) = reachable
  BY <1>1, <1>2, <1>3, LeastClosed DEF WalkInv, NothingInvented
<1>5. QED
  BY <1>1, <1>4

(* Type correctness of the walk.                                            *)
THEOREM WalkTypeCorrect == WalkSpec => []WalkTypeOK
BY SpecWalkInv, PTL DEF WalkInv

(* A name is visited or queued only when control can be routed to it.       *)
THEOREM WalkSound == WalkSpec => []NothingInvented
BY SpecWalkInv, PTL DEF WalkInv

(* No edge of a visited step is lost while the queue is worked off.         *)
THEOREM WalkComplete == WalkSpec => []NoEdgeLost
BY SpecWalkInv, PTL DEF WalkInv

(* The unreachable_step warnings are exact for every document.              *)
THEOREM WarningsExact == WalkSpec => []ReportExact
BY SpecWalkInv, WalkInvReportExact, PTL

(* Every name has its place in the order, and no two share one.             *)
LEMMA PositionFacts ==
  /\ \A n \in Names : Position(n) \in 1..Len(Order) /\ Order[Position(n)] = n
  /\ \A m, n \in Names : Position(m) = Position(n) => m = n
  /\ Len(Order) \in Nat
<1>1. Order \in Seq(Names) /\ Mentioned(Order) = Names /\ Len(Order) \in Nat
  BY OrderAssumption, LenProperties
<1>2. ASSUME NEW n \in Names
      PROVE  Position(n) \in 1..Len(Order) /\ Order[Position(n)] = n
  <2>1. \E i \in 1..Len(Order) : Order[i] = n
    BY <1>1 DEF Mentioned
  <2>2. QED
    BY <2>1 DEF Position
<1>3. ASSUME NEW m \in Names, NEW n \in Names, Position(m) = Position(n) PROVE m = n
  <2>1. Order[Position(m)] = m /\ Order[Position(n)] = n
    BY <1>2
  <2>2. QED
    BY <1>3, <2>1
<1>4. QED
  BY <1>1, <1>2, <1>3

(* Only one id comes first.                                                 *)
LEMMA FirstIsOne ==
  ASSUME NEW S \in SUBSET Names, NEW m, NEW n, IsFirst(m, S), IsFirst(n, S)
  PROVE  m = n
<1>1. m \in Names /\ n \in Names /\ Position(m) <= Position(n) /\ Position(n) <= Position(m)
  BY DEF IsFirst
<1>2. Position(m) \in Nat /\ Position(n) \in Nat
  BY <1>1, PositionFacts
<1>3. Position(m) = Position(n)
  BY <1>1, <1>2
<1>4. QED
  BY <1>1, <1>3, PositionFacts

(* The rank of a finding about a step is the step's place.                  *)
LEMMA RankOfStep ==
  ASSUME NEW finding, finding.step \in Names
  PROVE  Rank(finding) = Position(finding.step) /\ Rank(finding) \in 1..Len(Order)
<1>1. finding.step # Absent
  BY NamesAssumption
<1>2. QED
  BY <1>1, PositionFacts DEF Rank

(* What a true error can be: about the default at entry 0, about one of the *)
(* conditions at a later entry.                                             *)
LEMMA TrueErrorFacts ==
  ASSUME NEW f, IsFlow(f), NEW e \in TrueErrors(f)
  PROVE  /\ e.step \in StepIds(f) /\ e.step \in Names /\ e.at[2] \in Nat
         /\ e.at[2] = 0 => e = StepNotFound(e.step, AtDefault) /\ IsDangling(f, f.steps[e.step].default)
         /\ e.at[2] # 0 =>
              /\ e.at[2] \in 1..Len(f.steps[e.step].conditions)
              /\ \/ /\ e = StepNotFound(e.step, AtCondition(e.at[2]))
                    /\ IsDangling(f, f.steps[e.step].conditions[e.at[2]].goto)
                 \/ /\ e = UnknownYamlKey(e.step, AtCondition(e.at[2]))
                    /\ f.steps[e.step].conditions[e.at[2]].wrongKey
<1>0. StepIds(f) \subseteq Names
  BY DEF IsFlow, StepIds
<1>1. CASE \E n \in StepIds(f) : IsDangling(f, f.steps[n].default) /\ e = StepNotFound(n, AtDefault)
  <2>1. PICK n \in StepIds(f) : IsDangling(f, f.steps[n].default) /\ e = StepNotFound(n, AtDefault)
    BY <1>1
  <2>2. e.step = n /\ e.at[2] = 0
    BY <2>1 DEF StepNotFound, Finding, AtDefault
  <2>3. QED
    BY <1>0, <2>1, <2>2
<1>2. CASE \E n \in StepIds(f) : \E i \in DanglingConditions(f, n) : e = StepNotFound(n, AtCondition(i))
  <2>0. PICK n \in StepIds(f) : \E i \in DanglingConditions(f, n) : e = StepNotFound(n, AtCondition(i))
    BY <1>2
  <2>1. PICK i \in DanglingConditions(f, n) : e = StepNotFound(n, AtCondition(i))
    BY <2>0
  <2>2. e.step = n /\ e.at[2] = i
    BY <2>1 DEF StepNotFound, Finding, AtCondition
  <2>3. i \in 1..Len(f.steps[n].conditions) /\ IsDangling(f, f.steps[n].conditions[i].goto)
    BY DEF DanglingConditions
  <2>4. i \in Nat /\ i # 0
    BY <2>3
  <2>5. QED
    BY <1>0, <2>1, <2>2, <2>3, <2>4
<1>3. CASE \E n \in StepIds(f) : \E i \in MiskeyedConditions(f, n) : e = UnknownYamlKey(n, AtCondition(i))
  <2>0. PICK n \in StepIds(f) : \E i \in MiskeyedConditions(f, n) : e = UnknownYamlKey(n, AtCondition(i))
    BY <1>3
  <2>1. PICK i \in MiskeyedConditions(f, n) : e = UnknownYamlKey(n, AtCondition(i))
    BY <2>0
  <2>2. e.step = n /\ e.at[2] = i
    BY <2>1 DEF UnknownYamlKey, Finding, AtCondition
  <2>3. i \in 1..Len(f.steps[n].conditions) /\ f.steps[n].conditions[i].wrongKey
    BY DEF MiskeyedConditions
  <2>4. i \in Nat /\ i # 0
    BY <2>3
  <2>5. QED
    BY <1>0, <2>1, <2>2, <2>3, <2>4
<1>4. QED
  BY <1>1, <1>2, <1>3 DEF TrueErrors

(* And the converse.                                                        *)
LEMMA TrueErrorsHold ==
  ASSUME NEW f, NEW n \in StepIds(f)
  PROVE  /\ IsDangling(f, f.steps[n].default) => StepNotFound(n, AtDefault) \in TrueErrors(f)
         /\ \A i \in 1..Len(f.steps[n].conditions) :
              /\ IsDangling(f, f.steps[n].conditions[i].goto) =>
                   StepNotFound(n, AtCondition(i)) \in TrueErrors(f)
              /\ f.steps[n].conditions[i].wrongKey =>
                   UnknownYamlKey(n, AtCondition(i)) \in TrueErrors(f)
BY DEF TrueErrors, DanglingConditions, MiskeyedConditions

(* A list of findings that is in order and repeats none stays so when a     *)
(* finding is added that is new and does not come before any of them.       *)
LEMMA AppendFinding ==
  ASSUME NEW S, NEW s \in Seq(S), NEW e \in S, e \notin Mentioned(s),
         IsInjective(s), InOrder(s),
         \A x \in Mentioned(s) : Rank(x) < Rank(e) \/ (Rank(x) = Rank(e) /\ x.at[2] <= e.at[2])
  PROVE  /\ Append(s, e) \in Seq(S) /\ IsInjective(Append(s, e)) /\ InOrder(Append(s, e))
         /\ Mentioned(Append(s, e)) = Mentioned(s) \cup {e}
         /\ IsPrefix(s, Append(s, e))
<1> DEFINE t == Append(s, e)
<1>1. /\ t \in Seq(S) /\ Len(t) = Len(s) + 1 /\ Len(s) \in Nat
      /\ \A i \in 1..Len(s) : t[i] = s[i]
      /\ t[Len(s) + 1] = e
  BY AppendProperties, LenProperties
<1>2. DOMAIN s = 1..Len(s) /\ DOMAIN t = 1..(Len(s) + 1)
  BY <1>1, LenProperties
<1>3. \A i \in 1..Len(s) : s[i] \in Mentioned(s)
  BY DEF Mentioned
<1> HIDE DEF t
<1>4. IsInjective(t)
  <2> SUFFICES ASSUME NEW i \in 1..(Len(s) + 1), NEW j \in 1..(Len(s) + 1), t[i] = t[j]
               PROVE  i = j
    BY <1>2 DEF IsInjective
  <2>1. CASE i \in 1..Len(s) /\ j \in 1..Len(s)
    BY <1>1, <1>2, <2>1 DEF IsInjective
  <2>2. CASE i \in 1..Len(s) /\ j \notin 1..Len(s)
    BY <1>1, <1>3, <2>2
  <2>3. CASE i \notin 1..Len(s) /\ j \in 1..Len(s)
    BY <1>1, <1>3, <2>3
  <2>4. CASE i \notin 1..Len(s) /\ j \notin 1..Len(s)
    BY <1>1, <2>4
  <2>5. QED
    BY <2>1, <2>2, <2>3, <2>4
<1>5. InOrder(t)
  <2> SUFFICES ASSUME NEW i \in 1..Len(t), NEW j \in 1..Len(t), i < j
               PROVE  \/ Rank(t[i]) < Rank(t[j])
                      \/ Rank(t[i]) = Rank(t[j]) /\ t[i].at[2] <= t[j].at[2]
    BY DEF InOrder
  <2>1. i \in 1..Len(s) /\ t[i] = s[i]
    BY <1>1
  <2>2. CASE j \in 1..Len(s)
    BY <1>1, <2>1, <2>2 DEF InOrder
  <2>3. CASE j \notin 1..Len(s)
    <3>1. t[j] = e
      BY <1>1, <2>3
    <3>2. QED
      BY <1>3, <2>1, <3>1
  <2>4. QED
    BY <2>2, <2>3
<1>6. IsPrefix(s, t)
  <2>1. SubSeq(s, 1, Len(s)) = SubSeq(t, 1, Len(s))
    <3>1. /\ SubSeq(s, 1, Len(s)) \in Seq(S) /\ Len(SubSeq(s, 1, Len(s))) = Len(s)
          /\ \A i \in 1..Len(s) : SubSeq(s, 1, Len(s))[i] = s[i]
      BY <1>1, PrefixProperties
    <3>2. /\ SubSeq(t, 1, Len(s)) \in Seq(S) /\ Len(SubSeq(t, 1, Len(s))) = Len(s)
          /\ \A i \in 1..Len(s) : SubSeq(t, 1, Len(s))[i] = t[i]
      BY <1>1, PrefixProperties
    <3>3. QED
      BY <1>1, <3>1, <3>2, SeqEqual
  <2>2. QED
    BY <1>1, <2>1 DEF IsPrefix
<1>7. Mentioned(t) = Mentioned(s) \cup {e}
  BY MentionedAppend DEF t
<1>8. QED
  BY <1>1, <1>4, <1>5, <1>6, <1>7 DEF t

(* A list is a prefix of itself, and prefixes compose.                      *)
LEMMA PrefixFacts ==
  ASSUME NEW S, NEW s \in Seq(S), NEW t \in Seq(S), NEW u \in Seq(S)
  PROVE  /\ IsPrefix(s, s)
         /\ IsPrefix(s, t) /\ IsPrefix(t, u) => IsPrefix(s, u)
<1>1. Len(s) \in Nat /\ Len(t) \in Nat /\ Len(u) \in Nat
  BY LenProperties
<1>2. IsPrefix(s, s)
  BY <1>1 DEF IsPrefix
<1>3. ASSUME IsPrefix(s, t), IsPrefix(t, u) PROVE IsPrefix(s, u)
  <2>1. Len(s) <= Len(t) /\ Len(t) <= Len(u) /\ Len(s) <= Len(u)
    BY <1>1, <1>3 DEF IsPrefix
  <2>2. SubSeq(s, 1, Len(s)) = SubSeq(t, 1, Len(s)) /\ SubSeq(t, 1, Len(t)) = SubSeq(u, 1, Len(t))
    BY <1>3 DEF IsPrefix
  <2>3. \A i \in 1..Len(s) : t[i] = u[i]
    <3>1. \A i \in 1..Len(t) : SubSeq(t, 1, Len(t))[i] = t[i]
      BY <1>1, PrefixProperties
    <3>2. \A i \in 1..Len(t) : SubSeq(u, 1, Len(t))[i] = u[i]
      BY <1>1, <2>1, PrefixProperties
    <3>3. QED
      BY <1>1, <2>1, <2>2, <3>1, <3>2
  <2>4. SubSeq(t, 1, Len(s)) = SubSeq(u, 1, Len(s))
    <3>1. /\ SubSeq(t, 1, Len(s)) \in Seq(S) /\ Len(SubSeq(t, 1, Len(s))) = Len(s)
          /\ \A i \in 1..Len(s) : SubSeq(t, 1, Len(s))[i] = t[i]
      BY <1>1, <2>1, PrefixProperties
    <3>2. /\ SubSeq(u, 1, Len(s)) \in Seq(S) /\ Len(SubSeq(u, 1, Len(s))) = Len(s)
          /\ \A i \in 1..Len(s) : SubSeq(u, 1, Len(s))[i] = u[i]
      BY <1>1, <2>1, PrefixProperties
    <3>3. QED
      BY <1>1, <2>3, <3>1, <3>2, SeqEqual
  <2>5. QED
    BY <1>1, <2>1, <2>2, <2>4 DEF IsPrefix
<1>4. QED
  BY <1>2, <1>3

------------------------------------------------------------------------------
(* The rule runs the two walks: each of its steps is a step of one of them  *)
(* or leaves both alone, and none changes the document.                     *)
LEMMA StepsOfTheWalks ==
  [Next]_vars =>
    flow' = flow /\ [WalkNext]_<<flow, walkVars>> /\ [LoopNext]_<<flow, loopVars>>
<1> SUFFICES ASSUME [Next]_vars
             PROVE  flow' = flow /\ [WalkNext]_<<flow, walkVars>> /\ [LoopNext]_<<flow, loopVars>>
  OBVIOUS
<1>1. CASE UNCHANGED vars
  BY <1>1 DEF vars
<1>2. ASSUME NEW id \in todo, CheckDefault(id) \/ CheckCondition(id) \/ NextStep(id) \/ WarnUnreachable(id)
      PROVE  UNCHANGED <<flow, walkVars, loopVars>>
  BY <1>2 DEF CheckDefault, CheckCondition, NextStep, WarnUnreachable
<1>3. CASE ReferencesChecked \/ Warned
  BY <1>3 DEF ReferencesChecked, Warned
<1>4. CASE ReturnEarly
  <2>1. WalkNext /\ UNCHANGED loopVars
    BY <1>4 DEF ReturnEarly, WalkNext
  <2>2. flow' = flow
    BY <1>4 DEF ReturnEarly, Skip
  <2>3. QED
    BY <2>1, <2>2
<1>5. CASE WalkStep
  <2>1. WalkNext /\ UNCHANGED loopVars
    BY <1>5 DEF WalkStep, WalkNext
  <2>2. flow' = flow
    BY <1>5 DEF WalkStep, Seed, PopSeen, PopNew, Push, PassTarget, NextPop
  <2>3. QED
    BY <2>1, <2>2
<1>6. CASE Walked
  <2>1. WalkNext /\ UNCHANGED loopVars
    BY <1>6 DEF Walked, WalkNext
  <2>2. flow' = flow
    BY <1>6 DEF Walked, Report
  <2>3. QED
    BY <2>1, <2>2
<1>7. CASE LoopStep
  <2>1. LoopNext /\ UNCHANGED walkVars
    BY <1>7 DEF LoopStep, LoopNext
  <2>2. flow' = flow
    BY <1>7 DEF LoopStep, Begin, PassEdge, Call, Revisit, ReturnOpen, CloseComponent, Enter
  <2>3. QED
    BY <2>1, <2>2
<1>8. CASE WarnLoop
  <2>1. LoopNext /\ UNCHANGED walkVars
    BY <1>8 DEF WarnLoop, LoopNext
  <2>2. flow' = flow
    BY <1>8 DEF WarnLoop, Finish
  <2>3. QED
    BY <2>1, <2>2
<1>9. QED
  BY <1>1, <1>2, <1>3, <1>4, <1>5, <1>6, <1>7, <1>8 DEF Next

(* So both walks' invariants hold throughout the rule.                      *)
LEMMA SpecWalks == Spec => [](WalkInv /\ LoopInv /\ LinksInv)
<1>1. Init => WalkInv /\ LoopInv /\ LinksInv
  BY InitWalkInv, InitLoopInv, InitLinks DEF Init
<1>2. (WalkInv /\ LoopInv /\ LinksInv) /\ [Next]_vars => (WalkInv /\ LoopInv /\ LinksInv)'
  BY StepsOfTheWalks, NextWalkInv, NextLoopInv, NextLinks
<1>3. QED
  BY <1>1, <1>2, PTL DEF Spec

(* What the first walk has found when it is over.                           *)
LEMMA WalkedFacts ==
  ASSUME WalkInv, walkPc = "done"
  PROVE  /\ HasStart(flow) /\ reachable = ReachableFrom(flow)
         /\ unreachable = StepIds(flow) \ ReachableFrom(flow)
<1>1. /\ HasStart(flow) /\ queue = <<>> /\ edges = <<>> /\ IsFlow(flow)
      /\ reachable \in SUBSET Names
  BY DEF WalkInv, WalkShape, WalkTypeOK
<1>2. Seeds(flow) \subseteq reachable
  BY <1>1, MentionedEmpty DEF WalkInv, SeedsKept
<1>3. Closed(flow, reachable)
  BY <1>1, MentionedEmpty DEF WalkInv, NoEdgeLost, Closed
<1>4. ReachableFrom(flow) = reachable
  BY <1>1, <1>2, <1>3, LeastClosed DEF WalkInv, NothingInvented
<1>5. QED
  BY <1>1, <1>4, WalkInvReportExact DEF ReportExact

(* A step the cycle walk can follow a path to is reachable: the edges it    *)
(* follows are among those of the first walk, and it starts at a seed.      *)
LEMMA FollowedIsReachable ==
  ASSUME NEW f, IsFlow(f), HasStart(f)
  PROVE  FollowedFrom(f, f.start) \subseteq ReachableFrom(f)
<1> DEFINE S == StepIds(f) \cap ReachableFrom(f)
<1>1. f.start \in StepIds(f) /\ f.start \in S
  BY LeastClosed DEF HasStart, Seeds
<1>2. FollowClosed(f, S)
  <2> SUFFICES ASSUME NEW n \in S, NEW t \in Mentioned(CycleEdges(f, n)), IsFollowed(f, t)
               PROVE  t \in S
    BY DEF FollowClosed
  <2>1. n \in StepIds(f) /\ n \in ReachableFrom(f)
    OBVIOUS
  <2>2. t \in Mentioned(ReachEdges(f, n))
    BY <2>1, MentionedReachEdges
  <2>3. IsWalkTarget(t) /\ t \in StepIds(f)
    BY DEF IsFollowed
  <2>4. t \in ReachableFrom(f)
    BY <2>1, <2>2, <2>3, LeastClosed DEF Closed
  <2>5. QED
    BY <2>3, <2>4
<1>3. S \in SUBSET StepIds(f)
  OBVIOUS
<1> HIDE DEF S
<1>4. FollowedFrom(f, f.start) \subseteq S
  BY <1>1, <1>2, <1>3, FollowedWithin
<1>5. QED
  BY <1>4 DEF S

(* Without a usable start there are no warnings; with one the unreachable   *)
(* steps and the loop are all there is.                                     *)
LEMMA TrueWarningsAre ==
  /\ ~HasStart(flow) => TrueWarnings(flow) = {}
  /\ WalkInv /\ walkPc = "done" =>
       TrueWarnings(flow) = {UnreachableStep(id) : id \in unreachable}
                              \cup (IF HasTrap(flow) THEN {PotentialInfiniteLoop} ELSE {})
<1>1. ASSUME WalkInv, walkPc = "done"
      PROVE  HasStart(flow) /\ unreachable = StepIds(flow) \ ReachableFrom(flow)
  BY <1>1, WalkedFacts
<1>2. QED
  BY <1>1 DEF TrueWarnings

(* What the reference check knows when it reads an entry of a step: the     *)
(* errors so far come before it, and none is about this reading.            *)
LEMMA ReadingIsNew ==
  ASSUME RuleInv, IsFlow(flow), phase = "references", NEW id, IsFirst(id, todo),
         NEW e \in TrueErrors(flow), e.step = id, e.at[2] = entry
  PROVE  /\ e \notin Mentioned(errors)
         /\ \A x \in Mentioned(errors) :
              Rank(x) < Rank(e) \/ (Rank(x) = Rank(e) /\ x.at[2] <= e.at[2])
<1>1. /\ todo \in SUBSET StepIds(flow) /\ StepIds(flow) \subseteq Names /\ id \in todo /\ entry \in Nat
      /\ errors \in Seq(TrueErrors(flow))
  BY DEF RuleInv, ErrorsTold, IsFlow, StepIds, IsFirst
<1>2. \A x \in Mentioned(errors) : x \in TrueErrors(flow) /\ IsRead(x)
  BY <1>1, MentionedType DEF RuleInv, ErrorsTold
<1>3. e \notin Mentioned(errors)
  BY <1>1, <1>2 DEF IsRead
<1>4. ASSUME NEW x \in Mentioned(errors)
      PROVE  Rank(x) < Rank(e) \/ (Rank(x) = Rank(e) /\ x.at[2] <= e.at[2])
  <2>1. x \in TrueErrors(flow) /\ IsRead(x)
    BY <1>2
  <2>2. x.step \in StepIds(flow) /\ x.step \in Names /\ x.at[2] \in Nat /\ e.step \in Names
    BY <1>1, <2>1, TrueErrorFacts
  <2>3. Rank(x) = Position(x.step) /\ Rank(e) = Position(id)
    BY <2>2, RankOfStep
  <2>4. CASE x.step \notin todo
    BY <1>1, <2>2, <2>3, <2>4 DEF RuleInv, StepsInOrder
  <2>5. CASE IsFirst(x.step, todo) /\ x.at[2] < entry
    <3>1. x.step = id
      BY <1>1, <2>5, FirstIsOne
    <3>2. QED
      BY <1>1, <2>2, <2>3, <2>5, <3>1
  <2>6. QED
    BY <2>1, <2>4, <2>5 DEF IsRead
<1>5. QED
  BY <1>3, <1>4

(* Reading an entry adds the findings of that entry to what has been read.  *)
LEMMA ReadingAdds ==
  ASSUME RuleInv, IsFlow(flow), NEW id, IsFirst(id, todo),
         entry' = entry + 1, todo' = todo, NEW x \in TrueErrors(flow)
  PROVE  IsRead(x)' <=> IsRead(x) \/ (x.step = id /\ x.at[2] = entry)
<1>1. /\ todo \in SUBSET Names /\ id \in todo /\ entry \in Nat /\ x.at[2] \in Nat
  BY TrueErrorFacts DEF RuleInv, IsFlow, StepIds, IsFirst
<1>2. IsRead(x)' <=> x.step \notin todo \/ (IsFirst(x.step, todo) /\ x.at[2] < entry + 1)
  BY DEF IsRead
<1>3. IsFirst(x.step, todo) => x.step = id
  BY <1>1, FirstIsOne
<1>4. x.at[2] < entry + 1 <=> x.at[2] < entry \/ x.at[2] = entry
  BY <1>1
<1>5. QED
  BY <1>2, <1>3, <1>4 DEF IsRead

(* The next id has everything before it behind it.                          *)
LEMMA OrderAdvances ==
  ASSUME RuleInv, IsFlow(flow), NEW id, IsFirst(id, todo), todo' = todo \ {id}, flow' = flow
  PROVE  StepsInOrder' /\ todo' \in SUBSET StepIds(flow')
<1>1. todo \in SUBSET StepIds(flow) /\ StepIds(flow) \subseteq Names /\ id \in todo
  BY DEF RuleInv, IsFlow, StepIds, IsFirst
<1>2. ASSUME NEW m \in StepIds(flow) \ todo', NEW n \in todo' PROVE Position(m) < Position(n)
  <2>1. n \in todo /\ n # id /\ n \in Names /\ id \in Names /\ m \in Names
    BY <1>1, <1>2
  <2>2. CASE m \in todo
    <3>1. m = id
      BY <1>2, <2>2
    <3>2. Position(m) <= Position(n) /\ Position(m) # Position(n)
      BY <2>1, <3>1, PositionFacts DEF IsFirst
    <3>3. QED
      BY <2>1, <3>2, PositionFacts
  <2>3. CASE m \notin todo
    BY <1>2, <2>1, <2>3 DEF RuleInv, StepsInOrder
  <2>4. QED
    BY <2>2, <2>3
<1>3. StepIds(flow') = StepIds(flow)
  OBVIOUS
<1>4. QED
  BY <1>1, <1>2, <1>3 DEF StepsInOrder

(* The reference check leaves the walks and the warnings alone.             *)
LEMMA ReadingKeeps ==
  ASSUME RuleInv, phase = "references", UNCHANGED <<flow, phase, warnings, walkVars, loopVars>>
  PROVE  PhaseOK' /\ WarningsTold' /\ IsPrefix(warnings, warnings')
<1>1. PhaseOK'
  BY DEF RuleInv, PhaseOK, walkVars, loopVars
<1>2. WarningsTold /\ Mentioned(warnings) = {} /\ warnings \in Seq(TrueWarnings(flow))
  BY DEF RuleInv, WarningsTold
<1>3. WarningsTold'
  BY <1>2 DEF WarningsTold
<1>4. IsPrefix(warnings, warnings')
  BY <1>2, PrefixFacts
<1>5. QED
  BY <1>1, <1>3, <1>4

(* Each reading of the reference check keeps the rule's invariant.          *)
LEMMA DefaultKeeps ==
  ASSUME RuleInv, IsFlow(flow), NEW id \in todo, CheckDefault(id)
  PROVE  RuleInv' /\ IsPrefix(errors, errors') /\ IsPrefix(warnings, warnings')
<1> DEFINE e == StepNotFound(id, AtDefault)
           dangles == IsDangling(flow, flow.steps[id].default)
<1>1. /\ phase = "references" /\ IsFirst(id, todo) /\ entry = 0 /\ entry' = entry + 1
      /\ errors' = IF dangles THEN Append(errors, e) ELSE errors
      /\ UNCHANGED <<flow, phase, todo, warnings, walkVars, loopVars>>
  BY DEF CheckDefault, Checking
<1>2. /\ errors \in Seq(TrueErrors(flow)) /\ IsInjective(errors) /\ InOrder(errors)
      /\ \A x \in TrueErrors(flow) : x \in Mentioned(errors) <=> IsRead(x)
      /\ id \in StepIds(flow)
  BY <1>1 DEF RuleInv, ErrorsTold
<1>3. e.step = id /\ e.at[2] = entry
  BY <1>1 DEF StepNotFound, Finding, AtDefault
<1>4. \A x \in TrueErrors(flow) : x.step = id /\ x.at[2] = entry => dangles /\ x = e
  BY <1>1, TrueErrorFacts
<1>5. dangles => e \in TrueErrors(flow)
  BY <1>2, TrueErrorsHold
<1>6. \A x \in TrueErrors(flow) : IsRead(x)' <=> IsRead(x) \/ (x.step = id /\ x.at[2] = entry)
  BY <1>1, ReadingAdds
<1> HIDE DEF e, dangles
<1>7. ErrorsTold' /\ IsPrefix(errors, errors')
  <2>1. CASE dangles
    <3>1. /\ e \notin Mentioned(errors)
          /\ \A x \in Mentioned(errors) :
               Rank(x) < Rank(e) \/ (Rank(x) = Rank(e) /\ x.at[2] <= e.at[2])
      BY <1>1, <1>3, <1>5, <2>1, ReadingIsNew
    <3>2. /\ errors' \in Seq(TrueErrors(flow)) /\ IsInjective(errors') /\ InOrder(errors')
          /\ Mentioned(errors') = Mentioned(errors) \cup {e}
          /\ IsPrefix(errors, errors')
      BY <1>1, <1>2, <1>5, <2>1, <3>1, AppendFinding
    <3>3. \A x \in TrueErrors(flow) : x \in Mentioned(errors') <=> IsRead(x)'
      BY <1>2, <1>3, <1>4, <1>6, <3>2
    <3>4. QED
      BY <1>1, <3>2, <3>3 DEF ErrorsTold
  <2>2. CASE ~dangles
    <3>1. errors' = errors /\ IsPrefix(errors, errors')
      BY <1>1, <1>2, <2>2, PrefixFacts
    <3>2. \A x \in TrueErrors(flow) : x \in Mentioned(errors') <=> IsRead(x)'
      BY <1>2, <1>4, <1>6, <2>2, <3>1
    <3>3. QED
      BY <1>1, <1>2, <3>1, <3>2 DEF ErrorsTold
  <2>3. QED
    BY <2>1, <2>2
<1>8. PhaseOK' /\ WarningsTold' /\ IsPrefix(warnings, warnings')
  BY <1>1, ReadingKeeps
<1>9. StepsInOrder'
  BY <1>1 DEF RuleInv, StepsInOrder
<1>10. QED
  BY <1>1, <1>7, <1>8, <1>9 DEF RuleInv

LEMMA ConditionKeeps ==
  ASSUME RuleInv, IsFlow(flow), NEW id \in todo, CheckCondition(id)
  PROVE  RuleInv' /\ IsPrefix(errors, errors') /\ IsPrefix(warnings, warnings')
<1> DEFINE condition == flow.steps[id].conditions[entry]
           w == UnknownYamlKey(id, AtCondition(entry))
           e == StepNotFound(id, AtCondition(entry))
           miskeyed == condition.wrongKey
           dangles == IsDangling(flow, condition.goto)
           keyErrors == IF miskeyed THEN Append(errors, w) ELSE errors
<1>1. /\ phase = "references" /\ IsFirst(id, todo) /\ entry' = entry + 1
      /\ entry \in 1..Len(flow.steps[id].conditions) /\ entry # 0
      /\ errors' = IF dangles THEN Append(keyErrors, e) ELSE keyErrors
      /\ UNCHANGED <<flow, phase, todo, warnings, walkVars, loopVars>>
  BY DEF CheckCondition, Checking
<1>2. /\ errors \in Seq(TrueErrors(flow)) /\ IsInjective(errors) /\ InOrder(errors)
      /\ \A x \in TrueErrors(flow) : x \in Mentioned(errors) <=> IsRead(x)
      /\ id \in StepIds(flow) /\ id \in Names
  BY <1>1 DEF RuleInv, ErrorsTold, IsFlow, StepIds
<1>3. e.step = id /\ e.at[2] = entry /\ w.step = id /\ w.at[2] = entry /\ e # w
  BY <1>1 DEF StepNotFound, UnknownYamlKey, Finding, AtCondition
<1>4. \A x \in TrueErrors(flow) :
        x.step = id /\ x.at[2] = entry => (dangles /\ x = e) \/ (miskeyed /\ x = w)
  BY <1>1, TrueErrorFacts
<1>5. (dangles => e \in TrueErrors(flow)) /\ (miskeyed => w \in TrueErrors(flow))
  BY <1>1, <1>2, TrueErrorsHold
<1>6. \A x \in TrueErrors(flow) : IsRead(x)' <=> IsRead(x) \/ (x.step = id /\ x.at[2] = entry)
  BY <1>1, ReadingAdds
<1>7. \A x \in {e, w} : x \in TrueErrors(flow) =>
        /\ x \notin Mentioned(errors)
        /\ \A y \in Mentioned(errors) :
             Rank(y) < Rank(x) \/ (Rank(y) = Rank(x) /\ y.at[2] <= x.at[2])
  BY <1>1, <1>3, ReadingIsNew
<1>8. Rank(e) = Rank(w) /\ Rank(e) \in Nat /\ w.at[2] <= e.at[2]
  BY <1>1, <1>2, <1>3, RankOfStep, PositionFacts
<1> HIDE DEF e, w, dangles, miskeyed
<1>9. /\ keyErrors \in Seq(TrueErrors(flow)) /\ IsInjective(keyErrors) /\ InOrder(keyErrors)
      /\ Mentioned(keyErrors) = Mentioned(errors) \cup (IF miskeyed THEN {w} ELSE {})
      /\ IsPrefix(errors, keyErrors)
  <2>1. CASE miskeyed
    BY <1>2, <1>5, <1>7, <2>1, AppendFinding
  <2>2. CASE ~miskeyed
    BY <1>2, <2>2, PrefixFacts
  <2>3. QED
    BY <2>1, <2>2
<1> HIDE DEF keyErrors
<1>10. /\ errors' \in Seq(TrueErrors(flow)) /\ IsInjective(errors') /\ InOrder(errors')
       /\ Mentioned(errors') = Mentioned(keyErrors) \cup (IF dangles THEN {e} ELSE {})
       /\ IsPrefix(keyErrors, errors')
  <2>1. CASE dangles
    <3>1. e \notin Mentioned(keyErrors)
      BY <1>3, <1>5, <1>7, <1>9, <2>1
    <3>2. \A y \in Mentioned(keyErrors) :
            Rank(y) < Rank(e) \/ (Rank(y) = Rank(e) /\ y.at[2] <= e.at[2])
      BY <1>5, <1>7, <1>8, <1>9, <2>1
    <3>3. QED
      BY <1>1, <1>5, <1>9, <2>1, <3>1, <3>2, AppendFinding
  <2>2. CASE ~dangles
    BY <1>1, <1>9, <2>2, PrefixFacts
  <2>3. QED
    BY <2>1, <2>2
<1>11. IsPrefix(errors, errors')
  BY <1>2, <1>9, <1>10, PrefixFacts
<1>12. \A x \in TrueErrors(flow) : x \in Mentioned(errors') <=> IsRead(x)'
  BY <1>2, <1>3, <1>4, <1>6, <1>9, <1>10
<1>13. ErrorsTold'
  BY <1>1, <1>10, <1>12 DEF ErrorsTold
<1>14. PhaseOK' /\ WarningsTold' /\ IsPrefix(warnings, warnings')
  BY <1>1, ReadingKeeps
<1>15. StepsInOrder'
  BY <1>1 DEF RuleInv, StepsInOrder
<1>16. entry' \in Nat
  BY <1>1
<1>17. QED
  BY <1>1, <1>11, <1>13, <1>14, <1>15, <1>16 DEF RuleInv

(* With a step all its entries have been read.                              *)
LEMMA NextStepKeeps ==
  ASSUME RuleInv, IsFlow(flow), NEW id \in todo, NextStep(id)
  PROVE  RuleInv' /\ IsPrefix(errors, errors') /\ IsPrefix(warnings, warnings')
<1>1. /\ phase = "references" /\ IsFirst(id, todo)
      /\ entry = Len(flow.steps[id].conditions) + 1
      /\ todo' = todo \ {id} /\ entry' = 0
      /\ UNCHANGED <<flow, phase, errors, warnings, walkVars, loopVars>>
  BY DEF NextStep, Checking
<1>2. /\ errors \in Seq(TrueErrors(flow)) /\ IsInjective(errors) /\ InOrder(errors)
      /\ \A x \in TrueErrors(flow) : x \in Mentioned(errors) <=> IsRead(x)
      /\ todo \in SUBSET Names
  BY <1>1 DEF RuleInv, ErrorsTold, IsFlow, StepIds
<1>3. ASSUME NEW x \in TrueErrors(flow) PROVE IsRead(x)' <=> IsRead(x)
  <2>1. x.at[2] \in Nat /\ ~(x.at[2] < 0)
    BY TrueErrorFacts
  <2>2. IsRead(x)' <=> x.step \notin todo \/ x.step = id
    BY <1>1, <2>1 DEF IsRead
  <2>3. CASE x.step = id
    <3>1. Len(flow.steps[id].conditions) \in Nat
      <4>1. flow.steps[id] \in StepRecord
        BY DEF RuleInv, IsFlow, StepIds
      <4>2. QED
        BY <4>1, LenProperties DEF StepRecord
    <3>2. x.at[2] = 0 \/ x.at[2] \in 1..Len(flow.steps[id].conditions)
      BY <2>3, TrueErrorFacts
    <3>3. x.at[2] < entry
      BY <1>1, <3>1, <3>2
    <3>4. QED
      BY <1>1, <2>2, <2>3, <3>3 DEF IsRead
  <2>4. CASE x.step # id
    <3>1. ~IsFirst(x.step, todo)
      BY <1>1, <1>2, <2>4, FirstIsOne
    <3>2. QED
      BY <2>2, <2>4, <3>1 DEF IsRead
  <2>5. QED
    BY <2>3, <2>4
<1>4. ErrorsTold'
  BY <1>1, <1>2, <1>3 DEF ErrorsTold
<1>5. IsPrefix(errors, errors')
  BY <1>1, <1>2, PrefixFacts
<1>6. PhaseOK' /\ WarningsTold' /\ IsPrefix(warnings, warnings')
  BY <1>1, ReadingKeeps
<1>7. StepsInOrder' /\ todo' \in SUBSET StepIds(flow')
  BY <1>1, OrderAdvances
<1>8. QED
  BY <1>1, <1>4, <1>5, <1>6, <1>7 DEF RuleInv

(* After the reference check the errors are complete and stay so.           *)
LEMMA ErrorsStay ==
  ASSUME RuleInv, phase = "references" => todo = {}, phase' # "references",
         UNCHANGED <<flow, errors>>
  PROVE  ErrorsTold' /\ IsPrefix(errors, errors')
<1>1. /\ errors \in Seq(TrueErrors(flow)) /\ IsInjective(errors) /\ InOrder(errors)
      /\ \A x \in TrueErrors(flow) : x \in Mentioned(errors)
  BY DEF RuleInv, ErrorsTold, IsRead
<1>2. IsPrefix(errors, errors')
  BY <1>1, PrefixFacts
<1>3. QED
  BY <1>1, <1>2 DEF ErrorsTold

(* The steps of the first walk, its start and its two ends.                 *)
LEMMA WalkKeeps ==
  ASSUME RuleInv, WalkInv, ReferencesChecked \/ ReturnEarly \/ WalkStep \/ Walked
  PROVE  RuleInv' /\ IsPrefix(errors, errors') /\ IsPrefix(warnings, warnings')
<1>1. /\ phase \in {"references", "walk"} /\ todo = {} /\ Mentioned(warnings) = {}
      /\ warnings \in Seq(TrueWarnings(flow)) /\ IsInjective(warnings) /\ InOrder(warnings)
      /\ phase' # "references" /\ UNCHANGED <<flow, errors, warnings, entry, loopVars>>
  BY DEF RuleInv, PhaseOK, WarningsTold, ReferencesChecked, ReturnEarly, Skip, Walked, Report,
         WalkStep, Seed, PopSeen, PopNew, Push, PassTarget, NextPop
<1>2. ErrorsTold' /\ IsPrefix(errors, errors')
  BY <1>1, ErrorsStay
<1>3. IsPrefix(warnings, warnings')
  BY <1>1, PrefixFacts
<1>4. CASE ReferencesChecked
  <2>1. phase' = "walk" /\ todo' = todo /\ phase = "references" /\ UNCHANGED walkVars
    BY <1>4 DEF ReferencesChecked
  <2>2. PhaseOK'
    BY <1>1, <2>1 DEF RuleInv, PhaseOK, walkVars, loopVars
  <2>3. WarningsTold'
    BY <1>1, <2>1 DEF WarningsTold
  <2>4. StepsInOrder'
    BY <1>1, <2>1 DEF StepsInOrder
  <2>5. QED
    BY <1>1, <1>2, <1>3, <2>1, <2>2, <2>3, <2>4 DEF RuleInv
<1>5. CASE ReturnEarly
  <2>1. phase' = "returned" /\ todo' = todo /\ phase = "walk" /\ ~HasStart(flow)
    BY <1>5 DEF ReturnEarly, Skip
  <2>2. PhaseOK'
    BY <1>1, <2>1 DEF RuleInv, PhaseOK, loopVars
  <2>3. WarningsTold'
    BY <1>1, <2>1, TrueWarningsAre DEF WarningsTold
  <2>4. StepsInOrder'
    BY <1>1, <2>1 DEF StepsInOrder
  <2>5. QED
    BY <1>1, <1>2, <1>3, <2>1, <2>2, <2>3, <2>4 DEF RuleInv
<1>6. CASE WalkStep
  <2>1. phase' = "walk" /\ todo' = todo /\ phase = "walk"
    BY <1>6 DEF WalkStep
  <2>2. walkPc' \notin {"done", "skipped"}
    BY <1>6 DEF WalkStep, Seed, PopSeen, PopNew, Push, PassTarget, NextPop
  <2>3. PhaseOK'
    BY <1>1, <2>1, <2>2 DEF RuleInv, PhaseOK, loopVars
  <2>4. WarningsTold'
    BY <1>1, <2>1 DEF WarningsTold
  <2>5. StepsInOrder'
    BY <1>1, <2>1 DEF StepsInOrder
  <2>6. QED
    BY <1>1, <1>2, <1>3, <2>1, <2>3, <2>4, <2>5 DEF RuleInv
<1>7. CASE Walked
  <2>1. /\ phase' = "warn" /\ todo' = StepIds(flow) /\ phase = "walk"
        /\ walkPc' = "done" /\ unreachable' = StepIds(flow) \ reachable
    BY <1>7 DEF Walked, Report
  <2>2. PhaseOK'
    BY <1>1, <2>1 DEF RuleInv, PhaseOK, loopVars
  <2>3. WarningsTold'
    <3>1. unreachable' \ todo' = {}
      BY <2>1
    <3>2. {UnreachableStep(id) : id \in unreachable' \ todo'} = {}
      BY <3>1
    <3>3. QED
      BY <1>1, <2>1, <3>2 DEF WarningsTold
  <2>4. StepsInOrder' /\ todo' \in SUBSET StepIds(flow')
    BY <1>1, <2>1 DEF StepsInOrder
  <2>5. QED
    BY <1>1, <1>2, <1>3, <2>1, <2>2, <2>3, <2>4 DEF RuleInv
<1>8. QED
  BY <1>4, <1>5, <1>6, <1>7

(* The second loop over the steps: one warning per step not visited.        *)
LEMMA WarningKeeps ==
  ASSUME RuleInv, WalkInv, NEW id \in todo, WarnUnreachable(id)
  PROVE  RuleInv' /\ IsPrefix(errors, errors') /\ IsPrefix(warnings, warnings')
<1> DEFINE e == UnreachableStep(id)
           given == {UnreachableStep(x) : x \in unreachable \ todo}
<1>1. /\ phase = "warn" /\ IsFirst(id, todo) /\ todo' = todo \ {id}
      /\ warnings' = IF id \in unreachable THEN Append(warnings, e) ELSE warnings
      /\ UNCHANGED <<flow, phase, entry, errors, walkVars, loopVars>>
      /\ unreachable' = unreachable
  BY DEF WarnUnreachable, walkVars
<1>2. /\ warnings \in Seq(TrueWarnings(flow)) /\ IsInjective(warnings) /\ InOrder(warnings)
      /\ Mentioned(warnings) = given /\ walkPc = "done" /\ IsFlow(flow)
      /\ todo \in SUBSET StepIds(flow) /\ StepIds(flow) \subseteq Names
  BY <1>1 DEF RuleInv, WarningsTold, PhaseOK, WalkInv, WalkTypeOK, IsFlow, StepIds
<1>3. /\ unreachable \subseteq StepIds(flow)
      /\ \A x \in unreachable : UnreachableStep(x) \in TrueWarnings(flow)
  BY <1>2, WalkedFacts, TrueWarningsAre
<1>4. \A x \in Names : UnreachableStep(x).step = x /\ UnreachableStep(x).at[2] = 0
  BY DEF UnreachableStep, Finding, AtStep
<1>5. ASSUME NEW x \in unreachable \ todo
      PROVE  Rank(UnreachableStep(x)) < Rank(e) /\ UnreachableStep(x) # e
  <2>1. x \in Names /\ id \in Names /\ x \in StepIds(flow) /\ Position(x) < Position(id)
    BY <1>2, <1>3, <1>5 DEF RuleInv, StepsInOrder
  <2>2. Rank(UnreachableStep(x)) = Position(x) /\ Rank(e) = Position(id)
    BY <1>4, <2>1, RankOfStep
  <2>3. Position(x) \in Nat /\ Position(id) \in Nat
    BY <2>1, PositionFacts
  <2>4. QED
    BY <2>1, <2>2, <2>3
<1>6. {UnreachableStep(x) : x \in unreachable' \ todo'} =
        given \cup (IF id \in unreachable THEN {e} ELSE {})
  BY <1>1
<1> HIDE DEF e, given
<1>7. /\ warnings' \in Seq(TrueWarnings(flow)) /\ IsInjective(warnings') /\ InOrder(warnings')
      /\ Mentioned(warnings') = given \cup (IF id \in unreachable THEN {e} ELSE {})
      /\ IsPrefix(warnings, warnings')
  <2>1. CASE id \in unreachable
    <3>1. e \in TrueWarnings(flow)
      BY <1>3, <2>1 DEF e
    <3>2. e \notin Mentioned(warnings) /\ \A y \in Mentioned(warnings) : Rank(y) < Rank(e)
      BY <1>2, <1>5 DEF given
    <3>3. QED
      BY <1>1, <1>2, <2>1, <3>1, <3>2, AppendFinding
  <2>2. CASE id \notin unreachable
    BY <1>1, <1>2, <2>2, PrefixFacts
  <2>3. QED
    BY <2>1, <2>2
<1>8. WarningsTold'
  BY <1>1, <1>6, <1>7 DEF WarningsTold
<1>9. ErrorsTold' /\ IsPrefix(errors, errors')
  BY <1>1, ErrorsStay
<1>10. StepsInOrder' /\ todo' \in SUBSET StepIds(flow')
  BY <1>1, <1>2, OrderAdvances
<1>11. PhaseOK'
  BY <1>1 DEF RuleInv, PhaseOK, walkVars, loopVars
<1>12. QED
  BY <1>1, <1>7, <1>8, <1>9, <1>10, <1>11 DEF RuleInv

(* The cycle walk, from the last unreachable_step warning to its verdict.   *)
LEMMA LoopKeeps ==
  ASSUME RuleInv, WalkInv, FoundExact', Warned \/ LoopStep \/ WarnLoop
  PROVE  RuleInv' /\ IsPrefix(errors, errors') /\ IsPrefix(warnings, warnings')
<1>1. /\ phase \in {"warn", "loop"} /\ todo = {} /\ phase' \in {"loop", "returned"}
      /\ walkPc = "done" /\ IsFlow(flow)
      /\ UNCHANGED <<flow, todo, entry, errors, walkVars>> /\ walkPc' = walkPc
      /\ unreachable' = unreachable
  BY DEF RuleInv, PhaseOK, Warned, LoopStep, Begin, PassEdge, Call, Revisit, ReturnOpen,
         CloseComponent, Enter, WarnLoop, Finish, walkVars, WalkInv, WalkTypeOK
<1>2. ErrorsTold' /\ IsPrefix(errors, errors')
  BY <1>1, ErrorsStay
<1>3. HasStart(flow) /\ unreachable \subseteq StepIds(flow) /\ StepIds(flow) \subseteq Names
  BY <1>1, WalkedFacts DEF IsFlow, StepIds
<1> DEFINE given == {UnreachableStep(x) : x \in unreachable}
<1>4. /\ warnings \in Seq(TrueWarnings(flow)) /\ IsInjective(warnings) /\ InOrder(warnings)
      /\ Mentioned(warnings) = given
  <2>1. unreachable \ todo = unreachable
    BY <1>1
  <2>2. QED
    BY <1>1, <2>1 DEF RuleInv, WarningsTold
<1>5. TrueWarnings(flow) = given \cup (IF HasTrap(flow) THEN {PotentialInfiniteLoop} ELSE {})
  BY <1>1, TrueWarningsAre
<1>6. StepsInOrder'
  BY <1>1 DEF StepsInOrder
<1>7. CASE Warned \/ LoopStep
  <2>1. phase' = "loop" /\ warnings' = warnings
    BY <1>7 DEF Warned, LoopStep
  <2>2. unreachable' \ todo' = unreachable
    BY <1>1
  <2>3. WarningsTold' /\ IsPrefix(warnings, warnings')
    BY <1>1, <1>4, <2>1, <2>2, PrefixFacts DEF WarningsTold
  <2>4. PhaseOK'
    BY <1>1, <2>1 DEF PhaseOK
  <2>5. QED
    BY <1>1, <1>2, <1>6, <2>1, <2>3, <2>4 DEF RuleInv
<1>8. CASE WarnLoop
  <2>1. /\ phase' = "returned" /\ loopPc' = "done" /\ found' = found
        /\ warnings' = IF found THEN Append(warnings, PotentialInfiniteLoop) ELSE warnings
    BY <1>8 DEF WarnLoop, Finish
  <2>2. found <=> HasTrap(flow)
    BY <1>1, <2>1 DEF FoundExact
  <2>3. PotentialInfiniteLoop.step = Absent /\ Rank(PotentialInfiniteLoop) = Len(Order) + 1
    BY DEF PotentialInfiniteLoop, Finding, Rank
  <2>4. ASSUME NEW y \in Mentioned(warnings)
        PROVE  Rank(y) < Rank(PotentialInfiniteLoop) /\ y # PotentialInfiniteLoop
    <3>1. PICK x \in unreachable : y = UnreachableStep(x)
      BY <1>4
    <3>2. y.step = x /\ x \in Names /\ x # Absent
      BY <1>3, <3>1, NamesAssumption DEF UnreachableStep, Finding
    <3>3. Rank(y) \in 1..Len(Order) /\ Len(Order) \in Nat
      BY <3>2, RankOfStep, PositionFacts
    <3>4. QED
      BY <2>3, <3>2, <3>3
  <2> HIDE DEF given
  <2>5. /\ warnings' \in Seq(TrueWarnings(flow)) /\ IsInjective(warnings') /\ InOrder(warnings')
        /\ Mentioned(warnings') = TrueWarnings(flow)
        /\ IsPrefix(warnings, warnings')
    <3>1. CASE found
      <4>1. PotentialInfiniteLoop \in TrueWarnings(flow)
        BY <1>5, <2>2, <3>1
      <4>2. PotentialInfiniteLoop \notin Mentioned(warnings)
        BY <2>4
      <4>3. QED
        BY <1>4, <1>5, <2>1, <2>2, <2>4, <3>1, <4>1, <4>2, AppendFinding
    <3>2. CASE ~found
      BY <1>4, <1>5, <2>1, <2>2, <3>2, PrefixFacts
    <3>3. QED
      BY <3>1, <3>2
  <2>6. WarningsTold'
    BY <1>1, <2>1, <2>5 DEF WarningsTold
  <2>7. PhaseOK'
    BY <1>1, <1>3, <2>1 DEF PhaseOK
  <2>8. QED
    BY <1>1, <1>2, <1>6, <2>1, <2>5, <2>6, <2>7 DEF RuleInv
<1>9. QED
  BY <1>7, <1>8

(* The invariant of the whole rule: its own part and those of its walks.    *)
RuleAndWalks == RuleInv /\ WalkInv /\ LoopInv /\ LinksInv

LEMMA InitRule == Init => RuleAndWalks
<1> SUFFICES ASSUME Init PROVE RuleAndWalks
  OBVIOUS
<1>1. WalkInv /\ LoopInv /\ LinksInv
  BY InitWalkInv, InitLoopInv, InitLinks DEF Init
<1>2. /\ phase = "references" /\ todo = StepIds(flow) /\ entry = 0
      /\ errors = <<>> /\ warnings = <<>> /\ walkPc = "begin" /\ loopPc = "begin"
      /\ IsFlow(flow)
  BY <1>1 DEF Init, WalkInit, InitWalk, LoopInit, InitLoop, WalkInv, WalkTypeOK
<1>3. PhaseOK /\ StepsInOrder
  BY <1>2 DEF PhaseOK, StepsInOrder
<1>4. \A S : <<>> \in Seq(S) /\ Mentioned(<<>>) = {} /\ IsInjective(<<>>) /\ InOrder(<<>>)
  BY MentionedEmpty DEF IsInjective, InOrder
<1>5. ErrorsTold
  <2>1. \A x \in TrueErrors(flow) : ~IsRead(x)
    <3> SUFFICES ASSUME NEW x \in TrueErrors(flow) PROVE ~IsRead(x)
      OBVIOUS
    <3>1. x.step \in StepIds(flow) /\ x.at[2] \in Nat /\ ~(x.at[2] < 0)
      BY <1>2, TrueErrorFacts
    <3>2. QED
      BY <1>2, <3>1 DEF IsRead
  <2>2. QED
    BY <1>2, <1>4, <2>1 DEF ErrorsTold
<1>6. WarningsTold
  BY <1>2, <1>4 DEF WarningsTold
<1>7. QED
  BY <1>1, <1>2, <1>3, <1>5, <1>6 DEF RuleAndWalks, RuleInv

(* The verdict is exact in the next state too.                              *)
LEMMA JudgedNext == LoopInv' /\ LinksInv' => FoundExact'
BY JudgedAll, PTL

(* Every step keeps it, and appends to the two lists of findings only.      *)
LEMMA NextRule ==
  RuleAndWalks /\ [Next]_vars =>
    RuleAndWalks' /\ IsPrefix(errors, errors') /\ IsPrefix(warnings, warnings')
<1> SUFFICES ASSUME RuleAndWalks, [Next]_vars
             PROVE  RuleAndWalks' /\ IsPrefix(errors, errors') /\ IsPrefix(warnings, warnings')
  OBVIOUS
<1>1. WalkInv /\ LoopInv /\ LinksInv /\ RuleInv /\ IsFlow(flow)
  BY DEF RuleAndWalks, WalkInv, WalkTypeOK
<1>2. WalkInv' /\ LoopInv' /\ LinksInv'
  BY <1>1, StepsOfTheWalks, NextWalkInv, NextLoopInv, NextLinks
<1>3. FoundExact'
  BY <1>2, JudgedNext
<1>4. RuleInv' /\ IsPrefix(errors, errors') /\ IsPrefix(warnings, warnings')
  <2>1. CASE UNCHANGED vars
    <3>1. UNCHANGED <<flow, phase, todo, entry, errors, warnings, walkPc, unreachable, loopPc>>
      BY <2>1 DEF vars, walkVars, loopVars
    <3>2. errors \in Seq(TrueErrors(flow)) /\ warnings \in Seq(TrueWarnings(flow))
      BY <1>1 DEF RuleInv, ErrorsTold, WarningsTold
    <3>3. IsPrefix(errors, errors') /\ IsPrefix(warnings, warnings')
      BY <3>1, <3>2, PrefixFacts
    <3>4. PhaseOK' /\ StepsInOrder' /\ ErrorsTold' /\ WarningsTold'
      BY <1>1, <3>1 DEF RuleInv, PhaseOK, StepsInOrder, ErrorsTold, IsRead, WarningsTold
    <3>5. QED
      BY <1>1, <3>1, <3>3, <3>4 DEF RuleInv
  <2>2. ASSUME NEW id \in todo, CheckDefault(id)
        PROVE  RuleInv' /\ IsPrefix(errors, errors') /\ IsPrefix(warnings, warnings')
    BY <1>1, <2>2, DefaultKeeps
  <2>3. ASSUME NEW id \in todo, CheckCondition(id)
        PROVE  RuleInv' /\ IsPrefix(errors, errors') /\ IsPrefix(warnings, warnings')
    BY <1>1, <2>3, ConditionKeeps
  <2>4. ASSUME NEW id \in todo, NextStep(id)
        PROVE  RuleInv' /\ IsPrefix(errors, errors') /\ IsPrefix(warnings, warnings')
    BY <1>1, <2>4, NextStepKeeps
  <2>5. ASSUME NEW id \in todo, WarnUnreachable(id)
        PROVE  RuleInv' /\ IsPrefix(errors, errors') /\ IsPrefix(warnings, warnings')
    BY <1>1, <2>5, WarningKeeps
  <2>6. CASE ReferencesChecked \/ ReturnEarly \/ WalkStep \/ Walked
    BY <1>1, <2>6, WalkKeeps
  <2>7. CASE Warned \/ LoopStep \/ WarnLoop
    BY <1>1, <1>3, <2>7, LoopKeeps
  <2>8. QED
    BY <2>1, <2>2, <2>3, <2>4, <2>5, <2>6, <2>7 DEF Next
<1>5. QED
  BY <1>2, <1>4 DEF RuleAndWalks

LEMMA SpecRule == Spec => []RuleAndWalks
<1>1. RuleAndWalks /\ [Next]_vars => RuleAndWalks'
  BY NextRule
<1>2. QED
  BY <1>1, InitRule, PTL DEF Spec

(* Every variable of the rule keeps its type, whatever the document: the    *)
(* findings of validateConnectivity name steps of the document, or none.    *)
THEOREM RuleTypeCorrect == Spec => []TypeOK
<1>1. RuleAndWalks => TypeOK
  <2> SUFFICES ASSUME RuleAndWalks PROVE TypeOK
    OBVIOUS
  <2>1. /\ WalkTypeOK /\ LoopTypeOK /\ IsFlow(flow)
        /\ phase \in {"references", "walk", "warn", "loop", "returned"}
        /\ todo \in SUBSET StepIds(flow) /\ entry \in Nat
        /\ errors \in Seq(TrueErrors(flow)) /\ warnings \in Seq(TrueWarnings(flow))
    BY DEF RuleAndWalks, RuleInv, ErrorsTold, WarningsTold, WalkInv, LoopInv, WalkTypeOK
  <2>2. \A x \in Mentioned(errors) : x.step \in StepIds(flow) \cup {Absent} /\ x.at[2] \in Nat
    BY <2>1, MentionedType, TrueErrorFacts
  <2>3. \A x \in TrueWarnings(flow) : x.step \in StepIds(flow) \cup {Absent} /\ x.at[2] \in Nat
    BY DEF TrueWarnings, UnreachableStep, PotentialInfiniteLoop, Finding, AtStep
  <2>4. \A x \in Mentioned(warnings) : x.step \in StepIds(flow) \cup {Absent} /\ x.at[2] \in Nat
    BY <2>1, <2>3, MentionedType
  <2>5. QED
    BY <2>1, <2>2, <2>4 DEF TypeOK
<1>2. QED
  BY <1>1, SpecRule, PTL

(* The two walks of validateConnectivity agree on every document: no step   *)
(* the cycle walk judges is accused of being unreachable.                   *)
THEOREM TheWalksAgree == Spec => []WalksAgree
<1>1. RuleAndWalks => WalksAgree
  <2> SUFFICES ASSUME RuleAndWalks, DOMAIN indices # {} PROVE DOMAIN indices \subseteq reachable
    BY DEF WalksAgree
  <2>1. /\ HasStart(flow) /\ DOMAIN indices \subseteq FollowedFrom(flow, flow.start)
        /\ IsFlow(flow) /\ WalkInv
    BY DEF RuleAndWalks, LoopInv, VisitsFollowed, WalkInv, WalkTypeOK
  <2>2. loopPc # "begin"
    BY DEF RuleAndWalks, LoopInv, CallsOK
  <2>3. walkPc = "done"
    BY <2>1, <2>2 DEF RuleAndWalks, RuleInv, PhaseOK
  <2>4. reachable = ReachableFrom(flow)
    BY <2>1, <2>3, WalkedFacts
  <2>5. QED
    BY <2>1, <2>4, FollowedIsReachable
<1>2. QED
  BY <1>1, SpecRule, PTL

------------------------------------------------------------------------------
(* The promise states the same truths about the same findings.              *)
LEMMA SamePromise ==
  /\ \A s : Promise!Mentioned(s) = Mentioned(s)
  /\ \A s, t : Promise!IsPrefix(s, t) <=> IsPrefix(s, t)
  /\ \A s : Promise!IsInjective(s) <=> IsInjective(s)
  /\ \A s : Promise!InOrder(s) <=> InOrder(s)
  /\ \A f : Promise!TrueErrors(f) = TrueErrors(f)
  /\ \A f : Promise!TrueWarnings(f) = TrueWarnings(f)
<1>1. \A s : Promise!Mentioned(s) = Mentioned(s)
  BY DEF Promise!Mentioned, Mentioned
<1>2. \A s, t : Promise!IsPrefix(s, t) <=> IsPrefix(s, t)
  BY DEF Promise!IsPrefix, IsPrefix
<1>3. \A s : Promise!IsInjective(s) <=> IsInjective(s)
  BY DEF Promise!IsInjective, IsInjective
<1>4. \A s : Promise!InOrder(s) <=> InOrder(s)
  BY DEF Promise!InOrder, InOrder, Promise!Rank, Rank, Promise!Position, Position
<1>5. \A f : Promise!TrueErrors(f) = TrueErrors(f)
  BY DEF Promise!TrueErrors, TrueErrors, Promise!StepIds, StepIds,
     Promise!DanglingConditions, DanglingConditions, Promise!MiskeyedConditions, MiskeyedConditions,
     Promise!IsDangling, IsDangling, Promise!IsSaveDoorMarker, IsSaveDoorMarker,
     Promise!StepNotFound, StepNotFound, Promise!UnknownYamlKey, UnknownYamlKey,
     Promise!Finding, Finding, Promise!AtDefault, AtDefault, Promise!AtCondition, AtCondition
<1>6. \A f : Promise!TrueWarnings(f) = TrueWarnings(f)
  <2>1. \A f, n : Promise!CycleEdges(f, n) = CycleEdges(f, n)
    BY DEF Promise!CycleEdges, CycleEdges, Promise!StepIds, StepIds,
       Promise!ConditionTargets, ConditionTargets
  <2>2. \A f, n : Promise!ReachEdges(f, n) = ReachEdges(f, n)
    BY <2>1 DEF Promise!ReachEdges, ReachEdges, Promise!StepIds, StepIds
  <2>3. \A t : (Promise!IsNextMarker(t) <=> IsNextMarker(t)) /\ (Promise!IsWalkTarget(t) <=> IsWalkTarget(t))
    BY DEF Promise!IsNextMarker, IsNextMarker, Promise!IsWalkTarget, IsWalkTarget
  <2>4. \A f : (Promise!HasStart(f) <=> HasStart(f)) /\ Promise!StepIds(f) = StepIds(f)
    BY DEF Promise!HasStart, HasStart, Promise!StepIds, StepIds
  <2>5. \A f : Promise!Seeds(f) = Seeds(f)
    BY <2>3 DEF Promise!Seeds, Seeds
  <2>6. \A f, S : Promise!Closed(f, S) <=> Closed(f, S)
    BY <1>1, <2>2, <2>3 DEF Promise!Closed, Closed
  <2>7. \A f : Promise!ReachableFrom(f) = ReachableFrom(f)
    BY <2>5, <2>6 DEF Promise!ReachableFrom, ReachableFrom, Promise!ClosedSets, ClosedSets
  <2>8. \A f, S : Promise!FollowClosed(f, S) <=> FollowClosed(f, S)
    BY <1>1, <2>1, <2>3, <2>4
    DEF Promise!FollowClosed, FollowClosed, Promise!IsFollowed, IsFollowed
  <2>9. \A f, n : Promise!FollowedFrom(f, n) = FollowedFrom(f, n)
    BY <2>4, <2>8 DEF Promise!FollowedFrom, FollowedFrom
  <2>10. \A f, T : Promise!IsTrap(f, T) <=> IsTrap(f, T)
    BY <1>1, <2>1, <2>3 DEF Promise!IsTrap, IsTrap
  <2>11. \A f : Promise!HasTrap(f) <=> HasTrap(f)
    BY <2>4, <2>9, <2>10 DEF Promise!HasTrap, HasTrap
  <2>12. \A n : Promise!UnreachableStep(n) = UnreachableStep(n)
    BY DEF Promise!UnreachableStep, UnreachableStep, Promise!Finding, Finding, Promise!AtStep, AtStep
  <2>13. Promise!PotentialInfiniteLoop = PotentialInfiniteLoop
    BY DEF Promise!PotentialInfiniteLoop, PotentialInfiniteLoop, Promise!Finding, Finding,
       Promise!AtStep, AtStep
  <2>14. QED
    BY <2>4, <2>7, <2>11, <2>12, <2>13 DEF Promise!TrueWarnings, TrueWarnings
<1>7. QED
  BY <1>1, <1>2, <1>3, <1>4, <1>5, <1>6

(* validateConnectivity keeps its promise on every document: its findings   *)
(* only grow, each is true and raised once, they come in the order of the   *)
(* sorted steps, and when it returns none is missing.                       *)
THEOREM PromiseKept == Spec => Promise!Safety
<1>1. Init => Promise!Init
  BY DEF Init, WalkInit, Promise!Init
<1>2. RuleAndWalks /\ [Next]_vars => [Promise!Report]_(Promise!vars)
  <2> SUFFICES ASSUME RuleAndWalks, [Next]_vars
               PROVE  [Promise!Report]_(Promise!vars)
    OBVIOUS
  <2>1. CASE UNCHANGED vars
    BY <2>1 DEF vars, Promise!vars
  <2>2. CASE Next
    <3>1. RuleAndWalks' /\ IsPrefix(errors, errors') /\ IsPrefix(warnings, warnings')
      BY <2>2, NextRule
    <3>2. phase # "returned" /\ flow' = flow
      BY <2>2, StepsOfTheWalks
      DEF Next, CheckDefault, CheckCondition, NextStep, Checking, WarnUnreachable,
          ReferencesChecked, ReturnEarly, WalkStep, Walked, Warned, LoopStep, WarnLoop
    <3>3. /\ errors' \in Seq(TrueErrors(flow)) /\ IsInjective(errors') /\ InOrder(errors')
          /\ warnings' \in Seq(TrueWarnings(flow)) /\ IsInjective(warnings') /\ InOrder(warnings')
      BY <3>1, <3>2 DEF RuleAndWalks, RuleInv, ErrorsTold, WarningsTold
    <3>4. Mentioned(errors') \subseteq TrueErrors(flow) /\ Mentioned(warnings') \subseteq TrueWarnings(flow)
      BY <3>3, MentionedType
    <3>5. phase' = "returned" =>
            Mentioned(errors') = TrueErrors(flow) /\ Mentioned(warnings') = TrueWarnings(flow)
      BY <3>1, <3>2, <3>4 DEF RuleAndWalks, RuleInv, ErrorsTold, WarningsTold
    <3>6. QED
      BY <3>1, <3>2, <3>3, <3>4, <3>5, SamePromise DEF Promise!Report, Promise!Grows
  <2>3. QED
    BY <2>1, <2>2
<1>3. QED
  BY <1>1, <1>2, SpecRule, PTL DEF Spec, Promise!Safety
==============================================================================
