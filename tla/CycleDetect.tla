------------------------------ MODULE CycleDetect ------------------------------
(****************************************************************************)
(* cycleWithoutExit: Tarjan's strongly connected components over the        *)
(* next.default and next.conditions[].goto edges reachable from start, and  *)
(* the verdict whether one of them is a cycle control can never leave.      *)
(*                                                                          *)
(* The recursive closure strong(id) is modelled with its call stack made    *)
(* explicit: a frame is one activation, holding its id and the edges its    *)
(* range loop has not finished with (the head is the edge being followed).  *)
(****************************************************************************)
EXTENDS FlowDocument, FiniteSets

VARIABLES
  loopPc,    \* begin, walk, done
  index,     \* index: the next visit number
  indices,   \* indices: visited ids -> visit number
  low,       \* low
  stack,     \* stack
  onStack,   \* onStack: the ids mapped to true
  frames,    \* the activations of strong, innermost last
  found      \* found

loopVars == <<loopPc, index, indices, low, stack, onStack, frames, found>>

Frame == [id : Names, rest : Seq(Targets)]

Top == frames[Len(frames)]
Pending == Head(Top.rest)
Callers == SubSeq(frames, 1, Len(frames) - 1)

(* Mutant: a fan-out is not an exit.                                        *)
StepLeavesCycleNoFan(f, id, inCycle) ==
  LET step == f.steps[id] IN
  \/ step.default = Absent
  \/ \E target \in Mentioned(CycleEdges(f, id)) \ {Absent} :
       IsNextMarker(target) \/ target \notin inCycle

(* stepLeavesCycle: the flow can end at this step, it fans out, or one of   *)
(* its branches names a marker or a name outside the set.                   *)
StepLeavesCycle(f, id, inCycle) ==
  LET step == f.steps[id] IN
  \/ step.fans
  \/ step.default = Absent
  \/ \E target \in Mentioned(CycleEdges(f, id)) \ {Absent} :
       IsNextMarker(target) \/ target \notin inCycle

(* Mutant: a step that is its own successor is not a cycle.                 *)
IsInescapableNoSelf(f, id, component) ==
  /\ Cardinality(component) > 1
  /\ \A member \in component : ~StepLeavesCycle(f, member, component)

(* The verdict on one popped component whose root is id.                    *)
IsInescapable(f, id, component) ==
  /\ Cardinality(component) > 1 \/ id \in Mentioned(CycleEdges(f, id))
  /\ \A member \in component : ~StepLeavesCycle(f, member, component)

(* The ids popped when id closes its component: id and everything above it. *)
PositionOf(id) == CHOOSE i \in 1..Len(stack) : stack[i] = id
Component(id) == {stack[i] : i \in PositionOf(id)..Len(stack)}

InitLoop ==
  /\ loopPc = "begin"
  /\ index = 0 /\ indices = <<>> /\ low = <<>>
  /\ stack = <<>> /\ onStack = {}
  /\ frames = <<>>
  /\ found = FALSE

LoopInit == flow \in Flows /\ InitLoop

(* The prologue of strong(id): number it, push it, range over its edges.    *)
Extend(f, id, n) == [x \in DOMAIN f \cup {id} |-> IF x = id THEN n ELSE f[x]]

(* Mutant: the prologue forgets the low link.                               *)
EnterNoLow(id) ==
  /\ index' = index + 1
  /\ indices' = Extend(indices, id, index)
  /\ stack' = Append(stack, id)
  /\ onStack' = onStack \cup {id}
  /\ frames' = Append(frames, [id |-> id, rest |-> CycleEdges(flow, id)])
  /\ UNCHANGED <<flow, low, found>>

Enter(id) ==
  /\ index' = index + 1
  /\ indices' = Extend(indices, id, index)
  /\ low' = Extend(low, id, index)
  /\ stack' = Append(stack, id)
  /\ onStack' = onStack \cup {id}
  /\ frames' = Append(frames, [id |-> id, rest |-> CycleEdges(flow, id)])
  /\ UNCHANGED <<flow, found>>

Begin ==
  /\ loopPc = "begin" /\ HasStart(flow)
  /\ Enter(flow.start)
  /\ loopPc' = "walk"

(* has(steps, start) is false: the verdict stays false.                     *)
NoStart ==
  /\ loopPc = "begin" /\ ~HasStart(flow)
  /\ loopPc' = "done"
  /\ UNCHANGED <<flow, index, indices, low, stack, onStack, frames, found>>

Walking == loopPc = "walk" /\ frames # <<>>

(* Move the innermost activation on to its next edge.                       *)
Advance(seq) == [seq EXCEPT ![Len(seq)].rest = Tail(@)]

PassEdge ==
  /\ Walking /\ Top.rest # <<>> /\ ~IsFollowed(flow, Pending)
  /\ frames' = Advance(frames)
  /\ UNCHANGED <<flow, loopPc, index, indices, low, stack, onStack, found>>

(* An edge to a step not seen yet: recurse (the caller's edge stays pending *)
(* until the call returns).                                                 *)
Call ==
  /\ Walking /\ Top.rest # <<>>
  /\ IsFollowed(flow, Pending) /\ Pending \notin DOMAIN indices
  /\ Enter(Pending)
  /\ UNCHANGED loopPc

(* Mutant: any step seen before lowers the link, popped ones too.           *)
RevisitPopped ==
  /\ Walking /\ Top.rest # <<>>
  /\ IsFollowed(flow, Pending) /\ Pending \in DOMAIN indices
  /\ low' = IF indices[Pending] < low[Top.id]
            THEN [low EXCEPT ![Top.id] = indices[Pending]]
            ELSE low
  /\ frames' = Advance(frames)
  /\ UNCHANGED <<flow, loopPc, index, indices, stack, onStack, found>>

(* Mutant: indices is not looked at, and a step seen before is entered once *)
(* more.  StackLimit stands for the end of Go's stack, which a walk around  *)
(* a cycle then runs into: a call that does not return.                     *)
StackLimit == Cardinality(Names) + 1
Reenter ==
  /\ Walking /\ Top.rest # <<>>
  /\ IsFollowed(flow, Pending) /\ Pending \in DOMAIN indices
  /\ Len(frames) < StackLimit
  /\ Enter(Pending)
  /\ UNCHANGED loopPc

(* An edge to a seen step: the low link drops only through a step that is   *)
(* still on the stack.                                                      *)
Revisit ==
  /\ Walking /\ Top.rest # <<>>
  /\ IsFollowed(flow, Pending) /\ Pending \in DOMAIN indices
  /\ low' = IF Pending \in onStack /\ indices[Pending] < low[Top.id]
            THEN [low EXCEPT ![Top.id] = indices[Pending]]
            ELSE low
  /\ frames' = Advance(frames)
  /\ UNCHANGED <<flow, loopPc, index, indices, stack, onStack, found>>

(* The call returns to its caller, which takes over the callee's low link.  *)
Return ==
  IF Callers = <<>>
  THEN frames' = <<>> /\ UNCHANGED low
  ELSE LET caller == Callers[Len(Callers)].id IN
       /\ frames' = Advance(Callers)
       /\ low' = IF low[Top.id] < low[caller]
                 THEN [low EXCEPT ![caller] = low[Top.id]]
                 ELSE low

ReturnOpen ==
  /\ Walking /\ Top.rest = <<>> /\ low[Top.id] # indices[Top.id]
  /\ Return
  /\ UNCHANGED <<flow, loopPc, index, indices, stack, onStack, found>>

(* Mutant: the popped steps keep their onStack flag.                        *)
CloseComponentFlagged ==
  /\ Walking /\ Top.rest = <<>> /\ low[Top.id] = indices[Top.id]
  /\ stack' = SubSeq(stack, 1, PositionOf(Top.id) - 1)
  /\ found' = (found \/ IsInescapable(flow, Top.id, Component(Top.id)))
  /\ Return
  /\ UNCHANGED <<flow, loopPc, index, indices, onStack>>

(* low[id] = indices[id]: pop the component, judge it, return.              *)
CloseComponent ==
  /\ Walking /\ Top.rest = <<>> /\ low[Top.id] = indices[Top.id]
  /\ stack' = SubSeq(stack, 1, PositionOf(Top.id) - 1)
  /\ onStack' = onStack \ Component(Top.id)
  /\ found' = (found \/ IsInescapable(flow, Top.id, Component(Top.id)))
  /\ Return
  /\ UNCHANGED <<flow, loopPc, index, indices>>

Finish ==
  /\ loopPc = "walk" /\ frames = <<>>
  /\ loopPc' = "done"
  /\ UNCHANGED <<flow, index, indices, low, stack, onStack, frames, found>>

LoopNext == NoStart \/ Begin \/ PassEdge \/ Call \/ Revisit \/ ReturnOpen
          \/ CloseComponent \/ Finish

(* One sequential call, no I/O, nothing it waits for.                       *)
LoopSpec == LoopInit /\ [][LoopNext]_<<flow, loopVars>> /\ WF_<<flow, loopVars>>(LoopNext)

------------------------------------------------------------------------------
(* Every variable keeps its type.                                           *)
LoopTypeOK ==
  /\ IsFlow(flow)
  /\ loopPc \in {"begin", "walk", "done"}
  /\ index \in Nat
  /\ DOMAIN indices \subseteq StepIds(flow)
  /\ indices \in [DOMAIN indices -> Nat]
  /\ low \in [DOMAIN indices -> Nat]
  /\ stack \in Seq(DOMAIN indices)
  /\ onStack \in SUBSET DOMAIN indices
  /\ frames \in Seq(Frame)
  /\ found \in BOOLEAN

(* The onStack flags, the stack and the call stack agree: an activation's   *)
(* step is on the stack until its component is popped, the stack holds each *)
(* step once, in visit order, and it is empty when the walk has returned.   *)
StacksAgree ==
  /\ onStack = Mentioned(stack)
  /\ \A i, j \in 1..Len(stack) : i < j => indices[stack[i]] < indices[stack[j]]
  /\ \A i \in 1..Len(frames) : frames[i].id \in onStack
  /\ \A i, j \in 1..Len(frames) : i < j => indices[frames[i].id] < indices[frames[j].id]
  /\ frames = <<>> => stack = <<>>

(* What makes the low links right: whenever an activation closes a          *)
(* component, the popped steps are exactly those mutually connected with    *)
(* its root.  An edge to a step of a finished component, a lost low link or *)
(* a wrong pop order would merge or split components.                       *)
ClosesWholeComponent ==
  Walking /\ Top.rest = <<>> /\ low[Top.id] = indices[Top.id] =>
    Component(Top.id) = {n \in StepIds(flow) : Connected(flow, Top.id, n)}

(* A potential_infinite_loop warning is never a false accusation: there     *)
(* really are steps, reachable from start, that control cannot leave.       *)
FoundSound == found => HasTrap(flow)

(* The verdict is exact: the walk ends with the warning precisely when      *)
(* such steps exist.                                                        *)
FoundExact == loopPc = "done" => (found <=> HasTrap(flow))

(* The walk ends although the graph is cyclic.                              *)
LoopEnds == <>(loopPc = "done")

(* Visit numbers are handed out once, and a low link never exceeds them.    *)
NumbersOK ==
  /\ \A x \in DOMAIN indices : indices[x] < index /\ low[x] <= indices[x]
  /\ \A x, y \in DOMAIN indices : indices[x] = indices[y] => x = y

(* The call stack: what an activation still has to follow are edges of its  *)
(* step, a suspended activation waits on one of them, and the outermost one *)
(* is the walk's first visit.                                               *)
CallsOK ==
  /\ \A i \in 1..Len(frames) :
       Mentioned(frames[i].rest) \subseteq Mentioned(CycleEdges(flow, frames[i].id))
  /\ \A i \in 1..(Len(frames) - 1) : frames[i].rest # <<>>
  /\ frames # <<>> => indices[frames[1].id] = 0
  /\ loopPc = "begin" => indices = <<>> /\ index = 0
  /\ loopPc # "walk" => frames = <<>>

(* Only steps a path leads to are visited.                                  *)
VisitsFollowed ==
  DOMAIN indices # {} =>
    HasStart(flow) /\ DOMAIN indices \subseteq FollowedFrom(flow, flow.start)

(* The inductive invariant behind StacksAgree and FoundSound.               *)
LoopInv ==
  /\ LoopTypeOK
  /\ StacksAgree
  /\ NumbersOK
  /\ CallsOK
  /\ VisitsFollowed
  /\ FoundSound

(* The steps whose component has been popped.                               *)
Finished == DOMAIN indices \ onStack

Followed(f, n) == {t \in Mentioned(CycleEdges(f, n)) : IsFollowed(f, t)}

(* An activation has not finished with the edge from n to t.                *)
Pends(n, t) ==
  \E i \in 1..Len(frames) : frames[i].id = n /\ t \in Mentioned(frames[i].rest)

(* The innermost activation that was begun before n was visited is the i-th.*)
VisitedUnder(i, n) ==
  /\ indices[frames[i].id] <= indices[n]
  /\ i < Len(frames) => indices[n] < indices[frames[i + 1].id]

(* Finished steps lead to finished steps only, and no edge of a step on the *)
(* stack is skipped.                                                        *)
EdgesFollowed ==
  /\ \A n \in Finished : Followed(flow, n) \subseteq Finished
  /\ \A n \in onStack : \A t \in Followed(flow, n) : t \in DOMAIN indices \/ Pends(n, t)

(* A suspended activation waits for the one above it.                       *)
CallsChained ==
  \A i \in 1..(Len(frames) - 1) : Head(frames[i].rest) = frames[i + 1].id

(* Each activation leads to every step above it on the stack, and each step *)
(* on the stack leads back to an activation at or below it.                 *)
CallsConnect ==
  /\ \A i \in 1..Len(frames) : \A n \in onStack :
       indices[frames[i].id] <= indices[n] => n \in FollowedFrom(flow, frames[i].id)
  /\ \A n \in onStack : \E i \in 1..Len(frames) :
       indices[frames[i].id] <= indices[n] /\ frames[i].id \in FollowedFrom(flow, n)

(* A low link is the number of a step on the stack that can be reached, and *)
(* no edge dealt with under an activation leads further down than its link. *)
LowLinks ==
  /\ \A n \in onStack : \E m \in onStack :
       indices[m] = low[n] /\ m \in FollowedFrom(flow, n)
  /\ \A i \in 1..Len(frames) : \A n \in onStack : VisitedUnder(i, n) =>
       \A t \in Followed(flow, n) \cap onStack :
         \/ low[frames[i].id] <= indices[t]
         \/ n = frames[i].id /\ t \in Mentioned(frames[i].rest)

(* The walk starts at start, and while nothing is found no trap holds a     *)
(* step that has been judged.                                               *)
TrapsJudged ==
  /\ loopPc # "begin" /\ HasStart(flow) => flow.start \in DOMAIN indices
  /\ ~found => \A T \in SUBSET StepIds(flow) : IsTrap(flow, T) => T \cap Finished = {}

(* What LoopInv lacks for ClosesWholeComponent and FoundExact.              *)
LinksInv ==
  /\ EdgesFollowed
  /\ CallsChained
  /\ CallsConnect
  /\ LowLinks
  /\ TrapsJudged
==============================================================================
