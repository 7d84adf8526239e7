------------------------------ MODULE FlowPaths ------------------------------
(****************************************************************************)
(* What the two walks of validate.connectivity.go are for, stated without   *)
(* an algorithm: the names control can be routed to, and the sets of steps  *)
(* it can never leave.  The walks are checked, and proved, against these.   *)
(****************************************************************************)
EXTENDS FlowGraph

(* Where a run can begin: start, and the flow-level error redirect.         *)
Seeds(f) == {f.start} \cup (IF IsWalkTarget(f.errorGoto) THEN {f.errorGoto} ELSE {})

(* The reachable names: the least set of names that holds the seeds and is  *)
(* closed under the five edge kinds.                                        *)
Closed(f, S) ==
  \A n \in S : \A t \in Mentioned(ReachEdges(f, n)) : IsWalkTarget(t) => t \in S

ClosedSets(f) == {S \in SUBSET Names : Seeds(f) \subseteq S /\ Closed(f, S)}

ReachableFrom(f) == LET closedSets == ClosedSets(f)
                    IN  {n \in Names : \A S \in closedSets : n \in S}

(* The steps the cycle walk can follow a path to, from a given step: the    *)
(* least set that holds it and is closed under the followed edges.          *)
FollowClosed(f, S) ==
  \A n \in S : \A t \in Mentioned(CycleEdges(f, n)) : IsFollowed(f, t) => t \in S

FollowedFrom(f, id) ==
  LET closed == {S \in SUBSET StepIds(f) : id \in S /\ FollowClosed(f, S)}
  IN  {n \in StepIds(f) : \A S \in closed : n \in S}

(* A set of steps control can never leave nor end in: at each of them the   *)
(* flow goes on, without a fan-out, to a member of the set whatever branch  *)
(* is taken.  This mentions neither components nor cycles.                  *)
IsTrap(f, T) ==
  /\ T # {}
  /\ \A n \in T :
       /\ ~f.steps[n].fans /\ f.steps[n].default # Absent
       /\ \A t \in Mentioned(CycleEdges(f, n)) \ {Absent} : ~IsNextMarker(t) /\ t \in T

HasTrap(f) ==
  HasStart(f) /\ \E T \in SUBSET FollowedFrom(f, f.start) : IsTrap(f, T)

(* Two steps are mutually connected.                                        *)
Connected(f, m, n) == n \in FollowedFrom(f, m) /\ m \in FollowedFrom(f, n)
==============================================================================
