----------------------------- MODULE Reachability -----------------------------
(****************************************************************************)
(* The breadth-first walk of validateConnectivity that decides which steps  *)
(* get an unreachable_step warning.  The walk is a plain queue: a target is *)
(* appended when it has not been visited yet, so one name can sit in the    *)
(* queue several times, and names of steps that do not exist are walked     *)
(* too (they have no edges).                                                *)
(****************************************************************************)
EXTENDS FlowDocument

VARIABLES
  walkPc,       \* begin, pop, push, done, or skipped after the early return
  queue,        \* queue
  reachable,    \* reachable
  current,      \* current, while its edges are being pushed
  edges,        \* the rest of reachTargets(steps, current)
  unreachable   \* the steps that get an unreachable_step warning

walkVars == <<walkPc, queue, reachable, current, edges, unreachable>>

InitWalk ==
  /\ walkPc = "begin"
  /\ queue = <<>>
  /\ reachable = {}
  /\ current = Absent
  /\ edges = <<>>
  /\ unreachable = {}

WalkInit == flow \in Flows /\ InitWalk

(* start missing or unknown: neither reachability nor cycles are analysed.  *)
Skip ==
  /\ walkPc = "begin" /\ ~HasStart(flow)
  /\ walkPc' = "skipped"
  /\ UNCHANGED <<flow, queue, reachable, current, edges, unreachable>>

(* Mutant: the flow-level redirect is seeded although it is a marker.       *)
SeedMarkers ==
  /\ walkPc = "begin" /\ HasStart(flow)
  /\ queue' = IF flow.errorGoto # Absent THEN <<flow.start, flow.errorGoto>> ELSE <<flow.start>>
  /\ walkPc' = "pop"
  /\ UNCHANGED <<flow, reachable, current, edges, unreachable>>

(* Mutant: the flow-level redirect is forgotten.                            *)
SeedStartOnly ==
  /\ walkPc = "begin" /\ HasStart(flow)
  /\ queue' = <<flow.start>>
  /\ walkPc' = "pop"
  /\ UNCHANGED <<flow, reachable, current, edges, unreachable>>

(* Seed the queue with start, and with the flow-level error redirect.       *)
Seed ==
  /\ walkPc = "begin" /\ HasStart(flow)
  /\ queue' = IF IsWalkTarget(flow.errorGoto)
              THEN <<flow.start, flow.errorGoto>>
              ELSE <<flow.start>>
  /\ walkPc' = "pop"
  /\ UNCHANGED <<flow, reachable, current, edges, unreachable>>

(* Mutant: the loop goes on before it has taken the head off the queue.     *)
PopSeenTooEarly ==
  /\ walkPc = "pop" /\ queue # <<>> /\ Head(queue) \in reachable
  /\ UNCHANGED <<flow, walkVars>>

(* The queue holds a name a second time.                                    *)
PopSeen ==
  /\ walkPc = "pop" /\ queue # <<>> /\ Head(queue) \in reachable
  /\ queue' = Tail(queue)
  /\ UNCHANGED <<flow, walkPc, reachable, current, edges, unreachable>>

(* Mutant: the walk follows the cycle walk's edges only, as it once did.    *)
PopNewNarrow ==
  /\ walkPc = "pop" /\ queue # <<>> /\ Head(queue) \notin reachable
  /\ queue' = Tail(queue)
  /\ reachable' = reachable \cup {Head(queue)}
  /\ current' = Head(queue)
  /\ edges' = CycleEdges(flow, Head(queue))
  /\ walkPc' = "push"
  /\ UNCHANGED <<flow, unreachable>>

PopNew ==
  /\ walkPc = "pop" /\ queue # <<>> /\ Head(queue) \notin reachable
  /\ queue' = Tail(queue)
  /\ reachable' = reachable \cup {Head(queue)}
  /\ current' = Head(queue)
  /\ edges' = ReachEdges(flow, Head(queue))
  /\ walkPc' = "push"
  /\ UNCHANGED <<flow, unreachable>>

(* Mutant: a missing target text is pushed like any other.                  *)
PushAbsent ==
  /\ walkPc = "push" /\ edges # <<>>
  /\ ~IsNextMarker(Head(edges)) /\ Head(edges) \notin reachable
  /\ queue' = Append(queue, Head(edges))
  /\ edges' = Tail(edges)
  /\ UNCHANGED <<flow, walkPc, reachable, current, unreachable>>

Push ==
  /\ walkPc = "push" /\ edges # <<>>
  /\ IsWalkTarget(Head(edges)) /\ Head(edges) \notin reachable
  /\ queue' = Append(queue, Head(edges))
  /\ edges' = Tail(edges)
  /\ UNCHANGED <<flow, walkPc, reachable, current, unreachable>>

(* No target text, a marker, or a target visited already.                   *)
PassTarget ==
  /\ walkPc = "push" /\ edges # <<>>
  /\ ~IsWalkTarget(Head(edges)) \/ Head(edges) \in reachable
  /\ edges' = Tail(edges)
  /\ UNCHANGED <<flow, walkPc, queue, reachable, current, unreachable>>

NextPop ==
  /\ walkPc = "push" /\ edges = <<>>
  /\ walkPc' = "pop"
  /\ current' = Absent
  /\ UNCHANGED <<flow, queue, reachable, edges, unreachable>>

(* One warning per step the walk never visited (in sorted order; the order  *)
(* is abstracted to a set).                                                 *)
Report ==
  /\ walkPc = "pop" /\ queue = <<>>
  /\ unreachable' = StepIds(flow) \ reachable
  /\ walkPc' = "done"
  /\ UNCHANGED <<flow, queue, reachable, current, edges>>

WalkNext == Skip \/ Seed \/ PopSeen \/ PopNew \/ Push \/ PassTarget \/ NextPop \/ Report

(* The rule is one sequential call that performs no I/O and never waits:    *)
(* it keeps taking steps until it returns.                                  *)
WalkSpec == WalkInit /\ [][WalkNext]_<<flow, walkVars>> /\ WF_<<flow, walkVars>>(WalkNext)

------------------------------------------------------------------------------
(* Every variable keeps its type; the queue and the pending edges hold      *)
(* target texts only.                                                       *)
WalkTypeOK ==
  /\ IsFlow(flow)
  /\ walkPc \in {"begin", "pop", "push", "done", "skipped"}
  /\ queue \in Seq(Names)
  /\ reachable \in SUBSET Names
  /\ current \in Targets
  /\ edges \in Seq(Targets)
  /\ unreachable \in SUBSET Names

(* The walk never visits, nor queues, a name that control cannot be routed  *)
(* to: a wrong visit would silence an unreachable_step warning.             *)
NothingInvented ==
  HasStart(flow) => reachable \cup Mentioned(queue) \subseteq ReachableFrom(flow)

(* Control facts the proofs need: which variables are in use where.         *)
WalkShape ==
  /\ walkPc \notin {"begin", "skipped"} => HasStart(flow)
  /\ walkPc \in {"begin", "skipped"} => queue = <<>> /\ reachable = {}
  /\ walkPc = "push" => current \in reachable
  /\ walkPc # "push" => edges = <<>>
  /\ walkPc = "done" => queue = <<>> /\ unreachable = StepIds(flow) \ reachable

(* The seeds are never dropped.                                             *)
SeedsKept ==
  walkPc \in {"pop", "push", "done"} => Seeds(flow) \subseteq reachable \cup Mentioned(queue)

(* The edges still to be pushed belong to the step being expanded.          *)
PendingEdges ==
  walkPc = "push" => Mentioned(edges) \subseteq Mentioned(ReachEdges(flow, current))

(* No edge is ever lost: a target of a visited step is visited, queued, or  *)
(* among the edges of the step being expanded.  A lost edge would turn into *)
(* a confident accusation (reachTargets' comment).                          *)
NoEdgeLost ==
  walkPc # "skipped" =>
    \A n \in reachable : \A t \in Mentioned(ReachEdges(flow, n)) :
      IsWalkTarget(t) =>
        \/ t \in reachable
        \/ t \in Mentioned(queue)
        \/ n = current /\ t \in Mentioned(edges)

(* The warnings are exact: when the rule returns, the steps accused of      *)
(* being unreachable are precisely those outside the least closed set.      *)
ReportExact ==
  walkPc = "done" => unreachable = StepIds(flow) \ ReachableFrom(flow)

(* The inductive invariant behind NothingInvented, NoEdgeLost, ReportExact. *)
WalkInv ==
  /\ WalkTypeOK
  /\ WalkShape
  /\ SeedsKept
  /\ PendingEdges
  /\ NothingInvented
  /\ NoEdgeLost

(* Although names are queued repeatedly and cycles are legal, the walk ends.*)
WalkEnds == <>(walkPc \in {"done", "skipped"})
==============================================================================
