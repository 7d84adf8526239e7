------------------------------- MODULE LoopRule -------------------------------
(****************************************************************************)
(* The loop, for_each and throttle rule.  A loop body is a second step      *)
(* table: its sub-steps have ids of their own, and a sub-step's next is     *)
(* judged against them alone, in a second pass, after all were collected.   *)
(*                                                                          *)
(* A text is the sequence of its parts between dots, "" the empty sequence. *)
(* Absent is a key that is missing or null, Other a value of another kind   *)
(* than the one that is read.                                               *)
(****************************************************************************)
EXTENDS Integers, Sequences

CONSTANTS
  Absent, Other,
  Sentinels,       \* loopSubStepNextSentinels
  SummaryFields,   \* loopResultSummaryFields
  MaxIterations, MaxDelay, MaxBatchDelay,  \* ceilings of the spec
  Flows            \* the flows under consideration

ASSUME CeilingsAssumption == MaxIterations \in Nat /\ MaxDelay \in Nat /\ MaxBatchDelay \in Nat

(* What this rule reads of a step: its id, whether its executor is a text,  *)
(* next.parallel, and its blocks.  The targets of a sub-step's next are its *)
(* default and then the goto of every condition; a condition that is no     *)
(* mapping is passed over, as one without a goto is.  A loop whose steps are*)
(* no list has no sub-steps.                                                *)
IsMapping(block) == block \notin {Absent, Other}
HasLoop(s) == IsMapping(s.loop)
SubsOf(s) == IF HasLoop(s) THEN s.loop.subs ELSE <<>>
HasId(sub) == sub.id \notin {Absent, Other, <<>>}

ASSUME FlowsAssumption ==
  \A flow \in Flows :
    /\ Len(flow.steps) \in Nat \ {0}
    /\ \A n \in 1..Len(flow.steps) :
         HasLoop(flow.steps[n]) =>
           LET loop == flow.steps[n].loop IN
           /\ loop.maxIterations \in Int \cup {Other}
           /\ Len(loop.subs) \in Nat /\ (loop.subs = <<>> <=> Len(loop.subs) = 0)

VARIABLES
  flow,              \* never written
  phase,             \* the rule under way
  step, sub,         \* where its walk is
  part,              \* of the loop rule: forEach, head, collect, jump, tail
  seen,              \* the ids of the body, as collected so far
  errors, warnings   \* the findings, [code, at, about]: kind, place, StepID

report == <<errors, warnings>>
loopVars == <<flow, phase, step, sub, part, seen, errors, warnings>>

Current == flow.steps[step]
Sub == Current.loop.subs[sub]

(* A finding's place is the path of indices to what it is about.  Those of  *)
(* some rules have no StepID; they tell the key they are about.             *)
Finding(code, at, id) == [code |-> code, at |-> at, about |-> id]
Findings(codes, at, id) == {Finding(code, at, id) : code \in codes}
If(condition, code) == IF condition THEN {code} ELSE {}

------------------------------------------------------------------------------
(* for_each and its throttle.  Of a throttle's two batch findings only one  *)
(* is raised; an over-long or malformed duration is judged besides.         *)
DurationCodes(duration, ceiling, over) ==
  IF duration = Absent THEN {}
  ELSE IF duration = Other THEN {"invalid_duration"}
  ELSE If(duration > ceiling, over)

ThrottleCodes(t) ==
  LET size == IF t.batchSize = Other THEN 0 ELSE t.batchSize IN
  DurationCodes(t.delay, MaxDelay, "throttle_delay_exceeds_max")
    \cup If(size < 0, "throttle_invalid_batch_size")
    \cup If(size = 0 /\ t.batchDelay # Absent, "throttle_batch_delay_without_size")
    \cup DurationCodes(t.batchDelay, MaxBatchDelay, "throttle_batch_delay_exceeds_max")

ForEachCodes(s) ==
  LET e == s.forEach IN
  IF ~IsMapping(e) THEN {}
  ELSE If(~e.items, "for_each_items_required")
         \cup If(s.parallel, "for_each_mutual_exclusion")
         \cup If(e.maxParallel # Other /\ e.maxParallel < 0, "for_each_invalid_max_parallel")
         \cup If(~e.resolution, "for_each_invalid_resolution")
         \cup (IF IsMapping(e.throttle) THEN ThrottleCodes(e.throttle) ELSE {})

ValidateForEach ==
  /\ phase = "loop" /\ part = "forEach"
  /\ errors' = errors \cup Findings(ForEachCodes(Current), <<step>>, Current.id)
  /\ part' = IF HasLoop(Current) THEN "head" ELSE "next"
  /\ UNCHANGED <<flow, phase, step, sub, seen, warnings>>

------------------------------------------------------------------------------
(* validateLoop: the loop's own keys, the first pass over the sub-steps,    *)
(* the second pass, and what a loop step may not have besides.              *)
HeadCodes(loop) ==
  If(~loop.while, "loop_while_required")
    \cup (IF loop.maxIterations = Other THEN {"loop_max_iterations_required"}
          ELSE If(loop.maxIterations <= 0, "loop_max_iterations_required")
                 \cup If(loop.maxIterations > MaxIterations, "loop_max_iterations_range"))
    \cup If(loop.subs = <<>>, "loop_steps_required")

(* Mutant: the ids of the body before are kept.                             *)
LoopHeadNoReset ==
  /\ phase = "loop" /\ part = "head"
  /\ errors' = errors \cup Findings(HeadCodes(Current.loop), <<step>>, Current.id)
  /\ sub' = 1
  /\ part' = IF Current.loop.subs = <<>> THEN "tail" ELSE "collect"
  /\ UNCHANGED <<flow, phase, step, seen, warnings>>

LoopHead ==
  /\ phase = "loop" /\ part = "head"
  /\ errors' = errors \cup Findings(HeadCodes(Current.loop), <<step>>, Current.id)
  /\ seen' = {} /\ sub' = 1
  /\ part' = IF Current.loop.subs = <<>> THEN "tail" ELSE "collect"
  /\ UNCHANGED <<flow, phase, step, warnings>>

SubStepCodes(s) ==
  (IF HasId(s)
   THEN If(Len(s.id) > 1, "reserved_step_id_char") \cup If(s.id \in seen, "loop_step_id_duplicate")
   ELSE {"loop_step_id_required"})
    \cup If(~s.runs, "loop_step_executor_required")

(* After the last sub-step the next pass begins, with the first.            *)
Proceed(following) ==
  IF sub < Len(Current.loop.subs)
  THEN sub' = sub + 1 /\ UNCHANGED part
  ELSE sub' = 1 /\ part' = following

CollectSubStep ==
  /\ phase = "loop" /\ part = "collect"
  /\ IF Sub = Other
     THEN /\ errors' = errors \cup {Finding("invalid_type", <<step, sub>>, Current.id)}
          /\ UNCHANGED <<seen, warnings>>
     ELSE /\ errors' = errors \cup Findings(SubStepCodes(Sub), <<step, sub>>, Current.id)
          /\ seen' = IF HasId(Sub) THEN seen \cup {Sub.id} ELSE seen
          /\ warnings' = warnings \cup Findings(If(HasId(Sub) /\ Sub.id \in SummaryFields, "loop_sub_step_id_reserved"),
                                                <<step, sub>>, Current.id)
  /\ Proceed("jump")
  /\ UNCHANGED <<flow, phase, step>>

(* Mutant: one pass, so that a target is judged by the ids met so far.      *)
TargetCodesBackward(target) ==
  IF target \in {Absent, <<>>} THEN {}
  ELSE IF target = Other THEN {"invalid_type"}
  ELSE IF target \in Sentinels THEN {"loop_substep_next_sentinel"}
  ELSE If(\A i \in 1..sub : Current.loop.subs[i] = Other \/ Current.loop.subs[i].id # target,
          "loop_substep_next_target_not_found")

(* One target: an empty one advances sequentially.                          *)
TargetCodes(target) ==
  IF target \in {Absent, <<>>} THEN {}
  ELSE IF target = Other THEN {"invalid_type"}
  ELSE IF target \in Sentinels THEN {"loop_substep_next_sentinel"}
  ELSE If(target \notin seen, "loop_substep_next_target_not_found")

(* A parallel block hides the targets.                                      *)
NextFindings(next) ==
  IF next = Absent THEN {}
  ELSE IF next = Other THEN {Finding("invalid_type", <<step, sub>>, Current.id)}
  ELSE IF next.parallel THEN {Finding("loop_substep_next_parallel", <<step, sub>>, Current.id)}
  ELSE UNION {Findings(TargetCodes(next.targets[j]), <<step, sub, j>>, Current.id) : j \in 1..Len(next.targets)}

ValidateLoopSubStepNext ==
  /\ phase = "loop" /\ part = "jump"
  /\ errors' = errors \cup (IF Sub = Other THEN {} ELSE NextFindings(Sub.next))
  /\ Proceed("tail")
  /\ UNCHANGED <<flow, phase, step, seen, warnings>>

LoopTail ==
  /\ phase = "loop" /\ part = "tail"
  /\ errors' = errors \cup Findings(If(Current.forEach # Absent, "loop_mutual_exclusion_for_each")
                                      \cup If(Current.hasExecutor, "loop_mutual_exclusion_executor"),
                                    <<step>>, Current.id)
  /\ part' = "next"
  /\ UNCHANGED <<flow, phase, step, sub, seen, warnings>>

NextStep ==
  /\ phase = "loop" /\ part = "next"
  /\ part' = "forEach" /\ sub' = 0
  /\ IF step < Len(flow.steps)
     THEN step' = step + 1 /\ UNCHANGED phase
     ELSE step' = 1 /\ phase' = "bindings"
  /\ UNCHANGED <<flow, seen, report>>

LoopNext ==
  ValidateForEach \/ LoopHead \/ CollectSubStep \/ ValidateLoopSubStepNext \/ LoopTail \/ NextStep

------------------------------------------------------------------------------
(* The steps this rule is done with.                                        *)
Judged == IF phase = "loop" THEN 1..(step - 1)
          ELSE IF phase \in {"identity", "executors"} THEN {}
          ELSE 1..Len(flow.steps)

(* No error names a place in the n-th step.                                 *)
IsClean(n) == \A e \in errors : e.at[1] # n

(* Some sub-step of the body has the id.                                    *)
IsKnown(subs, target) == \E k \in 1..Len(subs) : subs[k] # Other /\ HasId(subs[k]) /\ subs[k].id = target

(* A jump is reported as a miss exactly if no sub-step of the same body, an *)
(* earlier or a later one, has that id: the first pass is complete before   *)
(* the second begins, and no id of another body counts.                     *)
MissesExact ==
  \A n \in Judged : \A i \in 1..Len(SubsOf(flow.steps[n])) :
    LET s == SubsOf(flow.steps[n])[i] IN
    (s # Other /\ IsMapping(s.next) /\ ~s.next.parallel) =>
      \A j \in 1..Len(s.next.targets) :
        LET target == s.next.targets[j] IN
        Finding("loop_substep_next_target_not_found", <<n, i, j>>, flow.steps[n].id) \in errors
          <=> /\ target \notin {Absent, Other, <<>>} \cup Sentinels
              /\ ~IsKnown(SubsOf(flow.steps[n]), target)

(* The promise to the loop driver, which advances silently where a jump     *)
(* names nothing: in a step without an error every sub-step has an id of    *)
(* its own, and every jump that is written names one of them.               *)
AcceptedBodyRuns ==
  \A n \in Judged :
    (HasLoop(flow.steps[n]) /\ IsClean(n)) =>
      LET loop == flow.steps[n].loop
          subs == loop.subs IN
      /\ loop.maxIterations \in 1..MaxIterations /\ Len(subs) > 0
      /\ \A i \in 1..Len(subs) :
           /\ subs[i] # Other /\ HasId(subs[i])
           /\ \A k \in 1..Len(subs) : subs[k] # Other /\ subs[i].id = subs[k].id => i = k
           /\ subs[i].next # Absent =>
                /\ IsMapping(subs[i].next) /\ ~subs[i].next.parallel
                /\ \A j \in 1..Len(subs[i].next.targets) :
                     subs[i].next.targets[j] \in {Absent, <<>>} \/ IsKnown(subs, subs[i].next.targets[j])
==============================================================================
