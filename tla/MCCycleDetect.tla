---------------------------- MODULE MCCycleDetect ----------------------------
(* Small instances of CycleDetect.  McMarked: three steps with markers,     *)
(* missing names, fan-outs and steps without a default.  McDense: four      *)
(* steps with two followed edges each, where component shapes differ.       *)
EXTENDS CycleDetect

CONSTANTS a, b, c, d, null, missing

McNames == {a, b, c, d, null, missing}
McMarkers == {null}

Plain == [default |-> Absent, conditions |-> <<>>, fans |-> FALSE,
          members |-> <<>>, rendezvous |-> Absent, errorGoto |-> Absent]

Branches(T) ==
  {<<>>} \cup {<<[goto |-> t, wrongKey |-> FALSE]>> : t \in T}

Steps(defaults, gotos, fans) ==
  {[Plain EXCEPT !.default = t, !.conditions = g, !.fans = p] :
     t \in defaults, g \in Branches(gotos), p \in fans}

McMarked ==
  {[start |-> s, errorGoto |-> Absent,
    steps |-> [x \in {a, b, c} |-> IF x = a THEN p ELSE IF x = b THEN q ELSE r]] :
     s \in {a, missing},
     p \in Steps({a, b, c, Absent}, {a, b, c}, {FALSE}),
     q \in Steps({a, b, c, Absent, null}, {a, c, missing}, BOOLEAN),
     r \in Steps({a, b, c}, {a, b, null, Absent}, {FALSE})}

McDense ==
  {[start |-> a, errorGoto |-> Absent,
    steps |-> [x \in {a, b, c, d} |-> CASE x = a -> p [] x = b -> q [] x = c -> r [] x = d -> s]] :
     p \in Steps({b, c}, {b, c, d}, {FALSE}),
     q \in Steps({a, c}, {a, b, c, d}, {FALSE}),
     r \in Steps({a, d}, {b, c, d}, {FALSE}),
     s \in Steps({a, b, Absent}, {b, c, d}, {FALSE})}

McFlows == McMarked \cup McDense
==============================================================================
