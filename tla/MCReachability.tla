---------------------------- MODULE MCReachability ----------------------------
(* Small instances of Reachability: three step ids, a marker, a missing     *)
(* name; every pair of edge kinds on a and b, a short default edge on c.    *)
EXTENDS Reachability

CONSTANTS a, b, c, null, missing

McNames == {a, b, c, null, missing}
McMarkers == {null}

Plain == [default |-> Absent, conditions |-> <<>>, fans |-> FALSE,
          members |-> <<>>, rendezvous |-> Absent, errorGoto |-> Absent]

Goto(t) == <<[goto |-> t, wrongKey |-> FALSE]>>

(* Two edges of every combination of kinds that occurs in one step.         *)
Shapes(T) ==
  UNION {{[Plain EXCEPT !.default = t, !.conditions = Goto(u)],
          [Plain EXCEPT !.fans = TRUE, !.members = <<t>>, !.rendezvous = u],
          [Plain EXCEPT !.default = t, !.errorGoto = u]} : t, u \in T}

Short == {Plain} \cup {[Plain EXCEPT !.default = t] : t \in {a, b}}

McFlows ==
  {[start |-> s, errorGoto |-> e, steps |-> g] :
     s \in {a, missing},
     e \in {Absent, c, null},
     g \in {[x \in {a, b, c} |-> IF x = a THEN p ELSE IF x = b THEN q ELSE r] :
              p \in Shapes({Absent, b, c, null}), q \in Shapes({a, c, missing}),
              r \in Short}
           \cup {[x \in {a, b} |-> IF x = a THEN p ELSE [Plain EXCEPT !.default = c]] :
              p \in Shapes({a, b, null})}}

==============================================================================
