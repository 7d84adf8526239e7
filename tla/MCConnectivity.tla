---------------------------- MODULE MCConnectivity ----------------------------
(* Small instances of Connectivity: steps a and b, in half of the documents *)
(* a third one named like a marker, and a name without a step.              *)
EXTENDS Connectivity

CONSTANTS a, b, null, orchestrator, missing

McNames == {a, b, null, orchestrator, missing}
McOrder == <<a, b, missing, null, orchestrator>>
McMarkers == {null, orchestrator}

Plain == [default |-> Absent, conditions |-> <<>>, fans |-> FALSE,
          members |-> <<>>, rendezvous |-> Absent, errorGoto |-> Absent]

Branch(t, w) == [goto |-> t, wrongKey |-> w]

McA ==
  {[Plain EXCEPT !.default = t, !.conditions = <<Branch(u, w), Branch(v, FALSE)>>] :
     t \in {b, null, missing, Absent}, u \in {b, missing}, v \in {a, null, missing}, w \in BOOLEAN}

McB ==
  {[Plain EXCEPT !.default = t] : t \in {a, b, null, orchestrator, Absent}}
    \cup {[Plain EXCEPT !.fans = TRUE, !.members = <<t>>, !.rendezvous = b] : t \in {a, missing}}
    \cup {[Plain EXCEPT !.default = t, !.conditions = <<Branch(u, TRUE)>>, !.errorGoto = null] :
            t, u \in {a, b}}

McSteps ==
  {[x \in {a, b} |-> IF x = a THEN p ELSE q] : p \in McA, q \in McB}
    \cup {[x \in {a, b, null} |-> IF x = a THEN p ELSE IF x = b THEN q ELSE r] :
            p \in McA, q \in McB, r \in {[Plain EXCEPT !.default = null], [Plain EXCEPT !.default = b]}}

McDocuments ==
  {[start |-> a, errorGoto |-> Absent, steps |-> g] : g \in McSteps}
    \cup {[start |-> b, errorGoto |-> e, steps |-> g] :
            e \in {Absent, a}, g \in {h \in McSteps : h[b] \in McB /\ h[a].default = b}}
    \cup {[start |-> s, errorGoto |-> b, steps |-> g] :
            s \in {missing, Absent}, g \in {h \in McSteps : DOMAIN h = {a, b} /\ h[b] = Plain}}

(* The same set, built once: TLC then finds a document in it by bisection. *)
McFlows == {f : f \in McDocuments}
==============================================================================
