------------------------------- MODULE MCRouting -------------------------------
(* Small instances of Routing: steps a, b and c, both markers and a name    *)
(* without a step; every kind of route out of a, gates and fan-outs on b;   *)
(* and flows that have a step named like the marker null in b's place.      *)
EXTENDS Routing

CONSTANTS a, b, c, null, orchestrator, missing

McNames == {a, b, c, null, orchestrator, missing}
McOrder == <<a, b, c, missing, null, orchestrator>>
McMarkers == {null, orchestrator}

Plain == [default |-> Absent, conditions |-> <<>>, fans |-> FALSE,
          members |-> <<>>, rendezvous |-> Absent, errorGoto |-> Absent]
Bare == [action |-> "none", block |-> FALSE, repeats |-> FALSE,
         onFail |-> "no gate", gateGoto |-> Absent, wellFormed |-> TRUE]

(* A step is a pair of its two records.                                     *)
Routed(t) == <<[Plain EXCEPT !.default = t], Bare>>
Branching(t, u, w) ==
  <<[Plain EXCEPT !.default = t, !.conditions = <<[goto |-> u, wrongKey |-> w]>>], Bare>>
Fanning(ms, r) ==
  <<[Plain EXCEPT !.fans = TRUE, !.members = ms, !.rendezvous = r], [Bare EXCEPT !.block = TRUE]>>
Redirecting(t, action, e) ==
  <<[Plain EXCEPT !.default = t, !.errorGoto = e], [Bare EXCEPT !.action = action]>>
Gated(t, onFail, g) ==
  <<[Plain EXCEPT !.default = t], [Bare EXCEPT !.onFail = onFail, !.gateGoto = g]>>

McA ==
  {Routed(t) : t \in {b, null, orchestrator, missing}}
    \cup {Branching(b, u, FALSE) : u \in {c, missing}} \cup {Branching(null, b, TRUE)}
    \cup {Fanning(ms, r) : ms \in {<<b>>, <<b, c>>, <<c, null>>, <<>>},
                           r \in {c, null, orchestrator, Absent}}
    \cup {Redirecting(b, action, e) : action \in {"goto", "other", "unknown"},
                                      e \in {c, missing, Absent}}
    \cup {Gated(b, onFail, g) : onFail \in {"goto", "other"}, g \in {a, c, missing, Absent}}

McB ==
  {Routed(t) : t \in {c, null, a}}
    \cup {Gated(null, onFail, c) : onFail \in OnFail \ {"no gate"}}
    \cup {Fanning(<<c, a>>, null), Redirecting(a, "goto", c)}
    \cup {<<p[1], [p[2] EXCEPT !.repeats = r, !.wellFormed = ~r]>> :
            p \in {Gated(c, "goto", a)}, r \in BOOLEAN}

McC == {Routed(a), Routed(null), Gated(b, "other", Absent), Gated(b, "goto", a)}

McThree ==
  {[graph |-> [start |-> s[1], errorGoto |-> s[2],
               steps |-> [x \in {a, b, c} |-> IF x = a THEN p[1] ELSE IF x = b THEN q[1] ELSE r[1]]],
    extras |-> [x \in {a, b, c} |-> IF x = a THEN p[2] ELSE IF x = b THEN q[2] ELSE r[2]],
    action |-> s[3], storedBytes |-> st] :
     s \in {<<a, Absent, "none">>, <<a, c, "goto">>, <<a, c, "other">>,
            <<a, missing, "goto">>, <<missing, Absent, "none">>, <<Absent, c, "other">>},
     p \in McA, q \in McB, r \in McC, st \in BOOLEAN}

McNamedNull ==
  {[graph |-> [start |-> s, errorGoto |-> Absent,
               steps |-> [x \in {a, null, c} |-> IF x = a THEN p[1] ELSE IF x = null THEN q[1] ELSE r[1]]],
    extras |-> [x \in {a, null, c} |-> IF x = a THEN p[2] ELSE IF x = null THEN q[2] ELSE r[2]],
    action |-> "none", storedBytes |-> FALSE] :
     s \in {a, null},
     p \in {Routed(null), Routed(c), Redirecting(null, "goto", null), Redirecting(c, "goto", null),
            Fanning(<<null>>, null), Fanning(<<null, c>>, c), Gated(null, "goto", null)},
     q \in {Routed(a), Routed(c), Gated(a, "other", Absent), Fanning(<<c>>, null)},
     r \in {Routed(null), Routed(a), Redirecting(null, "goto", null)}}

McDocuments == McThree \cup McNamedNull

McFlows == {d.graph : d \in McDocuments}
==============================================================================
