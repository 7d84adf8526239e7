------------------------------ MODULE MCTemplates ------------------------------
(* Small instances of Templates: one step whose loop has two sub-steps, and *)
(* one plain step; three unknown functions against a bound of two.          *)
EXTENDS Templates

McNames == {"lower", "f", "g", "h"}
Said(tokens) == [template |-> TRUE, tokens |-> tokens, piped |-> FALSE, asks |-> FALSE]
Plain == [template |-> FALSE, tokens |-> <<>>, piped |-> FALSE, asks |-> FALSE]

(* Known, one and two unknown, a repeated one, more than the bound, broken  *)
(* at once, after an unknown function and after the bound.                  *)
McTexts ==
  {Plain, Said(<<"lower">>), Said(<<"f", "lower", "f">>), Said(<<"f", "g">>), Said(<<"h", "f", "g">>),
   Said(<<Broken, "f">>), Said(<<"f", Broken, "g">>), Said(<<"f", "g", Broken>>),
   [template |-> TRUE, tokens |-> <<>>, piped |-> TRUE, asks |-> TRUE],
   [template |-> TRUE, tokens |-> <<"g">>, piped |-> TRUE, asks |-> TRUE]}
McPairs == {<<Said(<<"f", Broken>>), Plain>>, <<Plain, Said(<<"g", "lower">>)>>}

Sub(condition, query, ops, next) == [condition |-> condition, query |-> query, ops |-> ops, next |-> next]
Looping(query, ops, one, expectation, next) ==
  [query |-> query, ops |-> ops, expectation |-> expectation, next |-> next,
   subs |-> <<one, Sub(<<>>, ops, query, <<>>)>>]
Alone(query, next) ==
  [query |-> query, ops |-> <<>>, subs |-> <<>>, expectation |-> <<>>, next |-> next]

(* A text in each of the places, with another one in a second place.        *)
McSteps(t, pair) ==
  {<<Alone(<<t>>, pair)>>, <<Alone(pair, <<t>>)>>,
   <<Looping(<<t>>, <<>>, Sub(pair, <<>>, <<>>, <<>>), <<t>>, pair), Alone(<<t>>, <<>>)>>,
   <<Looping(pair, <<t>>, Sub(<<t>>, <<>>, <<t>>, pair), <<>>, <<>>)>>,
   <<Looping(<<>>, pair, Sub(<<>>, <<t>>, pair, <<t>>), pair, <<>>), Alone(<<>>, pair)>>}

McDocuments ==
  {[steps |-> steps, strict |-> strict] :
     steps \in UNION {McSteps(t, pair) : t \in McTexts, pair \in McPairs}, strict \in BOOLEAN}
==============================================================================
