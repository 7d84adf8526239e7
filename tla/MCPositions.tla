------------------------------ MODULE MCPositions ------------------------------
(* Small instances of Positions: a root mapping with two keys, two links    *)
(* below the first and one below its first child; the second key may be an  *)
(* alias of the first, and a dotted or bracketed key may collide with a     *)
(* nested path.                                                             *)
EXTENDS Positions

McNodes == 0..5
McPieces == {"a", "b", "start", "gone", "[0]", "[1]"}

Link(to, key) == [to |-> to, key |-> key, entry |-> key[1] \notin {"[0]", "[1]"}]

(* The nodes of a shape, their paths and their links.                       *)
Document(first, second, alias, upper, lower, deep, findings) ==
  [nodes |-> IF deep = <<>> THEN 0..4 ELSE 0..5,
   root |-> 0,
   below |-> [n \in IF deep = <<>> THEN 0..4 ELSE 0..5 |->
                CASE n = 0 -> <<Link(1, first), Link(2, second)>>
                  [] n = 1 -> <<Link(3, upper), Link(4, lower)>>
                  [] n = 3 -> IF deep = <<>> THEN <<>> ELSE <<Link(5, deep)>>
                  [] OTHER -> <<>>],
   target |-> [n \in IF deep = <<>> THEN 0..4 ELSE 0..5 |-> IF n = 2 /\ alias THEN 1 ELSE n],
   at |-> [n \in IF deep = <<>> THEN 0..4 ELSE 0..5 |->
             CASE n = 0 -> <<>> [] n = 1 -> first [] n = 2 -> second
               [] n = 3 -> first \o upper [] n = 4 -> first \o lower
               [] OTHER -> first \o upper \o deep],
   findings |-> findings]

McKeys == {<<<<"a">>, <<"start">>>>, <<<<"a">>, <<"b">>>>, <<<<"a">>, <<"a", "[0]">>>>,
           <<<<"start">>, <<"a">>>>, <<<<"a", "b">>, <<"a">>>>, <<<<"a">>, <<"a", "b">>>>}
McBelow == {<<<<"[0]">>, <<"[1]">>>>, <<<<"a">>, <<"b">>>>, <<<<"b">>, <<"b", "a">>>>}
McDeep == {<<>>, <<"a">>, <<"[0]">>}

(* A path that exists, one below it, and the required start.                *)
McFindings(first, second, upper) ==
  {<<first \o upper, <<"start">>>>, <<first \o upper \o <<"gone">>, second \o <<"gone">>>>,
   <<second \o upper, second \o upper \o <<"a">>>>, <<first \o <<"gone", "a">>, <<"start">>>>,
   <<<<>>, second \o <<"gone", "a", "b">>>>}

McDocuments ==
  UNION {{Document(keys[1], keys[2], alias, links[1], links[2], deep, findings) :
            alias \in BOOLEAN, deep \in McDeep,
            findings \in McFindings(keys[1], keys[2], links[1])} :
          keys \in McKeys, links \in McBelow}
==============================================================================
