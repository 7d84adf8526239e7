------------------------------ MODULE MergePatch -------------------------------
(****************************************************************************)
(* applyExamplePatch: a scenario's patch merged into a copy of the input of *)
(* its example, on a heap of mappings that refer to one another, one key at *)
(* a time, the keys of a mapping in any order, as a range over a Go map     *)
(* gives them.                                                              *)
(*                                                                          *)
(* A document is a function from paths (non-empty sequences of keys) to     *)
(* leaves: below a "map" leaf lie longer paths.  On the heap a mapping is   *)
(* at a location <<owner, path>>.                                           *)
(****************************************************************************)
EXTENDS Integers, Sequences, SequencesExt

CONSTANT MaxDepth     \* exMaxDepth

ASSUME DepthAssumption == MaxDepth \in Nat \ {0}

VARIABLES heap, frames   \* the mappings, and the calls of mergeExamplePatch under way

mergeVars == <<heap, frames>>

Empty == [key \in {} |-> key]
Ref(owner, path) == [kind |-> "map", loc |-> <<owner, path>>]
MapPaths(d) == {<<>>} \cup {p \in DOMAIN d : d[p].kind = "map"}
KeysAt(d, p) == {Last(q) : q \in {r \in DOMAIN d : Front(r) = p}}

(* A document as its owner's mappings.                                      *)
Stored(owner, d) ==
  [l \in {<<owner, p>> : p \in MapPaths(d)} |->
     [k \in KeysAt(d, l[2]) |->
        LET leaf == d[Append(l[2], k)] IN IF leaf.kind = "map" THEN Ref(owner, Append(l[2], k)) ELSE leaf]]

(* The location of the mapping at each path from a mapping on, or <<>>.     *)
From(h, l) ==
  LET at[p \in {m[2] : m \in DOMAIN h}] ==
        IF p = l[2] THEN l
        ELSE IF Len(p) <= Len(l[2]) \/ at[Front(p)] = <<>> THEN <<>>
        ELSE LET above == h[at[Front(p)]] IN
             IF Last(p) \in DOMAIN above /\ above[Last(p)].kind = "map" THEN above[Last(p)].loc ELSE <<>>
  IN at

Reached(h, l) == {p \in DOMAIN From(h, l) : From(h, l)[p] # <<>>}

(* The document a mapping is the root of.                                   *)
Read(h, l) ==
  LET at == From(h, l) IN
  [q \in UNION {{Append(p, k) : k \in DOMAIN h[at[p]]} : p \in Reached(h, l)} |->
     LET leaf == h[at[Front(q)]][Last(q)] IN IF leaf.kind = "map" THEN [kind |-> "map"] ELSE leaf]

(* deepCopyExampleMap: what lies deeper than the bound stays shared.  The   *)
(* copy of a mapping of the result takes the name of that mapping, which    *)
(* the merge drops for it.                                                  *)
Copied(h, l) ==
  LET at == From(h, l)
      mine == {p \in Reached(h, l) : Len(p) - Len(l[2]) <= MaxDepth + 1} IN
  [m \in {<<"result", p>> : p \in mine} |->
     [k \in DOMAIN h[at[m[2]]] |-> IF Append(m[2], k) \in mine THEN Ref("result", Append(m[2], k)) ELSE h[at[m[2]]][k]]]

Over(new, h) == [l \in DOMAIN new \cup DOMAIN h |-> IF l \in DOMAIN new THEN new[l] ELSE h[l]]
With(m, key, leaf) == [k \in DOMAIN m \cup {key} |-> IF k = key THEN leaf ELSE m[k]]
Without(m, key) == [k \in DOMAIN m \ {key} |-> m[k]]

Call(target, patch, h) == [target |-> target, patch |-> patch, left |-> DOMAIN h[patch]]

Base == <<"base", <<>>>>
Patch == <<"patch", <<>>>>
Result == <<"result", <<>>>>

(* The base is where the example left it: one for all scenarios.            *)
Kept == [l \in {m \in DOMAIN heap : m[1] = "base"} |-> heap[l]]

(* Mutant: of the base only the outermost mapping is copied.                *)
ApplyShallow(patch) ==
  /\ heap' = Over([l \in {Result} |-> heap[Base]], Over(Stored("patch", patch), Kept))
  /\ frames' = <<Call(Result, Patch, Stored("patch", patch))>>

Apply(patch) ==
  /\ heap' = Over(Copied(Kept, Base), Over(Stored("patch", patch), Kept))
  /\ frames' = <<Call(Result, Patch, Stored("patch", patch))>>

------------------------------------------------------------------------------
Top == Head(frames)
Rest(key) == <<[Top EXCEPT !.left = @ \ {key}]>> \o Tail(frames)
Given(key) == heap[Top.patch][key]

(* A null deletes.                                                          *)
DeleteKey(key) ==
  /\ Given(key).kind = "nil"
  /\ heap' = [heap EXCEPT ![Top.target] = Without(@, key)]
  /\ frames' = Rest(key)

(* A mapping merges into a copy of the one in its place, or into a new one; *)
(* below the bound it is left as it is.                                     *)
Place(key) == <<"result", Append(Top.patch[2], key)>>
Existing(key) ==
  IF key \in DOMAIN heap[Top.target] /\ heap[Top.target][key].kind = "map"
  THEN Copied(heap, heap[Top.target][key].loc)
  ELSE [l \in {Place(key)} |-> Empty]

MergeMapping(key) ==
  /\ Given(key).kind = "map"
  /\ LET copied == Over(Existing(key), heap) IN
       heap' = [copied EXCEPT ![Top.target] = With(@, key, Ref("result", Place(key)[2]))]
  /\ frames' = (IF Len(frames) > MaxDepth THEN <<>> ELSE <<Call(Place(key), Given(key).loc, heap)>>) \o Rest(key)

(* Anything else replaces.                                                  *)
ReplaceKey(key) ==
  /\ Given(key).kind \notin {"nil", "map"}
  /\ heap' = [heap EXCEPT ![Top.target] = With(@, key, Given(key))]
  /\ frames' = Rest(key)

ReturnMerge ==
  /\ Top.left = {}
  /\ frames' = Tail(frames)
  /\ UNCHANGED heap

MergeStep ==
  /\ frames # <<>>
  /\ \/ \E key \in Top.left : DeleteKey(key) \/ MergeMapping(key) \/ ReplaceKey(key)
     \/ ReturnMerge

------------------------------------------------------------------------------
(* What RFC 7386 gives, path by path: a path of the patch that is no null   *)
(* is the patch's; a path of the base stays if the patch says nothing of it *)
(* and is a mapping wherever it has a part of it.                           *)
Above(p) == {SubSeq(p, 1, n) : n \in 1..(Len(p) - 1)}
RFC7386(base, patch) ==
  LET given == {p \in DOMAIN patch : patch[p].kind # "nil"}
      stays == {p \in DOMAIN base \ DOMAIN patch :
                  \A q \in Above(p) : q \in DOMAIN patch => patch[q].kind = "map"} IN
  [p \in given \cup stays |-> IF p \in given THEN patch[p] ELSE base[p]]

(* What is a document: above a path lie mappings.                           *)
Key == STRING
IsDocument(d) ==
  /\ d = [p \in DOMAIN d |-> d[p]]
  /\ \A p \in DOMAIN d : /\ p \in Seq(Key) /\ p # <<>>
                         /\ d[p].kind = "map" => d[p] = [kind |-> "map"]
                         /\ \A a \in Above(p) : a \in DOMAIN d /\ d[a].kind = "map"

(* The part of a document the merge descends to.                            *)
Within(d) == [p \in {q \in DOMAIN d : Len(q) <= MaxDepth + 1} |-> d[p]]
==============================================================================
