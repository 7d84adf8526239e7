------------------------------- MODULE Positions -------------------------------
(****************************************************************************)
(* How a finding gets its line and column: buildPositionIndex walks the     *)
(* YAML node tree and maps dotted paths to places, applyPositions looks up  *)
(* each finding's field path and falls back to its nearest ancestor.        *)
(*                                                                          *)
(* A path is a text.  It is modelled as the sequence of its pieces, a key   *)
(* piece standing for ".key" and an index piece for "[i]"; a key that holds *)
(* a dot or a bracket is a key of several pieces, so that two nodes can     *)
(* have the same path.  A place is a node and whether its key's line or its *)
(* own is meant.                                                            *)
(****************************************************************************)
EXTENDS Naturals, Sequences, SequencesExt

CONSTANTS
  Pieces,      \* what a path text is made of
  Nodes,       \* nodes of the YAML trees
  Nowhere,     \* no position: Line 0
  Documents    \* the parsed documents under consideration, with their findings

Path == Seq(Pieces)
NonEmptyPath == Path \ {<<>>}

(* below gives the links of each node in document order: none for a scalar. *)
(* An alias has none of its own; target is the node it stands for.  at is   *)
(* derived: the path that leads to each node.  Every node hangs on the root.*)
IsDocument(d) ==
  /\ DOMAIN d = {"nodes", "root", "below", "target", "at", "findings"}
  /\ d.nodes \subseteq Nodes /\ d.root \in d.nodes
  /\ d.below \in [d.nodes -> Seq([to : d.nodes, key : NonEmptyPath, entry : BOOLEAN])]
  /\ d.target \in [d.nodes -> d.nodes]
  /\ d.findings \in Seq(Path)
  /\ d.at \in [d.nodes -> Path] /\ d.at[d.root] = <<>>
  /\ \A n \in d.nodes : \A i \in 1..Len(d.below[n]) :
       d.at[d.below[n][i].to] = d.at[n] \o d.below[n][i].key
  /\ \A S \in SUBSET d.nodes :
       d.root \in S /\ (\A n \in S : \A i \in 1..Len(d.below[n]) : d.below[n][i].to \in S) =>
         S = d.nodes

ASSUME PlacesAssumption == Nowhere \notin Nodes \X {"key", "value"}
ASSUME DocumentsAssumption == \A d \in Documents : IsDocument(d)

VARIABLES
  document,   \* never written
  phase,      \* parse, index, apply, done
  index,      \* idx
  pending,    \* the links the walk has not come by, innermost first
  located,    \* the places of the findings looked up so far
  length      \* what lookup has left of the path of the next one

vars == <<document, phase, index, pending, located, length>>

(* Mutant: an alias is followed.                                            *)
BelowAliases(node, path) ==
  LET links == document.below[document.target[node]] IN
  [i \in 1..Len(links) |->
     [to |-> links[i].to, path |-> path \o links[i].key, entry |-> links[i].entry]]

(* The links below a node that is reached by a path.                        *)
Below(node, path) ==
  LET links == document.below[node] IN
  [i \in 1..Len(links) |->
     [to |-> links[i].to, path |-> path \o links[i].key, entry |-> links[i].entry]]

Init ==
  /\ document \in Documents
  /\ phase = "parse"
  /\ index = <<>>
  /\ pending = <<>>
  /\ located = <<>>
  /\ length = 0

(* Mutant: the root is recorded under the empty path.                       *)
StartRoot ==
  /\ phase = "parse"
  /\ pending' = Below(document.root, <<>>)
  /\ index' = [p \in {<<>>} |-> <<document.root, "value">>]
  /\ phase' = "index"
  /\ UNCHANGED <<document, located, length>>

(* indexNode on the root, whose path is empty and is not recorded.          *)
Start ==
  /\ phase = "parse"
  /\ pending' = Below(document.root, <<>>)
  /\ phase' = "index"
  /\ UNCHANGED <<document, index, located, length>>

Record(path, place) ==
  index' = [p \in DOMAIN index \cup {path} |-> IF p = path THEN place ELSE index[p]]

(* Mutant: a mapping entry yields to what is recorded already.              *)
IndexEntryYields ==
  /\ phase = "index" /\ pending # <<>> /\ Head(pending).entry
  /\ IF Head(pending).path \in DOMAIN index
     THEN UNCHANGED index
     ELSE Record(Head(pending).path, <<Head(pending).to, "key">>)
  /\ pending' = Below(Head(pending).to, Head(pending).path) \o Tail(pending)
  /\ UNCHANGED <<document, phase, located, length>>

(* A mapping entry records the line of its key, whatever stood there.       *)
IndexEntry ==
  /\ phase = "index" /\ pending # <<>> /\ Head(pending).entry
  /\ Record(Head(pending).path, <<Head(pending).to, "key">>)
  /\ pending' = Below(Head(pending).to, Head(pending).path) \o Tail(pending)
  /\ UNCHANGED <<document, phase, located, length>>

(* A list item records its own line unless its path is taken.               *)
IndexItem ==
  /\ phase = "index" /\ pending # <<>> /\ ~Head(pending).entry
  /\ IF Head(pending).path \in DOMAIN index
     THEN UNCHANGED index
     ELSE Record(Head(pending).path, <<Head(pending).to, "value">>)
  /\ pending' = Below(Head(pending).to, Head(pending).path) \o Tail(pending)
  /\ UNCHANGED <<document, phase, located, length>>

(* What lookup starts from: all of the path of finding i.                   *)
WholeLength(i) == IF i \in 1..Len(document.findings) THEN Len(document.findings[i]) ELSE 0

Indexed ==
  /\ phase = "index" /\ pending = <<>>
  /\ phase' = "apply"
  /\ length' = WholeLength(1)
  /\ UNCHANGED <<document, index, pending, located>>

Looking == phase = "apply" /\ Len(located) < Len(document.findings)
Trimmed == SubSeq(document.findings[Len(located) + 1], 1, length)

Locate(place) ==
  /\ located' = Append(located, place)
  /\ length' = WholeLength(Len(located) + 2)
  /\ UNCHANGED <<document, phase, index, pending>>

(* What is left of the path is in the index.                                *)
Hit == Looking /\ length > 0 /\ Trimmed \in DOMAIN index /\ Locate(index[Trimmed])

(* Mutant: no fallback to an ancestor.                                      *)
TrimAll ==
  /\ Looking /\ length > 0 /\ Trimmed \notin DOMAIN index
  /\ length' = 0
  /\ UNCHANGED <<document, phase, index, pending, located>>

(* trimLastSegment.                                                         *)
Trim ==
  /\ Looking /\ length > 0 /\ Trimmed \notin DOMAIN index
  /\ length' = length - 1
  /\ UNCHANGED <<document, phase, index, pending, located>>

(* Nothing is left: the finding keeps line 0.                               *)
Miss == Looking /\ length = 0 /\ Locate(Nowhere)

Finish ==
  /\ phase = "apply" /\ Len(located) = Len(document.findings)
  /\ phase' = "done"
  /\ UNCHANGED <<document, index, pending, located, length>>

Next == Start \/ IndexEntry \/ IndexItem \/ Indexed \/ Hit \/ Trim \/ Miss \/ Finish

Spec == Init /\ [][Next]_vars

------------------------------------------------------------------------------
(* Every variable keeps its type; the root's empty path is never recorded.  *)
Places == document.nodes \X {"key", "value"}
TypeOK ==
  /\ IsDocument(document)
  /\ phase \in {"parse", "index", "apply", "done"}
  /\ DOMAIN index \subseteq NonEmptyPath
  /\ index \in [DOMAIN index -> Places]
  /\ pending \in Seq([to : document.nodes, path : NonEmptyPath, entry : BOOLEAN])
  /\ located \in Seq(Places \cup {Nowhere}) /\ Len(located) <= Len(document.findings)
  /\ length \in Nat

(* The nodes a path passes by or ends at, the root aside.                   *)
Ancestors(path) ==
  {n \in document.nodes \ {document.root} : IsPrefix(document.at[n], path)}

(* A finding is placed at the nearest node its path passes by, however many *)
(* pieces of the path do not exist, and is left without a position only     *)
(* where it passes by none; what an alias stands for is not on the path.    *)
IsNearest(place, path) ==
  IF Ancestors(path) = {} THEN place = Nowhere
  ELSE /\ place # Nowhere /\ place[1] \in Ancestors(path)
       /\ \A n \in Ancestors(path) : Len(document.at[n]) <= Len(document.at[place[1]])
NearestAncestor == \A i \in 1..Len(located) : IsNearest(located[i], document.findings[i])

(* A place that can be a key's line is one: where a key and a list item (or *)
(* two keys) share a path, the item never hides the key.                    *)
KeyAt(path) ==
  \E n \in document.nodes : \E i \in 1..Len(document.below[n]) :
    document.below[n][i].entry /\ document.at[document.below[n][i].to] = path
KeyLinePreferred ==
  \A i \in 1..Len(located) :
    located[i] # Nowhere => (located[i][2] = "key" <=> KeyAt(document.at[located[i][1]]))
==============================================================================
