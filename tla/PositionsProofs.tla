---------------------------- MODULE PositionsProofs ----------------------------
(****************************************************************************)
(* Theorems about Positions, for every document: the types, that a finding  *)
(* is placed at the nearest node its path passes by, and that it gets a     *)
(* key's line where there is one.                                           *)
(****************************************************************************)
EXTENDS Positions, SequenceTheorems, TLAPS

Link == [to : document.nodes, path : NonEmptyPath, entry : BOOLEAN]

(* An index entry and a pending link carry the path of their node.          *)
IndexTruthful ==
  \A p \in DOMAIN index :
    /\ index[p][1] \in document.nodes \ {document.root}
    /\ document.at[index[p][1]] = p
PendingTruthful ==
  \A i \in 1..Len(pending) : pending[i].path = document.at[pending[i].to]

(* A set of nodes that holds what is pending and what lies below its nodes  *)
(* holds all that is not in the index yet.                                  *)
Closed(S) == \A n \in S : \A i \in 1..Len(document.below[n]) : document.below[n][i].to \in S
Owed(S) == Closed(S) /\ \A i \in 1..Len(pending) : pending[i].to \in S
Unindexed == {n \in document.nodes \ {document.root} : document.at[n] \notin DOMAIN index}
Cover == phase = "index" => \A S \in SUBSET document.nodes : Owed(S) => Unindexed \subseteq S
Complete == phase \in {"apply", "done"} => Unindexed = {}

(* What lookup has trimmed off the path was not in the index.               *)
Sought == document.findings[Len(located) + 1]
Passed ==
  /\ phase \in {"parse", "index"} => located = <<>>
  /\ Looking =>
       /\ length <= Len(Sought)
       /\ \A m \in (length + 1)..Len(Sought) : SubSeq(Sought, 1, m) \notin DOMAIN index

IndInv == TypeOK /\ IndexTruthful /\ PendingTruthful /\ Cover /\ Complete /\ Passed /\ NearestAncestor

------------------------------------------------------------------------------
(* Paths.                                                                   *)
LEMMA PathPrefix ==
  ASSUME NEW p \in Path, NEW m \in 1..Len(p)
  PROVE  SubSeq(p, 1, m) \in NonEmptyPath /\ Len(SubSeq(p, 1, m)) = m
<1>1. Len(p) \in Nat /\ \A i \in 1..m : p[i] \in Pieces
  BY LenProperties, ElementOfSeq DEF Path
<1>2. /\ SubSeq(p, 1, m) \in Seq(Pieces)
      /\ Len(SubSeq(p, 1, m)) = IF 1 <= m THEN m - 1 + 1 ELSE 0
  BY <1>1, SubSeqProperties
<1>3. Len(SubSeq(p, 1, m)) = m /\ m # 0
  BY <1>1, <1>2
<1>4. QED
  BY <1>2, <1>3, EmptySeq DEF NonEmptyPath, Path

LEMMA PrefixIs ==
  ASSUME NEW s \in Path, NEW t \in Path
  PROVE  IsPrefix(s, t) <=> Len(s) <= Len(t) /\ s = SubSeq(t, 1, Len(s))
<1>1. SubSeq(s, 1, Len(s)) = s
  BY SubSeqFull DEF Path
<1>2. QED
  BY <1>1 DEF IsPrefix

LEMMA PathLength ==
  ASSUME NEW p \in Path
  PROVE  Len(p) \in Nat /\ (p \in NonEmptyPath => 1 <= Len(p))
BY LenProperties, EmptySeq DEF NonEmptyPath, Path

LEMMA PathAppend ==
  ASSUME NEW p \in Path, NEW q \in NonEmptyPath
  PROVE  p \o q \in NonEmptyPath
<1>1. /\ p \o q \in Seq(Pieces) /\ Len(p \o q) = Len(p) + Len(q)
      /\ Len(p) \in Nat /\ Len(q) \in Nat \ {0}
  BY ConcatProperties, LenProperties, EmptySeq DEF Path, NonEmptyPath
<1>2. Len(p \o q) # 0
  BY <1>1
<1>3. QED
  BY <1>1, <1>2, EmptySeq DEF Path, NonEmptyPath

------------------------------------------------------------------------------
(* The links of a node, once its path is the right one.                     *)
LEMMA BelowShape ==
  ASSUME IsDocument(document), NEW n \in document.nodes
  PROVE  /\ Below(n, document.at[n]) \in Seq(Link)
         /\ Len(Below(n, document.at[n])) = Len(document.below[n])
         /\ \A i \in 1..Len(document.below[n]) :
              /\ Below(n, document.at[n])[i].to = document.below[n][i].to
              /\ Below(n, document.at[n])[i].path = document.at[document.below[n][i].to]
              /\ Below(n, document.at[n])[i].entry = document.below[n][i].entry
<1> DEFINE links == document.below[n]
<1>1. /\ links \in Seq([to : document.nodes, key : NonEmptyPath, entry : BOOLEAN])
      /\ document.at[n] \in Path
  BY DEF IsDocument
<1>2. Len(links) \in Nat /\ \A i \in 1..Len(links) :
        links[i] \in [to : document.nodes, key : NonEmptyPath, entry : BOOLEAN]
  BY <1>1, LenProperties, ElementOfSeq
<1>3. \A i \in 1..Len(links) :
        [to |-> links[i].to, path |-> document.at[n] \o links[i].key, entry |-> links[i].entry] \in Link
  BY <1>1, <1>2, PathAppend DEF Link
<1>4. \A i \in 1..Len(links) : document.at[links[i].to] = document.at[n] \o links[i].key
  BY DEF IsDocument
<1> DEFINE all == [i \in 1..Len(links) |->
                     [to |-> links[i].to, path |-> document.at[n] \o links[i].key, entry |-> links[i].entry]]
<1>5. Below(n, document.at[n]) = all
  BY DEF Below
<1>6. \A i \in 1..Len(links) :
        /\ all[i] \in Link
        /\ all[i].to = links[i].to /\ all[i].path = document.at[n] \o links[i].key
        /\ all[i].entry = links[i].entry
  BY <1>3
<1>7. DOMAIN all = 1..Len(links) /\ all = [i \in 1..Len(links) |-> all[i]]
  OBVIOUS
<1> HIDE DEF links, all
<1>8. all \in [1..Len(links) -> Link]
  BY <1>6, <1>7
<1>9. all \in Seq(Link) /\ Len(all) = Len(links)
  BY <1>2, <1>7, <1>8
<1>10. QED
  BY <1>4, <1>5, <1>6, <1>9 DEF links

LEMMA PendingShape ==
  ASSUME TypeOK, pending # <<>>
  PROVE  /\ Head(pending) \in Link /\ Tail(pending) \in Seq(Link)
         /\ Range(pending) = {Head(pending)} \cup Range(Tail(pending))
         /\ Head(pending) = pending[1] /\ 1 \in 1..Len(pending)
<1>1. pending \in Seq(Link)
  BY DEF TypeOK, Link
<1>2. /\ Head(pending) \in Link /\ Tail(pending) \in Seq(Link)
      /\ Len(Tail(pending)) = Len(pending) - 1
      /\ \A i \in 1..Len(Tail(pending)) : Tail(pending)[i] = pending[i + 1]
      /\ Head(pending) = pending[1]
      /\ Len(pending) \in Nat \ {0}
  BY <1>1, HeadTailProperties, EmptySeq
<1>3. /\ Range(pending) = {pending[i] : i \in 1..Len(pending)}
      /\ Range(Tail(pending)) = {Tail(pending)[i] : i \in 1..Len(Tail(pending))}
  BY <1>1, <1>2, RangeEquality
<1>4. \A i \in 1..Len(pending) : i = 1 \/ (i - 1 \in 1..Len(Tail(pending)) /\ (i - 1) + 1 = i)
  BY <1>2
<1>5. \A i \in 1..Len(Tail(pending)) : i + 1 \in 1..Len(pending)
  BY <1>2
<1>6. Range(pending) \subseteq {Head(pending)} \cup Range(Tail(pending))
  BY <1>2, <1>3, <1>4
<1>7. {Head(pending)} \cup Range(Tail(pending)) \subseteq Range(pending)
  <2>1. 1 \in 1..Len(pending)
    BY <1>2
  <2>2. QED
    BY <1>2, <1>3, <1>5, <2>1
<1>8. QED
  BY <1>2, <1>6, <1>7

------------------------------------------------------------------------------
(* One link of the walk: Below and the rest are pending, and the link's own *)
(* path is in the index, at a place of its node or of an earlier one.       *)
Visit == IndexEntry \/ IndexItem

LEMMA VisitedNode ==
  ASSUME IndInv, Visit
  PROVE  /\ phase = "index" /\ phase' = "index" /\ pending # <<>>
         /\ UNCHANGED <<document, located, length>>
         /\ Head(pending) \in Link /\ Head(pending).path = document.at[Head(pending).to]
         /\ Head(pending).to \in document.nodes \ {document.root}
         /\ Head(pending).path \in NonEmptyPath
<1>1. /\ phase = "index" /\ phase' = "index" /\ pending # <<>>
      /\ UNCHANGED <<document, located, length>>
  BY DEF Visit, IndexEntry, IndexItem
<1>2. Head(pending) \in Link /\ Head(pending).path = document.at[Head(pending).to]
  BY <1>1, PendingShape DEF IndInv, PendingTruthful
<1>3. Head(pending).to \in document.nodes /\ Head(pending).path \in NonEmptyPath
  BY <1>2 DEF Link
<1>4. document.at[document.root] = <<>> /\ <<>> \notin NonEmptyPath
  BY DEF IndInv, TypeOK, IsDocument, NonEmptyPath
<1>5. QED
  BY <1>1, <1>2, <1>3, <1>4

LEMMA VisitPending ==
  ASSUME IndInv, Visit
  PROVE  /\ pending' \in Seq(Link) /\ PendingTruthful'
         /\ \A S : (\A i \in 1..Len(pending') : pending'[i].to \in S) =>
              /\ \A i \in 1..Len(document.below[Head(pending).to]) : document.below[Head(pending).to][i].to \in S
              /\ \A i \in 1..Len(pending) : pending[i].to \in S \cup {Head(pending).to}
<1> DEFINE n == Head(pending).to
           new == Below(n, document.at[n])
           rest == Tail(pending)
<1>1. pending' = new \o rest
  BY VisitedNode DEF Visit, IndexEntry, IndexItem
<1>2. /\ n \in document.nodes /\ rest \in Seq(Link)
      /\ Range(pending) = {Head(pending)} \cup Range(rest)
  BY VisitedNode, PendingShape DEF IndInv
<1>3. /\ new \in Seq(Link) /\ Len(new) = Len(document.below[n])
      /\ \A i \in 1..Len(document.below[n]) :
           new[i].to = document.below[n][i].to /\ new[i].path = document.at[document.below[n][i].to]
  BY <1>2, BelowShape DEF IndInv, TypeOK
<1> HIDE DEF n, new, rest
<1>4. pending' \in Seq(Link) /\ Range(pending') = Range(new) \cup Range(rest)
  BY <1>1, <1>2, <1>3, ConcatProperties, RangeConcatenation
<1>5. /\ pending \in Seq(Link)
      /\ Range(pending) = {pending[i] : i \in 1..Len(pending)}
      /\ Range(pending') = {pending'[i] : i \in 1..Len(pending')}
      /\ Range(new) = {new[i] : i \in 1..Len(new)}
  BY <1>3, <1>4, RangeEquality DEF IndInv, TypeOK, Link
<1>6. \A l \in Range(pending) : l.path = document.at[l.to]
  BY <1>5 DEF IndInv, PendingTruthful
<1>7. \A l \in Range(new) : l.path = document.at[l.to]
  BY <1>3, <1>5
<1>8. PendingTruthful'
  <2>1. \A l \in Range(pending') : l.path = document.at[l.to]
    BY <1>2, <1>4, <1>6, <1>7
  <2>2. QED
    BY <1>5, <2>1, VisitedNode DEF PendingTruthful
<1>9. ASSUME NEW S, \A i \in 1..Len(pending') : pending'[i].to \in S
      PROVE  /\ \A i \in 1..Len(document.below[n]) : document.below[n][i].to \in S
             /\ \A i \in 1..Len(pending) : pending[i].to \in S \cup {n}
  <2>1. \A l \in Range(pending') : l.to \in S
    BY <1>5, <1>9
  <2>2. \A i \in 1..Len(document.below[n]) : document.below[n][i].to \in S
    BY <1>3, <1>4, <1>5, <2>1
  <2>3. \A l \in Range(pending) : l.to \in S \cup {n}
    BY <1>2, <1>4, <2>1 DEF n
  <2>4. QED
    BY <1>5, <2>2, <2>3
<1>10. QED
  BY <1>4, <1>8, <1>9 DEF n

LEMMA VisitIndex ==
  ASSUME IndInv, Visit
  PROVE  /\ DOMAIN index' = DOMAIN index \cup {Head(pending).path}
         /\ index' \in [DOMAIN index' -> Places] /\ IndexTruthful'
<1> DEFINE path == Head(pending).path
           n == Head(pending).to
<1>1. /\ n \in document.nodes \ {document.root} /\ document.at[n] = path /\ UNCHANGED document
  BY VisitedNode
<1>2. CASE UNCHANGED index /\ path \in DOMAIN index
  BY <1>1, <1>2 DEF IndInv, TypeOK, IndexTruthful, Places
<1>3. CASE \E kind \in {"key", "value"} : Record(path, <<n, kind>>)
  <2>1. PICK kind \in {"key", "value"} :
          index' = [p \in DOMAIN index \cup {path} |-> IF p = path THEN <<n, kind>> ELSE index[p]]
    BY <1>3 DEF Record
  <2>2. <<n, kind>> \in Places /\ <<n, kind>>[1] = n
    BY <1>1 DEF Places
  <2> HIDE DEF path, n
  <2>3. DOMAIN index' = DOMAIN index \cup {path}
    BY <2>1
  <2>4. \A p \in DOMAIN index' :
          index'[p] \in Places /\ index'[p][1] \in document.nodes \ {document.root} /\ document.at[index'[p][1]] = p
    BY <1>1, <2>1, <2>2 DEF IndInv, TypeOK, IndexTruthful
  <2>5. index' \in [DOMAIN index' -> Places]
    BY <2>1, <2>3, <2>4
  <2>6. QED
    BY <1>1, <2>3, <2>4, <2>5 DEF IndexTruthful, path
<1>4. (UNCHANGED index /\ path \in DOMAIN index) \/ \E kind \in {"key", "value"} : Record(path, <<n, kind>>)
  BY DEF Visit, IndexEntry, IndexItem
<1>5. QED
  BY <1>2, <1>3, <1>4

LEMMA VisitCover ==
  ASSUME IndInv, Visit
  PROVE  Cover'
<1> DEFINE n == Head(pending).to
<1> SUFFICES ASSUME NEW S \in SUBSET document.nodes, Owed(S)'
             PROVE  Unindexed' \subseteq S
  BY VisitedNode DEF Cover
<1>1. /\ UNCHANGED document /\ n \in document.nodes /\ document.at[n] \in DOMAIN index'
      /\ DOMAIN index \subseteq DOMAIN index' /\ phase = "index"
  BY VisitedNode, VisitIndex
<1>2. Closed(S) /\ \A i \in 1..Len(pending') : pending'[i].to \in S
  BY <1>1 DEF Owed, Closed
<1>3. /\ \A i \in 1..Len(document.below[n]) : document.below[n][i].to \in S
      /\ \A i \in 1..Len(pending) : pending[i].to \in S \cup {n}
  BY <1>2, VisitPending
<1> HIDE DEF n
<1>4. Owed(S \cup {n})
  BY <1>2, <1>3 DEF Owed, Closed
<1>5. Unindexed \subseteq S \cup {n}
  BY <1>1, <1>4 DEF IndInv, Cover
<1>6. QED
  BY <1>1, <1>5 DEF Unindexed

------------------------------------------------------------------------------
(* The walk starts below the root, and everything hangs on the root.        *)
LEMMA StartStep ==
  ASSUME IndInv, Start
  PROVE  pending' \in Seq(Link) /\ PendingTruthful' /\ Cover'
<1>1. /\ UNCHANGED <<document, index>> /\ phase = "parse"
      /\ pending' = Below(document.root, document.at[document.root])
      /\ document.root \in document.nodes
  BY DEF Start, IndInv, TypeOK, IsDocument
<1>2. /\ pending' \in Seq(Link) /\ Len(pending') = Len(document.below[document.root])
      /\ \A i \in 1..Len(document.below[document.root]) :
           /\ pending'[i].to = document.below[document.root][i].to
           /\ pending'[i].path = document.at[document.below[document.root][i].to]
  BY <1>1, BelowShape DEF IndInv, TypeOK
<1>3. PendingTruthful'
  BY <1>1, <1>2 DEF PendingTruthful
<1>4. ASSUME NEW S \in SUBSET document.nodes, Owed(S)'
      PROVE  Unindexed' \subseteq S
  <2>1. Closed(S) /\ \A i \in 1..Len(document.below[document.root]) : document.below[document.root][i].to \in S
    BY <1>1, <1>2, <1>4 DEF Owed, Closed
  <2>2. Closed(S \cup {document.root}) /\ S \cup {document.root} \in SUBSET document.nodes
    BY <1>1, <2>1 DEF Closed
  <2>3. S \cup {document.root} = document.nodes
    <3> DEFINE all == S \cup {document.root}
    <3>1. document.root \in all /\ \A n \in all : \A i \in 1..Len(document.below[n]) : document.below[n][i].to \in all
      BY <2>2 DEF Closed
    <3>2. all \in SUBSET document.nodes
      BY <2>2
    <3> HIDE DEF all
    <3>3. all = document.nodes
      BY <3>1, <3>2 DEF IndInv, TypeOK, IsDocument
    <3>4. QED
      BY <3>3 DEF all
  <2>4. QED
    BY <1>1, <2>3 DEF Unindexed
<1>5. QED
  BY <1>1, <1>2, <1>3, <1>4 DEF Cover

(* Nothing is pending: nothing is owed, so everything is in the index.      *)
LEMMA IndexedStep ==
  ASSUME IndInv, Indexed
  PROVE  Complete'
<1>1. phase = "index" /\ pending = <<>> /\ UNCHANGED <<document, index>>
  BY DEF Indexed
<1>2. Owed({})
  BY <1>1 DEF Owed, Closed
<1>3. Unindexed \subseteq {}
  BY <1>1, <1>2 DEF IndInv, Cover
<1>4. QED
  BY <1>1, <1>3 DEF Complete, Unindexed

------------------------------------------------------------------------------
(* What the path of the finding being looked up passes by.                  *)
LEMMA SoughtShape ==
  ASSUME IndInv, Looking
  PROVE  /\ Sought \in Path /\ Len(located) + 1 \in 1..Len(document.findings)
         /\ length \in Nat /\ length <= Len(Sought) /\ Len(Sought) \in Nat
         /\ located \in Seq(Places \cup {Nowhere}) /\ Len(located) \in Nat
<1>1. /\ Len(located) \in Nat /\ Len(document.findings) \in Nat
      /\ document.findings \in Seq(Path) /\ located \in Seq(Places \cup {Nowhere})
  BY LenProperties DEF IndInv, TypeOK, IsDocument
<1>2. Len(located) + 1 \in 1..Len(document.findings)
  BY <1>1 DEF Looking
<1>3. Sought \in Path
  BY <1>1, <1>2, ElementOfSeq DEF Sought
<1>4. QED
  BY <1>1, <1>2, <1>3, PathLength DEF IndInv, TypeOK, Passed

(* Its ancestors are in the index, none of them longer than what is left.   *)
LEMMA AncestorsIndexed ==
  ASSUME IndInv, Looking, NEW n \in Ancestors(Sought)
  PROVE  /\ Len(document.at[n]) \in 1..length
         /\ document.at[n] = SubSeq(Sought, 1, Len(document.at[n]))
         /\ document.at[n] \in DOMAIN index
<1>1. n \in document.nodes \ {document.root} /\ IsPrefix(document.at[n], Sought)
  BY DEF Ancestors
<1>2. document.at[n] \in DOMAIN index
  BY <1>1 DEF IndInv, Complete, Looking, Unindexed
<1>3. document.at[n] \in Path /\ document.at[n] \in NonEmptyPath
  BY <1>2 DEF IndInv, TypeOK, NonEmptyPath
<1>4. Len(document.at[n]) <= Len(Sought) /\ document.at[n] = SubSeq(Sought, 1, Len(document.at[n]))
  BY <1>1, <1>3, SoughtShape, PrefixIs
<1>5. Len(document.at[n]) \in Nat /\ 1 <= Len(document.at[n])
  BY <1>3, PathLength
<1>6. Len(document.at[n]) \notin (length + 1)..Len(Sought)
  BY <1>2, <1>4 DEF IndInv, Passed
<1>7. Len(document.at[n]) <= length
  BY <1>4, <1>5, <1>6, SoughtShape
<1>8. QED
  BY <1>2, <1>4, <1>5, <1>7, SoughtShape

LEMMA HitNearest ==
  ASSUME IndInv, Hit
  PROVE  index[Trimmed] \in Places /\ IsNearest(index[Trimmed], Sought)
<1> DEFINE place == index[Trimmed]
<1>1. Looking /\ length > 0 /\ Trimmed \in DOMAIN index
  BY DEF Hit
<1>2. Trimmed = SubSeq(Sought, 1, length) /\ length \in 1..Len(Sought)
  BY <1>1, SoughtShape DEF Trimmed, Sought
<1>3. Trimmed \in Path /\ Len(Trimmed) = length
  BY <1>2, SoughtShape, PathPrefix, <1>1 DEF NonEmptyPath
<1>4. place \in Places /\ place[1] \in document.nodes \ {document.root} /\ document.at[place[1]] = Trimmed
  BY <1>1 DEF IndInv, TypeOK, IndexTruthful
<1>5. place # Nowhere
  BY <1>4, PlacesAssumption DEF Places, IndInv, TypeOK, IsDocument
<1>6. IsPrefix(Trimmed, Sought)
  BY <1>1, <1>2, <1>3, SoughtShape, PrefixIs
<1>7. place[1] \in Ancestors(Sought)
  BY <1>4, <1>6 DEF Ancestors
<1>8. \A n \in Ancestors(Sought) : Len(document.at[n]) <= Len(document.at[place[1]])
  BY <1>1, <1>3, <1>4, AncestorsIndexed
<1>9. QED
  BY <1>4, <1>5, <1>7, <1>8 DEF IsNearest

LEMMA MissNearest ==
  ASSUME IndInv, Miss
  PROVE  IsNearest(Nowhere, Sought)
<1>1. Looking /\ length = 0 /\ 1..0 = {}
  BY DEF Miss
<1>2. Ancestors(Sought) = {}
  BY <1>1, AncestorsIndexed
<1>3. QED
  BY <1>2 DEF IsNearest

------------------------------------------------------------------------------
(* One more finding is dealt with, at its nearest place.                    *)
LEMMA LocateStep ==
  ASSUME IndInv, Looking, NEW place \in Places \cup {Nowhere}, Locate(place), IsNearest(place, Sought)
  PROVE  IndInv'
<1>1. /\ UNCHANGED <<document, phase, index, pending>> /\ phase = "apply"
      /\ located' = Append(located, place)
      /\ length' = WholeLength(Len(located) + 2)
  BY DEF Locate, Looking
<1>2. /\ located' \in Seq(Places \cup {Nowhere}) /\ Len(located') = Len(located) + 1
      /\ \A i \in 1..Len(located) : located'[i] = located[i]
      /\ located'[Len(located) + 1] = place
      /\ Len(located) \in Nat /\ Len(document.findings) \in Nat
      /\ Len(located) + 1 <= Len(document.findings)
  BY <1>1, SoughtShape, AppendProperties
<1>3. length' \in Nat /\ (Len(located') < Len(document.findings) => length' = Len(document.findings[Len(located') + 1]))
  <2>1. \A i \in 1..Len(document.findings) : Len(document.findings[i]) \in Nat
    BY ElementOfSeq, PathLength DEF IndInv, TypeOK, IsDocument
  <2>2. Len(located) + 2 = Len(located') + 1
    BY <1>2
  <2>3. Len(located') < Len(document.findings) => Len(located') + 1 \in 1..Len(document.findings)
    BY <1>2
  <2>4. QED
    BY <1>1, <2>1, <2>2, <2>3 DEF WholeLength
<1>4. TypeOK'
  BY <1>1, <1>2, <1>3 DEF IndInv, TypeOK, Places
<1>5. IndexTruthful' /\ PendingTruthful' /\ Cover' /\ Complete'
  BY <1>1 DEF IndInv, IndexTruthful, PendingTruthful, Cover, Complete, Unindexed
<1>6. Passed'
  <2>1. ~(Len(document.findings[Len(located') + 1]) + 1 <= Len(document.findings[Len(located') + 1]))
        \/ ~(Len(located') < Len(document.findings))
    <3>1. CASE Len(located') < Len(document.findings)
      BY <1>3, <3>1
    <3>2. QED
      BY <3>1
  <2>2. Looking' => length' = Len(Sought') /\ length' \in Nat
    BY <1>1, <1>3 DEF Looking, Sought
  <2>3. Looking' => (length' + 1)..Len(Sought') = {} /\ length' <= Len(Sought')
    BY <2>2
  <2>4. QED
    BY <1>1, <2>3 DEF Passed
<1>7. NearestAncestor'
  <2>1. \A i \in 1..Len(located') : i \in 1..Len(located) \/ i = Len(located) + 1
    BY <1>2
  <2>2. \A i \in 1..Len(located') : IsNearest(located'[i], document.findings[i])
    BY <1>2, <2>1 DEF IndInv, NearestAncestor, Sought
  <2>3. QED
    BY <1>1, <2>2 DEF NearestAncestor, IsNearest, Ancestors
<1>8. QED
  BY <1>4, <1>5, <1>6, <1>7 DEF IndInv

LEMMA InvStep == IndInv /\ [Next]_vars => IndInv'
<1> SUFFICES ASSUME IndInv, [Next]_vars PROVE IndInv'
  OBVIOUS
<1>1. CASE Start
  <2>1. /\ UNCHANGED <<document, index, located, length>> /\ phase = "parse" /\ phase' = "index"
    BY <1>1 DEF Start
  <2>2. TypeOK'
    BY <1>1, <2>1, StartStep DEF IndInv, TypeOK, Link, Places
  <2>3. IndexTruthful' /\ Complete' /\ NearestAncestor' /\ Passed'
    BY <2>1 DEF IndInv, IndexTruthful, Complete, NearestAncestor, IsNearest, Ancestors, Passed, Looking
  <2>4. QED
    BY <1>1, <2>2, <2>3, StartStep DEF IndInv
<1>2. CASE Visit
  <2>1. UNCHANGED <<document, located, length>> /\ phase = "index" /\ phase' = "index"
    BY <1>2, VisitedNode
  <2>2. DOMAIN index' \subseteq NonEmptyPath
    BY <1>2, VisitedNode, VisitIndex DEF IndInv, TypeOK
  <2>3. TypeOK'
    BY <1>2, <2>1, <2>2, VisitPending, VisitIndex DEF IndInv, TypeOK, Link, Places
  <2>4. Complete' /\ NearestAncestor' /\ Passed'
    BY <2>1 DEF IndInv, Complete, NearestAncestor, IsNearest, Ancestors, Passed, Looking
  <2>5. QED
    BY <1>2, <2>3, <2>4, VisitPending, VisitIndex, VisitCover DEF IndInv
<1>3. CASE Indexed
  <2>1. /\ UNCHANGED <<document, index, pending, located>> /\ phase = "index" /\ phase' = "apply"
        /\ length' = WholeLength(1) /\ located = <<>> /\ Len(<<>>) = 0
    BY <1>3, EmptySeq DEF Indexed, IndInv, Passed
  <2>2. /\ \A i \in 1..Len(document.findings) : Len(document.findings[i]) \in Nat
        /\ Len(document.findings) \in Nat
    BY ElementOfSeq, PathLength, LenProperties DEF IndInv, TypeOK, IsDocument
  <2>3. length' \in Nat /\ (0 < Len(document.findings) => length' = Len(document.findings[1]))
    BY <2>1, <2>2 DEF WholeLength
  <2>4. TypeOK'
    BY <2>1, <2>3 DEF IndInv, TypeOK, Places
  <2>5. Passed'
    <3>1. Looking' => length' = Len(Sought') /\ length' \in Nat
      BY <2>1, <2>3 DEF Looking, Sought
    <3>2. Looking' => (length' + 1)..Len(Sought') = {} /\ length' <= Len(Sought')
      BY <3>1
    <3>3. QED
      BY <2>1, <3>2 DEF Passed
  <2>6. IndexTruthful' /\ PendingTruthful' /\ Cover' /\ NearestAncestor'
    BY <2>1 DEF IndInv, IndexTruthful, PendingTruthful, Cover, NearestAncestor, IsNearest, Ancestors
  <2>7. QED
    BY <1>3, <2>4, <2>5, <2>6, IndexedStep DEF IndInv
<1>4. CASE Hit
  <2>1. Looking /\ Locate(index[Trimmed]) /\ index[Trimmed] \in Places /\ IsNearest(index[Trimmed], Sought)
    BY <1>4, HitNearest DEF Hit
  <2>2. QED
    BY <2>1, LocateStep
<1>5. CASE Miss
  <2>1. Looking /\ Locate(Nowhere) /\ IsNearest(Nowhere, Sought)
    BY <1>5, MissNearest DEF Miss
  <2>2. QED
    BY <2>1, LocateStep
<1>6. CASE Trim
  <2>1. /\ UNCHANGED <<document, phase, index, pending, located>> /\ Looking
        /\ length > 0 /\ length' = length - 1 /\ Trimmed \notin DOMAIN index
    BY <1>6 DEF Trim
  <2>2. length \in Nat /\ length <= Len(Sought) /\ Len(Sought) \in Nat /\ Trimmed = SubSeq(Sought, 1, length)
    BY <2>1, SoughtShape DEF Trimmed, Sought
  <2>3. \A m \in (length' + 1)..Len(Sought) : m = length \/ m \in (length + 1)..Len(Sought)
    BY <2>1, <2>2
  <2>4. /\ length' \in Nat /\ length' <= Len(Sought)
        /\ \A m \in (length' + 1)..Len(Sought) : SubSeq(Sought, 1, m) \notin DOMAIN index
    BY <2>1, <2>2, <2>3 DEF IndInv, Passed
  <2>5. TypeOK'
    BY <2>1, <2>4 DEF IndInv, TypeOK, Places
  <2>6. Passed' /\ Sought' = Sought
    BY <2>1, <2>4 DEF Passed, Sought, Looking
  <2>7. IndexTruthful' /\ PendingTruthful' /\ Cover' /\ Complete'
    BY <2>1 DEF IndInv, IndexTruthful, PendingTruthful, Cover, Complete, Unindexed, Looking
  <2>8. NearestAncestor'
    BY <2>1 DEF IndInv, NearestAncestor, IsNearest, Ancestors
  <2>9. QED
    BY <2>5, <2>6, <2>7, <2>8 DEF IndInv
<1>7. CASE Finish
  <2>1. UNCHANGED <<document, index, pending, located, length>> /\ phase = "apply" /\ phase' = "done"
    BY <1>7 DEF Finish
  <2>2. QED
    BY <2>1 DEF IndInv, TypeOK, Places, IndexTruthful, PendingTruthful, Cover, Complete, Unindexed,
                Passed, Looking, NearestAncestor, IsNearest, Ancestors
<1>8. CASE UNCHANGED vars
  <2>1. UNCHANGED <<document, phase, index, pending, located, length>>
    BY <1>8 DEF vars
  <2>2. TypeOK' /\ IndexTruthful' /\ PendingTruthful' /\ Complete'
    BY <2>1 DEF IndInv, TypeOK, Places, IndexTruthful, PendingTruthful, Complete, Unindexed
  <2>3. Cover'
    BY <2>1 DEF IndInv, Cover, Owed, Closed, Unindexed
  <2>4. Passed' /\ NearestAncestor'
    BY <2>1 DEF IndInv, Passed, Looking, Sought, NearestAncestor, IsNearest, Ancestors
  <2>5. QED
    BY <2>2, <2>3, <2>4 DEF IndInv
<1>9. QED
  BY <1>1, <1>2, <1>3, <1>4, <1>5, <1>6, <1>7, <1>8 DEF Next, Visit

LEMMA InvInit == Init => IndInv
<1> SUFFICES ASSUME Init PROVE IndInv
  OBVIOUS
<1>1. /\ phase = "parse" /\ index = <<>> /\ pending = <<>> /\ located = <<>> /\ length = 0
      /\ IsDocument(document) /\ Len(<<>>) = 0 /\ 1..0 = {} /\ DOMAIN <<>> = {}
  BY DocumentsAssumption, EmptySeq DEF Init
<1>2. Len(document.findings) \in Nat
  BY <1>1, LenProperties DEF IsDocument
<1>3. TypeOK
  <2>1. <<>> \in Seq(Link) /\ <<>> \in Seq(Places \cup {Nowhere})
    BY EmptySeq
  <2>2. index \in [DOMAIN index -> Places]
    BY <1>1
  <2>3. QED
    BY <1>1, <1>2, <2>1, <2>2 DEF TypeOK, Link
<1>4. QED
  BY <1>1, <1>3 DEF IndInv, IndexTruthful, PendingTruthful, Cover, Complete, Passed, Looking, NearestAncestor

(* Every variable of the index walk and of the lookups keeps its type.      *)
THEOREM PositionsTypeCorrect == Spec => []TypeOK
<1>1. IndInv => TypeOK
  BY DEF IndInv
<1>2. QED
  BY InvInit, InvStep, <1>1, PTL DEF Spec

(* In every document, dotted and bracketed keys and aliases included, a     *)
(* finding is placed at the nearest node that its path passes by.           *)
THEOREM PlacedAtNearest == Spec => []NearestAncestor
<1>1. IndInv => NearestAncestor
  BY DEF IndInv
<1>2. QED
  BY InvInit, InvStep, <1>1, PTL DEF Spec

------------------------------------------------------------------------------
(* Lines of keys.  Every mapping entry is recorded with its key's line,     *)
(* will be, for its link is pending, or hangs on a node the walk still has  *)
(* to come by; nothing else is recorded so.                                 *)
IsKeyed(p) == p \in DOMAIN index /\ index[p][2] = "key"
IsAwaited(p) == \E i \in 1..Len(pending) : pending[i].entry /\ pending[i].path = p
IsAhead(n) == \A S \in SUBSET document.nodes : Owed(S) => n \in S
IsEntry(n, k) == n \in document.nodes /\ k \in 1..Len(document.below[n]) /\ document.below[n][k].entry
PathOf(n, k) == document.at[document.below[n][k].to]

EntriesTruthful == \A i \in 1..Len(pending) : pending[i].entry => KeyAt(pending[i].path)
KeysTruthful == \A p \in DOMAIN index : index[p][2] = "key" => KeyAt(p)
KeyCover ==
  phase = "index" =>
    \A n, k : IsEntry(n, k) => IsKeyed(PathOf(n, k)) \/ IsAwaited(PathOf(n, k)) \/ IsAhead(n)
KeysComplete == phase \in {"apply", "done"} => \A p : KeyAt(p) => IsKeyed(p)

KeyInv == EntriesTruthful /\ KeysTruthful /\ KeyCover /\ KeysComplete /\ KeyLinePreferred

LEMMA EntryIsKey ==
  ASSUME NEW n, NEW k, IsEntry(n, k)
  PROVE  KeyAt(PathOf(n, k))
BY DEF IsEntry, KeyAt, PathOf

(* The links that are pending after one was visited.                        *)
LEMMA VisitLinks ==
  ASSUME IndInv, Visit
  PROVE  LET n == Head(pending).to IN
         /\ \A i \in 1..Len(pending') :
              \/ \E j \in 1..Len(pending) : pending'[i] = pending[j]
              \/ \E k \in 1..Len(document.below[n]) :
                   pending'[i].entry = document.below[n][k].entry /\ pending'[i].path = PathOf(n, k)
         /\ \A j \in 1..Len(pending) :
              pending[j] = Head(pending) \/ \E i \in 1..Len(pending') : pending'[i] = pending[j]
         /\ \A k \in 1..Len(document.below[n]) : \E i \in 1..Len(pending') :
              pending'[i].entry = document.below[n][k].entry /\ pending'[i].path = PathOf(n, k)
<1> DEFINE n == Head(pending).to
           new == Below(n, document.at[n])
           rest == Tail(pending)
<1>1. pending' = new \o rest
  BY VisitedNode DEF Visit, IndexEntry, IndexItem
<1>2. /\ n \in document.nodes /\ rest \in Seq(Link)
      /\ Range(pending) = {Head(pending)} \cup Range(rest)
  BY VisitedNode, PendingShape DEF IndInv
<1>3. /\ new \in Seq(Link) /\ Len(new) = Len(document.below[n])
      /\ \A i \in 1..Len(document.below[n]) :
           new[i].entry = document.below[n][i].entry /\ new[i].path = PathOf(n, i)
  BY <1>2, BelowShape DEF IndInv, TypeOK, PathOf
<1> HIDE DEF n, new, rest
<1>4. pending' \in Seq(Link) /\ Range(pending') = Range(new) \cup Range(rest)
  BY <1>1, <1>2, <1>3, ConcatProperties, RangeConcatenation
<1>5. /\ Range(pending) = {pending[i] : i \in 1..Len(pending)}
      /\ Range(pending') = {pending'[i] : i \in 1..Len(pending')}
      /\ Range(new) = {new[i] : i \in 1..Len(new)}
  BY <1>3, <1>4, RangeEquality DEF IndInv, TypeOK, Link
<1>6. ASSUME NEW i \in 1..Len(pending')
      PROVE  \/ \E j \in 1..Len(pending) : pending'[i] = pending[j]
             \/ \E k \in 1..Len(document.below[n]) :
                  pending'[i].entry = document.below[n][k].entry /\ pending'[i].path = PathOf(n, k)
  <2>1. pending'[i] \in Range(new) \/ pending'[i] \in Range(pending)
    BY <1>2, <1>4, <1>5
  <2>2. CASE pending'[i] \in Range(new)
    BY <1>3, <1>5, <2>2
  <2>3. QED
    BY <1>5, <2>1, <2>2
<1>7. ASSUME NEW j \in 1..Len(pending)
      PROVE  pending[j] = Head(pending) \/ \E i \in 1..Len(pending') : pending'[i] = pending[j]
  BY <1>2, <1>4, <1>5
<1>8. ASSUME NEW k \in 1..Len(document.below[n])
      PROVE  \E i \in 1..Len(pending') :
               pending'[i].entry = document.below[n][k].entry /\ pending'[i].path = PathOf(n, k)
  <2>1. new[k] \in Range(pending')
    BY <1>3, <1>4, <1>5
  <2>2. PICK i \in 1..Len(pending') : pending'[i] = new[k]
    BY <1>5, <2>1
  <2>3. QED
    BY <1>3, <2>2
<1>9. QED
  BY <1>6, <1>7, <1>8 DEF n

(* A link of an entry records its key; an item's never takes one away.      *)
LEMMA VisitRecords ==
  ASSUME IndInv, Visit
  PROVE  LET path == Head(pending).path IN
         /\ \A p : IsKeyed(p) => IsKeyed(p)'
         /\ Head(pending).entry => path \in DOMAIN index' /\ index'[path][2] = "key"
         /\ \A p \in DOMAIN index' :
              index'[p][2] = "key" => IsKeyed(p) \/ (p = path /\ Head(pending).entry)
<1> DEFINE path == Head(pending).path
           node == Head(pending).to
<1>1. CASE IndexEntry
  <2>1. Head(pending).entry /\ index' = [p \in DOMAIN index \cup {path} |-> IF p = path THEN <<node, "key">> ELSE index[p]]
    BY <1>1 DEF IndexEntry, Record
  <2> HIDE DEF path, node
  <2>2. DOMAIN index' = DOMAIN index \cup {path} /\ index'[path] = <<node, "key">> /\ <<node, "key">>[2] = "key"
        /\ \A p \in DOMAIN index' : p # path => index'[p] = index[p]
    BY <2>1
  <2>3. index'[path][2] = "key"
    BY <2>2
  <2>4. \A p : IsKeyed(p) => p \in DOMAIN index' /\ index'[p][2] = "key"
    BY <2>2, <2>3 DEF IsKeyed
  <2>5. \A p \in DOMAIN index' : index'[p][2] = "key" => IsKeyed(p) \/ p = path
    BY <2>2 DEF IsKeyed
  <2>6. QED
    BY <2>1, <2>2, <2>3, <2>4, <2>5 DEF IsKeyed, path
<1>2. CASE IndexItem /\ path \in DOMAIN index
  BY <1>2 DEF IndexItem, IsKeyed
<1>3. CASE IndexItem /\ path \notin DOMAIN index
  <2>1. ~Head(pending).entry /\ index' = [p \in DOMAIN index \cup {path} |-> IF p = path THEN <<node, "value">> ELSE index[p]]
    BY <1>3 DEF IndexItem, Record
  <2> HIDE DEF path, node
  <2>2. DOMAIN index' = DOMAIN index \cup {path} /\ index'[path] = <<node, "value">> /\ <<node, "value">>[2] # "key"
        /\ \A p \in DOMAIN index' : p # path => index'[p] = index[p]
    BY <2>1
  <2>3. QED
    BY <1>3, <2>1, <2>2 DEF IsKeyed, path
<1>4. QED
  BY <1>1, <1>2, <1>3 DEF Visit

(* Of the nodes ahead a visit takes away the one it came by.                *)
LEMMA VisitAhead ==
  ASSUME IndInv, Visit, NEW n, IsAhead(n), n # Head(pending).to
  PROVE  IsAhead(n)'
<1> DEFINE m == Head(pending).to
<1> SUFFICES ASSUME NEW S \in SUBSET document.nodes, Owed(S)'
             PROVE  n \in S
  BY VisitedNode DEF IsAhead
<1>1. UNCHANGED document /\ m \in document.nodes
  BY VisitedNode
<1>2. Closed(S) /\ \A i \in 1..Len(pending') : pending'[i].to \in S
  BY <1>1 DEF Owed, Closed
<1>3. /\ \A i \in 1..Len(document.below[m]) : document.below[m][i].to \in S
      /\ \A i \in 1..Len(pending) : pending[i].to \in S \cup {m}
  BY <1>2, VisitPending
<1> HIDE DEF m
<1>4. Owed(S \cup {m}) /\ S \cup {m} \in SUBSET document.nodes
  BY <1>1, <1>2, <1>3 DEF Owed, Closed
<1>5. n \in S \cup {m}
  BY <1>4 DEF IsAhead
<1>6. QED
  BY <1>5 DEF m

LEMMA VisitKeys ==
  ASSUME IndInv, KeyInv, Visit
  PROVE  KeyInv'
<1> DEFINE m == Head(pending).to
           path == Head(pending).path
<1>1. /\ UNCHANGED <<document, located>> /\ phase = "index" /\ phase' = "index"
      /\ m \in document.nodes /\ path = document.at[m] /\ \E j \in 1..Len(pending) : pending[j] = Head(pending)
  BY VisitedNode, PendingShape DEF IndInv
<1>2. EntriesTruthful'
  <2> SUFFICES ASSUME NEW i \in 1..Len(pending'), pending'[i].entry PROVE KeyAt(pending'[i].path)
    BY <1>1 DEF EntriesTruthful, KeyAt
  <2>1. CASE \E j \in 1..Len(pending) : pending'[i] = pending[j]
    BY <2>1 DEF KeyInv, EntriesTruthful
  <2>2. CASE \E k \in 1..Len(document.below[m]) :
               pending'[i].entry = document.below[m][k].entry /\ pending'[i].path = PathOf(m, k)
    <3>1. PICK k \in 1..Len(document.below[m]) :
               pending'[i].entry = document.below[m][k].entry /\ pending'[i].path = PathOf(m, k)
      BY <2>2
    <3>2. IsEntry(m, k)
      BY <1>1, <3>1 DEF IsEntry
    <3>3. QED
      BY <3>1, <3>2, EntryIsKey
  <2>3. QED
    BY <2>1, <2>2, VisitLinks
<1>3. KeysTruthful'
  <2>1. Head(pending).entry => KeyAt(path)
    BY <1>1 DEF KeyInv, EntriesTruthful
  <2>2. \A p : IsKeyed(p) => KeyAt(p)
    BY DEF KeyInv, KeysTruthful, IsKeyed
  <2>3. \A p \in DOMAIN index' : index'[p][2] = "key" => KeyAt(p)
    BY <2>1, <2>2, VisitRecords
  <2>4. QED
    BY <1>1, <2>3 DEF KeysTruthful, KeyAt
<1>4. KeyCover'
  <2> SUFFICES ASSUME NEW n, NEW k, IsEntry(n, k)
               PROVE  IsKeyed(PathOf(n, k))' \/ IsAwaited(PathOf(n, k))' \/ IsAhead(n)'
    BY <1>1 DEF KeyCover, IsEntry
  <2>0. PathOf(n, k)' = PathOf(n, k)
    BY <1>1 DEF PathOf
  <2>1. CASE IsKeyed(PathOf(n, k))
    BY <2>0, <2>1, VisitRecords DEF IsKeyed
  <2>2. CASE IsAwaited(PathOf(n, k))
    <3>1. PICK j \in 1..Len(pending) : pending[j].entry /\ pending[j].path = PathOf(n, k)
      BY <2>2 DEF IsAwaited
    <3>2. CASE pending[j] = Head(pending)
      <4>1. Head(pending).entry /\ Head(pending).path = PathOf(n, k)
        BY <3>1, <3>2
      <4>2. Head(pending).path \in DOMAIN index' /\ index'[Head(pending).path][2] = "key"
        BY <4>1, VisitRecords DEF IsKeyed
      <4>3. QED
        BY <2>0, <4>1, <4>2 DEF IsKeyed
    <3>3. CASE \E i \in 1..Len(pending') : pending'[i] = pending[j]
      BY <2>0, <3>1, <3>3 DEF IsAwaited
    <3>4. QED
      BY <3>2, <3>3, VisitLinks
  <2>3. CASE IsAhead(n) /\ n = m
    <3>1. k \in 1..Len(document.below[m]) /\ document.below[m][k].entry
      BY <2>3 DEF IsEntry
    <3>2. \E i \in 1..Len(pending') : pending'[i].entry /\ pending'[i].path = PathOf(m, k)
      BY <3>1, VisitLinks
    <3>3. QED
      BY <2>0, <2>3, <3>2 DEF IsAwaited
  <2>4. CASE IsAhead(n) /\ n # m
    BY <2>4, VisitAhead
  <2>5. QED
    BY <1>1, <2>1, <2>2, <2>3, <2>4 DEF KeyInv, KeyCover
<1>5. KeysComplete' /\ KeyLinePreferred'
  BY <1>1 DEF KeyInv, KeysComplete, KeyLinePreferred, KeyAt
<1>6. QED
  BY <1>2, <1>3, <1>4, <1>5 DEF KeyInv

(* The root's entries are pending at once; what hangs on any other node is  *)
(* ahead, for everything hangs on the root.                                 *)
LEMMA StartKeys ==
  ASSUME IndInv, KeyInv, Start
  PROVE  KeyInv'
<1> DEFINE r == document.root
<1>1. /\ UNCHANGED <<document, index, located>> /\ phase = "parse" /\ phase' = "index"
      /\ pending' = Below(r, document.at[r]) /\ r \in document.nodes
  BY DEF Start, IndInv, TypeOK, IsDocument
<1>2. /\ Len(pending') = Len(document.below[r])
      /\ \A i \in 1..Len(document.below[r]) :
           /\ pending'[i].to = document.below[r][i].to
           /\ pending'[i].path = PathOf(r, i)
           /\ pending'[i].entry = document.below[r][i].entry
  BY <1>1, BelowShape DEF IndInv, TypeOK, PathOf
<1>3. EntriesTruthful'
  <2>1. ASSUME NEW i \in 1..Len(pending'), pending'[i].entry PROVE KeyAt(pending'[i].path)
    <3>1. IsEntry(r, i)
      BY <1>1, <1>2, <2>1 DEF IsEntry
    <3>2. QED
      BY <1>2, <2>1, <3>1, EntryIsKey
  <2>2. QED
    BY <1>1, <2>1 DEF EntriesTruthful, KeyAt
<1>4. ASSUME NEW n \in document.nodes, n # r PROVE IsAhead(n)'
  <2> SUFFICES ASSUME NEW S \in SUBSET document.nodes, Owed(S)' PROVE n \in S
    BY <1>1 DEF IsAhead
  <2>1. Closed(S) /\ \A i \in 1..Len(document.below[r]) : document.below[r][i].to \in S
    BY <1>1, <1>2 DEF Owed, Closed
  <2> DEFINE all == S \cup {r}
  <2>2. all \in SUBSET document.nodes /\ r \in all
        /\ \A x \in all : \A i \in 1..Len(document.below[x]) : document.below[x][i].to \in all
    BY <1>1, <2>1 DEF Closed
  <2> HIDE DEF all
  <2>3. all = document.nodes
    BY <2>2 DEF IndInv, TypeOK, IsDocument
  <2>4. QED
    BY <1>4, <2>3 DEF all
<1>5. KeyCover'
  <2> SUFFICES ASSUME NEW n, NEW k, IsEntry(n, k)
               PROVE  IsAwaited(PathOf(n, k))' \/ IsAhead(n)'
    BY <1>1 DEF KeyCover, IsEntry
  <2>1. CASE n = r
    <3>1. k \in 1..Len(pending') /\ pending'[k].entry /\ pending'[k].path = PathOf(n, k)
      BY <1>2, <2>1 DEF IsEntry
    <3>2. PathOf(n, k)' = PathOf(n, k)
      BY <1>1 DEF PathOf
    <3>3. QED
      BY <3>1, <3>2 DEF IsAwaited
  <2>2. CASE n # r
    BY <1>4, <2>2 DEF IsEntry
  <2>3. QED
    BY <2>1, <2>2
<1>6. KeysTruthful' /\ KeysComplete' /\ KeyLinePreferred'
  BY <1>1 DEF KeyInv, KeysTruthful, KeysComplete, KeyLinePreferred, KeyAt
<1>7. QED
  BY <1>3, <1>5, <1>6 DEF KeyInv

(* When nothing is pending nothing is ahead, so every entry has its key.    *)
LEMMA IndexedKeys ==
  ASSUME IndInv, KeyInv, Indexed
  PROVE  KeyInv'
<1>1. /\ UNCHANGED <<document, index, pending, located>> /\ phase = "index" /\ phase' = "apply"
      /\ pending = <<>> /\ 1..Len(<<>>) = {}
  BY EmptySeq DEF Indexed
<1>2. Owed({}) /\ {} \in SUBSET document.nodes
  BY <1>1 DEF Owed, Closed
<1>3. \A n, k : IsEntry(n, k) => IsKeyed(PathOf(n, k))
  BY <1>1, <1>2 DEF KeyInv, KeyCover, IsAwaited, IsAhead
<1>4. \A p : KeyAt(p) => IsKeyed(p)
  BY <1>3 DEF KeyAt, IsEntry, PathOf
<1>5. KeysComplete'
  BY <1>1, <1>4 DEF KeysComplete, KeyAt, IsKeyed
<1>6. QED
  BY <1>1, <1>5 DEF KeyInv, EntriesTruthful, KeysTruthful, KeyCover, KeyLinePreferred, KeyAt

(* A finding is given the line of a place in the index.                     *)
LEMMA LocateKeys ==
  ASSUME IndInv, KeyInv, Looking, NEW place \in Places \cup {Nowhere}, Locate(place),
         place # Nowhere => (place[2] = "key" <=> KeyAt(document.at[place[1]]))
  PROVE  KeyInv'
<1>1. /\ UNCHANGED <<document, phase, index, pending>> /\ phase = "apply"
      /\ located' = Append(located, place)
  BY DEF Locate, Looking
<1>2. /\ Len(located') = Len(located) + 1 /\ Len(located) \in Nat
      /\ \A i \in 1..Len(located) : located'[i] = located[i]
      /\ located'[Len(located) + 1] = place
  BY <1>1, SoughtShape, AppendProperties
<1>3. \A i \in 1..Len(located') : i \in 1..Len(located) \/ i = Len(located) + 1
  BY <1>2
<1>4. \A i \in 1..Len(located') :
        located'[i] # Nowhere => (located'[i][2] = "key" <=> KeyAt(document.at[located'[i][1]]))
  BY <1>2, <1>3 DEF KeyInv, KeyLinePreferred
<1>5. KeyLinePreferred'
  BY <1>1, <1>4 DEF KeyLinePreferred, KeyAt
<1>6. QED
  BY <1>1, <1>5 DEF KeyInv, EntriesTruthful, KeysTruthful, KeyCover, KeysComplete, KeyAt, IsKeyed

LEMMA KeyStep == IndInv /\ KeyInv /\ [Next]_vars => KeyInv'
<1> SUFFICES ASSUME IndInv, KeyInv, [Next]_vars PROVE KeyInv'
  OBVIOUS
<1>1. CASE Hit
  <2> DEFINE place == index[Trimmed]
  <2>1. Looking /\ Locate(place) /\ place \in Places /\ Trimmed \in DOMAIN index
    BY <1>1, HitNearest DEF Hit
  <2>2. document.at[place[1]] = Trimmed
    BY <2>1 DEF IndInv, IndexTruthful
  <2>3. place[2] = "key" <=> KeyAt(Trimmed)
    BY <2>1 DEF KeyInv, KeysTruthful, KeysComplete, Looking, IsKeyed
  <2>4. QED
    BY <2>1, <2>2, <2>3, LocateKeys
<1>2. CASE Miss
  BY <1>2, LocateKeys DEF Miss
<1>3. CASE Trim \/ Finish
  <2>1. /\ UNCHANGED <<document, index, pending, located>> /\ phase = "apply" /\ phase' \in {"apply", "done"}
    BY <1>3 DEF Trim, Finish, Looking
  <2>2. QED
    BY <2>1 DEF KeyInv, EntriesTruthful, KeysTruthful, KeyCover, KeysComplete, KeyLinePreferred, KeyAt, IsKeyed
<1>4. CASE UNCHANGED vars
  <2>1. UNCHANGED <<document, phase, index, pending, located>>
    BY <1>4 DEF vars
  <2>2. QED
    BY <2>1 DEF KeyInv, EntriesTruthful, KeysTruthful, KeyCover, KeysComplete, KeyLinePreferred, KeyAt,
                IsEntry, IsKeyed, IsAwaited, IsAhead, PathOf, Owed, Closed
<1>5. QED
  BY <1>1, <1>2, <1>3, <1>4, StartKeys, VisitKeys, IndexedKeys DEF Next, Visit

LEMMA KeyInit == Init => KeyInv
<1> SUFFICES ASSUME Init PROVE KeyInv
  OBVIOUS
<1>1. /\ phase = "parse" /\ index = <<>> /\ pending = <<>> /\ located = <<>>
      /\ 1..Len(<<>>) = {} /\ DOMAIN <<>> = {}
  BY EmptySeq DEF Init
<1>2. QED
  BY <1>1 DEF KeyInv, EntriesTruthful, KeysTruthful, KeyCover, KeysComplete, KeyLinePreferred

(* In every document, whatever paths its nodes share and in whatever order  *)
(* they were indexed, a finding gets the line of a key exactly where some   *)
(* key leads to its place.                                                  *)
THEOREM KeyLineWins == Spec => []KeyLinePreferred
<1>1. KeyInv => KeyLinePreferred
  BY DEF KeyInv
<1>2. QED
  BY InvInit, InvStep, KeyInit, KeyStep, <1>1, PTL DEF Spec
==============================================================================
