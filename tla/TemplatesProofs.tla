---------------------------- MODULE TemplatesProofs ----------------------------
(****************************************************************************)
(* Theorems about Templates, for every document and every bound: the types, *)
(* that a round of a parse is never wasted, the severities, the summary's   *)
(* counts and the whole report.                                             *)
(****************************************************************************)
EXTENDS Templates, SequenceTheorems, FiniteSetTheorems, TLAPS

(* The flag of the walker says where a visit stands.                        *)
Placed == {v \in Visit : InBody(v) <=> IsDemoted(v)}

(* The findings that may be errors, and those that may be warnings.         *)
ErrorsAllowed ==
  {f \in Findings : /\ ~InBody(f.at) /\ f.code # "human_answer_field"
                    /\ f.code = "template_function_unknown" => document.strict}
WarningsAllowed ==
  {f \in Findings : \/ InBody(f.at) \/ f.code = "human_answer_field"
                    \/ f.code = "template_function_unknown" /\ ~document.strict}

IndInv ==
  /\ TemplatesTypeOK /\ RoundsLearn
  /\ agenda \in Seq(Placed)
  /\ errors \in Seq(ErrorsAllowed) /\ warnings \in Seq(WarningsAllowed)

------------------------------------------------------------------------------
(* Where the visits of a part stand.                                        *)
BodyKinds == {"subCondition", "subQuery", "subNext", "subOp"}

LEMMA VisitsShape ==
  ASSUME NEW kind \in Kinds, NEW path \in Seq(Nat), NEW value \in Value,
         Len(path) = 2 <=> kind \in BodyKinds
  PROVE  Visits(kind, path, value) \in Seq(Placed)
<1>1. Len(value) \in Nat /\ \A i \in 1..Len(value) : value[i] \in Text
  BY LenProperties, ElementOfSeq DEF Value
<1>2. \A i \in 1..Len(value) : Append(path, i) \in Seq(Nat) /\ Len(Append(path, i)) = Len(path) + 1
  BY AppendProperties
<1>3. \A i \in 1..Len(value) : Len(Append(path, i)) = 3 <=> Len(path) = 2
  <2>1. Len(path) \in Nat
    BY LenProperties
  <2>2. \A b \in Nat : b + 1 = 3 <=> b = 2
    OBVIOUS
  <2>3. QED
    BY <1>2, <2>1, <2>2, Zenon
<1>4. \A i \in 1..Len(value) : [kind |-> kind, path |-> Append(path, i), text |-> value[i]] \in Placed
  <2> TAKE i \in 1..Len(value)
  <2> DEFINE v == [kind |-> kind, path |-> Append(path, i), text |-> value[i]]
  <2>1. v \in Visit
    BY <1>1, <1>2 DEF Visit
  <2>2. InBody(v) <=> Len(path) = 2
    <3>1. Len(v.path) = 3 <=> Len(path) = 2
      BY <1>3
    <3>2. InBody(v) <=> Len(v.path) = 3
      BY DEF InBody
    <3> HIDE DEF v
    <3>3. QED
      BY <3>1, <3>2
  <2>3. IsDemoted(v) <=> kind \in BodyKinds
    BY DEF IsDemoted, BodyKinds
  <2>4. QED
    BY <2>1, <2>2, <2>3 DEF Placed
<1> DEFINE all == [i \in 1..Len(value) |-> [kind |-> kind, path |-> Append(path, i), text |-> value[i]]]
<1>5. all \in [1..Len(value) -> Placed]
  BY <1>4
<1>6. Visits(kind, path, value) = all
  BY DEF Visits
<1> HIDE DEF all
<1>7. QED
  BY <1>1, <1>5, <1>6

LEMMA PartShape ==
  ASSUME NEW n \in Nat, NEW s \in Step, NEW k \in 1..Parts(s)
  PROVE  Part(n, s, k) \in Seq(Placed)
<1> DEFINE subs == Len(s.subs)
           own(i) == Visits("subCondition", <<n, i>>, s.subs[i].condition)
                       \o Visits("subQuery", <<n, i>>, s.subs[i].query)
                       \o Visits("subNext", <<n, i>>, s.subs[i].next)
<1>1. /\ s.query \in Value /\ s.ops \in Value /\ s.expectation \in Value /\ s.next \in Value
      /\ subs \in Nat /\ \A i \in 1..subs : s.subs[i] \in SubStep
  BY LenProperties, ElementOfSeq DEF Step
<1>2. <<n>> \in Seq(Nat) /\ Len(<<n>>) = 1 /\ Len(<<n>>) # 2
  OBVIOUS
<1>3. \A kind \in {"query", "op", "expectation", "next"} : kind \in Kinds /\ kind \notin BodyKinds
  BY DEF Kinds, BodyKinds
<1>4. \A kind \in {"query", "op", "expectation", "next"} : \A value \in Value :
        Visits(kind, <<n>>, value) \in Seq(Placed)
  BY <1>2, <1>3, VisitsShape
<1>5. ASSUME NEW i \in 1..subs, NEW kind \in BodyKinds, NEW value \in Value
      PROVE  Visits(kind, <<n, i>>, value) \in Seq(Placed)
  <2>1. <<n, i>> \in Seq(Nat) /\ Len(<<n, i>>) = 2 /\ kind \in Kinds
    BY <1>1 DEF Kinds, BodyKinds
  <2>2. QED
    BY <2>1, VisitsShape
<1>6. ASSUME NEW i \in 1..subs PROVE own(i) \in Seq(Placed)
  <2>1. /\ s.subs[i].condition \in Value /\ s.subs[i].query \in Value /\ s.subs[i].next \in Value
        /\ {"subCondition", "subQuery", "subNext"} \subseteq BodyKinds
    BY <1>1 DEF SubStep, BodyKinds
  <2>2. /\ Visits("subCondition", <<n, i>>, s.subs[i].condition) \in Seq(Placed)
        /\ Visits("subQuery", <<n, i>>, s.subs[i].query) \in Seq(Placed)
        /\ Visits("subNext", <<n, i>>, s.subs[i].next) \in Seq(Placed)
    BY <1>5, <2>1
  <2>3. QED
    BY <2>2, ConcatProperties
<1>7. ASSUME NEW i \in 1..subs PROVE Visits("subOp", <<n, i>>, s.subs[i].ops) \in Seq(Placed)
  <2>1. s.subs[i].ops \in Value /\ "subOp" \in BodyKinds
    BY <1>1 DEF SubStep, BodyKinds
  <2>2. QED
    BY <1>5, <2>1
<1> HIDE DEF own
<1>8. CASE k = 1
  <2>1. k \notin 3..(subs + 2) /\ k \notin (subs + 3)..(2 * subs + 2) /\ k # 2 * subs + 3 /\ k # 2
    BY <1>1, <1>8
  <2>2. Part(n, s, k) = Visits("query", <<n>>, s.query)
    BY <1>8, <2>1 DEF Part
  <2>3. QED
    BY <1>1, <1>4, <2>2
<1>9. CASE k = 2
  <2>1. k \notin 3..(subs + 2) /\ k \notin (subs + 3)..(2 * subs + 2) /\ k # 2 * subs + 3 /\ k # 1
    BY <1>1, <1>9
  <2>2. Part(n, s, k) = Visits("op", <<n>>, s.ops)
    BY <1>9, <2>1 DEF Part
  <2>3. QED
    BY <1>1, <1>4, <2>2
<1>10. CASE k \in 3..(subs + 2)
  <2>1. k # 1 /\ k # 2 /\ k - 2 \in 1..subs
    BY <1>1, <1>10
  <2>2. Part(n, s, k) = own(k - 2)
    BY <1>10, <2>1 DEF Part, own
  <2>3. QED
    BY <1>6, <2>1, <2>2
<1>11. CASE k \in (subs + 3)..(2 * subs + 2)
  <2>1. k # 1 /\ k # 2 /\ k \notin 3..(subs + 2) /\ k - subs - 2 \in 1..subs
    BY <1>1, <1>11
  <2>2. Part(n, s, k) = Visits("subOp", <<n, k - subs - 2>>, s.subs[k - subs - 2].ops)
    BY <1>11, <2>1 DEF Part
  <2>3. QED
    BY <1>7, <2>1, <2>2
<1>12. CASE k = 2 * subs + 3
  <2>1. k # 1 /\ k # 2 /\ k \notin 3..(subs + 2) /\ k \notin (subs + 3)..(2 * subs + 2)
    BY <1>1, <1>12
  <2>2. QED
    BY <1>1, <1>4, <1>12, <2>1 DEF Part
<1>13. CASE k \notin 1..(2 * subs + 3)
  <2>1. k # 1 /\ k # 2 /\ k \notin 3..(subs + 2) /\ k \notin (subs + 3)..(2 * subs + 2) /\ k # 2 * subs + 3
    BY <1>1, <1>13
  <2>2. QED
    BY <1>1, <1>4, <2>1 DEF Part
<1>14. k = 1 \/ k = 2 \/ k \in 3..(subs + 2) \/ k \in (subs + 3)..(2 * subs + 2) \/ k = 2 * subs + 3
       \/ k \notin 1..(2 * subs + 3)
  BY <1>1
<1>15. QED
  BY <1>8, <1>9, <1>10, <1>11, <1>12, <1>13, <1>14

LEMMA SeqMono ==
  ASSUME NEW S, NEW T, S \subseteq T, NEW s \in Seq(S)
  PROVE  s \in Seq(T)
<1>1. Len(s) \in Nat /\ s \in [1..Len(s) -> S]
  BY LenProperties
<1>2. s \in [1..Len(s) -> T]
  BY <1>1
<1>3. QED
  BY <1>1, <1>2

------------------------------------------------------------------------------
(* What the rule may say of the leaf it is at.                              *)
Here == {f \in Findings : f.at = Head(agenda)}
Positional == {f \in Here : f.code \in {"template_syntax_error", "template_default_piped"}}
Functions == {f \in Here : f.code = "template_function_unknown"}
Answers == {f \in Here : f.code = "human_answer_field"}

LEMMA HeadPlaced ==
  IndInv /\ agenda # <<>> =>
    /\ Head(agenda) \in Placed /\ Head(agenda) \in Visit /\ Head(agenda).text \in Text
    /\ Tail(agenda) \in Seq(Placed) /\ Tail(agenda) \in Seq(Visit)
<1>1. Placed \subseteq Visit /\ \A v \in Visit : v.text \in Text
  BY DEF Placed, Visit
<1>2. QED
  BY <1>1, SeqMono, HeadTailProperties DEF IndInv

LEMMA AllowedHere ==
  ASSUME IndInv, agenda # <<>>
  PROVE  /\ ~IsDemoted(Head(agenda)) =>
              /\ Positional \subseteq ErrorsAllowed /\ Answers \subseteq WarningsAllowed
              /\ document.strict => Functions \subseteq ErrorsAllowed
              /\ ~document.strict => Functions \subseteq WarningsAllowed
         /\ IsDemoted(Head(agenda)) =>
              Positional \subseteq WarningsAllowed /\ Answers \subseteq WarningsAllowed
                /\ Functions \subseteq WarningsAllowed
<1>1. InBody(Head(agenda)) <=> IsDemoted(Head(agenda))
  BY HeadPlaced DEF Placed
<1>2. \A f \in Here : InBody(f.at) <=> InBody(Head(agenda))
  BY DEF Here
<1>3. Here \subseteq Findings
  BY DEF Here
<1>4. QED
  BY <1>1, <1>2, <1>3 DEF Positional, Functions, Answers, ErrorsAllowed, WarningsAllowed

LEMMA FilingStep ==
  ASSUME IndInv, agenda # <<>>, NEW positional \in Seq(Positional), NEW functions \in Seq(Functions),
         NEW always \in Seq(Answers), FileFindings(positional, functions, always)
  PROVE  errors' \in Seq(ErrorsAllowed) /\ warnings' \in Seq(WarningsAllowed)
<1>1. errors \in Seq(ErrorsAllowed) /\ warnings \in Seq(WarningsAllowed)
  BY DEF IndInv
<1>2. CASE IsDemoted(Head(agenda))
  <2>1. errors' = errors /\ warnings' = warnings \o positional \o always \o functions
    BY <1>2 DEF FileFindings
  <2>2. positional \in Seq(WarningsAllowed) /\ always \in Seq(WarningsAllowed)
          /\ functions \in Seq(WarningsAllowed)
    BY <1>2, AllowedHere, SeqMono
  <2>3. QED
    BY <1>1, <2>1, <2>2, ConcatProperties
<1>3. CASE ~IsDemoted(Head(agenda)) /\ document.strict
  <2>1. errors' = errors \o positional \o functions /\ warnings' = warnings \o always \o <<>>
    BY <1>3 DEF FileFindings
  <2>2. positional \in Seq(ErrorsAllowed) /\ always \in Seq(WarningsAllowed)
          /\ functions \in Seq(ErrorsAllowed) /\ <<>> \in Seq(WarningsAllowed)
    BY <1>3, AllowedHere, SeqMono, EmptySeq
  <2>3. QED
    BY <1>1, <2>1, <2>2, ConcatProperties
<1>4. CASE ~IsDemoted(Head(agenda)) /\ ~document.strict
  <2>1. errors' = errors \o positional \o <<>> /\ warnings' = warnings \o always \o functions
    BY <1>4 DEF FileFindings
  <2>2. positional \in Seq(ErrorsAllowed) /\ always \in Seq(WarningsAllowed)
          /\ functions \in Seq(WarningsAllowed) /\ <<>> \in Seq(ErrorsAllowed)
    BY <1>4, AllowedHere, SeqMono, EmptySeq
  <2>3. QED
    BY <1>1, <2>1, <2>2, ConcatProperties
<1>5. QED
  BY <1>2, <1>3, <1>4

LEMMA FindingHere ==
  ASSUME IndInv, agenda # <<>>
  PROVE  /\ Finding("template_syntax_error", NoName) \in Positional
         /\ Finding("template_default_piped", NoName) \in Positional
         /\ Finding("human_answer_field", NoName) \in Answers
         /\ \A name \in Names : Finding("template_function_unknown", name) \in Functions
         /\ Unknowns \in Seq(Functions)
<1>1. Head(agenda) \in Visit
  BY HeadPlaced
<1>2. \A name \in Names : Finding("template_function_unknown", name) \in Functions
  BY <1>1 DEF Finding, Functions, Here, Findings
<1>3. Len(unknown) \in Nat /\ \A i \in 1..Len(unknown) : unknown[i] \in Names
  BY LenProperties, ElementOfSeq DEF IndInv, TemplatesTypeOK
<1>4. Unknowns \in [1..Len(unknown) -> Functions]
  BY <1>2, <1>3 DEF Unknowns
<1>5. Unknowns \in Seq(Functions)
  BY <1>3, <1>4
<1>6. QED
  BY <1>1, <1>2, <1>5 DEF Finding, Positional, Answers, Here, Findings

LEMMA OnlyType ==
  ASSUME NEW S, NEW b \in BOOLEAN, NEW f \in S
  PROVE  Only(b, f) \in Seq(S)
BY EmptySeq DEF Only

(* What is filed by each of the ends of a parse.                            *)
LEMMA EndsOfParse ==
  IndInv /\ (Refuse \/ Accept \/ GiveUp) =>
    /\ agenda # <<>> /\ BackToWalk
    /\ syntaxErrors' \in Nat
    /\ errors' \in Seq(ErrorsAllowed) /\ warnings' \in Seq(WarningsAllowed)
<1> SUFFICES ASSUME IndInv, Refuse \/ Accept \/ GiveUp
             PROVE  /\ agenda # <<>> /\ BackToWalk
                    /\ syntaxErrors' \in Nat
                    /\ errors' \in Seq(ErrorsAllowed) /\ warnings' \in Seq(WarningsAllowed)
  OBVIOUS
<1>1. agenda # <<>> /\ BackToWalk
  BY DEF Refuse, Accept, GiveUp, Round, IndInv, TemplatesTypeOK
<1>2. syntaxErrors' \in Nat
  BY DEF Refuse, Accept, GiveUp, IndInv, TemplatesTypeOK
<1>3. /\ <<>> \in Seq(Positional) /\ <<>> \in Seq(Functions) /\ <<>> \in Seq(Answers)
  BY EmptySeq
<1>4. CASE Refuse
  <2>1. <<Finding("template_syntax_error", NoName)>> \in Seq(Positional)
    BY <1>1, FindingHere
  <2>2. FileFindings(<<Finding("template_syntax_error", NoName)>>, <<>>, <<>>)
    BY <1>4 DEF Refuse
  <2>3. QED
    BY <1>1, <1>2, <1>3, <2>1, <2>2, FilingStep
<1>5. CASE Accept
  <2> DEFINE piped == Head(agenda).text.piped
             asks == Head(agenda).text.asks /\ unknown = <<>>
             positional == Only(piped, Finding("template_default_piped", NoName))
             always == Only(asks, Finding("human_answer_field", NoName))
  <2>1. piped \in BOOLEAN /\ asks \in BOOLEAN
    BY <1>1, HeadPlaced DEF Text
  <2>2. positional \in Seq(Positional)
    <3> HIDE DEF piped
    <3>1. QED
      BY <1>1, <2>1, FindingHere, OnlyType
  <2>3. always \in Seq(Answers)
    <3> HIDE DEF asks
    <3>1. QED
      BY <1>1, <2>1, FindingHere, OnlyType
  <2>4. FileFindings(positional, Unknowns, always)
    BY <1>5 DEF Accept
  <2> HIDE DEF positional, always
  <2>5. QED
    BY <1>1, <1>2, <2>2, <2>3, <2>4, FindingHere, FilingStep
<1>6. CASE GiveUp
  <2>1. FileFindings(<<>>, Unknowns, <<>>)
    BY <1>6 DEF GiveUp
  <2>2. QED
    BY <1>1, <1>2, <1>3, <2>1, FindingHere, FilingStep
<1>7. QED
  BY <1>4, <1>5, <1>6

------------------------------------------------------------------------------
LEMMA StepShape ==
  ASSUME IndInv, step <= Len(document.steps)
  PROVE  document.steps[step] \in Step /\ step \in Nat /\ Len(document.steps) \in Nat
<1>1. document.steps \in Seq(Step) /\ Len(document.steps) \in Nat /\ step \in 1..Len(document.steps)
  BY LenProperties DEF IndInv, TemplatesTypeOK
<1>2. QED
  BY <1>1, ElementOfSeq

LEMMA InvInit == Init => IndInv
<1> SUFFICES ASSUME Init PROVE IndInv
  OBVIOUS
<1>1. document.steps \in Seq(Step) /\ document.strict \in BOOLEAN
  BY DocumentsAssumption DEF Init
<1>2. step \in 1..(Len(document.steps) + 1)
  BY <1>1, LenProperties DEF Init
<1>3. \A S : <<>> \in Seq(S)
  BY EmptySeq
<1>4. TemplatesTypeOK
  BY <1>1, <1>2, <1>3, NamesAssumption, BoundAssumption DEF Init, TemplatesTypeOK
<1>5. QED
  BY <1>3, <1>4 DEF Init, IndInv, RoundsLearn

(* What a round learns: a name of the text that had no stub yet.            *)
LEMMA LearnStep == IndInv /\ Learn => TemplatesTypeOK' /\ RoundsLearn'
<1> SUFFICES ASSUME IndInv, Learn PROVE TemplatesTypeOK' /\ RoundsLearn'
  OBVIOUS
<1>1. PICK name \in Names : StopsAt(name) /\ unknown' = Append(unknown, name) /\ funcs' = funcs \cup {name}
  BY DEF Learn
<1>2. /\ phase = "parse" /\ Len(unknown) < MaxUnknown
      /\ UNCHANGED <<document, phase, step, part, agenda, found, syntaxErrors, errors, warnings>>
  BY DEF Learn, Round, report
<1>3. /\ unknown' \in Seq(Names) /\ Len(unknown') = Len(unknown) + 1 /\ Len(unknown) \in Nat
      /\ \A i \in 1..Len(unknown) : unknown'[i] = unknown[i]
      /\ unknown'[Len(unknown) + 1] = name
  BY <1>1, AppendProperties, LenProperties DEF IndInv, TemplatesTypeOK
<1>4. MaxUnknown \in Nat
  BY BoundAssumption
<1>5. TemplatesTypeOK'
  BY <1>1, <1>2, <1>3, <1>4 DEF IndInv, TemplatesTypeOK
<1>6. /\ funcs = Known \cup {unknown[i] : i \in 1..Len(unknown)}
      /\ \A i \in 1..Len(unknown) : /\ unknown[i] \in UnknownNames(Head(agenda).text)
                                    /\ \A j \in 1..(i - 1) : unknown[j] # unknown[i]
  BY <1>2 DEF IndInv, RoundsLearn
<1>7. name \in UnknownNames(Head(agenda).text) /\ name \notin funcs
  <2>1. PICK i \in 1..Len(ToParse) : ToParse[i] = name /\ name \notin funcs /\ Readable(i - 1)
    BY <1>1 DEF StopsAt
  <2>2. funcs \subseteq Names /\ Broken \notin Names
    BY NamesAssumption DEF IndInv, TemplatesTypeOK
  <2>3. \A j \in 1..i : ToParse[j] # Broken
    <3>1. ASSUME NEW j \in 1..i PROVE j = i \/ j \in 1..(i - 1)
      <4>1. i \in Nat
        OBVIOUS
      <4>2. QED
        BY <3>1, <4>1
    <3>2. ToParse[i] # Broken
      BY <2>1, <2>2
    <3>3. \A j \in 1..(i - 1) : ToParse[j] # Broken
      BY <2>1, <2>2 DEF Readable
    <3>4. QED
      BY <3>1, <3>2, <3>3
  <2>4. i \in Legible(Head(agenda).text)
    BY <2>3 DEF Legible, ToParse
  <2>5. QED
    BY <1>6, <2>1, <2>4 DEF UnknownNames, ToParse
<1>8. ASSUME NEW i \in 1..(Len(unknown) + 1)
      PROVE  /\ unknown'[i] \in UnknownNames(Head(agenda).text)
             /\ \A j \in 1..(i - 1) : unknown'[j] # unknown'[i]
  <2>1. CASE i \in 1..Len(unknown)
    <3>1. \A j \in 1..(i - 1) : j \in 1..Len(unknown)
      BY <1>3, <2>1
    <3>2. QED
      BY <1>3, <1>6, <2>1, <3>1
  <2>2. CASE i = Len(unknown) + 1
    <3>1. \A j \in 1..(i - 1) : j \in 1..Len(unknown) /\ unknown[j] \in funcs
      BY <1>3, <1>6, <2>2
    <3>2. QED
      BY <1>3, <1>7, <2>2, <3>1
  <2>3. QED
    BY <1>3, <2>1, <2>2
<1>9. funcs' = Known \cup {unknown'[i] : i \in 1..Len(unknown')}
  <2>1. 1..Len(unknown') = (1..Len(unknown)) \cup {Len(unknown) + 1}
    BY <1>3
  <2>2. {unknown'[i] : i \in 1..Len(unknown')} = {unknown[i] : i \in 1..Len(unknown)} \cup {name}
    BY <1>3, <2>1
  <2>3. QED
    BY <1>1, <1>6, <2>2
<1>10. UnknownNames(Head(agenda).text)' = UnknownNames(Head(agenda).text)
  BY <1>2 DEF UnknownNames, Legible
<1>11. RoundsLearn'
  BY <1>3, <1>8, <1>9, <1>10 DEF RoundsLearn
<1>12. QED
  BY <1>5, <1>11

LEMMA InvStep == IndInv /\ [Next]_vars => IndInv'
<1> SUFFICES ASSUME IndInv, [Next]_vars PROVE IndInv'
  OBVIOUS
<1>1. TemplatesTypeOK /\ RoundsLearn /\ agenda \in Seq(Placed)
      /\ errors \in Seq(ErrorsAllowed) /\ warnings \in Seq(WarningsAllowed)
  BY DEF IndInv
<1>2. Placed \subseteq Visit /\ ErrorsAllowed \subseteq Findings /\ WarningsAllowed \subseteq Findings
  BY DEF Placed, ErrorsAllowed, WarningsAllowed
<1>3. UNCHANGED document
  BY DEF Next, vars, OpenPart, NextStep, Finish, PassBy, Check, Learn, Refuse, Accept, GiveUp, BackToWalk
<1>4. ErrorsAllowed' = ErrorsAllowed /\ WarningsAllowed' = WarningsAllowed /\ Placed' = Placed
  BY <1>3 DEF ErrorsAllowed, WarningsAllowed, InBody, Placed, IsDemoted
<1>5. CASE OpenPart
  <2>1. document.steps[step] \in Step /\ step \in Nat
    BY <1>5, StepShape DEF OpenPart
  <2>2. part' \in Nat /\ part' \in 1..Parts(document.steps[step])
    <3>1. Parts(document.steps[step]) \in Nat
      BY <2>1, LenProperties DEF Parts, Step
    <3>2. part \in Nat /\ part < Parts(document.steps[step]) /\ part' = part + 1
      BY <1>1, <1>5 DEF OpenPart, TemplatesTypeOK
    <3>3. QED
      BY <3>1, <3>2
  <2>3. agenda' = Part(step, document.steps[step], part')
    BY <1>5 DEF OpenPart
  <2>4. agenda' \in Seq(Placed)
    BY <2>1, <2>2, <2>3, PartShape
  <2>5. agenda' \in Seq(Visit)
    BY <1>2, <2>4, SeqMono
  <2>6. phase' = "walk" /\ UNCHANGED <<phase, step, funcs, unknown, found, syntaxErrors, errors, warnings>>
    BY <1>5 DEF OpenPart, report
  <2>7. TemplatesTypeOK' /\ RoundsLearn'
    BY <1>1, <1>3, <2>2, <2>5, <2>6 DEF TemplatesTypeOK, RoundsLearn
  <2>8. QED
    BY <1>1, <1>4, <2>4, <2>6, <2>7 DEF IndInv
<1>6. CASE NextStep
  <2>1. step' \in 1..(Len(document.steps) + 1)
    BY <1>6, StepShape DEF NextStep
  <2>2. QED
    BY <1>1, <1>3, <1>4, <1>6, <2>1 DEF NextStep, report, IndInv, TemplatesTypeOK, RoundsLearn
<1>7. CASE Finish
  BY <1>1, <1>3, <1>4, <1>7 DEF Finish, report, IndInv, TemplatesTypeOK, RoundsLearn
<1>8. CASE PassBy
  <2>1. Tail(agenda) \in Seq(Placed) /\ Tail(agenda) \in Seq(Visit)
    BY <1>8, HeadPlaced DEF PassBy
  <2>2. found' \in Nat
    BY <1>1, <1>8 DEF PassBy, Count, TemplatesTypeOK
  <2>3. phase = "walk" /\ agenda' = Tail(agenda)
        /\ UNCHANGED <<phase, step, part, funcs, unknown, syntaxErrors, errors, warnings>>
    BY <1>8 DEF PassBy, report
  <2>4. TemplatesTypeOK' /\ RoundsLearn'
    BY <1>1, <1>3, <2>1, <2>2, <2>3 DEF TemplatesTypeOK, RoundsLearn
  <2>5. QED
    BY <1>1, <1>4, <2>1, <2>3, <2>4 DEF IndInv
<1>9. CASE Check
  <2>1. found' \in Nat
    BY <1>1, <1>9 DEF Check, Count, TemplatesTypeOK
  <2>2. /\ agenda # <<>> /\ phase' = "parse" /\ funcs' = Known /\ unknown' = <<>>
        /\ UNCHANGED <<step, part, agenda, syntaxErrors, errors, warnings>>
    BY <1>9 DEF Check, report
  <2>3. unknown' \in Seq(Names) /\ Len(unknown') = 0 /\ 0 <= MaxUnknown
    BY <2>2, EmptySeq, BoundAssumption
  <2>4. TemplatesTypeOK'
    BY <1>1, <1>3, <2>1, <2>2, <2>3, NamesAssumption DEF TemplatesTypeOK
  <2>5. RoundsLearn'
    BY <2>2, <2>3 DEF RoundsLearn
  <2>6. QED
    BY <1>1, <1>4, <2>2, <2>4, <2>5 DEF IndInv
<1>10. CASE Learn
  <2>1. UNCHANGED <<agenda, errors, warnings>>
    BY <1>10 DEF Learn, report
  <2>2. QED
    BY <1>1, <1>4, <1>10, <2>1, LearnStep DEF IndInv
<1>11. CASE Refuse \/ Accept \/ GiveUp
  <2>1. /\ phase' = "walk" /\ agenda' = Tail(agenda) /\ UNCHANGED <<step, part, funcs, unknown, found>>
        /\ syntaxErrors' \in Nat
        /\ errors' \in Seq(ErrorsAllowed) /\ warnings' \in Seq(WarningsAllowed)
    BY <1>11, EndsOfParse DEF BackToWalk
  <2>2. Tail(agenda) \in Seq(Placed) /\ Tail(agenda) \in Seq(Visit)
    BY <1>11, EndsOfParse, HeadPlaced
  <2>3. errors' \in Seq(Findings) /\ warnings' \in Seq(Findings)
    BY <1>2, <2>1, SeqMono
  <2>4. TemplatesTypeOK' /\ RoundsLearn'
    BY <1>1, <1>3, <2>1, <2>2, <2>3 DEF TemplatesTypeOK, RoundsLearn
  <2>5. QED
    BY <1>4, <2>1, <2>2, <2>4 DEF IndInv
<1>12. CASE UNCHANGED vars
  BY <1>1, <1>4, <1>12 DEF vars, IndInv, TemplatesTypeOK, RoundsLearn
<1>13. QED
  BY <1>5, <1>6, <1>7, <1>8, <1>9, <1>10, <1>11, <1>12 DEF Next

LEMMA InvHolds == Spec => []IndInv
<1>1. QED
  BY InvInit, InvStep, PTL DEF Spec

(* Every variable keeps its type, and no parse goes beyond its bound.       *)
THEOREM TemplatesTypeCorrect == Spec => []TemplatesTypeOK
<1>1. IndInv => TemplatesTypeOK
  BY DEF IndInv
<1>2. QED
  BY InvHolds, <1>1, PTL

(* parseGoTemplate spends a round only on a function that the text calls,   *)
(* the registry lacks and no earlier round has learnt.                      *)
THEOREM RoundsAreNotWasted == Spec => []RoundsLearn
<1>1. IndInv => RoundsLearn
  BY DEF IndInv
<1>2. QED
  BY InvHolds, <1>1, PTL

(* Whatever the texts and the option, the template rule refuses no flow for *)
(* what stands in a loop body, and warns of a function it does not know only*)
(* there or without StrictRegistries.                                       *)
THEOREM LoopBodyNeverRefuses == Spec => []SeverityByPlace
<1>1. IndInv => SeverityByPlace
  <2> SUFFICES ASSUME IndInv PROVE SeverityByPlace
    OBVIOUS
  <2>1. \A i \in 1..Len(errors) : errors[i] \in ErrorsAllowed
    BY ElementOfSeq DEF IndInv
  <2>2. \A i \in 1..Len(warnings) : warnings[i] \in WarningsAllowed
    BY ElementOfSeq DEF IndInv
  <2>3. QED
    BY <2>1, <2>2 DEF SeverityByPlace, ErrorsAllowed, WarningsAllowed
<1>2. QED
  BY InvHolds, <1>1, PTL

------------------------------------------------------------------------------
(* Sequences without repeats.                                               *)
Elements(s) == {s[i] : i \in 1..Len(s)}
Distinct(s) == \A i, j \in 1..Len(s) : s[i] = s[j] => i = j

LEMMA EmptyElements == Elements(<<>>) = {} /\ Distinct(<<>>)
BY DEF Elements, Distinct

LEMMA ConcatDistinct ==
  ASSUME NEW S, NEW a \in Seq(S), NEW b \in Seq(S)
  PROVE  /\ a \o b \in Seq(S) /\ Elements(a \o b) = Elements(a) \cup Elements(b)
         /\ (Distinct(a) /\ Distinct(b) /\ Elements(a) \cap Elements(b) = {}) => Distinct(a \o b)
<1> DEFINE c == a \o b
<1>1. /\ Len(a) \in Nat /\ Len(b) \in Nat /\ c \in Seq(S) /\ Len(c) = Len(a) + Len(b)
      /\ \A i \in 1..Len(c) : c[i] = IF i <= Len(a) THEN a[i] ELSE b[i - Len(a)]
  BY ConcatProperties, LenProperties
<1> HIDE DEF c
<1>2. /\ \A i \in 1..Len(a) : i \in 1..Len(c) /\ c[i] = a[i]
      /\ \A i \in 1..Len(b) : Len(a) + i \in 1..Len(c) /\ c[Len(a) + i] = b[i]
  <2>1. \A i \in 1..Len(a) : i \in 1..Len(c) /\ c[i] = a[i]
    BY <1>1
  <2>2. ASSUME NEW i \in 1..Len(b) PROVE Len(a) + i \in 1..Len(c) /\ c[Len(a) + i] = b[i]
    <3>1. Len(a) + i \in 1..Len(c) /\ ~(Len(a) + i <= Len(a)) /\ (Len(a) + i) - Len(a) = i
      BY <1>1
    <3> QED BY <1>1, <3>1
  <2> QED BY <2>1, <2>2
<1>3. \A i \in 1..Len(c) : \/ i \in 1..Len(a) /\ c[i] = a[i]
                           \/ i > Len(a) /\ i - Len(a) \in 1..Len(b) /\ c[i] = b[i - Len(a)]
  BY <1>1
<1>4. Elements(c) = Elements(a) \cup Elements(b)
  <2>1. Elements(c) \subseteq Elements(a) \cup Elements(b)
    BY <1>3 DEF Elements
  <2>2. Elements(a) \subseteq Elements(c) /\ Elements(b) \subseteq Elements(c)
    BY <1>2 DEF Elements
  <2> QED BY <2>1, <2>2
<1>5. ASSUME Distinct(a), Distinct(b), Elements(a) \cap Elements(b) = {}, NEW i \in 1..Len(c), NEW j \in 1..Len(c), c[i] = c[j]
      PROVE  i = j
  <2>1. \A k \in 1..Len(a) : a[k] \in Elements(a)
    BY DEF Elements
  <2>2. \A k \in 1..Len(b) : b[k] \in Elements(b)
    BY DEF Elements
  <2>3. CASE i \in 1..Len(a) /\ c[i] = a[i] /\ j \in 1..Len(a) /\ c[j] = a[j]
    BY <1>5, <2>3 DEF Distinct
  <2>4. CASE /\ i - Len(a) \in 1..Len(b) /\ c[i] = b[i - Len(a)]
             /\ j - Len(a) \in 1..Len(b) /\ c[j] = b[j - Len(a)]
    <3>1. i - Len(a) = j - Len(a)
      BY <1>5, <2>4 DEF Distinct
    <3> QED BY <1>1, <3>1
  <2> QED BY <1>3, <1>5, <2>1, <2>2, <2>3, <2>4
<1> QED BY <1>1, <1>4, <1>5 DEF c, Distinct

LEMMA TailDistinct ==
  ASSUME NEW S, NEW s \in Seq(S), s # <<>>, Distinct(s)
  PROVE  /\ Head(s) \in Elements(s) /\ Distinct(Tail(s))
         /\ Elements(Tail(s)) = Elements(s) \ {Head(s)}
<1>1. /\ Len(s) \in Nat /\ Len(s) > 0 /\ Tail(s) \in Seq(S) /\ Len(Tail(s)) = Len(s) - 1 /\ Head(s) = s[1]
      /\ \A i \in 1..Len(Tail(s)) : Tail(s)[i] = s[i + 1]
  BY HeadTailProperties, EmptySeq, LenProperties
<1>2. \A i \in 1..Len(Tail(s)) : i + 1 \in 1..Len(s) /\ i + 1 # 1
  BY <1>1
<1>3. 1 \in 1..Len(s)
  BY <1>1
<1>4. Distinct(Tail(s))
  <2> SUFFICES ASSUME NEW i \in 1..Len(Tail(s)), NEW j \in 1..Len(Tail(s)), Tail(s)[i] = Tail(s)[j] PROVE i = j
    BY DEF Distinct
  <2>1. i + 1 = j + 1
    BY <1>1, <1>2 DEF Distinct
  <2> QED BY <2>1
<1>5. Elements(Tail(s)) \subseteq Elements(s) \ {Head(s)}
  BY <1>1, <1>2, <1>3 DEF Elements, Distinct
<1>6. ASSUME NEW x \in Elements(s), x # Head(s) PROVE x \in Elements(Tail(s))
  <2>1. PICK i \in 1..Len(s) : x = s[i] /\ i # 1
    BY <1>1, <1>6 DEF Elements
  <2>2. i - 1 \in 1..Len(Tail(s)) /\ (i - 1) + 1 = i
    BY <1>1, <2>1
  <2>3. Tail(s)[i - 1] = x
    BY <1>1, <2>1, <2>2
  <2> QED BY <2>2, <2>3 DEF Elements
<1> QED BY <1>1, <1>3, <1>4, <1>5, <1>6 DEF Elements

(* A sequence without repeats has as many elements as entries.              *)
LEMMA CardDistinct ==
  ASSUME NEW S, NEW s \in Seq(S), Distinct(s)
  PROVE  IsFiniteSet(Elements(s)) /\ Cardinality(Elements(s)) = Len(s)
<1>1. Len(s) \in Nat /\ s \in [1..Len(s) -> Elements(s)]
  BY LenProperties DEF Elements
<1>2. s \in Bijection(1..Len(s), Elements(s))
  BY <1>1 DEF Distinct, Elements, Bijection, Injection, Surjection, IsInjective
<1>3. ExistsBijection(1..Len(s), Elements(s))
  BY <1>2 DEF ExistsBijection
<1> QED BY <1>1, <1>3, FS_CountingElements, FS_NatBijection

------------------------------------------------------------------------------
(* A visit tells by its kind and path the place it is at.                   *)
PartAt(subs, v) ==
  CASE v.kind = "query" -> 1
    [] v.kind = "op" -> 2
    [] v.kind \in {"subCondition", "subQuery", "subNext"} -> v.path[2] + 2
    [] v.kind = "subOp" -> v.path[2] + subs + 2
    [] v.kind = "expectation" -> 2 * subs + 3
    [] OTHER -> 2 * subs + 4
PartOf(v) == PartAt(Len(document.steps[v.path[1]].subs), v)
StepOf(v) == v.path[1]

(* Visits of one kind below one path, none twice.                           *)
StandAt(vs, kind, path) ==
  /\ vs \in Seq(Visit) /\ Distinct(vs)
  /\ \A v \in Elements(vs) : v.kind = kind /\ \A l \in 1..Len(path) : v.path[l] = path[l]

LEMMA VisitsStandAt ==
  ASSUME NEW kind \in Kinds, NEW path \in Seq(Nat), NEW value \in Value
  PROVE  StandAt(Visits(kind, path, value), kind, path)
<1> DEFINE vs == Visits(kind, path, value)
<1>1. Len(value) \in Nat /\ \A i \in 1..Len(value) : value[i] \in Text
  BY LenProperties, ElementOfSeq DEF Value
<1>2. \A i \in 1..Len(value) : /\ Append(path, i) \in Seq(Nat) /\ Append(path, i)[Len(path) + 1] = i
                               /\ \A l \in 1..Len(path) : Append(path, i)[l] = path[l]
  BY <1>1, AppendProperties, LenProperties
<1>3. /\ DOMAIN vs = 1..Len(value)
      /\ \A i \in 1..Len(value) : vs[i] = [kind |-> kind, path |-> Append(path, i), text |-> value[i]]
  BY DEF Visits
<1> HIDE DEF vs
<1>4. ASSUME NEW i \in 1..Len(value) PROVE vs[i] \in Visit /\ vs[i].kind = kind /\ vs[i].path = Append(path, i)
  <2>1. value[i] \in Text /\ Append(path, i) \in Seq(Nat)
    BY <1>1, <1>2
  <2>2. vs[i] = [kind |-> kind, path |-> Append(path, i), text |-> value[i]]
    BY <1>3
  <2> QED BY <2>1, <2>2 DEF Visit
<1>5. vs \in [1..Len(value) -> Visit]
  <2>1. vs = [i \in 1..Len(value) |-> vs[i]]
    <3>1. vs = [i \in 1..Len(value) |-> [kind |-> kind, path |-> Append(path, i), text |-> value[i]]]
      BY DEF vs, Visits
    <3> QED BY <3>1
  <2> QED BY <1>4, <2>1
<1>6. vs \in Seq(Visit) /\ Len(vs) = Len(value)
  BY <1>1, <1>5
<1>7. Distinct(vs)
  BY <1>2, <1>4, <1>6 DEF Distinct
<1>8. ASSUME NEW v \in Elements(vs) PROVE v.kind = kind /\ \A l \in 1..Len(path) : v.path[l] = path[l]
  <2>1. PICK i \in 1..Len(value) : v = vs[i]
    BY <1>6 DEF Elements
  <2>2. v.kind = kind /\ v.path = Append(path, i)
    BY <1>4, <2>1
  <2>3. \A l \in 1..Len(path) : Append(path, i)[l] = path[l]
    BY <1>2
  <2> QED BY ONLY <2>2, <2>3
<1> QED BY <1>6, <1>7, <1>8 DEF vs, StandAt

(* The visits of a part stand there, and none occurs twice.                 *)
PartFacts(n, s, k) ==
  /\ Part(n, s, k) \in Seq(Visit) /\ Distinct(Part(n, s, k))
  /\ \A v \in Elements(Part(n, s, k)) : v.path[1] = n /\ PartAt(Len(s.subs), v) = k

LEMMA PartPlaces ==
  ASSUME NEW n \in Nat, NEW s \in Step, NEW k \in 1..Parts(s)
  PROVE  PartFacts(n, s, k)
<1> DEFINE subs == Len(s.subs)
           own(i) == Visits("subCondition", <<n, i>>, s.subs[i].condition)
                       \o Visits("subQuery", <<n, i>>, s.subs[i].query)
                       \o Visits("subNext", <<n, i>>, s.subs[i].next)
<1>1. /\ s.query \in Value /\ s.ops \in Value /\ s.expectation \in Value /\ s.next \in Value
      /\ subs \in Nat /\ \A i \in 1..subs : s.subs[i] \in SubStep
  BY LenProperties, ElementOfSeq DEF Step
<1>2. ASSUME NEW kind \in {"query", "op", "expectation", "next"}, NEW value \in Value
      PROVE  /\ Visits(kind, <<n>>, value) \in Seq(Visit) /\ Distinct(Visits(kind, <<n>>, value))
             /\ \A v \in Elements(Visits(kind, <<n>>, value)) : v.kind = kind /\ v.path[1] = n
  <2>1. kind \in Kinds /\ <<n>> \in Seq(Nat) /\ 1 \in 1..Len(<<n>>) /\ <<n>>[1] = n
    BY DEF Kinds
  <2>2. StandAt(Visits(kind, <<n>>, value), kind, <<n>>)
    BY <2>1, VisitsStandAt
  <2> QED BY <2>1, <2>2 DEF StandAt
<1>3. ASSUME NEW i \in 1..subs, NEW kind \in BodyKinds, NEW value \in Value
      PROVE  /\ Visits(kind, <<n, i>>, value) \in Seq(Visit) /\ Distinct(Visits(kind, <<n, i>>, value))
             /\ \A v \in Elements(Visits(kind, <<n, i>>, value)) : v.kind = kind /\ v.path[1] = n /\ v.path[2] = i
  <2>1. /\ kind \in Kinds /\ <<n, i>> \in Seq(Nat) /\ 1 \in 1..Len(<<n, i>>) /\ 2 \in 1..Len(<<n, i>>)
        /\ <<n, i>>[1] = n /\ <<n, i>>[2] = i
    BY <1>1 DEF Kinds, BodyKinds
  <2>2. StandAt(Visits(kind, <<n, i>>, value), kind, <<n, i>>)
    BY <2>1, VisitsStandAt
  <2> QED BY <2>1, <2>2 DEF StandAt
<1>4. ASSUME NEW i \in 1..subs
      PROVE  /\ own(i) \in Seq(Visit) /\ Distinct(own(i))
             /\ \A v \in Elements(own(i)) :
                  v.kind \in {"subCondition", "subQuery", "subNext"} /\ v.path[1] = n /\ v.path[2] = i
  <2> DEFINE a == Visits("subCondition", <<n, i>>, s.subs[i].condition)
             b == Visits("subQuery", <<n, i>>, s.subs[i].query)
             c == Visits("subNext", <<n, i>>, s.subs[i].next)
  <2>1. /\ s.subs[i].condition \in Value /\ s.subs[i].query \in Value /\ s.subs[i].next \in Value
        /\ {"subCondition", "subQuery", "subNext"} \subseteq BodyKinds
    BY <1>1 DEF SubStep, BodyKinds
  <2>2. a \in Seq(Visit) /\ Distinct(a) /\ \A v \in Elements(a) : v.kind = "subCondition" /\ v.path[1] = n /\ v.path[2] = i
    BY <1>3, <2>1
  <2>3. b \in Seq(Visit) /\ Distinct(b) /\ \A v \in Elements(b) : v.kind = "subQuery" /\ v.path[1] = n /\ v.path[2] = i
    BY <1>3, <2>1
  <2>4. c \in Seq(Visit) /\ Distinct(c) /\ \A v \in Elements(c) : v.kind = "subNext" /\ v.path[1] = n /\ v.path[2] = i
    BY <1>3, <2>1
  <2> HIDE DEF a, b, c
  <2>5. Elements(a) \cap Elements(b) = {}
    BY <2>2, <2>3
  <2> DEFINE ab == a \o b
  <2>6. ab \in Seq(Visit) /\ Distinct(ab) /\ Elements(ab) = Elements(a) \cup Elements(b)
    BY <2>2, <2>3, <2>5, ConcatDistinct
  <2> HIDE DEF ab
  <2>7. Elements(ab) \cap Elements(c) = {}
    BY <2>2, <2>3, <2>4, <2>6
  <2>8. ab \o c \in Seq(Visit) /\ Distinct(ab \o c) /\ Elements(ab \o c) = Elements(ab) \cup Elements(c)
    BY <2>4, <2>6, <2>7, ConcatDistinct
  <2>9. own(i) = ab \o c
    BY DEF a, b, c, ab
  <2> HIDE DEF own
  <2> QED BY <2>2, <2>3, <2>4, <2>6, <2>8, <2>9
<1>5. ASSUME NEW i \in 1..subs
      PROVE  /\ Visits("subOp", <<n, i>>, s.subs[i].ops) \in Seq(Visit) /\ Distinct(Visits("subOp", <<n, i>>, s.subs[i].ops))
             /\ \A v \in Elements(Visits("subOp", <<n, i>>, s.subs[i].ops)) :
                  v.kind = "subOp" /\ v.path[1] = n /\ v.path[2] = i
  <2>1. s.subs[i].ops \in Value /\ "subOp" \in BodyKinds
    BY <1>1 DEF SubStep, BodyKinds
  <2> QED BY <1>3, <2>1
<1>6. \A v : /\ v.kind = "query" => PartAt(subs, v) = 1
             /\ v.kind = "op" => PartAt(subs, v) = 2
             /\ v.kind \in {"subCondition", "subQuery", "subNext"} => PartAt(subs, v) = v.path[2] + 2
             /\ v.kind = "subOp" => PartAt(subs, v) = v.path[2] + subs + 2
             /\ v.kind = "expectation" => PartAt(subs, v) = 2 * subs + 3
             /\ v.kind = "next" => PartAt(subs, v) = 2 * subs + 4
  BY DEF PartAt
<1> HIDE DEF own
<1>8. CASE k = 1
  <2>1. k \notin 3..(subs + 2) /\ k \notin (subs + 3)..(2 * subs + 2) /\ k # 2 * subs + 3 /\ k # 2
    BY <1>1, <1>8
  <2>2. Part(n, s, k) = Visits("query", <<n>>, s.query)
    BY <1>8, <2>1 DEF Part
  <2>3. /\ Visits("query", <<n>>, s.query) \in Seq(Visit) /\ Distinct(Visits("query", <<n>>, s.query))
        /\ \A v \in Elements(Visits("query", <<n>>, s.query)) : v.kind = "query" /\ v.path[1] = n
    BY <1>1, <1>2
  <2> QED BY <1>6, <1>8, <2>2, <2>3 DEF PartFacts
<1>9. CASE k = 2
  <2>1. k \notin 3..(subs + 2) /\ k \notin (subs + 3)..(2 * subs + 2) /\ k # 2 * subs + 3 /\ k # 1
    BY <1>1, <1>9
  <2>2. Part(n, s, k) = Visits("op", <<n>>, s.ops)
    BY <1>9, <2>1 DEF Part
  <2>3. /\ Visits("op", <<n>>, s.ops) \in Seq(Visit) /\ Distinct(Visits("op", <<n>>, s.ops))
        /\ \A v \in Elements(Visits("op", <<n>>, s.ops)) : v.kind = "op" /\ v.path[1] = n
    BY <1>1, <1>2
  <2> QED BY <1>6, <1>9, <2>2, <2>3 DEF PartFacts
<1>10. CASE k \in 3..(subs + 2)
  <2>1. k # 1 /\ k # 2 /\ k - 2 \in 1..subs /\ (k - 2) + 2 = k
    BY <1>1, <1>10
  <2>2. Part(n, s, k) = own(k - 2)
    BY <1>10, <2>1, SMTT(30) DEF Part, own
  <2>3. \A v \in Elements(Part(n, s, k)) : v.path[1] = n /\ PartAt(subs, v) = k
    BY <1>4, <1>6, <2>1, <2>2
  <2> QED BY <1>4, <2>1, <2>2, <2>3 DEF PartFacts
<1>11. CASE k \in (subs + 3)..(2 * subs + 2)
  <2>1. k # 1 /\ k # 2 /\ k \notin 3..(subs + 2) /\ k - subs - 2 \in 1..subs /\ (k - subs - 2) + subs + 2 = k
    BY <1>1, <1>11
  <2>2. Part(n, s, k) = Visits("subOp", <<n, k - subs - 2>>, s.subs[k - subs - 2].ops)
    BY <1>11, <2>1 DEF Part
  <2>3. \A v \in Elements(Part(n, s, k)) : v.path[1] = n /\ PartAt(subs, v) = k
    BY <1>5, <1>6, <2>1, <2>2
  <2> QED BY <1>5, <2>1, <2>2, <2>3 DEF PartFacts
<1>12. CASE k = 2 * subs + 3
  <2>1. k # 1 /\ k # 2 /\ k \notin 3..(subs + 2) /\ k \notin (subs + 3)..(2 * subs + 2)
    BY <1>1, <1>12
  <2>2. Part(n, s, k) = Visits("expectation", <<n>>, s.expectation)
    BY <1>12, <2>1 DEF Part
  <2>3. /\ Visits("expectation", <<n>>, s.expectation) \in Seq(Visit) /\ Distinct(Visits("expectation", <<n>>, s.expectation))
        /\ \A v \in Elements(Visits("expectation", <<n>>, s.expectation)) : v.kind = "expectation" /\ v.path[1] = n
    BY <1>1, <1>2
  <2> QED BY <1>6, <1>12, <2>2, <2>3 DEF PartFacts
<1>13. CASE k = 2 * subs + 4
  <2>1. k # 1 /\ k # 2 /\ k \notin 3..(subs + 2) /\ k \notin (subs + 3)..(2 * subs + 2) /\ k # 2 * subs + 3
    BY <1>1, <1>13
  <2>2. Part(n, s, k) = Visits("next", <<n>>, s.next)
    BY <2>1 DEF Part
  <2>3. /\ Visits("next", <<n>>, s.next) \in Seq(Visit) /\ Distinct(Visits("next", <<n>>, s.next))
        /\ \A v \in Elements(Visits("next", <<n>>, s.next)) : v.kind = "next" /\ v.path[1] = n
    BY <1>1, <1>2
  <2> QED BY <1>6, <1>13, <2>2, <2>3 DEF PartFacts
<1>14. k = 1 \/ k = 2 \/ k \in 3..(subs + 2) \/ k \in (subs + 3)..(2 * subs + 2) \/ k = 2 * subs + 3
       \/ k = 2 * subs + 4
  BY <1>1 DEF Parts
<1> QED BY <1>8, <1>9, <1>10, <1>11, <1>12, <1>13, <1>14

------------------------------------------------------------------------------
(* The walk: what lies ahead of the open part, and what it is done with.    *)
PartSet(n, k) == Elements(Part(n, document.steps[n], k))
Ahead == {v \in AllVisits : StepOf(v) > step \/ (StepOf(v) = step /\ PartOf(v) > part)}
Done == AllVisits \ (Elements(agenda) \cup Ahead)

WalkInv ==
  /\ step <= Len(document.steps) => part <= Parts(document.steps[step])
  /\ step > Len(document.steps) => part = 0
  /\ part = 0 => agenda = <<>>
  /\ Distinct(agenda)
  /\ \A v \in Elements(agenda) : v \in AllVisits /\ StepOf(v) = step /\ PartOf(v) = part
  /\ phase = "done" => step > Len(document.steps) /\ agenda = <<>>
  /\ phase = "parse" => IsChecked(Head(agenda))

LEMMA StepsShape ==
  ASSUME IndInv
  PROVE  /\ Len(document.steps) \in Nat /\ step \in 1..(Len(document.steps) + 1) /\ part \in Nat
         /\ \A n \in 1..Len(document.steps) : document.steps[n] \in Step /\ Parts(document.steps[n]) \in Nat \ {0}
<1>1. document.steps \in Seq(Step) /\ Len(document.steps) \in Nat /\ step \in 1..(Len(document.steps) + 1) /\ part \in Nat
  BY LenProperties DEF IndInv, TemplatesTypeOK
<1>2. \A n \in 1..Len(document.steps) : document.steps[n] \in Step
  BY <1>1, ElementOfSeq
<1>3. \A s \in Step : Parts(s) \in Nat \ {0}
  BY LenProperties DEF Parts, Step
<1> QED BY <1>1, <1>2, <1>3

LEMMA VisitPlaces ==
  ASSUME IndInv
  PROVE  /\ \A v \in AllVisits : /\ v \in Visit /\ StepOf(v) \in 1..Len(document.steps)
                                 /\ PartOf(v) \in 1..Parts(document.steps[StepOf(v)])
         /\ \A n \in 1..Len(document.steps) : \A k \in 1..Parts(document.steps[n]) :
              /\ Part(n, document.steps[n], k) \in Seq(Visit) /\ Distinct(Part(n, document.steps[n], k))
              /\ \A v : v \in PartSet(n, k) <=> v \in AllVisits /\ StepOf(v) = n /\ PartOf(v) = k
<1>1. \A n \in 1..Len(document.steps) : n \in Nat /\ document.steps[n] \in Step
  BY StepsShape
<1>2. \A n \in 1..Len(document.steps) : \A k \in 1..Parts(document.steps[n]) : PartFacts(n, document.steps[n], k)
  BY <1>1, PartPlaces
<1>3. \A n \in 1..Len(document.steps) : \A k \in 1..Parts(document.steps[n]) :
        \A v \in PartSet(n, k) : StepOf(v) = n /\ PartOf(v) = k
  BY <1>2 DEF PartFacts, PartSet, StepOf, PartOf
<1>4. \A v : v \in AllVisits <=>
               \E n \in 1..Len(document.steps) : \E k \in 1..Parts(document.steps[n]) : v \in PartSet(n, k)
  <2>1. AllVisits = UNION {UNION {PartSet(n, k) : k \in 1..Parts(document.steps[n])} : n \in 1..Len(document.steps)}
    BY DEF AllVisits, PartSet, Elements
  <2> QED BY <2>1
<1>5. \A n \in 1..Len(document.steps) : \A k \in 1..Parts(document.steps[n]) : PartSet(n, k) \subseteq Visit
  <2> TAKE n \in 1..Len(document.steps)
  <2> TAKE k \in 1..Parts(document.steps[n])
  <2>1. Part(n, document.steps[n], k) \in Seq(Visit)
    BY <1>2 DEF PartFacts
  <2> QED BY <2>1, ElementOfSeq DEF PartSet, Elements
<1>6. ASSUME NEW v \in AllVisits
      PROVE  /\ v \in Visit /\ StepOf(v) \in 1..Len(document.steps)
             /\ PartOf(v) \in 1..Parts(document.steps[StepOf(v)])
             /\ v \in PartSet(StepOf(v), PartOf(v))
  <2>1. PICK n \in 1..Len(document.steps) : \E k \in 1..Parts(document.steps[n]) : v \in PartSet(n, k)
    BY <1>4
  <2>2. PICK k \in 1..Parts(document.steps[n]) : v \in PartSet(n, k)
    BY <2>1
  <2> QED BY <1>3, <1>5, <2>2
<1>7. ASSUME NEW n \in 1..Len(document.steps), NEW k \in 1..Parts(document.steps[n]), NEW v
      PROVE  v \in PartSet(n, k) <=> v \in AllVisits /\ StepOf(v) = n /\ PartOf(v) = k
  <2>1. v \in PartSet(n, k) => v \in AllVisits /\ StepOf(v) = n /\ PartOf(v) = k
    BY <1>3, <1>4
  <2>2. v \in AllVisits /\ StepOf(v) = n /\ PartOf(v) = k => v \in PartSet(n, k)
    BY <1>6
  <2> QED BY <2>1, <2>2
<1> QED BY <1>2, <1>6, <1>7 DEF PartFacts

(* What a visit is does not change.                                         *)
LEMMA PlacesKept ==
  ASSUME document' = document
  PROVE  AllVisits' = AllVisits /\ \A v : StepOf(v)' = StepOf(v) /\ PartOf(v)' = PartOf(v)
BY DEF AllVisits, Part, StepOf, PartOf

LEMMA WalkInit == IndInv /\ Init => WalkInv /\ Done = {}
<1> SUFFICES ASSUME IndInv, Init PROVE WalkInv /\ Done = {}
  OBVIOUS
<1>1. phase = "walk" /\ step = 1 /\ part = 0 /\ agenda = <<>>
  BY DEF Init
<1>2. WalkInv
  BY <1>1, EmptyElements, StepsShape DEF WalkInv
<1>3. \A v \in AllVisits : v \in Ahead
  <2> TAKE v \in AllVisits
  <2>1. StepOf(v) \in 1..Len(document.steps) /\ PartOf(v) \in 1..Parts(document.steps[StepOf(v)])
    BY VisitPlaces
  <2>2. Parts(document.steps[StepOf(v)]) \in Nat /\ Len(document.steps) \in Nat
    BY <2>1, StepsShape
  <2>3. StepOf(v) > 1 \/ (StepOf(v) = 1 /\ PartOf(v) > 0)
    BY <2>1, <2>2
  <2> QED BY <1>1, <2>3 DEF Ahead
<1> QED BY <1>2, <1>3 DEF Done

LEMMA OpenPartWalk == IndInv /\ WalkInv /\ OpenPart => WalkInv' /\ Done' = Done
<1> SUFFICES ASSUME IndInv, WalkInv, OpenPart PROVE WalkInv' /\ Done' = Done
  OBVIOUS
<1>1. /\ phase = "walk" /\ phase' = "walk" /\ agenda = <<>> /\ step' = step /\ part' = part + 1 /\ document' = document
      /\ step <= Len(document.steps) /\ part < Parts(document.steps[step])
      /\ agenda' = Part(step, document.steps[step], part')
  BY DEF OpenPart
<1>2. step \in 1..Len(document.steps) /\ part' \in 1..Parts(document.steps[step]) /\ part \in Nat /\ part' # 0
      /\ part' <= Parts(document.steps[step])
  BY <1>1, StepsShape
<1>3. /\ Elements(agenda)' = PartSet(step, part') /\ Distinct(agenda')
      /\ \A v : v \in PartSet(step, part') <=> v \in AllVisits /\ StepOf(v) = step /\ PartOf(v) = part'
  BY <1>1, <1>2, VisitPlaces DEF PartSet, Elements
<1>4. /\ AllVisits' = AllVisits /\ \A v : StepOf(v)' = StepOf(v) /\ PartOf(v)' = PartOf(v)
  BY <1>1, PlacesKept
<1>5. WalkInv'
  BY <1>1, <1>2, <1>3, <1>4 DEF WalkInv
<1>6. Elements(agenda)' \cup Ahead' = Elements(agenda) \cup Ahead
  <2>1. \A v \in AllVisits : PartOf(v) \in Nat
    <3> TAKE v \in AllVisits
    <3>1. StepOf(v) \in 1..Len(document.steps) /\ PartOf(v) \in 1..Parts(document.steps[StepOf(v)])
      BY VisitPlaces
    <3> QED BY <3>1
  <2>2. \A v \in AllVisits : PartOf(v) > part <=> PartOf(v) > part' \/ PartOf(v) = part'
    BY <1>1, <1>2, <2>1
  <2>3. Ahead' = {v \in AllVisits : StepOf(v) > step \/ (StepOf(v) = step /\ PartOf(v) > part')}
    BY <1>1, <1>4 DEF Ahead
  <2>4. Elements(agenda) = {}
    BY <1>1, EmptyElements
  <2> QED BY <1>3, <2>2, <2>3, <2>4 DEF Ahead
<1> QED BY <1>4, <1>5, <1>6 DEF Done

LEMMA NextStepWalk == IndInv /\ WalkInv /\ NextStep => WalkInv' /\ Done' = Done
<1> SUFFICES ASSUME IndInv, WalkInv, NextStep PROVE WalkInv' /\ Done' = Done
  OBVIOUS
<1>1. /\ phase = "walk" /\ phase' = "walk" /\ agenda = <<>> /\ agenda' = agenda /\ step' = step + 1 /\ part' = 0
      /\ document' = document /\ step <= Len(document.steps) /\ part = Parts(document.steps[step])
  BY DEF NextStep
<1>2. step \in 1..Len(document.steps) /\ Len(document.steps) \in Nat
  BY <1>1, StepsShape
<1>3. step' <= Len(document.steps) => 0 <= Parts(document.steps[step'])
  <2>1. step' <= Len(document.steps) => step' \in 1..Len(document.steps)
    BY <1>1, <1>2
  <2> QED BY <2>1, StepsShape
<1>4. /\ AllVisits' = AllVisits /\ \A v : StepOf(v)' = StepOf(v) /\ PartOf(v)' = PartOf(v)
  BY <1>1, PlacesKept
<1>5. Elements(agenda)' = {} /\ Elements(agenda) = {} /\ Distinct(agenda)'
  BY <1>1, EmptyElements DEF Distinct, Elements
<1>6. WalkInv'
  BY <1>1, <1>3, <1>5 DEF WalkInv
<1>7. \A v \in AllVisits :
        (StepOf(v) > step \/ (StepOf(v) = step /\ PartOf(v) > part)) <=> (StepOf(v) > step' \/ (StepOf(v) = step' /\ PartOf(v) > 0))
  <2> TAKE v \in AllVisits
  <2>1. StepOf(v) \in 1..Len(document.steps) /\ PartOf(v) \in 1..Parts(document.steps[StepOf(v)])
    BY VisitPlaces
  <2>2. Parts(document.steps[StepOf(v)]) \in Nat
    BY <2>1, StepsShape
  <2>3. StepOf(v) = step => ~(PartOf(v) > part)
    BY <1>1, <2>1, <2>2
  <2>4. PartOf(v) > 0 /\ StepOf(v) \in Nat
    BY <2>1, <2>2
  <2> QED BY <1>1, <1>2, <2>3, <2>4
<1>8. Ahead' = Ahead
  BY <1>1, <1>4, <1>7 DEF Ahead
<1> QED BY <1>4, <1>5, <1>6, <1>8 DEF Done

(* The walk leaves the leaf it is at.                                       *)
LEMMA LeaveWalk ==
  ASSUME IndInv, WalkInv, phase' = "walk", agenda # <<>>, agenda' = Tail(agenda), UNCHANGED <<document, step, part>>
  PROVE  /\ WalkInv' /\ Done' = Done \cup {Head(agenda)} /\ Head(agenda) \notin Done /\ Head(agenda) \in AllVisits
<1>1. agenda \in Seq(Visit)
  BY DEF IndInv, TemplatesTypeOK
<1>2. /\ Head(agenda) \in Elements(agenda) /\ Distinct(agenda')
      /\ Elements(agenda)' = Elements(agenda) \ {Head(agenda)}
  BY <1>1, TailDistinct DEF WalkInv, Elements
<1>3. /\ AllVisits' = AllVisits /\ \A v : StepOf(v)' = StepOf(v) /\ PartOf(v)' = PartOf(v)
  BY PlacesKept
<1>4. Ahead' = Ahead
  BY <1>3 DEF Ahead
<1>5. WalkInv'
  BY <1>2, <1>3 DEF WalkInv
<1>6. Head(agenda) \in AllVisits /\ Head(agenda) \notin Ahead
  <2>1. Head(agenda) \in AllVisits /\ StepOf(Head(agenda)) = step /\ PartOf(Head(agenda)) = part
    BY <1>2 DEF WalkInv
  <2>2. ~(step > step) /\ ~(part > part)
    BY StepsShape
  <2> QED BY <2>1, <2>2 DEF Ahead
<1> QED BY <1>2, <1>3, <1>4, <1>5, <1>6 DEF Done

LEMMA WalkStep ==
  ASSUME IndInv, WalkInv, [Next]_vars
  PROVE  /\ WalkInv' /\ document' = document /\ AllVisits' = AllVisits
         /\ (PassBy \/ Refuse \/ Accept \/ GiveUp) =>
              Done' = Done \cup {Head(agenda)} /\ Head(agenda) \notin Done /\ Head(agenda) \in AllVisits
         /\ ~(PassBy \/ Refuse \/ Accept \/ GiveUp) => Done' = Done
<1>1. document' = document
  BY DEF Next, vars, OpenPart, NextStep, Finish, PassBy, Check, Learn, Refuse, Accept, GiveUp, BackToWalk
<1>2. AllVisits' = AllVisits
  BY <1>1, PlacesKept
<1>3. CASE PassBy \/ Refuse \/ Accept \/ GiveUp
  <2>1. phase' = "walk" /\ agenda # <<>> /\ agenda' = Tail(agenda) /\ UNCHANGED <<document, step, part>>
    BY <1>3, EndsOfParse DEF PassBy, BackToWalk
  <2> QED BY <1>1, <1>2, <1>3, <2>1, LeaveWalk
<1>4. CASE UNCHANGED <<document, step, part, agenda>> /\ (phase' = "done" => step > Len(document.steps) /\ agenda = <<>>)
             /\ (phase' = "parse" => IsChecked(Head(agenda)))
  <2>1. WalkInv'
    BY <1>4, PlacesKept DEF WalkInv, Elements, Distinct, IsChecked
  <2>2. Done' = Done
    BY <1>4, PlacesKept DEF Done, Ahead, Elements
  <2>3. ~(PassBy \/ Refuse \/ Accept \/ GiveUp)
    <3>1. ASSUME PassBy \/ Refuse \/ Accept \/ GiveUp PROVE FALSE
      <4>1. agenda # <<>> /\ agenda' = Tail(agenda)
        BY <3>1, EndsOfParse DEF PassBy, BackToWalk
      <4>2. agenda \in Seq(Visit) /\ Len(Tail(agenda)) # Len(agenda)
        BY <4>1, HeadTailProperties, LenProperties DEF IndInv, TemplatesTypeOK
      <4> QED BY <1>4, <4>1, <4>2
    <3> QED BY <3>1
  <2> QED BY <1>1, <1>2, <2>1, <2>2, <2>3
<1>5. CASE OpenPart \/ NextStep
  <2>1. ~(PassBy \/ Refuse \/ Accept \/ GiveUp)
    BY <1>5 DEF OpenPart, NextStep, PassBy, Refuse, Accept, GiveUp, Round
  <2> QED BY <1>1, <1>2, <1>5, <2>1, OpenPartWalk, NextStepWalk
<1>6. ASSUME Finish \/ Check \/ Learn \/ UNCHANGED vars
      PROVE  UNCHANGED <<document, step, part, agenda>> /\ (phase' = "done" => step > Len(document.steps) /\ agenda = <<>>)
             /\ (phase' = "parse" => IsChecked(Head(agenda)))
  BY <1>6 DEF Finish, Check, Learn, Round, vars, WalkInv
<1> QED BY <1>3, <1>4, <1>5, <1>6 DEF Next

------------------------------------------------------------------------------
(* What each end of a parse says of the text.                               *)
Stubs == Elements(unknown)

LEMMA Learnt ==
  ASSUME IndInv, phase = "parse"
  PROVE  /\ Head(agenda).text \in Text /\ Len(ToParse) \in Nat /\ Len(unknown) \in Nat /\ MaxUnknown \in Nat
         /\ funcs = Known \cup Stubs /\ funcs \subseteq Names /\ Distinct(unknown) /\ unknown \in Seq(Names)
         /\ Stubs \subseteq UnknownNames(Head(agenda).text)
         /\ IsFiniteSet(Stubs) /\ Cardinality(Stubs) = Len(unknown)
         /\ IsFiniteSet(UnknownNames(Head(agenda).text)) /\ Cardinality(UnknownNames(Head(agenda).text)) \in Nat
<1>1. /\ Head(agenda).text \in Text /\ unknown \in Seq(Names) /\ Len(unknown) \in Nat /\ MaxUnknown \in Nat
      /\ funcs \subseteq Names
  BY HeadPlaced, BoundAssumption, LenProperties DEF IndInv, TemplatesTypeOK
<1>2. ToParse \in Seq(Names \cup {Broken}) /\ Len(ToParse) \in Nat
  BY <1>1, LenProperties DEF ToParse, Text
<1>3. /\ funcs = Known \cup Stubs /\ Stubs \subseteq UnknownNames(Head(agenda).text)
      /\ \A i \in 1..Len(unknown) : \A j \in 1..(i - 1) : unknown[j] # unknown[i]
  BY DEF IndInv, RoundsLearn, Stubs, Elements
<1>4. Distinct(unknown)
  <2> SUFFICES ASSUME NEW i \in 1..Len(unknown), NEW j \in 1..Len(unknown), i # j PROVE unknown[i] # unknown[j]
    BY DEF Distinct
  <2>1. j \in 1..(i - 1) \/ i \in 1..(j - 1)
    BY <1>1
  <2> QED BY <1>3, <2>1
<1>5. IsFiniteSet(Stubs) /\ Cardinality(Stubs) = Len(unknown)
  BY <1>1, <1>4, CardDistinct DEF Stubs
<1>6. IsFiniteSet(UnknownNames(Head(agenda).text))
  <2> DEFINE tokens == [i \in 1..Len(ToParse) |-> ToParse[i]]
             all == {ToParse[i] : i \in 1..Len(ToParse)}
  <2>1. tokens \in Surjection(1..Len(ToParse), all)
    BY DEF Surjection
  <2>2. IsFiniteSet(1..Len(ToParse))
    BY <1>2, FS_Interval
  <2>3. IsFiniteSet(all)
    <3> HIDE DEF all, tokens
    <3> QED BY <2>1, <2>2, FS_Surjection
  <2>4. UnknownNames(Head(agenda).text) \in SUBSET all
    BY DEF UnknownNames, Legible, ToParse
  <2> QED BY <2>3, <2>4, FS_Subset
<1> QED BY <1>1, <1>2, <1>3, <1>4, <1>5, <1>6, FS_CardinalityType

(* What can be read up to some token shows no unknown function but those    *)
(* with a stub.                                                             *)
LEMMA ReadSoFar ==
  ASSUME IndInv, phase = "parse", NEW n \in 0..Len(ToParse), Readable(n),
         n = Len(ToParse) \/ ToParse[n + 1] = Broken
  PROVE  Legible(Head(agenda).text) = 1..n /\ UnknownNames(Head(agenda).text) = Stubs
<1>1. /\ funcs = Known \cup Stubs /\ Broken \notin funcs /\ Len(ToParse) \in Nat
      /\ Stubs \subseteq UnknownNames(Head(agenda).text)
  BY Learnt, NamesAssumption
<1>2. \A j \in 1..n : ToParse[j] \in funcs
  BY DEF Readable
<1>3. Legible(Head(agenda).text) = {i \in 1..Len(ToParse) : \A j \in 1..i : ToParse[j] # Broken}
  BY DEF Legible, ToParse
<1>4. \A i \in 1..n : i \in 1..Len(ToParse) /\ \A j \in 1..i : j \in 1..n
  BY <1>1
<1>5. ASSUME NEW i \in 1..Len(ToParse), \A j \in 1..i : ToParse[j] # Broken PROVE i \in 1..n
  <2>1. CASE n = Len(ToParse)
    BY <2>1
  <2>2. CASE ToParse[n + 1] = Broken
    <3>1. n + 1 \notin 1..i
      BY <1>5, <2>2
    <3> QED BY <1>1, <3>1
  <2> QED BY <2>1, <2>2
<1>6. Legible(Head(agenda).text) = 1..n
  BY <1>1, <1>2, <1>3, <1>4, <1>5
<1>7. UnknownNames(Head(agenda).text) = {ToParse[i] : i \in 1..n} \ Known
  BY <1>6 DEF UnknownNames, ToParse
<1> QED BY <1>1, <1>2, <1>6, <1>7

LEMMA RefuseMeans == IndInv /\ Refuse => IsRefused(Head(agenda).text)
<1> SUFFICES ASSUME IndInv, Refuse PROVE IsRefused(Head(agenda).text)
  OBVIOUS
<1>1. phase = "parse" /\ Len(unknown) < MaxUnknown /\ StopsAt(Broken)
  BY DEF Refuse, Round
<1>2. PICK i \in 1..Len(ToParse) : ToParse[i] = Broken /\ Readable(i - 1)
  BY <1>1 DEF StopsAt
<1>3. Len(ToParse) \in Nat
  BY <1>1, Learnt
<1>4. i - 1 \in 0..Len(ToParse) /\ (i - 1) + 1 = i /\ i - 1 \in Nat /\ i - 1 < Len(ToParse)
  BY <1>3
<1>5. Legible(Head(agenda).text) = 1..(i - 1) /\ UnknownNames(Head(agenda).text) = Stubs
  BY <1>1, <1>2, <1>4, ReadSoFar
<1>6. Cardinality(Legible(Head(agenda).text)) = i - 1
  <2>1. Cardinality(1..(i - 1)) = IF 1 > i - 1 THEN 0 ELSE (i - 1) - 1 + 1
    BY <1>4, FS_Interval
  <2> QED BY <1>4, <1>5, <2>1
<1>7. ~(Cardinality(UnknownNames(Head(agenda).text)) >= MaxUnknown)
  BY <1>1, <1>5, Learnt
<1> QED BY <1>4, <1>6, <1>7 DEF IsRefused, IsExhausting, ToParse

LEMMA AcceptMeans ==
  IndInv /\ Accept => IsAccepted(Head(agenda).text) /\ UnknownNames(Head(agenda).text) = Stubs
<1> SUFFICES ASSUME IndInv, Accept PROVE IsAccepted(Head(agenda).text) /\ UnknownNames(Head(agenda).text) = Stubs
  OBVIOUS
<1>1. phase = "parse" /\ Len(unknown) < MaxUnknown /\ Readable(Len(ToParse))
  BY DEF Accept, Round
<1>2. Len(ToParse) \in Nat /\ Len(ToParse) \in 0..Len(ToParse)
  BY <1>1, Learnt
<1>3. Legible(Head(agenda).text) = 1..Len(ToParse) /\ UnknownNames(Head(agenda).text) = Stubs
  BY <1>1, <1>2, ReadSoFar
<1>4. Cardinality(Legible(Head(agenda).text)) = Len(ToParse)
  <2>1. Cardinality(1..Len(ToParse)) = IF 1 > Len(ToParse) THEN 0 ELSE Len(ToParse) - 1 + 1
    BY <1>2, FS_Interval
  <2> QED BY <1>2, <1>3, <2>1
<1>5. ~(Cardinality(UnknownNames(Head(agenda).text)) >= MaxUnknown)
  BY <1>1, <1>3, Learnt
<1>6. ~(Len(ToParse) < Len(ToParse))
  BY <1>2
<1> QED BY <1>3, <1>4, <1>5, <1>6 DEF IsAccepted, IsRefused, IsExhausting, ToParse

LEMMA GiveUpMeans ==
  IndInv /\ GiveUp =>
    /\ IsExhausting(Head(agenda).text) /\ Stubs \subseteq UnknownNames(Head(agenda).text)
    /\ Cardinality(Stubs) = MaxUnknown
<1> SUFFICES ASSUME IndInv, GiveUp
             PROVE  /\ IsExhausting(Head(agenda).text) /\ Stubs \subseteq UnknownNames(Head(agenda).text)
                    /\ Cardinality(Stubs) = MaxUnknown
  OBVIOUS
<1>1. phase = "parse" /\ Len(unknown) = MaxUnknown
  BY DEF GiveUp
<1>2. /\ Stubs \in SUBSET UnknownNames(Head(agenda).text) /\ Cardinality(Stubs) = MaxUnknown
      /\ IsFiniteSet(UnknownNames(Head(agenda).text)) /\ MaxUnknown \in Nat
      /\ Cardinality(UnknownNames(Head(agenda).text)) \in Nat
  BY <1>1, Learnt
<1>3. Cardinality(Stubs) <= Cardinality(UnknownNames(Head(agenda).text))
  BY <1>2, FS_Subset
<1> QED BY <1>2, <1>3 DEF IsExhausting

------------------------------------------------------------------------------
(* The counters count the leaves the walk is done with, found already the   *)
(* one under way.                                                           *)
Counted == IF phase = "parse" THEN Done \cup {Head(agenda)} ELSE Done
TemplatesIn(S) == {v \in S : v.text.template}
ConditionsIn(S) == {v \in S : IsCondition(v)}
RefusedIn(S) == {v \in S : IsChecked(v) /\ IsRefused(v.text)}
CountInv ==
  /\ IsFiniteSet(Done)
  /\ found = Cardinality(TemplatesIn(Counted)) + Cardinality(ConditionsIn(Counted))
  /\ syntaxErrors = Cardinality(RefusedIn(Done))

LEMMA FiltersFinite ==
  ASSUME NEW S, IsFiniteSet(S)
  PROVE  /\ IsFiniteSet(TemplatesIn(S)) /\ IsFiniteSet(ConditionsIn(S)) /\ IsFiniteSet(RefusedIn(S))
         /\ Cardinality(TemplatesIn(S)) \in Nat /\ Cardinality(ConditionsIn(S)) \in Nat /\ Cardinality(RefusedIn(S)) \in Nat
<1>1. TemplatesIn(S) \in SUBSET S /\ ConditionsIn(S) \in SUBSET S /\ RefusedIn(S) \in SUBSET S
  BY DEF TemplatesIn, ConditionsIn, RefusedIn
<1>2. IsFiniteSet(TemplatesIn(S)) /\ IsFiniteSet(ConditionsIn(S)) /\ IsFiniteSet(RefusedIn(S))
  BY <1>1, FS_Subset
<1> QED BY <1>2, FS_CardinalityType

LEMMA OneMore ==
  ASSUME NEW S, IsFiniteSet(S), NEW v, v \notin S
  PROVE  /\ IsFiniteSet(S \cup {v})
         /\ Cardinality(TemplatesIn(S \cup {v})) = Cardinality(TemplatesIn(S)) + Count(v.text.template)
         /\ Cardinality(ConditionsIn(S \cup {v})) = Cardinality(ConditionsIn(S)) + Count(IsCondition(v))
         /\ Cardinality(RefusedIn(S \cup {v})) = Cardinality(RefusedIn(S)) + Count(IsChecked(v) /\ IsRefused(v.text))
<1>0. IsFiniteSet(S \cup {v})
  BY FS_AddElement
<1>1. /\ TemplatesIn(S \cup {v}) = IF v.text.template THEN TemplatesIn(S) \cup {v} ELSE TemplatesIn(S)
      /\ ConditionsIn(S \cup {v}) = IF IsCondition(v) THEN ConditionsIn(S) \cup {v} ELSE ConditionsIn(S)
      /\ RefusedIn(S \cup {v}) = IF IsChecked(v) /\ IsRefused(v.text) THEN RefusedIn(S) \cup {v} ELSE RefusedIn(S)
  BY DEF TemplatesIn, ConditionsIn, RefusedIn
<1>2. v \notin TemplatesIn(S) /\ v \notin ConditionsIn(S) /\ v \notin RefusedIn(S)
  BY DEF TemplatesIn, ConditionsIn, RefusedIn
<1>3. ASSUME NEW A, IsFiniteSet(A), v \notin A PROVE Cardinality(A \cup {v}) = Cardinality(A) + 1 /\ Cardinality(A) \in Nat
  BY <1>3, FS_AddElement, FS_CardinalityType
<1>4. Cardinality(TemplatesIn(S \cup {v})) = Cardinality(TemplatesIn(S)) + Count(v.text.template)
  BY <1>1, <1>2, <1>3, FiltersFinite DEF Count
<1>5. Cardinality(ConditionsIn(S \cup {v})) = Cardinality(ConditionsIn(S)) + Count(IsCondition(v))
  BY <1>1, <1>2, <1>3, FiltersFinite DEF Count
<1>6. Cardinality(RefusedIn(S \cup {v})) = Cardinality(RefusedIn(S)) + Count(IsChecked(v) /\ IsRefused(v.text))
  BY <1>1, <1>2, <1>3, FiltersFinite DEF Count
<1> QED BY <1>0, <1>4, <1>5, <1>6

LEMMA CountStep == IndInv /\ WalkInv /\ CountInv /\ [Next]_vars => CountInv'
<1> SUFFICES ASSUME IndInv, WalkInv, CountInv, [Next]_vars PROVE CountInv'
  OBVIOUS
<1> DEFINE head == Head(agenda)
<1>1. /\ IsFiniteSet(Done) /\ syntaxErrors = Cardinality(RefusedIn(Done)) /\ IsFiniteSet(Counted)
      /\ found = Cardinality(TemplatesIn(Counted)) + Cardinality(ConditionsIn(Counted))
  BY FS_AddElement DEF CountInv, Counted
<1>2. SUFFICES /\ IsFiniteSet(Done') /\ syntaxErrors' = Cardinality(RefusedIn(Done'))
               /\ found' = Cardinality(TemplatesIn(Counted')) + Cardinality(ConditionsIn(Counted'))
  BY DEF CountInv, RefusedIn, TemplatesIn, ConditionsIn, IsChecked, IsCondition, IsRefused, IsExhausting, Legible, UnknownNames
<1>3. /\ (PassBy \/ Refuse \/ Accept \/ GiveUp) => Done' = Done \cup {head} /\ head \notin Done
      /\ ~(PassBy \/ Refuse \/ Accept \/ GiveUp) => Done' = Done
  BY WalkStep
<1>4. /\ Cardinality(TemplatesIn(Done)) \in Nat /\ Cardinality(ConditionsIn(Done)) \in Nat
      /\ Cardinality(RefusedIn(Done)) \in Nat
  BY <1>1, FiltersFinite
<1>5. CASE OpenPart \/ NextStep \/ Finish \/ Learn \/ UNCHANGED vars
  <2>1. ~(PassBy \/ Refuse \/ Accept \/ GiveUp) \/ UNCHANGED vars
    BY <1>5 DEF OpenPart, NextStep, Finish, Learn, PassBy, Refuse, Accept, GiveUp, BackToWalk, Round
  <2>2. UNCHANGED <<found, syntaxErrors>>
    BY <1>5 DEF OpenPart, NextStep, Finish, Learn, vars, report
  <2>3. ~(PassBy \/ Refuse \/ Accept \/ GiveUp)
    <3>1. ASSUME PassBy \/ Refuse \/ Accept \/ GiveUp PROVE ~UNCHANGED vars
      <4>1. agenda # <<>> /\ agenda' = Tail(agenda)
        BY <3>1, EndsOfParse DEF PassBy, BackToWalk
      <4>2. agenda \in Seq(Visit) /\ Len(Tail(agenda)) # Len(agenda)
        BY <4>1, HeadTailProperties, LenProperties DEF IndInv, TemplatesTypeOK
      <4> QED BY <4>1, <4>2 DEF vars
    <3> QED BY <2>1, <3>1
  <2>4. Done' = Done
    BY <1>3, <2>3
  <2>5. Counted' = Counted
    <3>1. CASE Learn \/ UNCHANGED vars
      BY <2>4, <3>1 DEF Learn, Counted, vars
    <3>2. CASE OpenPart \/ NextStep \/ Finish
      BY <2>4, <3>2 DEF OpenPart, NextStep, Finish, Counted
    <3> QED BY <1>5, <3>1, <3>2
  <2> QED BY <1>1, <2>2, <2>4, <2>5
<1>6. CASE PassBy
  <2>1. /\ Counted = Done /\ Counted' = Done' /\ Done' = Done \cup {head} /\ head \notin Done /\ ~IsChecked(head)
        /\ found' = found + Count(IsCondition(head)) + Count(head.text.template) /\ syntaxErrors' = syntaxErrors
    BY <1>3, <1>6 DEF PassBy, Counted, report
  <2>2. Count(IsCondition(head)) \in Nat /\ Count(head.text.template) \in Nat /\ Count(IsChecked(head) /\ IsRefused(head.text)) = 0
    BY <2>1 DEF Count
  <2> HIDE DEF head
  <2>3. /\ IsFiniteSet(Done')
        /\ Cardinality(TemplatesIn(Done')) = Cardinality(TemplatesIn(Done)) + Count(head.text.template)
        /\ Cardinality(ConditionsIn(Done')) = Cardinality(ConditionsIn(Done)) + Count(IsCondition(head))
        /\ Cardinality(RefusedIn(Done')) = Cardinality(RefusedIn(Done)) + 0
    BY <1>1, <2>1, <2>2, OneMore
  <2> QED BY <1>1, <1>4, <2>1, <2>2, <2>3
<1>7. CASE Check
  <2>1. ~(PassBy \/ Refuse \/ Accept \/ GiveUp)
    BY <1>7 DEF Check, PassBy, Refuse, Accept, GiveUp, Round
  <2>2. /\ Counted = Done /\ Done' = Done /\ Counted' = Done \cup {head} /\ head.text.template
        /\ found' = found + Count(IsCondition(head)) + 1 /\ syntaxErrors' = syntaxErrors
    BY <1>3, <1>7, <2>1 DEF Check, Counted, report, IsChecked
  <2>3. head \notin Done
    <3>1. agenda \in Seq(Visit) /\ agenda # <<>>
      BY <1>7 DEF Check, IndInv, TemplatesTypeOK
    <3>2. head \in Elements(agenda)
      BY <3>1, TailDistinct DEF WalkInv
    <3> QED BY <3>2 DEF Done
  <2>4. Count(IsCondition(head)) \in Nat /\ Count(head.text.template) = 1
    BY <2>2 DEF Count
  <2> HIDE DEF head
  <2>5. /\ Cardinality(TemplatesIn(Counted')) = Cardinality(TemplatesIn(Done)) + 1
        /\ Cardinality(ConditionsIn(Counted')) = Cardinality(ConditionsIn(Done)) + Count(IsCondition(head))
    BY <1>1, <2>2, <2>3, <2>4, OneMore
  <2> QED BY <1>1, <1>4, <2>2, <2>4, <2>5
<1>8. CASE Refuse \/ Accept \/ GiveUp
  <2>1. /\ phase = "parse" /\ phase' = "walk" /\ found' = found /\ Done' = Done \cup {head} /\ head \notin Done
    BY <1>3, <1>8, EndsOfParse DEF Refuse, Accept, GiveUp, Round, BackToWalk
  <2>2. Counted' = Counted /\ IsChecked(head)
    BY <2>1 DEF Counted, WalkInv
  <2>3. syntaxErrors' = syntaxErrors + Count(IsChecked(head) /\ IsRefused(head.text))
    <3>1. CASE Refuse
      BY <2>2, <3>1, RefuseMeans DEF Refuse, Count
    <3>2. CASE Accept \/ GiveUp
      <4>1. ~IsRefused(head.text) /\ syntaxErrors' = syntaxErrors
        BY <3>2, AcceptMeans, GiveUpMeans DEF Accept, GiveUp, IsAccepted, IsRefused
      <4> QED BY <1>1, <1>4, <4>1 DEF Count
    <3> QED BY <1>8, <3>1, <3>2
  <2> HIDE DEF head
  <2>4. /\ IsFiniteSet(Done')
        /\ Cardinality(RefusedIn(Done')) = Cardinality(RefusedIn(Done)) + Count(IsChecked(head) /\ IsRefused(head.text))
    BY <1>1, <2>1, OneMore
  <2> QED BY <1>1, <2>1, <2>2, <2>3, <2>4
<1> QED BY <1>5, <1>6, <1>7, <1>8 DEF Next

(* When the walk is done, it is done with every visit.                      *)
LEMMA AllDone == IndInv /\ WalkInv /\ phase = "done" => Done = AllVisits
<1> SUFFICES ASSUME IndInv, WalkInv, phase = "done", NEW v \in AllVisits PROVE v \notin Elements(agenda) /\ v \notin Ahead
  BY DEF Done
<1>1. step > Len(document.steps) /\ agenda = <<>>
  BY DEF WalkInv
<1>2. StepOf(v) \in 1..Len(document.steps) /\ Len(document.steps) \in Nat /\ step \in 1..(Len(document.steps) + 1)
  BY VisitPlaces, StepsShape
<1>3. ~(StepOf(v) > step) /\ ~(StepOf(v) = step)
  BY <1>1, <1>2
<1> QED BY <1>1, <1>3, EmptyElements DEF Ahead

LEMMA CountInit == IndInv /\ Init => CountInv
<1> SUFFICES ASSUME IndInv, Init PROVE CountInv
  OBVIOUS
<1>1. Done = {} /\ Counted = {} /\ found = 0 /\ syntaxErrors = 0
  BY WalkInit DEF Init, Counted
<1>2. TemplatesIn({}) = {} /\ ConditionsIn({}) = {} /\ RefusedIn({}) = {}
  BY DEF TemplatesIn, ConditionsIn, RefusedIn
<1> QED BY <1>1, <1>2, FS_EmptySet DEF CountInv

(* The summary counts every template once and every condition once more,    *)
(* and as syntax errors just the templates that do not parse, so that the   *)
(* number of valid ones never leaves out a template that parses.            *)
THEOREM SummaryCounts == Spec => []CountsExact
<1>1. IndInv /\ WalkInv /\ CountInv => CountsExact
  <2> SUFFICES ASSUME IndInv, WalkInv, CountInv, phase = "done" PROVE CountsExact
    BY DEF CountsExact
  <2> DEFINE valid == {v \in AllVisits : IsChecked(v) /\ ~IsRefused(v.text)}
  <2>1. /\ Done = AllVisits /\ Counted = AllVisits /\ IsFiniteSet(AllVisits)
        /\ found = Cardinality(TemplatesIn(AllVisits)) + Cardinality(ConditionsIn(AllVisits))
        /\ syntaxErrors = Cardinality(RefusedIn(AllVisits))
    BY AllDone DEF CountInv, Counted
  <2>2. /\ IsFiniteSet(TemplatesIn(AllVisits)) /\ IsFiniteSet(RefusedIn(AllVisits))
        /\ Cardinality(TemplatesIn(AllVisits)) \in Nat /\ Cardinality(ConditionsIn(AllVisits)) \in Nat
        /\ Cardinality(RefusedIn(AllVisits)) \in Nat
    BY <2>1, FiltersFinite
  <2>3. valid \in SUBSET TemplatesIn(AllVisits) /\ RefusedIn(AllVisits) \in SUBSET TemplatesIn(AllVisits)
        /\ valid \cap RefusedIn(AllVisits) = {}
    BY DEF TemplatesIn, RefusedIn, IsChecked
  <2> HIDE DEF valid
  <2>4. IsFiniteSet(valid) /\ Cardinality(valid) \in Nat
    BY <2>2, <2>3, FS_Subset, FS_CardinalityType
  <2>5. Cardinality(valid \cup RefusedIn(AllVisits)) = Cardinality(valid) + Cardinality(RefusedIn(AllVisits))
    BY <2>2, <2>3, <2>4, FS_Union, FS_EmptySet
  <2>6. Cardinality(valid \cup RefusedIn(AllVisits)) <= Cardinality(TemplatesIn(AllVisits))
    <3>1. valid \cup RefusedIn(AllVisits) \in SUBSET TemplatesIn(AllVisits)
      BY <2>3
    <3> QED BY <2>2, <3>1, FS_Subset
  <2>7. found - syntaxErrors >= Cardinality(valid)
    BY <2>1, <2>2, <2>4, <2>5, <2>6
  <2> QED BY <2>1, <2>7 DEF CountsExact, TemplatesIn, ConditionsIn, RefusedIn, valid
<1>2. Init => IndInv /\ WalkInv /\ CountInv
  BY InvInit, WalkInit, CountInit
<1>3. IndInv /\ WalkInv /\ CountInv /\ [Next]_vars => IndInv' /\ WalkInv' /\ CountInv'
  BY InvStep, WalkStep, CountStep
<1> QED BY <1>1, <1>2, <1>3, PTL DEF Spec

------------------------------------------------------------------------------
(* The report: what the leaves the walk is done with have got.              *)
Filed(v) == {f \in Raised : f.at = v}
NamesIn(F) == {f.name : f \in {g \in F : g.code = "template_function_unknown"}}
Deserved(v, F) ==
  /\ {f.code : f \in F} = CodesAt(v)
  /\ IF IsExhausting(v.text) THEN NamesIn(F) \subseteq UnknownNames(v.text) /\ Cardinality(NamesIn(F)) = MaxUnknown
     ELSE IsRefused(v.text) \/ NamesIn(F) = UnknownNames(v.text)
Separate == Distinct(errors) /\ Distinct(warnings) /\ Elements(errors) \cap Elements(warnings) = {}
ReportInv ==
  /\ Separate
  /\ \A f \in Raised : f.at \in Done /\ IsChecked(f.at)
  /\ \A v \in Done : IsChecked(v) => Deserved(v, Filed(v))

LEMMA RaisedElements == Raised = Elements(errors) \cup Elements(warnings)
BY DEF Raised, Elements

LEMMA OnlyElements ==
  ASSUME NEW S, NEW b \in BOOLEAN, NEW f \in S
  PROVE  Only(b, f) \in Seq(S) /\ Distinct(Only(b, f)) /\ Elements(Only(b, f)) = IF b THEN {f} ELSE {}
<1>1. CASE b
  <2>1. Only(b, f) = <<f>> /\ <<f>> \in Seq(S) /\ Len(<<f>>) = 1 /\ <<f>>[1] = f
    BY <1>1 DEF Only
  <2>2. \A i \in 1..1 : i = 1
    OBVIOUS
  <2>3. Elements(<<f>>) = {f} /\ Distinct(<<f>>)
    BY <2>1, <2>2 DEF Elements, Distinct
  <2> QED BY <1>1, <2>1, <2>3
<1>2. CASE ~b
  BY <1>2, EmptyElements, EmptySeq DEF Only
<1> QED BY <1>1, <1>2

LEMMA UnknownsElements ==
  ASSUME IndInv, phase = "parse"
  PROVE  /\ Unknowns \in Seq(Findings) /\ Distinct(Unknowns)
         /\ \A f \in Elements(Unknowns) : f.at = Head(agenda) /\ f.code = "template_function_unknown"
         /\ {f.name : f \in Elements(Unknowns)} = Stubs
<1>1. unknown \in Seq(Names) /\ Len(unknown) \in Nat /\ Distinct(unknown)
  BY Learnt
<1>2. Len(Unknowns) = Len(unknown) /\ \A i \in 1..Len(unknown) : Unknowns[i] = Finding("template_function_unknown", unknown[i])
  BY <1>1 DEF Unknowns
<1>3. agenda # <<>> /\ Unknowns \in Seq(Functions) /\ Functions \subseteq Findings
  BY FindingHere DEF IndInv, TemplatesTypeOK, Functions, Here
<1>4. Unknowns \in Seq(Findings)
  BY <1>3, SeqMono
<1>5. Distinct(Unknowns)
  <2> SUFFICES ASSUME NEW i \in 1..Len(unknown), NEW j \in 1..Len(unknown), Unknowns[i] = Unknowns[j] PROVE i = j
    BY <1>2 DEF Distinct
  <2>1. Finding("template_function_unknown", unknown[i]) = Finding("template_function_unknown", unknown[j])
    BY <1>2
  <2>2. unknown[i] = unknown[j]
    BY <2>1 DEF Finding
  <2> QED BY <1>1, <2>2 DEF Distinct
<1>6. /\ Elements(Unknowns) = {Unknowns[i] : i \in 1..Len(unknown)} /\ Stubs = {unknown[i] : i \in 1..Len(unknown)}
      /\ \A i \in 1..Len(unknown) : /\ Unknowns[i].name = unknown[i] /\ Unknowns[i].at = Head(agenda)
                                   /\ Unknowns[i].code = "template_function_unknown"
  <2>1. Elements(Unknowns) = {Unknowns[i] : i \in 1..Len(unknown)} /\ Stubs = {unknown[i] : i \in 1..Len(unknown)}
    BY <1>2, Zenon DEF Elements, Stubs
  <2>2. \A n : LET f == Finding("template_function_unknown", n)
               IN  f.name = n /\ f.at = Head(agenda) /\ f.code = "template_function_unknown"
    BY DEF Finding
  <2> QED BY <1>2, <2>1, <2>2
<1>7. {f.name : f \in Elements(Unknowns)} = Stubs
  BY <1>6
<1> QED BY <1>4, <1>5, <1>6, <1>7

(* What is filed is added, and stays without repeats.                       *)
Joint(a, b, c) ==
  /\ Distinct(a) /\ Distinct(b) /\ Distinct(c)
  /\ Elements(a) \cap Elements(b) = {} /\ Elements(a) \cap Elements(c) = {} /\ Elements(b) \cap Elements(c) = {}

LEMMA ConcatThree ==
  ASSUME NEW S, NEW a \in Seq(S), NEW b \in Seq(S), NEW c \in Seq(S), Joint(a, b, c)
  PROVE  /\ a \o b \o c \in Seq(S) /\ Distinct(a \o b \o c)
         /\ Elements(a \o b \o c) = Elements(a) \cup Elements(b) \cup Elements(c)
<1> DEFINE ab == a \o b
<1>1. ab \in Seq(S) /\ Distinct(ab) /\ Elements(ab) = Elements(a) \cup Elements(b)
  BY ConcatDistinct DEF Joint
<1> HIDE DEF ab
<1>2. Elements(ab) \cap Elements(c) = {} /\ Distinct(c)
  BY <1>1 DEF Joint
<1>3. /\ ab \o c \in Seq(S) /\ Elements(ab \o c) = Elements(ab) \cup Elements(c) /\ Distinct(ab \o c)
  BY <1>1, <1>2, ConcatDistinct
<1> QED BY <1>1, <1>3 DEF ab

LEMMA FilingAdds ==
  ASSUME IndInv, Separate,
         NEW positional \in Seq(Findings), NEW functions \in Seq(Findings), NEW always \in Seq(Findings),
         Joint(positional, functions, always), FileFindings(positional, functions, always),
         (Elements(positional) \cup Elements(functions) \cup Elements(always)) \cap Raised = {}
  PROVE  /\ Separate'
         /\ Raised' = Raised \cup (Elements(positional) \cup Elements(functions) \cup Elements(always))
<1>1. /\ errors \in Seq(Findings) /\ warnings \in Seq(Findings) /\ <<>> \in Seq(Findings)
      /\ Elements(<<>>) = {} /\ Distinct(<<>>)
  BY EmptyElements, EmptySeq DEF IndInv, TemplatesTypeOK
<1>2. /\ Distinct(errors) /\ Distinct(warnings) /\ Elements(errors) \cap Elements(warnings) = {}
      /\ Raised = Elements(errors) \cup Elements(warnings)
  BY RaisedElements DEF Separate
<1>3. /\ Distinct(positional) /\ Distinct(functions) /\ Distinct(always)
      /\ Elements(positional) \cap Elements(functions) = {} /\ Elements(positional) \cap Elements(always) = {}
      /\ Elements(functions) \cap Elements(always) = {}
  BY DEF Joint
<1>4. Raised' = Elements(errors') \cup Elements(warnings')
  BY DEF Raised, Elements
<1>5. SUFFICES /\ Distinct(errors') /\ Distinct(warnings') /\ Elements(errors') \cap Elements(warnings') = {}
               /\ Elements(errors') \cup Elements(warnings')
                    = Raised \cup (Elements(positional) \cup Elements(functions) \cup Elements(always))
  <2>1. Separate' <=> Distinct(errors') /\ Distinct(warnings') /\ Elements(errors') \cap Elements(warnings') = {}
    BY DEF Separate, Distinct, Elements
  <2> QED BY <1>4, <2>1
<1>6. CASE IsDemoted(Head(agenda))
  <2> DEFINE wpa == warnings \o positional \o always
  <2>1. errors' = errors /\ warnings' = wpa \o functions
    BY <1>6 DEF FileFindings
  <2>2. Joint(warnings, positional, always)
    BY <1>2, <1>3 DEF Joint
  <2>3. /\ wpa \in Seq(Findings) /\ Distinct(wpa)
        /\ Elements(wpa) = Elements(warnings) \cup Elements(positional) \cup Elements(always)
    BY <1>1, <2>2, ConcatThree
  <2> HIDE DEF wpa
  <2>4. Elements(wpa) \cap Elements(functions) = {}
    BY <1>2, <1>3, <2>3
  <2>5. Elements(wpa \o functions) = Elements(wpa) \cup Elements(functions) /\ Distinct(wpa \o functions)
    BY <1>3, <2>3, <2>4, ConcatDistinct
  <2> QED BY <1>2, <1>3, <2>1, <2>3, <2>5
<1>7. ASSUME ~IsDemoted(Head(agenda)), NEW hard \in Seq(Findings), NEW soft \in Seq(Findings),
             errors' = errors \o positional \o hard, warnings' = warnings \o always \o soft,
             (hard = functions /\ soft = <<>>) \/ (hard = <<>> /\ soft = functions)
      PROVE  /\ Distinct(errors') /\ Distinct(warnings') /\ Elements(errors') \cap Elements(warnings') = {}
             /\ Elements(errors') \cup Elements(warnings')
                  = Raised \cup (Elements(positional) \cup Elements(functions) \cup Elements(always))
  <2>1. /\ Distinct(hard) /\ Distinct(soft) /\ Elements(hard) \cup Elements(soft) = Elements(functions)
        /\ Elements(hard) \cap Elements(soft) = {}
    BY <1>1, <1>3, <1>7
  <2>2. Joint(errors, positional, hard)
    BY <1>2, <1>3, <2>1 DEF Joint
  <2>3. Joint(warnings, always, soft)
    BY <1>2, <1>3, <2>1 DEF Joint
  <2>4. Distinct(errors') /\ Elements(errors') = Elements(errors) \cup Elements(positional) \cup Elements(hard)
    BY <1>1, <1>7, <2>2, ConcatThree
  <2>5. Distinct(warnings') /\ Elements(warnings') = Elements(warnings) \cup Elements(always) \cup Elements(soft)
    BY <1>1, <1>7, <2>3, ConcatThree
  <2> QED BY <1>2, <1>3, <2>1, <2>4, <2>5
<1>8. CASE ~IsDemoted(Head(agenda)) /\ document.strict
  BY <1>1, <1>7, <1>8 DEF FileFindings
<1>9. CASE ~IsDemoted(Head(agenda)) /\ ~document.strict
  BY <1>1, <1>7, <1>9 DEF FileFindings
<1> QED BY <1>6, <1>8, <1>9

(* Each end of a parse files what the text deserves, and nothing else.      *)
EndFiles(new) ==
  /\ Separate' /\ Raised' = Raised \cup new
  /\ \A f \in new : f.at = Head(agenda)
  /\ Deserved(Head(agenda), new)

LEMMA RefuseReport ==
  ASSUME IndInv, Separate, \A f \in Raised : f.at # Head(agenda), Refuse
  PROVE  \E new : EndFiles(new)
<1> DEFINE f == Finding("template_syntax_error", NoName)
<1>1. /\ FileFindings(<<f>>, <<>>, <<>>) /\ IsRefused(Head(agenda).text) /\ f.at = Head(agenda) /\ f.code = "template_syntax_error"
      /\ agenda # <<>>
  BY RefuseMeans, EndsOfParse DEF Refuse, Finding
<1>2. f \in Findings
  BY <1>1, FindingHere DEF Positional, Here
<1> HIDE DEF f
<1>3. /\ Only(TRUE, f) = <<f>> /\ <<f>> \in Seq(Findings) /\ Distinct(<<f>>) /\ Elements(<<f>>) = {f}
  <2>1. Only(TRUE, f) = <<f>>
    BY DEF Only
  <2> QED BY <1>2, <2>1, OnlyElements
<1>4. <<>> \in Seq(Findings) /\ Elements(<<>>) = {} /\ Distinct(<<>>)
  BY EmptySeq, EmptyElements
<1>5. Joint(<<f>>, <<>>, <<>>)
  BY <1>3, <1>4 DEF Joint
<1>6. (Elements(<<f>>) \cup Elements(<<>>) \cup Elements(<<>>)) \cap Raised = {}
  BY <1>1, <1>3, <1>4
<1>7. Separate' /\ Raised' = Raised \cup (Elements(<<f>>) \cup Elements(<<>>) \cup Elements(<<>>))
  BY <1>1, <1>3, <1>4, <1>5, <1>6, FilingAdds
<1>8. Deserved(Head(agenda), {f})
  <2>1. CodesAt(Head(agenda)) = {"template_syntax_error"} /\ ~IsExhausting(Head(agenda).text)
    BY <1>1 DEF CodesAt, IsAccepted, IsRefused
  <2> QED BY <1>1, <2>1 DEF Deserved
<1>9. EndFiles({f})
  BY <1>1, <1>3, <1>4, <1>7, <1>8 DEF EndFiles
<1> QED BY <1>9

LEMMA AcceptReport ==
  ASSUME IndInv, Separate, \A f \in Raised : f.at # Head(agenda), Accept
  PROVE  \E new : EndFiles(new)
<1> DEFINE head == Head(agenda)
           p == Finding("template_default_piped", NoName)
           a == Finding("human_answer_field", NoName)
           piped == head.text.piped
           asks == head.text.asks /\ unknown = <<>>
           us == Elements(Unknowns)
           new == (IF piped THEN {p} ELSE {}) \cup us \cup (IF asks THEN {a} ELSE {})
<1>1. /\ FileFindings(Only(piped, p), Unknowns, Only(asks, a)) /\ agenda # <<>> /\ phase = "parse"
      /\ IsAccepted(head.text) /\ UnknownNames(head.text) = Stubs
  BY AcceptMeans, EndsOfParse DEF Accept, Round
<1>2. /\ p \in Findings /\ a \in Findings /\ piped \in BOOLEAN /\ asks \in BOOLEAN
      /\ p.at = head /\ a.at = head /\ p.code = "template_default_piped" /\ a.code = "human_answer_field"
  BY <1>1, FindingHere, HeadPlaced DEF Positional, Answers, Here, Text, Finding
<1>3. /\ \A f \in us : f.at = head /\ f.code = "template_function_unknown"
      /\ Unknowns \in Seq(Findings) /\ Distinct(Unknowns)
  BY <1>1, UnknownsElements
<1>4. {f.name : f \in us} = Stubs
  BY <1>1, UnknownsElements
<1>5. asks <=> head.text.asks /\ Stubs = {}
  <2>1. unknown \in Seq(Names) /\ Len(unknown) \in Nat
    BY <1>1, Learnt
  <2>2. unknown = <<>> <=> Stubs = {}
    <3>1. unknown = <<>> => Stubs = {}
      BY EmptyElements DEF Stubs
    <3>2. ASSUME unknown # <<>> PROVE Stubs # {}
      <4>1. 1 \in 1..Len(unknown)
        BY <2>1, <3>2, EmptySeq
      <4> QED BY <4>1 DEF Stubs, Elements
    <3> QED BY <3>1, <3>2
  <2> QED BY <2>2
<1>6. CodesAt(head) = (IF Stubs # {} THEN {"template_function_unknown"} ELSE {})
                        \cup (IF piped THEN {"template_default_piped"} ELSE {})
                        \cup (IF asks THEN {"human_answer_field"} ELSE {})
  <2>1. ~IsRefused(head.text)
    BY <1>1 DEF IsAccepted
  <2> HIDE DEF head
  <2>2. CodesAt(head) = (IF Stubs # {} THEN {"template_function_unknown"} ELSE {})
                          \cup (IF head.text.piped THEN {"template_default_piped"} ELSE {})
                          \cup (IF head.text.asks /\ Stubs = {} THEN {"human_answer_field"} ELSE {})
    BY <1>1, <2>1 DEF CodesAt
  <2> HIDE DEF asks
  <2> QED BY <1>5, <2>2
<1>7. ~IsExhausting(head.text)
  BY <1>1 DEF IsAccepted
<1> HIDE DEF head, p, a, piped, asks
<1>8. /\ Only(piped, p) \in Seq(Findings) /\ Distinct(Only(piped, p)) /\ Elements(Only(piped, p)) = IF piped THEN {p} ELSE {}
      /\ Only(asks, a) \in Seq(Findings) /\ Distinct(Only(asks, a)) /\ Elements(Only(asks, a)) = IF asks THEN {a} ELSE {}
  BY <1>2, OnlyElements
<1>9. us = {} <=> Stubs = {}
  BY <1>4
<1> HIDE DEF us
<1>10. Joint(Only(piped, p), Unknowns, Only(asks, a))
  BY <1>2, <1>3, <1>8 DEF Joint, us
<1>11. Elements(Only(piped, p)) \cup Elements(Unknowns) \cup Elements(Only(asks, a)) = new
  BY <1>3, <1>8 DEF us
<1>12. \A f \in new : f.at = head
  BY <1>2, <1>3
<1>13. \A f \in Raised : f.at # head
  BY DEF head
<1>14. (Elements(Only(piped, p)) \cup Elements(Unknowns) \cup Elements(Only(asks, a))) \cap Raised = {}
  BY <1>11, <1>12, <1>13
<1>15. Separate' /\ Raised' = Raised \cup new
  BY <1>1, <1>3, <1>8, <1>10, <1>11, <1>14, FilingAdds
<1>16. {f.code : f \in new} = CodesAt(head)
  BY <1>2, <1>3, <1>6, <1>9
<1>17. NamesIn(new) = Stubs
  <2>1. {g \in new : g.code = "template_function_unknown"} = us
    BY <1>2, <1>3
  <2> HIDE DEF new
  <2> QED BY <1>4, <2>1 DEF NamesIn
<1>18. Deserved(head, new)
  BY <1>1, <1>7, <1>16, <1>17 DEF Deserved
<1>19. EndFiles(new)
  <2> HIDE DEF new
  <2> QED BY <1>12, <1>15, <1>18 DEF EndFiles, head
<1> QED BY <1>19

LEMMA GiveUpReport ==
  ASSUME IndInv, Separate, \A f \in Raised : f.at # Head(agenda), GiveUp
  PROVE  \E new : EndFiles(new)
<1> DEFINE head == Head(agenda)
           us == Elements(Unknowns)
<1>1. /\ FileFindings(<<>>, Unknowns, <<>>) /\ agenda # <<>> /\ phase = "parse"
      /\ IsExhausting(head.text) /\ Stubs \subseteq UnknownNames(head.text) /\ Cardinality(Stubs) = MaxUnknown
  BY GiveUpMeans, EndsOfParse DEF GiveUp
<1>2. /\ \A f \in us : f.at = head /\ f.code = "template_function_unknown"
      /\ Unknowns \in Seq(Findings) /\ Distinct(Unknowns)
  BY <1>1, UnknownsElements
<1>3. {f.name : f \in us} = Stubs
  BY <1>1, UnknownsElements
<1>4. Stubs # {} /\ us # {}
  <2>1. Stubs # {}
    BY <1>1, BoundAssumption, FS_EmptySet
  <2> QED BY <1>3, <2>1
<1>5. CodesAt(head) = {"template_function_unknown"}
  <2>1. ~IsRefused(head.text) /\ ~IsAccepted(head.text) /\ UnknownNames(head.text) # {}
    BY <1>1, <1>4 DEF IsAccepted, IsRefused
  <2> QED BY <2>1 DEF CodesAt
<1> HIDE DEF head, us
<1>6. <<>> \in Seq(Findings) /\ Elements(<<>>) = {} /\ Distinct(<<>>)
  BY EmptySeq, EmptyElements
<1>7. Joint(<<>>, Unknowns, <<>>)
  BY <1>2, <1>6 DEF Joint
<1>8. \A f \in Raised : f.at # head
  BY DEF head
<1>9. Elements(<<>>) \cup Elements(Unknowns) \cup Elements(<<>>) = us
  BY <1>2, <1>6 DEF us
<1>10. (Elements(<<>>) \cup Elements(Unknowns) \cup Elements(<<>>)) \cap Raised = {}
  BY <1>2, <1>8, <1>9
<1>11. Separate' /\ Raised' = Raised \cup us
  <2>1. Separate' /\ Raised' = Raised \cup (Elements(<<>>) \cup Elements(Unknowns) \cup Elements(<<>>))
    BY <1>1, <1>2, <1>6, <1>7, <1>10, FilingAdds
  <2> QED BY <1>9, <2>1
<1>12. {f.code : f \in us} = CodesAt(head)
  BY <1>2, <1>4, <1>5
<1>13. NamesIn(us) = Stubs
  <2>1. {g \in us : g.code = "template_function_unknown"} = us
    BY <1>2
  <2> QED BY <1>3, <2>1 DEF NamesIn
<1>14. Deserved(head, us)
  BY <1>1, <1>12, <1>13 DEF Deserved
<1>15. EndFiles(us)
  BY <1>2, <1>11, <1>14 DEF EndFiles, head
<1> QED BY <1>15

(* What a leaf deserves does not change.                                    *)
LEMMA ReportPrimed ==
  ASSUME Separate', \A f \in Raised' : f.at \in Done' /\ IsChecked(f.at),
         \A v \in Done' : IsChecked(v) => Deserved(v, {f \in Raised' : f.at = v})
  PROVE  ReportInv'
BY DEF ReportInv, Filed, IsChecked, Deserved, CodesAt, NamesIn, IsAccepted, IsRefused, IsExhausting, Legible, UnknownNames

LEMMA ReportInit == IndInv /\ Init => ReportInv
<1> SUFFICES ASSUME IndInv, Init PROVE ReportInv
  OBVIOUS
<1>1. Done = {} /\ errors = <<>> /\ warnings = <<>>
  BY WalkInit DEF Init
<1>2. Elements(errors) = {} /\ Elements(warnings) = {} /\ Distinct(errors) /\ Distinct(warnings)
  BY <1>1, EmptyElements
<1> QED BY <1>1, <1>2, RaisedElements DEF ReportInv, Separate

LEMMA EndReport ==
  ASSUME IndInv, WalkInv, ReportInv, Refuse \/ Accept \/ GiveUp
  PROVE  ReportInv'
<1> DEFINE head == Head(agenda)
<1>1. /\ Done' = Done \cup {head} /\ head \notin Done /\ IsChecked(head)
  <2>1. phase = "parse"
    BY DEF Refuse, Accept, GiveUp, Round
  <2> QED BY <2>1, WalkStep DEF WalkInv, Next
<1>2. Separate /\ \A f \in Raised : f.at # head
  BY <1>1 DEF ReportInv
<1>3. \E new : EndFiles(new)
  BY <1>2, RefuseReport, AcceptReport, GiveUpReport
<1>4. PICK new : EndFiles(new)
  BY <1>3
<1>5. /\ Separate' /\ Raised' = Raised \cup new /\ Deserved(head, new)
      /\ \A f \in new : f.at = head
  BY <1>4 DEF EndFiles
<1>6. /\ \A f \in Raised : f.at \in Done /\ IsChecked(f.at)
      /\ \A v \in Done : IsChecked(v) => Deserved(v, Filed(v))
  BY DEF ReportInv
<1> HIDE DEF head
<1>7. \A f \in Raised' : f.at \in Done' /\ IsChecked(f.at)
  BY <1>1, <1>5, <1>6
<1>8. {f \in Raised' : f.at = head} = new
  BY <1>1, <1>5, <1>6
<1>9. \A v \in Done : {f \in Raised' : f.at = v} = Filed(v)
  BY <1>1, <1>5 DEF Filed
<1>10. ASSUME NEW v \in Done', IsChecked(v) PROVE Deserved(v, {f \in Raised' : f.at = v})
  BY <1>1, <1>5, <1>6, <1>8, <1>9, <1>10
<1> QED BY <1>5, <1>7, <1>10, ReportPrimed

LEMMA ReportStep == IndInv /\ WalkInv /\ ReportInv /\ [Next]_vars => ReportInv'
<1> SUFFICES ASSUME IndInv, WalkInv, ReportInv, [Next]_vars PROVE ReportInv'
  OBVIOUS
<1>1. CASE Refuse \/ Accept \/ GiveUp
  BY <1>1, EndReport
<1>2. CASE OpenPart \/ NextStep \/ Finish \/ PassBy \/ Check \/ Learn \/ UNCHANGED vars
  <2>1. errors' = errors /\ warnings' = warnings
    BY <1>2 DEF OpenPart, NextStep, Finish, PassBy, Check, Learn, vars, report
  <2>2. Raised' = Raised /\ Separate'
    <3>1. Raised' = Raised
      BY <2>1 DEF Raised
    <3>2. /\ Distinct(errors)' = Distinct(errors) /\ Elements(errors)' = Elements(errors)
          /\ Distinct(warnings)' = Distinct(warnings) /\ Elements(warnings)' = Elements(warnings)
      BY <2>1 DEF Distinct, Elements
    <3> QED BY <3>1, <3>2 DEF ReportInv, Separate
  <2>3. Done' = Done \/ (Done' = Done \cup {Head(agenda)} /\ ~IsChecked(Head(agenda)))
    <3>1. CASE PassBy
      BY <3>1, WalkStep DEF PassBy
    <3>2. CASE OpenPart \/ NextStep \/ Finish \/ Check \/ Learn \/ UNCHANGED vars
      <4>1. CASE PassBy \/ Refuse \/ Accept \/ GiveUp
        <5>1. agenda # <<>> /\ agenda' = Tail(agenda)
          BY <4>1, EndsOfParse DEF PassBy, BackToWalk
        <5>2. agenda \in Seq(Visit) /\ Len(Tail(agenda)) # Len(agenda)
          BY <5>1, HeadTailProperties, LenProperties DEF IndInv, TemplatesTypeOK
        <5>3. agenda = <<>> \/ agenda' = agenda
          BY <3>2 DEF OpenPart, NextStep, Finish, Check, Learn, vars
        <5> QED BY <5>1, <5>2, <5>3
      <4>2. CASE ~(PassBy \/ Refuse \/ Accept \/ GiveUp)
        BY <4>2, WalkStep
      <4> QED BY <4>1, <4>2
    <3> QED BY <1>2, <3>1, <3>2
  <2>4. \A f \in Raised' : f.at \in Done' /\ IsChecked(f.at)
    BY <2>2, <2>3 DEF ReportInv
  <2>5. \A v \in Done' : IsChecked(v) => Deserved(v, {f \in Raised' : f.at = v})
    BY <2>2, <2>3 DEF ReportInv, Filed
  <2> QED BY <2>2, <2>4, <2>5, ReportPrimed
<1> QED BY <1>1, <1>2 DEF Next

(* When the rule returns every template has got the findings it deserves,   *)
(* each once, and no other leaf has got any.                                *)
THEOREM ReportsAreExact == Spec => []ReportsExact
<1>1. IndInv /\ WalkInv /\ ReportInv => ReportsExact
  <2> SUFFICES ASSUME IndInv, WalkInv, ReportInv, phase = "done" PROVE ReportsExact
    BY DEF ReportsExact
  <2> DEFINE checked == {w \in AllVisits : IsChecked(w)}
  <2>1. /\ \A f \in Raised : f.at \in checked
        /\ \A v \in checked : Deserved(v, Filed(v))
    BY AllDone DEF ReportInv
  <2>2. Cardinality(Raised) = Len(errors) + Len(warnings)
    <3>1. /\ errors \in Seq(Findings) /\ warnings \in Seq(Findings) /\ Distinct(errors) /\ Distinct(warnings)
          /\ Elements(errors) \cap Elements(warnings) = {} /\ Len(errors) \in Nat /\ Len(warnings) \in Nat
      BY LenProperties DEF IndInv, TemplatesTypeOK, ReportInv, Separate
    <3>2. /\ IsFiniteSet(Elements(errors)) /\ Cardinality(Elements(errors)) = Len(errors)
          /\ IsFiniteSet(Elements(warnings)) /\ Cardinality(Elements(warnings)) = Len(warnings)
      BY <3>1, CardDistinct
    <3>3. Cardinality(Elements(errors) \cup Elements(warnings))
            = Cardinality(Elements(errors)) + Cardinality(Elements(warnings)) - Cardinality({})
      BY <3>1, <3>2, FS_Union
    <3>4. Cardinality({}) = 0
      BY FS_EmptySet
    <3> QED BY <3>1, <3>2, <3>3, <3>4, RaisedElements
  <2>3. \A v \in checked : {f.code : f \in Filed(v)} = CodesAt(v)
    BY <2>1 DEF Deserved
  <2>4. {[at |-> f.at, code |-> f.code] : f \in Raised} = UNION {{[at |-> v, code |-> c] : c \in CodesAt(v)} : v \in checked}
    <3> DEFINE said == {[at |-> f.at, code |-> f.code] : f \in Raised}
               due == UNION {{[at |-> v, code |-> c] : c \in CodesAt(v)} : v \in checked}
    <3>1. ASSUME NEW f \in Raised PROVE [at |-> f.at, code |-> f.code] \in due
      <4>1. f.at \in checked /\ f \in Filed(f.at)
        BY <2>1 DEF Filed
      <4>2. f.code \in CodesAt(f.at)
        BY <2>3, <4>1
      <4> QED BY <4>1, <4>2
    <3>2. ASSUME NEW v \in checked, NEW c \in CodesAt(v) PROVE [at |-> v, code |-> c] \in said
      <4>1. PICK f \in Filed(v) : f.code = c
        BY <2>3
      <4>2. f \in Raised /\ f.at = v
        BY DEF Filed
      <4> QED BY <4>1, <4>2
    <3>3. said \subseteq due
      <4> HIDE DEF due
      <4> QED BY <3>1
    <3>4. due \subseteq said
      <4> HIDE DEF said
      <4> QED BY <3>2
    <3> HIDE DEF said, due
    <3>5. said = due
      BY <3>3, <3>4
    <3> QED BY <3>5 DEF said, due
  <2>5. ASSUME NEW v \in checked
        PROVE  LET names == {f.name : f \in {g \in Raised : g.at = v /\ g.code = "template_function_unknown"}} IN
               IF IsExhausting(v.text) THEN names \subseteq UnknownNames(v.text) /\ Cardinality(names) = MaxUnknown
               ELSE IsRefused(v.text) \/ names = UnknownNames(v.text)
    <3>1. {g \in Raised : g.at = v /\ g.code = "template_function_unknown"}
            = {g \in Filed(v) : g.code = "template_function_unknown"}
      BY DEF Filed
    <3>2. Deserved(v, Filed(v))
      BY <2>1
    <3> QED BY <3>1, <3>2 DEF Deserved, NamesIn
  <2> QED BY <2>2, <2>4, <2>5 DEF ReportsExact
<1>2. Init => IndInv /\ WalkInv /\ ReportInv
  BY InvInit, WalkInit, ReportInit
<1>3. IndInv /\ WalkInv /\ ReportInv /\ [Next]_vars => IndInv' /\ WalkInv' /\ ReportInv'
  BY InvStep, WalkStep, ReportStep
<1> QED BY <1>1, <1>2, <1>3, PTL DEF Spec
================================================================================
