------------------------------- MODULE Templates -------------------------------
(****************************************************************************)
(* The template rule: the walk over the places of a step where a template   *)
(* may stand, its two counters, the demotion inside a loop body, and        *)
(* parseGoTemplate, which parses a text again and again, each time with a   *)
(* stub for one more unknown function.                                      *)
(*                                                                          *)
(* A value is the sequence of its string leaves in the order of the walk.   *)
(* A template is what the parser meets in it: function names in text order, *)
(* and Broken where the syntax fails.  Which trees hold a piped default or  *)
(* read a human step's answer is part of the text.                          *)
(****************************************************************************)
EXTENDS Naturals, Sequences, FiniteSets

CONSTANTS
  Names,       \* function names
  Known,       \* spec TemplateFunctions and the built-in functions
  Broken,      \* a syntax error
  NoName,      \* no function is named
  MaxUnknown,  \* maxUnknownFuncLoop
  Documents    \* the calls under consideration: steps in sorted order, StrictRegistries

ASSUME NamesAssumption == Known \subseteq Names /\ Broken \notin Names /\ NoName \notin Names \cup {Broken}
ASSUME BoundAssumption == MaxUnknown \in Nat \ {0}

Text == [template : BOOLEAN, tokens : Seq(Names \cup {Broken}), piped : BOOLEAN, asks : BOOLEAN]
Value == Seq(Text)

(* The sub-steps of a loop: each with its condition (a text or none), query,*)
(* processing operations and the if texts of its next conditions.           *)
SubStep == [condition : Value, query : Value, ops : Value, next : Value]
Step == [query : Value, ops : Value, subs : Seq(SubStep), expectation : Value, next : Value]
ASSUME DocumentsAssumption ==
  \A d \in Documents : DOMAIN d = {"steps", "strict"} /\ d.steps \in Seq(Step) /\ d.strict \in BOOLEAN

Kinds == {"query", "op", "subCondition", "subQuery", "subNext", "subOp", "expectation", "next"}
Visit == [kind : Kinds, path : Seq(Nat), text : Text]
Findings ==
  [code : {"template_syntax_error", "template_function_unknown", "template_default_piped", "human_answer_field"},
   at : Visit, name : Names \cup {NoName}]

Visits(kind, path, value) ==
  [i \in 1..Len(value) |-> [kind |-> kind, path |-> Append(path, i), text |-> value[i]]]

VARIABLES
  document,      \* never written
  phase,         \* walk, parse, done
  step, part,    \* where the walk is
  agenda,        \* the visits left in this part
  funcs, unknown,       \* of the parse under way
  found, syntaxErrors,  \* templateStats
  errors, warnings      \* what the rule added to the findings

vars == <<document, phase, step, part, agenda, funcs, unknown, found, syntaxErrors, errors, warnings>>
report == <<syntaxErrors, errors, warnings>>

------------------------------------------------------------------------------
(* The places of a step in the order of the walk: all sub-steps first, then *)
(* the processing operations of all sub-steps.                              *)
Parts(s) == 2 * Len(s.subs) + 4
Part(n, s, k) ==
  LET subs == Len(s.subs)
      own(i) == Visits("subCondition", <<n, i>>, s.subs[i].condition)
                  \o Visits("subQuery", <<n, i>>, s.subs[i].query)
                  \o Visits("subNext", <<n, i>>, s.subs[i].next)
  IN  CASE k = 1 -> Visits("query", <<n>>, s.query)
        [] k = 2 -> Visits("op", <<n>>, s.ops)
        [] k \in 3..(subs + 2) -> own(k - 2)
        [] k \in (subs + 3)..(2 * subs + 2) -> Visits("subOp", <<n, k - subs - 2>>, s.subs[k - subs - 2].ops)
        [] k = 2 * subs + 3 -> Visits("expectation", <<n>>, s.expectation)
        [] OTHER -> Visits("next", <<n>>, s.next)

(* checkConditions counts a text that check counts again.                   *)
IsCondition(visit) == visit.kind \in {"next", "subNext"}
IsChecked(visit) == visit.text.template /\ visit.kind # "expectation"

(* Mutant: the flag is not set for processing operations.                   *)
IsDemotedOwn(visit) == visit.kind \in {"subCondition", "subQuery", "subNext"}

(* templateWalker.demote: set by walkLoopSubStep, and for an operation by   *)
(* its scope; both work on a copy of the walker.                            *)
IsDemoted(visit) == visit.kind \in {"subCondition", "subQuery", "subNext", "subOp"}

Init ==
  /\ document \in Documents
  /\ phase = "walk"
  /\ step = 1 /\ part = 0
  /\ agenda = <<>>
  /\ funcs = {} /\ unknown = <<>>
  /\ found = 0 /\ syntaxErrors = 0
  /\ errors = <<>> /\ warnings = <<>>

OpenPart ==
  /\ phase = "walk" /\ agenda = <<>> /\ step <= Len(document.steps)
  /\ part < Parts(document.steps[step])
  /\ part' = part + 1
  /\ agenda' = Part(step, document.steps[step], part')
  /\ UNCHANGED <<document, phase, step, funcs, unknown, found, report>>

NextStep ==
  /\ phase = "walk" /\ agenda = <<>> /\ step <= Len(document.steps)
  /\ part = Parts(document.steps[step])
  /\ step' = step + 1 /\ part' = 0
  /\ UNCHANGED <<document, phase, agenda, funcs, unknown, found, report>>

Finish ==
  /\ phase = "walk" /\ agenda = <<>> /\ step > Len(document.steps)
  /\ phase' = "done"
  /\ UNCHANGED <<document, step, part, agenda, funcs, unknown, found, report>>

Count(b) == IF b THEN 1 ELSE 0

(* A leaf that is not parsed: no template, or an expectation's, which is    *)
(* counted.                                                                 *)
PassBy ==
  /\ phase = "walk" /\ agenda # <<>> /\ ~IsChecked(Head(agenda))
  /\ found' = found + Count(IsCondition(Head(agenda))) + Count(Head(agenda).text.template)
  /\ agenda' = Tail(agenda)
  /\ UNCHANGED <<document, phase, step, part, funcs, unknown, report>>

(* Mutant: the template in a condition is counted once.                     *)
CheckOnce ==
  /\ phase = "walk" /\ agenda # <<>> /\ IsChecked(Head(agenda))
  /\ found' = found + 1
  /\ funcs' = Known /\ unknown' = <<>>
  /\ phase' = "parse"
  /\ UNCHANGED <<document, step, part, agenda, report>>

Check ==
  /\ phase = "walk" /\ agenda # <<>> /\ IsChecked(Head(agenda))
  /\ found' = found + Count(IsCondition(Head(agenda))) + 1
  /\ funcs' = Known /\ unknown' = <<>>
  /\ phase' = "parse"
  /\ UNCHANGED <<document, step, part, agenda, report>>

------------------------------------------------------------------------------
(* parseGoTemplate.  Parse stops at the first thing it cannot read.         *)
ToParse == Head(agenda).text.tokens
Readable(n) == \A j \in 1..n : ToParse[j] \in funcs
StopsAt(token) == \E i \in 1..Len(ToParse) : ToParse[i] = token /\ token \notin funcs /\ Readable(i - 1)

Round == phase = "parse" /\ Len(unknown) < MaxUnknown

(* Mutant: no bound on the rounds.                                          *)
LearnUnbounded ==
  /\ phase = "parse"
  /\ \E name \in Names :
       /\ StopsAt(name)
       /\ unknown' = Append(unknown, name) /\ funcs' = funcs \cup {name}
  /\ UNCHANGED <<document, phase, step, part, agenda, found, report>>

(* Mutant: the stub is not registered.                                      *)
LearnNoStub ==
  /\ Round
  /\ \E name \in Names : StopsAt(name) /\ unknown' = Append(unknown, name)
  /\ UNCHANGED <<document, phase, step, part, agenda, funcs, found, report>>

(* The parser names an unknown function, which gets a stub.  The branch for *)
(* a name that has one already is left out: Parse does not name such a one. *)
Learn ==
  /\ Round
  /\ \E name \in Names :
       /\ StopsAt(name)
       /\ unknown' = Append(unknown, name) /\ funcs' = funcs \cup {name}
  /\ UNCHANGED <<document, phase, step, part, agenda, found, report>>

Finding(code, name) == [code |-> code, at |-> Head(agenda), name |-> name]
Unknowns == [i \in 1..Len(unknown) |-> Finding("template_function_unknown", unknown[i])]
Only(b, finding) == IF b THEN <<finding>> ELSE <<>>

(* One template is dealt with: what is raised where it stands, and the      *)
(* unknown functions, which are warnings unless StrictRegistries.           *)
FileFindings(positional, functions, always) ==
  LET strict == IF document.strict THEN functions ELSE <<>>
      lax == IF document.strict THEN <<>> ELSE functions
  IN  IF IsDemoted(Head(agenda))
      THEN /\ warnings' = warnings \o positional \o always \o functions
           /\ UNCHANGED errors
      ELSE /\ errors' = errors \o positional \o strict
           /\ warnings' = warnings \o always \o lax

BackToWalk ==
  /\ phase' = "walk" /\ agenda' = Tail(agenda)
  /\ UNCHANGED <<document, step, part, funcs, unknown, found>>

(* Mutant: what was learnt before the syntax error is reported too.         *)
RefuseAll ==
  /\ Round /\ StopsAt(Broken)
  /\ syntaxErrors' = syntaxErrors + 1
  /\ FileFindings(<<Finding("template_syntax_error", NoName)>>, Unknowns, <<>>)
  /\ BackToWalk

(* The whole result of a text with a syntax error is that error.            *)
Refuse ==
  /\ Round /\ StopsAt(Broken)
  /\ syntaxErrors' = syntaxErrors + 1
  /\ FileFindings(<<Finding("template_syntax_error", NoName)>>, <<>>, <<>>)
  /\ BackToWalk

(* The text parses: its tree is judged, for a human answer only if no stub  *)
(* was needed.                                                              *)
Accept ==
  /\ Round /\ Readable(Len(ToParse))
  /\ FileFindings(Only(Head(agenda).text.piped, Finding("template_default_piped", NoName)), Unknowns,
                  Only(Head(agenda).text.asks /\ unknown = <<>>, Finding("human_answer_field", NoName)))
  /\ UNCHANGED syntaxErrors
  /\ BackToWalk

(* The rounds are used up: no tree, and no word on the rest of the text.    *)
GiveUp ==
  /\ phase = "parse" /\ Len(unknown) = MaxUnknown
  /\ FileFindings(<<>>, Unknowns, <<>>)
  /\ UNCHANGED syntaxErrors
  /\ BackToWalk

Next == OpenPart \/ NextStep \/ Finish \/ PassBy \/ Check \/ Learn \/ Refuse \/ Accept \/ GiveUp

Spec == Init /\ [][Next]_vars

------------------------------------------------------------------------------
(* Every variable keeps its type; a parse takes at most MaxUnknown rounds.  *)
TemplatesTypeOK ==
  /\ document.steps \in Seq(Step) /\ document.strict \in BOOLEAN
  /\ phase \in {"walk", "parse", "done"}
  /\ step \in 1..(Len(document.steps) + 1) /\ part \in Nat
  /\ agenda \in Seq(Visit)
  /\ phase = "parse" => agenda # <<>>
  /\ funcs \subseteq Names
  /\ unknown \in Seq(Names) /\ Len(unknown) <= MaxUnknown
  /\ found \in Nat /\ syntaxErrors \in Nat
  /\ errors \in Seq(Findings) /\ warnings \in Seq(Findings)

(* What the parser gets to before the text breaks off.                      *)
Legible(text) == {i \in 1..Len(text.tokens) : \A j \in 1..i : text.tokens[j] # Broken}
UnknownNames(text) == {text.tokens[i] : i \in Legible(text)} \ Known

(* Every round of a parse learns a function the text really calls and that  *)
(* had no stub: no round is wasted, so the bound counts unknown functions.  *)
RoundsLearn ==
  phase = "parse" =>
    /\ \A i \in 1..Len(unknown) :
         /\ unknown[i] \in UnknownNames(Head(agenda).text)
         /\ \A j \in 1..(i - 1) : unknown[j] # unknown[i]
    /\ funcs = Known \cup {unknown[i] : i \in 1..Len(unknown)}

(* Nothing in a loop body refuses a flow, whatever the option; outside, only*)
(* a name the registry lacks and an answer's key are no errors.             *)
InBody(visit) == Len(visit.path) = 3
SeverityByPlace ==
  /\ \A i \in 1..Len(errors) :
       /\ ~InBody(errors[i].at) /\ errors[i].code # "human_answer_field"
       /\ errors[i].code = "template_function_unknown" => document.strict
  /\ \A i \in 1..Len(warnings) :
       \/ InBody(warnings[i].at) \/ warnings[i].code = "human_answer_field"
       \/ warnings[i].code = "template_function_unknown" /\ ~document.strict

AllVisits ==
  UNION {UNION {{Part(n, document.steps[n], k)[i] : i \in 1..Len(Part(n, document.steps[n], k))} :
                  k \in 1..Parts(document.steps[n])} : n \in 1..Len(document.steps)}
IsExhausting(text) == Cardinality(UnknownNames(text)) >= MaxUnknown
IsRefused(text) == ~IsExhausting(text) /\ Cardinality(Legible(text)) < Len(text.tokens)
IsAccepted(text) == ~IsExhausting(text) /\ ~IsRefused(text)

(* When the rule returns every template has got the findings it deserves,   *)
(* each once: a syntax error alone, or the unknown functions and what its   *)
(* tree shows; of a text that uses up the rounds, MaxUnknown names.         *)
CodesAt(visit) ==
  (IF IsRefused(visit.text) THEN {"template_syntax_error"} ELSE {})
    \cup (IF ~IsRefused(visit.text) /\ UnknownNames(visit.text) # {} THEN {"template_function_unknown"} ELSE {})
    \cup (IF IsAccepted(visit.text) /\ visit.text.piped THEN {"template_default_piped"} ELSE {})
    \cup (IF IsAccepted(visit.text) /\ visit.text.asks /\ UnknownNames(visit.text) = {}
          THEN {"human_answer_field"} ELSE {})
Raised == {errors[i] : i \in 1..Len(errors)} \cup {warnings[i] : i \in 1..Len(warnings)}
ReportsExact ==
  phase = "done" =>
    /\ Cardinality(Raised) = Len(errors) + Len(warnings)
    /\ {[at |-> f.at, code |-> f.code] : f \in Raised}
         = UNION {{[at |-> v, code |-> c] : c \in CodesAt(v)} : v \in {w \in AllVisits : IsChecked(w)}}
    /\ \A v \in {w \in AllVisits : IsChecked(w)} :
         LET names == {f.name : f \in {g \in Raised : g.at = v /\ g.code = "template_function_unknown"}} IN
         IF IsExhausting(v.text) THEN names \subseteq UnknownNames(v.text) /\ Cardinality(names) = MaxUnknown
         ELSE IsRefused(v.text) \/ names = UnknownNames(v.text)

(* The summary's counters: a condition counts even if it is no template, and*)
(* twice if it is one; TemplatesValid, their difference, never goes below   *)
(* zero and never leaves out a template that parses.                        *)
CountsExact ==
  phase = "done" =>
    /\ found = Cardinality({v \in AllVisits : v.text.template}) + Cardinality({v \in AllVisits : IsCondition(v)})
    /\ syntaxErrors = Cardinality({v \in AllVisits : IsChecked(v) /\ IsRefused(v.text)})
    /\ found - syntaxErrors >= Cardinality({v \in AllVisits : IsChecked(v) /\ ~IsRefused(v.text)})
==============================================================================
