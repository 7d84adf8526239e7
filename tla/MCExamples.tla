----------------------------- MODULE MCExamples ------------------------------
(* Flows for the rules on inputs and examples: schemas with repeated and    *)
(* dangling names, inputs with secrets, gates and files, patches of every   *)
(* shape down to below the bound, and each defect an example may have.      *)
EXTENDS Examples, TLC

MCIndex == <<"1", "2", "3", "4", "5", "6", "7">>
MCFieldNames == {"a", "b", "pw", "mode", "doc"}
MCReservedNames == {"__x"}
MCFieldTypes == {"string", "number", "bool", "enum", "array_of_strings", "file", "secret", "date"}
MCStringTypes == {"string", "secret"}
MCParametricTypes == {"number", "enum"}
MCLongTexts == {"long"}
MCBadPatterns == {"["}
MCIds == {"e1", "e2", "v1"}
MCTags == {"t1", "t2"}
MCBlank == {"", " "}
MCSecretLike == {"key"}
Address(scheme, bare, signed) == [scheme |-> scheme, bare |-> bare, signed |-> signed]
MCUrl == "ok" :> Address("https", TRUE, FALSE) @@ "signed" :> Address("https", TRUE, TRUE) @@ "login" :> Address("https", FALSE, FALSE)
           @@ "http" :> Address("http", TRUE, FALSE) @@ "s3" :> Address("s3", TRUE, FALSE)
MCReservedSchemes == {"s3"}
MCDigests == {"sha"}
MCMediaTypes == {"text/plain", "image/png"}
MCTextual == {"text/plain"}
MCStatuses == {"completed", "failed", "paused_for_human"}
MCSideEffects == {"refuse", "allow"}
MCOrigins == {"author", "synthetic"}
MCFolded == [t \in {"", " ", "long", "x", "key"} |-> t] @@ "X" :> "x"

Text(t) == [kind |-> "string", is |-> t]
Number(t) == [kind |-> "number", is |-> t]
Nil == [kind |-> "nil", is |-> ""]
Map == [kind |-> "map"]
List(items) == [kind |-> "list", items |-> items]

Plain(name, type) ==
  [name |-> name, type |-> type, required |-> FALSE, enum |-> <<>>, limits |-> Empty, accept |-> FALSE, pattern |-> "", when |-> Absent]
When(name, equals, in) == [field |-> name, equals |-> equals, in |-> in]
Gated(name, by, equals) == [Plain(name, "string") EXCEPT !.required = TRUE, !.when = When(by, equals, <<>>)]
Schema(fields) == [version |-> 1, fields |-> fields]

Bare ==
  [inputSchema |-> Absent, query |-> Absent, output |-> <<>>, public |-> FALSE, steps |-> <<>>, examples |-> <<>>]
Step(id, schema, subs, composite) == [id |-> id, schema |-> schema, subs |-> subs, composite |-> composite]

(* Schemas: every sequence of up to three of these fields.                  *)
SomeFields ==
  {Other, Plain("a", "number"), [Plain("a", "string") EXCEPT !.when = When("b", Text("x"), <<>>)],
   [Plain("b", "file") EXCEPT !.when = When("Bad", Nil, <<Text("x")>>)], Plain("Bad", "string"), Plain("b", "odd"),
   [Plain("__x", "enum") EXCEPT !.when = When("", Nil, <<>>)]}
SchemaFlows ==
  {[Bare EXCEPT !.inputSchema = Schema(fields), !.steps = <<Step("s", Schema(<<Plain("a", "bool")>>), <<>>, FALSE)>>]
     : fields \in UNION {[1..n -> SomeFields] : n \in 0..3}}
LimitFields ==
  {[Plain("a", type) EXCEPT !.limits = limits, !.pattern = pattern, !.enum = enum, !.accept = TRUE]
     : type \in MCFieldTypes, limits \in {Empty, "min" :> 2 @@ "max" :> 1, "min_length" :> 9 @@ "max_items" :> Other},
       pattern \in {"", "[", "long", "p"}, enum \in {<<>>, <<"x">>}}
OddFlows ==
  {[Bare EXCEPT !.inputSchema = s] : s \in {Absent, Other, [version |-> 2, fields |-> Other], [version |-> 1, fields |-> Absent]}}
    \cup {[Bare EXCEPT !.inputSchema = Schema(<<f>>)] : f \in LimitFields}
    \cup {[Bare EXCEPT !.query = {"q", "__x"},
                       !.steps = <<Other, Step("s", Absent, <<Other, [schema |-> Schema(<<Plain("a", "number"), Plain("a", "file")>>)]>>, TRUE)>>]}

(* Examples.                                                                *)
Scored == [NoExpectation EXCEPT !.rubric = "x"]
Example(input, variants) ==
  [id |-> "e1", title |-> "x", guidance |-> "x", notes |-> "", tags |-> <<>>, weight |-> Absent, score |-> Absent,
   sideEffects |-> "", holdOut |-> FALSE, input |-> input, inputRef |-> Absent, expected |-> Scored, checkpoints |-> Empty,
   variants |-> variants]
Variant(id, patch) ==
  [id |-> id, origin |-> "author", title |-> "", guidance |-> "", provenance |-> "", weight |-> Absent, patch |-> patch,
   inputRef |-> Absent, expected |-> Absent]

(* Documents with mappings down to below the bound.                         *)
Shallow(v) == IF v = Nil THEN Empty ELSE <<"a">> :> v
Deep(v) ==
  <<"a">> :> Map @@ <<"a", "b">> :> Map @@ <<"a", "b", "c">> :> Map @@ <<"a", "b", "c", "d">> :> v @@ <<"b">> :> Text("y")
Inputs == {Empty, Shallow(Text("x")), <<"a">> :> Map @@ <<"a", "b">> :> Text("x") @@ <<"a", "c">> :> Number("1"), Deep(Text("x"))}
PatchDocs ==
  {<<"a">> :> Nil @@ <<"b">> :> Text("z"),
   <<"a">> :> Map @@ <<"a", "b">> :> Nil @@ <<"a", "d">> :> List(<<Text("x")>>),
   <<"a">> :> Map @@ <<"a", "b">> :> Map @@ <<"a", "b", "c">> :> Text("z") @@ <<"b">> :> Nil,
   Deep(Text("z")), Deep(Nil), <<"c">> :> Map, <<"a">> :> Text("key")}
MergeFlows ==
  {[Bare EXCEPT !.query = {"a"}, !.examples = <<Example(input, <<Variant("v1", first), Variant("e1", second)>>)>>]
     : input \in Inputs \cup {Other}, first \in PatchDocs, second \in PatchDocs}

(* Inputs and patches against a schema with a secret, gates and a file.     *)
SecretSchema ==
  Schema(<<[Plain("pw", "secret") EXCEPT !.required = TRUE], [Plain("mode", "enum") EXCEPT !.enum = <<"x", "y">>],
           Gated("a", "pw", Text("x")), Gated("b", "mode", Text("x")), Plain("doc", "file"), Other,
           Plain("list", "array_of_strings")>>)
TwiceSchema == Schema(<<Plain("pw", "secret"), Plain("pw", "string")>>)
Maybe(name, values) == {Empty} \cup {<<name>> :> v : v \in values}
Files ==
  {<<"doc">> :> Map @@ <<"doc", "url">> :> Text("ok"), <<"doc">> :> Map, <<"doc">> :> Nil,
   <<"doc">> :> Map @@ <<"doc", "url">> :> Text("s3") @@ <<"doc", "note">> :> Text("long"),
   <<"doc">> :> Map @@ <<"doc", "url">> :> Text("ok") @@ <<"doc", "other">> :> Text("x"), <<"doc">> :> Text("x")}
SecretInputs ==
  {pw @@ mode @@ rest : pw \in Maybe("pw", {Nil, Text("x")}), mode \in Maybe("mode", {Text("x"), Number("1")}),
                        rest \in Maybe("a", {Text("x"), [kind |-> "time", is |-> "day"]}) \cup Files
                                   \cup {<<"list">> :> List(<<Text("x"), Number("1")>>)}}
SecretPatches == {Empty, <<"pw">> :> Text("y"), <<"pw">> :> Nil, <<"mode">> :> Text("y"), <<"a">> :> Text("x") @@ <<"pw">> :> Text("x")}
SecretFlows ==
  {[Bare EXCEPT !.inputSchema = s, !.examples = <<Example(input, <<Variant("v1", patch)>>)>>]
     : s \in {SecretSchema, TwiceSchema, Other}, input \in SecretInputs \cup {Absent, Other}, patch \in SecretPatches}
  \cup {[Bare EXCEPT !.examples = <<Example(Empty, <<>>)>>]}

(* Each defect of an example, a scenario, an expectation, a checkpoint.     *)
FileRef(url) == [NoFileRef EXCEPT !.url = url]
Refs == {FileRef(u) : u \in {"", "bad", "long", "ok", "signed", "login", "http", "s3"}}
          \cup {[FileRef("ok") EXCEPT !.sha = "odd"], [FileRef("ok") EXCEPT !.sha = "sha", !.media = "odd", !.note = "long"]}
Reference(text, ref) == [NoExpectation EXCEPT !.reference = [text |-> text, ref |-> ref]]
Matchers ==
  {Absent, Other, [ops |-> Empty, tolerance |-> Absent], [ops |-> "equals" :> Text("X"), tolerance |-> Absent],
   [ops |-> "equals" :> Text("key") @@ "contains" :> Text("x"), tolerance |-> Absent],
   [ops |-> "matches" :> Text("["), tolerance |-> Absent], [ops |-> "approx" :> Number("1"), tolerance |-> Absent],
   [ops |-> "approx" :> Number("1"), tolerance |-> -1], [ops |-> "one_of" :> List(<<Text("key")>>), tolerance |-> 1]}
Expectations ==
  {Reference("x", Absent), Reference("long", Absent), Reference("key", FileRef("ok")), Reference("", Absent),
   Reference("", [FileRef("ok") EXCEPT !.media = "image/png"]), NoExpectation,
   [NoExpectation EXCEPT !.reference = Other], [Scored EXCEPT !.score = 2], [Scored EXCEPT !.rubric = " "],
   [Scored EXCEPT !.rubric = "long", !.status = "odd"], [Scored EXCEPT !.rubric = "key", !.mustNot = <<"", "x", "x">>],
   [Scored EXCEPT !.fields = "out" :> Other, !.exact = <<"b">> :> Text("key")],
   [Scored EXCEPT !.exact = <<"out">> :> Text("x"), !.status = "failed"]}
  \cup {[Scored EXCEPT !.fields = "out" :> m, !.mustNotContain = <<"", "x">>] : m \in Matchers}
Examples ==
  LET E == Example(Empty, <<>>) IN
  {Other, E, [E EXCEPT !.id = ""], [E EXCEPT !.id = "Odd"], [E EXCEPT !.title = " "], [E EXCEPT !.title = "long", !.holdOut = TRUE],
   [E EXCEPT !.guidance = "", !.notes = "key", !.weight = 0], [E EXCEPT !.tags = <<"t1", Other, "t1">>],
   [E EXCEPT !.tags = <<"odd", "t2">>, !.score = -1, !.sideEffects = "odd"], [E EXCEPT !.input = Absent],
   [E EXCEPT !.expected = Absent], [E EXCEPT !.expected = Other]}
  \cup {[E EXCEPT !.inputRef = r] : r \in Refs}
  \cup {[E EXCEPT !.expected = e, !.checkpoints = "s" :> e @@ "t" :> e @@ "loop" :> e @@ "gone" :> e] : e \in Expectations}
  \cup {[E EXCEPT !.checkpoints = "s" :> cp] : cp \in {Absent, Other}}
Variants ==
  LET V == Variant("v1", Empty) IN
  {Other, V, [V EXCEPT !.id = "", !.origin = "", !.title = "key"], [V EXCEPT !.inputRef = FileRef("ok")],
   [V EXCEPT !.patch = <<"a">> :> Text("x"), !.inputRef = FileRef("s3")], [V EXCEPT !.expected = Scored, !.weight = 9]}
DefectFlow ==
  [Bare EXCEPT !.output = <<"out">>, !.public = TRUE,
               !.steps = <<Step("s", Schema(<<Plain("a", "string"), Other>>), <<>>, FALSE), Step("t", Absent, <<>>, FALSE),
                           Step("loop", Absent, <<>>, TRUE)>>]
DefectFlows ==
  {[DefectFlow EXCEPT !.examples = <<Example(Empty, <<>>), ex>>] : ex \in Examples}
  \cup {[Bare EXCEPT !.examples = <<Other, Example(Empty, <<>>)>>]}
  \cup {[Bare EXCEPT !.examples = <<ex>>] : ex \in Examples}
  \cup {[DefectFlow EXCEPT !.examples = <<Example(input, <<v, w>>)>>] : input \in {Empty, Absent}, v \in Variants, w \in Variants}

MCFlows == SchemaFlows \cup OddFlows \cup MergeFlows \cup SecretFlows \cup DefectFlows
==============================================================================
