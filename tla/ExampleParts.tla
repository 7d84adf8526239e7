----------------------------- MODULE ExampleParts ------------------------------
(****************************************************************************)
(* What is judged of the parts of an example wherever they stand: a file    *)
(* reference, an input against the flow's schema, an expectation, and the   *)
(* texts that look like credentials.                                        *)
(*                                                                          *)
(* Documents are those of MergePatch: a leaf has a kind, and its text in is *)
(* or its leaves in items.  What the code measures in bytes or characters   *)
(* is a member of LongTexts or, for an input, its number of entries.  Of    *)
(* two findings with one code at one place one is kept.                     *)
(****************************************************************************)
EXTENDS InputSchema, MergePatch

CONSTANTS
  Ids, Tags, Blank, SecretLike,    \* texts: ids and tags of the pattern, only spaces, credentials
  Url,                             \* the texts that parse as URLs, with what is read of them
  ReservedSchemes, Digests, MediaTypes, Textual,      \* of file references
  Statuses, SideEffects, Origins,                     \* vocabularies
  Folded,                                             \* case folded away
  MaxEntries, MaxListed, MaxExamples, MaxVariants, MaxScore, MaxWeight

NoFileRef == [url |-> "", sha |-> "", media |-> "", note |-> ""]

(* validateFileRef: without an address that may be used, nothing else is    *)
(* judged.                                                                  *)
FileRefCodes(ref) ==
  IF ref.url \in LongTexts \/ ref.url \notin DOMAIN Url THEN {"example_ref_invalid"}
  ELSE IF Url[ref.url].scheme \in ReservedSchemes THEN {"example_ref_scheme_reserved"}
  ELSE IF Url[ref.url].scheme # "https" THEN {"example_ref_scheme"}
  ELSE IF ~Url[ref.url].bare THEN {"example_ref_invalid"}
  ELSE If(ref.sha \notin Digests \cup {""}, "example_ref_sha256_invalid")
         \cup If(ref.media \notin MediaTypes \cup {""}, "example_ref_media_type_invalid")
         \cup If(ref.note \in LongTexts, "example_ref_invalid")
         \cup If(ref.sha = "", "example_ref_unpinned")
         \cup If(Url[ref.url].signed, "example_ref_signed_url")

------------------------------------------------------------------------------
(* An input is judged as a run would receive it: dates as texts, and null   *)
(* below the bound.                                                         *)
Normalised(d) ==
  [p \in {q \in DOMAIN d : Len(q) <= MaxDepth + 1} |->
     IF Len(p) > MaxDepth THEN [kind |-> "nil", is |-> ""]
     ELSE IF d[p].kind = "time" THEN [d[p] EXCEPT !.kind = "string"] ELSE d[p]]

InputFields == FieldsOf(flow.inputSchema)
JudgedFields == {i \in 1..Len(InputFields) : InputFields[i] # Other}
Named(name) == {i \in JudgedFields : InputFields[i].name = name}

(* byName: of several fields with one name the last.                        *)
TypeNamed(name) == IF Named(name) = {} THEN "" ELSE InputFields[Max(Named(name))].type

NamesGiven(input) == {p[1] : p \in DOMAIN input}
IsNil(input, name) == input[<<name>>].kind = "nil"

(* asExampleFileRef: a mapping with no other keys than a reference's.       *)
IsFileRef(input, name) ==
  /\ input[<<name>>].kind = "map"
  /\ KeysAt(input, <<name>>) # {} /\ KeysAt(input, <<name>>) \subseteq {"url", "sha256", "media_type", "note"}
TextAt(input, name, key) ==
  LET p == <<name, key>> IN IF p \in DOMAIN input /\ input[p].kind = "string" THEN input[p].is ELSE ""
FileRefOf(input, name) ==
  [url |-> TextAt(input, name, "url"), sha |-> TextAt(input, name, "sha256"),
   media |-> TextAt(input, name, "media_type"), note |-> TextAt(input, name, "note")]

(* exValuesEqual: scalars of one kind.                                      *)
Same(a, b) == a.kind \in {"nil", "number", "bool", "string"} /\ a.kind = b.kind /\ a.is = b.is

Visible(f, input, run) ==
  \/ f.when = Absent
  \/ /\ f.when.field \in run
     /\ IF f.when.equals.kind # "nil"
        THEN Same(input[<<f.when.field>>], f.when.equals)
        ELSE \E n \in 1..Len(f.when.in) : Same(input[<<f.when.field>>], f.when.in[n])

KindFails(f, leaf) ==
  CASE f.type \in {"string", "multiline", "secret", "date"} -> leaf.kind # "string"
    [] f.type \in {"number", "bool"} -> leaf.kind # f.type
    [] f.type = "enum" -> leaf.kind # "string" \/ leaf.is \notin Range(f.enum)
    [] f.type = "array_of_strings" -> leaf.kind # "list" \/ \E n \in 1..Len(leaf.items) : leaf.items[n].kind # "string"
    [] OTHER -> FALSE

(* The names of the input a run receives: secrets are taken out, and what   *)
(* stands for a file without being a reference.                             *)
RunInput(input) ==
  {n \in NamesGiven(input) : /\ TypeNamed(n) # "secret"
                             /\ (TypeNamed(n) = "file" /\ ~IsNil(input, n)) => IsFileRef(input, n)}

(* Mutant: a condition is read from the whole input.                        *)
AgainstSchemaWhole(input, at, code) ==
  UNION {LET f == InputFields[i] IN
         Findings(If(/\ Visible(f, input, NamesGiven(input))
                     /\ IF f.name \in RunInput(input) /\ ~IsNil(input, f.name)
                        THEN KindFails(f, input[<<f.name>>])
                        ELSE f.required /\ f.type # "secret", code), Append(at, f.name)) : i \in JudgedFields}

(* What is found of each declared field, where it is visible.               *)
AgainstSchema(input, at, code) ==
  UNION {LET f == InputFields[i] IN
         Findings(If(/\ Visible(f, input, RunInput(input))
                     /\ IF f.name \in RunInput(input) /\ ~IsNil(input, f.name)
                        THEN KindFails(f, input[<<f.name>>])
                        ELSE f.required /\ f.type # "secret", code), Append(at, f.name)) : i \in JudgedFields}

(* What is found of each value that is given.                               *)
ValueCodes(input, name, code) ==
  IF IsNil(input, name) THEN If(Named(name) = {}, code)
  ELSE CASE TypeNamed(name) = "secret" -> {"example_secret_value"}
         [] TypeNamed(name) = "file" -> IF IsFileRef(input, name) THEN FileRefCodes(FileRefOf(input, name))
                                        ELSE {"example_file_input_needs_ref"}
         [] OTHER -> If(Named(name) = {}, code)

InputFindings(d, at, code) ==
  LET input == Normalised(d) IN
  IF Cardinality(DOMAIN input) > MaxEntries THEN {Finding("example_input_too_large", at, 0)}
  ELSE IF flow.inputSchema = Other THEN {}
  ELSE IF flow.inputSchema # Absent
  THEN AgainstSchema(input, at, code) \cup UNION {Findings(ValueCodes(input, n, code), Append(at, n)) : n \in NamesGiven(input)}
  ELSE IF flow.query \notin {Absent, {}}
  THEN UNION {Findings(If(n \notin flow.query, code), Append(at, n)) : n \in NamesGiven(input)}
  ELSE {Finding("example_input_unvalidated", at, 0)}

------------------------------------------------------------------------------
(* An expectation, of the flow or of a step; outputs are the names that it  *)
(* may be about, <<>> if none are declared.                                 *)
NoExpectation ==
  [status |-> "", score |-> Absent, rubric |-> "", reference |-> Absent, fields |-> Empty, exact |-> Empty,
   mustNot |-> <<>>, mustNotContain |-> <<>>]

OutputsOfStep(n) ==
  LET fields == FieldsOf(flow.steps[n].schema) IN
  [i \in 1..Len(fields) |-> IF fields[i] = Other THEN "" ELSE fields[i].name]

ScoreCodes(score) == If(score # Absent /\ (score < 0 \/ score > MaxScore), "example_min_score_range")

(* Exactly one operator; a tolerance for approx, and for nothing else.      *)
MatcherFails(m) ==
  IF m = Other THEN FALSE
  ELSE \/ m = Absent \/ Cardinality(DOMAIN m.ops) # 1
       \/ "matches" \in DOMAIN m.ops /\ m.ops["matches"].is \in LongTexts \cup BadPatterns
       \/ ("approx" \in DOMAIN m.ops) # (m.tolerance # Absent)
       \/ m.tolerance # Absent /\ m.tolerance < 0

IsRecord(value) == value \notin {Absent, Other}

ReferenceFindings(r, at) ==
  IF (r.text # "") = (r.ref # Absent) THEN {Finding("example_reference_invalid", at, 0)}
  ELSE IF r.text # "" THEN Findings(If(r.text \in LongTexts, "example_reference_invalid"), at)
  ELSE Findings(FileRefCodes(r.ref), Append(at, "ref"))
         \cup Findings(If(r.ref.media \notin Textual \cup {""}, "example_reference_binary"), at)

NoOutput(e) == e.status \in {"failed", "paused_for_human"}
Compares(e) == DOMAIN e.fields # {} \/ DOMAIN e.exact # {}
SaysNothingElse(e) ==
  e.rubric = "" /\ ~Compares(e) /\ e.mustNot = <<>> /\ e.mustNotContain = <<>> /\ e.status \in {"", "completed"}

KeyFindings(key, at, outputs) ==
  Findings(IF outputs = <<>> THEN {"example_expected_field_unchecked"}
           ELSE If(key \notin Range(outputs), "example_expected_field_unknown"), at)

(* A field that must equal a literal which no result may contain.           *)
Contradicts(m, banned) ==
  /\ IsRecord(m) /\ "equals" \in DOMAIN m.ops /\ m.ops["equals"].kind = "string" /\ m.ops["equals"].is # ""
  /\ \E n \in 1..Len(banned) : banned[n] # "" /\ Folded[banned[n]] = Folded[m.ops["equals"].is]

ListFindings(list, bad, code, at) ==
  Findings(If(Len(list) > MaxListed, code), at)
    \cup {Finding(code, Append(at, Index[n]), 0) : n \in {k \in 1..Len(list) : list[k] \in bad \cup LongTexts}}

ExpectationFindings(e, at, outputs, checkpoint) ==
  Findings(If(e.status \notin Statuses \cup {""}, "example_status_invalid")
             \cup If(checkpoint /\ e.status # "", "example_checkpoint_status"), Append(at, "status"))
    \cup Findings(If(\/ DOMAIN e.fields # {} /\ DOMAIN e.exact # {}
                     \/ NoOutput(e) /\ Compares(e), "example_expected_conflict")
                    \cup If(SaysNothingElse(e) /\ e.reference = Absent, "example_expected_empty"), at)
    \cup Findings(ScoreCodes(e.score), Append(at, "min_score"))
    \cup Findings(IF e.rubric \in Blank \ {""} THEN {"example_rubric_empty"}
                  ELSE If(e.rubric \in LongTexts, "example_rubric_too_long"), Append(at, "rubric"))
    \cup (IF IsRecord(e.reference) THEN ReferenceFindings(e.reference, Append(at, "reference")) ELSE {})
    \cup (UNION {LET place == at \o <<"fields", key>> IN
                 KeyFindings(key, place, outputs)
                   \cup Findings(If(MatcherFails(e.fields[key]), "example_field_matcher_invalid")
                                   \cup If(Contradicts(e.fields[key], e.mustNotContain), "example_expectation_contradiction"),
                                 place) : key \in DOMAIN e.fields})
    \cup (UNION {KeyFindings(key, at \o <<"exact", key>>, outputs) : key \in NamesGiven(e.exact)})
    \cup ListFindings(e.mustNot, Blank, "example_must_not_invalid", Append(at, "must_not"))
    \cup ListFindings(e.mustNotContain, {""}, "example_must_not_contain_invalid", Append(at, "must_not_contain"))

(* The judge cannot read what it should compare with.                       *)
BinaryOnly(e) ==
  /\ IsRecord(e.reference) /\ e.reference.ref # Absent /\ e.reference.ref.media \notin Textual \cup {""}
  /\ SaysNothingElse(e)

------------------------------------------------------------------------------
(* Texts that look like credentials; a leaf is looked at down to the bound. *)
Secrets(text, at) == Findings(If(text \in SecretLike, "example_secret_like_value"), at)
LeafSecrets(leaf, at, depth) ==
  IF depth > MaxDepth THEN {}
  ELSE CASE leaf.kind = "string" -> Secrets(leaf.is, at)
         [] leaf.kind = "list" /\ depth < MaxDepth ->
              UNION {IF leaf.items[n].kind = "string" THEN Secrets(leaf.items[n].is, Append(at, Index[n])) ELSE {}
                       : n \in 1..Len(leaf.items)}
         [] OTHER -> {}
DocumentSecrets(d, at) == UNION {LeafSecrets(d[p], at \o p, Len(p)) : p \in DOMAIN d}

ListSecrets(list, at) == UNION {Secrets(list[n], Append(at, Index[n])) : n \in 1..Len(list)}

MatcherSecrets(m, at) ==
  UNION {CASE op \in {"equals", "one_of"} -> LeafSecrets(m.ops[op], Append(at, op), 0)
           [] op \in {"contains", "not_contains"} -> Secrets(m.ops[op].is, Append(at, op))
           [] OTHER -> {} : op \in DOMAIN m.ops}

ExpectationSecrets(e, at) ==
  Secrets(e.rubric, Append(at, "rubric"))
    \cup (IF IsRecord(e.reference) THEN Secrets(e.reference.text, at \o <<"reference", "text">>) ELSE {})
    \cup ListSecrets(e.mustNot, Append(at, "must_not")) \cup ListSecrets(e.mustNotContain, Append(at, "must_not_contain"))
    \cup (UNION {IF IsRecord(e.fields[key]) THEN MatcherSecrets(e.fields[key], at \o <<"fields", key>>) ELSE {} : key \in DOMAIN e.fields})
    \cup DocumentSecrets(e.exact, Append(at, "exact"))
==============================================================================
