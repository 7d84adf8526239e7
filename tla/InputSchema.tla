------------------------------ MODULE InputSchema ------------------------------
(****************************************************************************)
(* The rule on schemas: the flow's input_schema, the reserved names of its  *)
(* inputs, then every output_schema of a step or of a loop's sub-step.  The *)
(* fields of a schema are walked twice, so that a condition may name a      *)
(* field that is declared after it.                                         *)
(*                                                                          *)
(* A place is the sequence of keys that leads to it.  A missing string, and *)
(* one that is none, is "".  limits maps the limit keys a field has to      *)
(* integers, or to Other; accept tells that the list is not empty.          *)
(****************************************************************************)
EXTENDS Integers, Sequences, FiniteSets, SequencesExt

CONSTANTS
  Absent, Other,         \* no value, and a value of another shape
  Flows,                 \* the documents under test
  Index,                 \* the text of an index, from 1
  SchemaVersion, MaxConstraint,             \* of the spec
  FieldNames, ReservedNames,                \* names of the pattern, names with the prefix
  FieldTypes, StringTypes, ParametricTypes, \* of a field
  LongTexts, BadPatterns                    \* over every limit; no regular expression

VARIABLES flow, phase, site, part, field, seen, findings

schemaVars == <<flow, phase, site, part, field, seen, findings>>

If(cond, code) == IF cond THEN {code} ELSE {}
Finding(code, at, about) == [code |-> code, at |-> at, about |-> about]
Findings(codes, at) == {Finding(c, at, 0) : c \in codes}
Report(found) == findings' = findings \cup found

(* Where schemas stand: at <<0, 0>> the flow's input schema, at <<n, 0>>    *)
(* the output schema of step n, at <<n, i>> that of its sub-step i.         *)
SubsOf(step) == IF step = Other THEN <<>> ELSE step.subs
OutputOf(holder) == IF holder = Other THEN Absent ELSE holder.schema
Sites(f) == {<<0, 0>>} \cup UNION {{<<n, i>> : i \in 0..Len(SubsOf(f.steps[n]))} : n \in 1..Len(f.steps)}
SchemaAt(f, s) ==
  IF s[1] = 0 THEN f.inputSchema
  ELSE OutputOf(IF s[2] = 0 THEN f.steps[s[1]] ELSE SubsOf(f.steps[s[1]])[s[2]])
FieldsOf(schema) == IF schema \in {Absent, Other} \/ schema.fields \in {Absent, Other} THEN <<>> ELSE schema.fields

(* Lists have a length.                                                     *)
ASSUME FlowsAssumption ==
  \A f \in Flows :
    /\ Len(f.steps) \in Nat
    /\ \A n \in 1..Len(f.steps) : Len(SubsOf(f.steps[n])) \in Nat
    /\ \A s \in Sites(f) : Len(FieldsOf(SchemaAt(f, s))) \in Nat

SchemaHere == SchemaAt(flow, site)
PathOf(s) ==
  IF s[1] = 0 THEN <<"input_schema">>
  ELSE <<"steps", flow.steps[s[1]].id>> \o (IF s[2] = 0 THEN <<>> ELSE <<"loop", Index[s[2]]>>) \o <<"output_schema">>
FieldAt(s, i) == PathOf(s) \o <<"fields", Index[i]>>

NoneSeen == [name \in FieldNames |-> 0]

(* After the input schema come the reserved names, then the next schema.    *)
NextSite ==
  IF site[1] > 0 /\ site[2] < Len(SubsOf(flow.steps[site[1]])) THEN <<site[1], site[2] + 1>> ELSE <<site[1] + 1, 0>>
Leave ==
  IF site[1] = 0 /\ part # "reserved" THEN part' = "reserved" /\ UNCHANGED <<phase, site>>
  ELSE /\ part' = "open" /\ site' = NextSite
       /\ phase' = IF NextSite[1] <= Len(flow.steps) THEN "schema" ELSE "set"

------------------------------------------------------------------------------
OpenSchema ==
  /\ phase = "schema" /\ part = "open"
  /\ LET s == SchemaHere IN
       IF s \in {Absent, Other}
       THEN /\ Report(Findings(If(s = Other, "invalid_type"), PathOf(site)))
            /\ Leave /\ UNCHANGED <<field, seen>>
       ELSE /\ Report(Findings(If(s.version # SchemaVersion, "input_schema_invalid_version"), Append(PathOf(site), "version"))
                        \cup Findings(If(s.fields = Other, "invalid_type"), Append(PathOf(site), "fields")))
            /\ IF Len(FieldsOf(s)) = 0
               THEN Leave /\ UNCHANGED <<field, seen>>
               ELSE field' = 1 /\ seen' = NoneSeen /\ part' = "fields" /\ UNCHANGED <<phase, site>>
  /\ UNCHANGED flow

(* The types a limit means something for.                                   *)
MeantFor(key) ==
  CASE key \in {"min_length", "max_length", "pattern"} -> StringTypes
    [] key \in {"min", "max"} -> {"number"}
    [] key \in {"min_items", "max_items"} -> {"array_of_strings"}
    [] key \in {"accept", "max_size"} -> {"file"}
    [] key = "enum" -> {"enum"}

LimitKeys(f) ==
  DOMAIN f.limits \cup If(f.pattern # "", "pattern") \cup If(f.accept, "accept") \cup If(f.enum # <<>>, "enum")

Limit(f, key) == IF key \in DOMAIN f.limits THEN f.limits[key] ELSE Other
Crossed(f, low, high) == Limit(f, low) # Other /\ Limit(f, high) # Other /\ Limit(f, low) > Limit(f, high)
Ceilinged == {"min_length", "max_length", "min_items", "max_items"}

(* What is judged only of a field whose type is known.                      *)
TypedFindings(f, at) ==
  Findings(If(f.type = "enum" /\ f.enum = <<>>, "input_schema_enum_empty"), Append(at, "enum"))
    \cup Findings(If(Crossed(f, "min", "max") \/ Crossed(f, "min_length", "max_length") \/ Crossed(f, "min_items", "max_items"),
                     "input_schema_invalid_range"), at)
    \cup (UNION {Findings(If(f.type \notin MeantFor(k), "input_schema_constraint_type_mismatch")
                            \cup If(k \in Ceilinged /\ Limit(f, k) # Other /\ Limit(f, k) > MaxConstraint,
                                    "input_schema_constraint_out_of_range"), Append(at, k)) : k \in LimitKeys(f)})
    \cup (IF f.when = Absent THEN {}
          ELSE Findings(If(f.when.field = "" \/ (f.when.equals.kind # "nil") = (f.when.in # <<>>),
                           "input_schema_visible_when_no_predicate"), Append(at, "visible_when")))
    \cup Findings(IF f.pattern \in LongTexts THEN {"input_schema_pattern_too_long"}
                  ELSE If(f.pattern \in BadPatterns, "input_schema_invalid_pattern"), Append(at, "pattern"))

NameFindings(f, at) ==
  IF f.name \notin FieldNames THEN {Finding("input_schema_invalid_field_name", at, 0)}
  ELSE IF seen[f.name] # 0 THEN {Finding("input_schema_duplicate_field_name", at, seen[f.name])}
  ELSE {}

(* Mutant: a name is remembered where it was last declared.                 *)
RememberLast(f) == IF f.name \in FieldNames THEN seen' = [seen EXCEPT ![f.name] = field] ELSE UNCHANGED seen

Remember(f) ==
  seen' = IF f.name \in FieldNames /\ seen[f.name] = 0 THEN [seen EXCEPT ![f.name] = field] ELSE seen

JudgeField ==
  /\ phase = "schema" /\ part = "fields"
  /\ LET f == SchemaHere.fields[field]
         at == FieldAt(site, field) IN
       IF f = Other
       THEN Report({Finding("invalid_type", at, 0)}) /\ UNCHANGED seen
       ELSE /\ Report(NameFindings(f, at)
                        \cup (IF f.type \in FieldTypes THEN TypedFindings(f, at)
                              ELSE {Finding("input_schema_unknown_type", Append(at, "type"), 0)}))
            /\ Remember(f)
  /\ IF field < Len(SchemaHere.fields)
     THEN field' = field + 1 /\ UNCHANGED part
     ELSE field' = 1 /\ part' = "conditions"
  /\ UNCHANGED <<flow, phase, site>>

(* allNames: a condition may rest on any field that has the name, also on   *)
(* one whose name was found invalid.                                        *)
AllNames(fields) == {fields[i].name : i \in {k \in 1..Len(fields) : fields[k] # Other}} \ {""}

(* The second pass over the fields, and the lint on their order.            *)
ResolveConditions ==
  /\ phase = "schema" /\ part = "conditions"
  /\ LET fields == SchemaHere.fields
         isField == {i \in 1..Len(fields) : fields[i] # Other}
         dangling == {i \in isField : fields[i].when # Absent /\ fields[i].when.field \notin AllNames(fields) \cup {""}}
         late == {i \in isField : fields[i].type = "file"
                                    /\ \E k \in isField : k < i /\ fields[k].type \in ParametricTypes} IN
       Report({Finding("input_schema_visible_when_unknown_field", FieldAt(site, i) \o <<"visible_when", "field">>, 0) : i \in dangling}
                \cup {Finding("input_schema_file_after_parametric", FieldAt(site, i), 0) : i \in late})
  /\ Leave
  /\ UNCHANGED <<flow, field, seen>>

(* Of an input's field the name is the place.                               *)
JudgeReserved ==
  /\ phase = "schema" /\ part = "reserved"
  /\ LET fields == FieldsOf(flow.inputSchema)
         named == {fields[i].name : i \in {k \in 1..Len(fields) : fields[k] # Other}} IN
       Report({Finding("reserved_input_name", <<"query", name>>, 0) :
                  name \in (IF flow.query = Absent THEN {} ELSE flow.query) \cap ReservedNames}
                \cup {Finding("reserved_input_name", <<"input_schema", "fields", name>>, 0) : name \in named \cap ReservedNames})
  /\ Leave
  /\ UNCHANGED <<flow, field, seen>>

SchemaStep == OpenSchema \/ JudgeField \/ ResolveConditions \/ JudgeReserved

SchemaInit ==
  /\ flow \in Flows
  /\ phase = "schema" /\ site = <<0, 0>> /\ part = "open" /\ field = 1
  /\ seen = NoneSeen
  /\ findings = {}

------------------------------------------------------------------------------
(* What should be found of the names: each later field with the name of a   *)
(* valid earlier one, against the first of them, of its own schema, and     *)
(* each condition that rests on a name no field of its schema has, before   *)
(* or after.                                                                *)
FieldsAt(s) == FieldsOf(SchemaAt(flow, s))
Spots == UNION {{<<s, i>> : i \in 1..Len(FieldsAt(s))} : s \in Sites(flow)}

IsTwin(s, k, i) ==
  LET fields == FieldsAt(s) IN
  fields[k] # Other /\ fields[i] # Other /\ fields[k].name = fields[i].name /\ fields[i].name \in FieldNames
FirstTwins(s, i) == {k \in 1..(i - 1) : IsTwin(s, k, i) /\ \A e \in 1..(k - 1) : ~IsTwin(s, e, i)}
Dangles(s, i) ==
  LET fields == FieldsAt(s) IN
  /\ fields[i] # Other /\ fields[i].when # Absent /\ fields[i].when.field # ""
  /\ \A k \in 1..Len(fields) : fields[k] # Other => fields[k].name # fields[i].when.field

Repeats(spots) ==
  UNION {{Finding("input_schema_duplicate_field_name", FieldAt(p[1], p[2]), k) : k \in FirstTwins(p[1], p[2])} : p \in spots}
Danglings(spots) ==
  {Finding("input_schema_visible_when_unknown_field", FieldAt(p[1], p[2]) \o <<"visible_when", "field">>, 0) :
     p \in {q \in spots : Dangles(q[1], q[2])}}
WithCode(code) == {f \in findings : f.code = code}

(* When the schemas are judged, and whatever is judged after them: exactly  *)
(* the repeated names and the dangling conditions of all schemas are        *)
(* reported.                                                                *)
SchemaNames ==
  phase # "schema" =>
    /\ WithCode("input_schema_duplicate_field_name") = Repeats(Spots)
    /\ WithCode("input_schema_visible_when_unknown_field") = Danglings(Spots)

------------------------------------------------------------------------------
(* While they are judged: where the walk is, what it remembers of the names *)
(* before, and what it has reported so far.                                 *)
Before(s, t) == s[1] < t[1] \/ (s[1] = t[1] /\ s[2] < t[2])
Passed == {p \in Spots : phase # "schema" \/ Before(p[1], site) \/ (p[1] = site /\ part = "reserved")}
Compared == {p \in Spots : p \in Passed \/ (p[1] = site /\ (part = "conditions" \/ (part = "fields" /\ p[2] < field)))}

SiteOK ==
  phase = "schema" =>
    /\ site \in Sites(flow) /\ part \in {"open", "fields", "conditions", "reserved"}
    /\ part = "reserved" => site[1] = 0
    /\ part \in {"fields", "conditions"} => SchemaHere \notin {Absent, Other} /\ Len(FieldsOf(SchemaHere)) > 0
    /\ part = "fields" => field \in 1..Len(FieldsOf(SchemaHere))

SeenOK ==
  phase = "schema" /\ part = "fields" =>
    /\ seen \in [FieldNames -> Nat]
    /\ \A name \in FieldNames :
         LET fields == FieldsOf(SchemaHere)
             having == {k \in 1..(field - 1) : fields[k] # Other /\ fields[k].name = name} IN
         IF having = {} THEN seen[name] = 0
         ELSE seen[name] \in having /\ \A k \in having : seen[name] <= k

ReportedOK ==
  /\ WithCode("input_schema_duplicate_field_name") = Repeats(Compared)
  /\ WithCode("input_schema_visible_when_unknown_field") = Danglings(Passed)

SchemaInv == SiteOK /\ SeenOK /\ ReportedOK
==============================================================================
