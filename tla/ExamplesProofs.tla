----------------------------- MODULE ExamplesProofs -----------------------------
(****************************************************************************)
(* Proofs about the rules on schemas and examples.  The invariant of the    *)
(* schema walk, SchemaInv, says what is reported of the fields walked so    *)
(* far; what is judged after the schemas reports nothing of their names.    *)
(* The invariant of the merges, MergeInv, says that the heap holds what RFC *)
(* 7386 makes of the input and the part of the patch that is merged so far. *)
(* The invariant of the secrets, SecretsInv, says that what is told in      *)
(* inputs and patches, and of secrets, is what those done so far are owed.  *)
(****************************************************************************)
EXTENDS Examples, SequenceTheorems, FiniteSetTheorems, WellFoundedInduction, TLAPS

Passes(s) == {p \in Spots : p[1] = s}
NameCodes == {"input_schema_duplicate_field_name", "input_schema_visible_when_unknown_field"}
Silent(found) == \A f \in found : f.code \notin NameCodes

------------------------------------------------------------------------------
(* Sites are pairs; those of a step come before those of the next.          *)
LEMMA SitesType ==
  ASSUME NEW f \in Flows, NEW s \in Sites(f)
  PROVE  /\ s = <<s[1], s[2]>> /\ s[1] \in 0..Len(f.steps) /\ s[2] \in Nat
         /\ s[1] = 0 => s[2] = 0
         /\ s[1] > 0 => s[2] \in 0..Len(SubsOf(f.steps[s[1]]))
<1>1. CASE s = <<0, 0>>
  BY <1>1, FlowsAssumption
<1>2. CASE s \in UNION {{<<n, i>> : i \in 0..Len(SubsOf(f.steps[n]))} : n \in 1..Len(f.steps)}
  <2>1. PICK n \in 1..Len(f.steps) : s \in {<<n, i>> : i \in 0..Len(SubsOf(f.steps[n]))}
    BY <1>2
  <2>2. PICK i \in 0..Len(SubsOf(f.steps[n])) : s = <<n, i>>
    BY <2>1
  <2>3. QED
    BY <2>2, FlowsAssumption
<1>3. QED
  BY <1>1, <1>2 DEF Sites

LEMMA SitesGiven ==
  ASSUME NEW f \in Flows, NEW n \in 1..Len(f.steps), NEW i \in 0..Len(SubsOf(f.steps[n]))
  PROVE  <<n, i>> \in Sites(f)
BY DEF Sites

LEMMA SpotsType ==
  ASSUME NEW p
  PROVE  p \in Spots <=> /\ p = <<p[1], p[2]>> /\ p[1] \in Sites(flow)
                         /\ p[2] \in 1..Len(FieldsAt(p[1]))
BY DEF Spots

(* What should be found of several fields is what should be of each.        *)
LEMMA RepeatsUnion == \A A, B : Repeats(A \cup B) = Repeats(A) \cup Repeats(B)
BY DEF Repeats
LEMMA DanglingsUnion == \A A, B : Danglings(A \cup B) = Danglings(A) \cup Danglings(B)
BY DEF Danglings

(* What is said of a document's names depends on the document alone.        *)
LEMMA SameDocument ==
  ASSUME flow' = flow
  PROVE  /\ Spots' = Spots
         /\ \A A : Repeats(A)' = Repeats(A) /\ Danglings(A)' = Danglings(A)
<1>1. \A s, i : FieldsAt(s)' = FieldsAt(s) /\ FieldAt(s, i)' = FieldAt(s, i)
  BY DEF FieldsAt, FieldAt, PathOf
<1>2. Spots' = Spots
  BY <1>1 DEF Spots
<1>3. \A s, k, i : IsTwin(s, k, i)' <=> IsTwin(s, k, i)
  BY <1>1 DEF IsTwin
<1>4. \A s, i : FirstTwins(s, i)' = FirstTwins(s, i)
  BY <1>3 DEF FirstTwins
<1>5. \A s, i : Dangles(s, i)' <=> Dangles(s, i)
  <2> TAKE s, i
  <2> DEFINE F == FieldsAt(s)
  <2>1. F' = F
    BY <1>1
  <2> HIDE DEF F
  <2>2. Dangles(s, i) <=> /\ F[i] # Other /\ F[i].when # Absent /\ F[i].when.field # ""
                          /\ \A k \in 1..Len(F) : F[k] # Other => F[k].name # F[i].when.field
    BY DEF Dangles, F
  <2>3. Dangles(s, i)' <=> /\ F'[i] # Other /\ F'[i].when # Absent /\ F'[i].when.field # ""
                           /\ \A k \in 1..Len(F') : F'[k] # Other => F'[k].name # F'[i].when.field
    BY DEF Dangles, F
  <2>4. QED
    BY <2>1, <2>2, <2>3
<1>6. QED
  BY <1>1, <1>2, <1>4, <1>5 DEF Repeats, Danglings

------------------------------------------------------------------------------
(* Findings of other codes leave what is reported of names as it was.       *)
LEMMA SilentParts ==
  /\ \A codes, at : codes \cap NameCodes = {} => Silent(Findings(codes, at))
  /\ \A A, B : Silent(A) /\ Silent(B) => Silent(A \cup B)
  /\ Silent({})
BY DEF Silent, Findings, Finding

LEMMA SilentReport ==
  ASSUME NEW found, Silent(found), findings' = findings \cup found, NEW code \in NameCodes
  PROVE  WithCode(code)' = WithCode(code)
<1>1. WithCode(code)' = {f \in findings' : f.code = code}
  BY DEF WithCode
<1>2. WithCode(code) = {f \in findings : f.code = code}
  BY DEF WithCode
<1>3. \A f \in found : f.code # code
  BY DEF Silent
<1>4. QED
  BY <1>1, <1>2, <1>3

LEMMA ReportOne ==
  ASSUME NEW found, findings' = findings \cup found, NEW code
  PROVE  WithCode(code)' = WithCode(code) \cup {f \in found : f.code = code}
<1>1. WithCode(code)' = {f \in findings' : f.code = code}
  BY DEF WithCode
<1>2. WithCode(code) = {f \in findings : f.code = code}
  BY DEF WithCode
<1>3. QED
  BY <1>1, <1>2

(* Leaving a site passes its fields, and no others.                         *)
LEMMA LeaveStep ==
  ASSUME flow \in Flows, flow' = flow, SiteOK, phase = "schema", Leave,
         part # "reserved" => part \in {"open", "conditions"}
  PROVE  /\ Passed' = Passed \cup Passes(site) /\ Compared' = Passed'
         /\ SiteOK' /\ SeenOK'
<1>1. /\ site \in Sites(flow) /\ part \in {"open", "fields", "conditions", "reserved"}
      /\ part = "reserved" => site[1] = 0
  BY DEF SiteOK
<1>2. /\ site = <<site[1], site[2]>> /\ site[1] \in 0..Len(flow.steps) /\ site[2] \in Nat
      /\ site[1] = 0 => site[2] = 0
      /\ site[1] > 0 => site[2] \in 0..Len(SubsOf(flow.steps[site[1]]))
  BY <1>1, SitesType
<1>3. Spots' = Spots
  BY SameDocument
<1>4. \A p \in Spots : /\ p[1] = <<p[1][1], p[1][2]>> /\ p[1][1] \in 0..Len(flow.steps) /\ p[1][2] \in Nat
                       /\ p[1][1] = 0 => p[1][2] = 0
                       /\ p[1][1] > 0 => p[1][2] \in 0..Len(SubsOf(flow.steps[p[1][1]]))
  BY SpotsType, SitesType
<1>5. Len(flow.steps) \in Nat
  BY FlowsAssumption
<1>6. Passed' = {p \in Spots : phase' # "schema" \/ Before(p[1], site') \/ (p[1] = site' /\ part' = "reserved")}
  BY <1>3 DEF Passed, Before
<1>7. Passed = {p \in Spots : Before(p[1], site) \/ (p[1] = site /\ part = "reserved")}
  BY DEF Passed
<1>8. CASE site[1] = 0 /\ part # "reserved"
  <2>1. part' = "reserved" /\ phase' = "schema" /\ site' = site
    BY <1>8 DEF Leave
  <2>2. Passed' = Passed \cup Passes(site)
    BY <1>6, <1>7, <1>8, <2>1 DEF Passes
  <2>3. Compared' = Passed'
    BY <1>3, <2>1 DEF Compared, Passed
  <2>4. SiteOK'
    BY <1>1, <1>8, <2>1 DEF SiteOK
  <2>5. SeenOK'
    BY <2>1 DEF SeenOK
  <2>6. QED
    BY <2>2, <2>3, <2>4, <2>5
<1>9. CASE ~(site[1] = 0 /\ part # "reserved")
  <2>1. /\ part' = "open" /\ site' = NextSite
        /\ phase' = IF NextSite[1] <= Len(flow.steps) THEN "schema" ELSE "set"
    BY <1>9 DEF Leave
  <2>2. \A p \in Spots : (NextSite[1] > Len(flow.steps) \/ Before(p[1], NextSite)) <=> (Before(p[1], site) \/ p[1] = site)
    <3> TAKE p \in Spots
    <3>1. CASE site[1] > 0 /\ site[2] < Len(SubsOf(flow.steps[site[1]]))
      <4>1. NextSite = <<site[1], site[2] + 1>>
        BY <3>1 DEF NextSite
      <4>2. QED
        BY <1>2, <1>4, <1>5, <4>1 DEF Before
    <3>2. CASE ~(site[1] > 0 /\ site[2] < Len(SubsOf(flow.steps[site[1]])))
      <4>1. NextSite = <<site[1] + 1, 0>>
        BY <3>2 DEF NextSite
      <4>2. p[1][1] = site[1] => p[1][2] <= site[2]
        BY <1>2, <1>4, <3>2, FlowsAssumption
      <4>3. p[1] = site <=> p[1][1] = site[1] /\ p[1][2] = site[2]
        BY <1>2, <1>4
      <4>4. /\ p[1][1] \in Nat /\ p[1][2] \in Nat /\ site[1] \in Nat /\ site[2] \in Nat
            /\ p[1][1] <= Len(flow.steps)
        BY <1>2, <1>4, <1>5
      <4>5. NextSite[1] = site[1] + 1 /\ NextSite[2] = 0
        BY <4>1
      <4>6. Before(p[1], site) \/ p[1] = site <=> p[1][1] <= site[1]
        BY <4>2, <4>3, <4>4 DEF Before
      <4>7. NextSite[1] > Len(flow.steps) \/ Before(p[1], NextSite) <=> p[1][1] <= site[1]
        BY <1>5, <4>4, <4>5 DEF Before
      <4>8. QED
        BY <4>6, <4>7
    <3>3. QED
      BY <3>1, <3>2
  <2>3. NextSite[1] \in Nat /\ (phase' # "schema" <=> NextSite[1] > Len(flow.steps))
    <3>1. NextSite[1] \in Nat
      BY <1>2 DEF NextSite
    <3>2. QED
      BY <1>5, <2>1, <3>1
  <2>4. Passed' = Passed \cup Passes(site)
    BY <1>6, <1>7, <2>1, <2>2, <2>3 DEF Passes
  <2>5. Compared' = Passed'
    BY <1>3, <2>1 DEF Compared, Passed
  <2>6. SiteOK'
    <3>1. CASE phase' # "schema"
      BY <3>1 DEF SiteOK
    <3>2. CASE phase' = "schema"
      <4>1. NextSite[1] <= Len(flow.steps)
        BY <1>5, <2>3, <3>2
      <4>2. NextSite \in Sites(flow)
        <5>1. CASE site[1] > 0 /\ site[2] < Len(SubsOf(flow.steps[site[1]]))
          <6>1. Len(SubsOf(flow.steps[site[1]])) \in Nat
            BY <1>2, <5>1, FlowsAssumption
          <6>2. site[1] \in 1..Len(flow.steps) /\ site[2] + 1 \in 0..Len(SubsOf(flow.steps[site[1]]))
            BY <1>2, <1>5, <5>1, <6>1
          <6>3. NextSite = <<site[1], site[2] + 1>>
            BY <5>1 DEF NextSite
          <6>4. QED
            BY <6>2, <6>3, SitesGiven
        <5>2. CASE ~(site[1] > 0 /\ site[2] < Len(SubsOf(flow.steps[site[1]])))
          <6>1. NextSite = <<site[1] + 1, 0>>
            BY <5>2 DEF NextSite
          <6>2. site[1] + 1 \in 1..Len(flow.steps)
            BY <1>2, <1>5, <4>1, <6>1
          <6>3. 0 \in 0..Len(SubsOf(flow.steps[site[1] + 1]))
            BY <6>2, FlowsAssumption
          <6>4. QED
            BY <6>1, <6>2, <6>3, SitesGiven
        <5>3. QED
          BY <5>1, <5>2
      <4>3. QED
        BY <2>1, <4>2 DEF SiteOK
    <3>3. QED
      BY <3>1, <3>2
  <2>7. SeenOK'
    BY <2>1 DEF SeenOK
  <2>8. QED
    BY <2>4, <2>5, <2>6, <2>7
<1>10. QED
  BY <1>8, <1>9

------------------------------------------------------------------------------
(* The steps of the schema walk.                                            *)
SchemaIInv == flow \in Flows /\ SchemaInv

LEMMA OpenSchemaKeeps ==
  ASSUME SchemaIInv, OpenSchema
  PROVE  SchemaIInv'
<1>1. /\ flow \in Flows /\ flow' = flow /\ phase = "schema" /\ part = "open"
      /\ SiteOK /\ ReportedOK /\ site \in Sites(flow)
  BY DEF SchemaIInv, SchemaInv, OpenSchema, SiteOK
<1>2. FieldsAt(site) = FieldsOf(SchemaHere) /\ Len(FieldsAt(site)) \in Nat
  BY <1>1, FlowsAssumption DEF FieldsAt, SchemaHere
<1>3. Spots' = Spots /\ \A A : Repeats(A)' = Repeats(A) /\ Danglings(A)' = Danglings(A)
  BY <1>1, SameDocument
<1>4. \E found : Silent(found) /\ findings' = findings \cup found
  <2>1. CASE SchemaHere \in {Absent, Other}
    <3>1. findings' = findings \cup Findings(If(SchemaHere = Other, "invalid_type"), PathOf(site))
      BY <2>1 DEF OpenSchema, Report
    <3>2. If(SchemaHere = Other, "invalid_type") \cap NameCodes = {}
      BY DEF If, NameCodes
    <3>3. QED
      BY <3>1, <3>2, SilentParts
  <2>2. CASE SchemaHere \notin {Absent, Other}
    <3>1. findings' = findings \cup
            (Findings(If(SchemaHere.version # SchemaVersion, "input_schema_invalid_version"), Append(PathOf(site), "version"))
               \cup Findings(If(SchemaHere.fields = Other, "invalid_type"), Append(PathOf(site), "fields")))
      BY <2>2 DEF OpenSchema, Report
    <3>2. /\ If(SchemaHere.version # SchemaVersion, "input_schema_invalid_version") \cap NameCodes = {}
          /\ If(SchemaHere.fields = Other, "invalid_type") \cap NameCodes = {}
      BY DEF If, NameCodes
    <3>3. QED
      BY <3>1, <3>2, SilentParts
  <2>3. QED
    BY <2>1, <2>2
<1>5. \A code \in NameCodes : WithCode(code)' = WithCode(code)
  BY <1>4, SilentReport
<1>6. CASE Len(FieldsAt(site)) = 0
  <2>1. Leave
    BY <1>2, <1>6 DEF OpenSchema
  <2>2. Passes(site) = {}
    BY <1>6, SpotsType DEF Passes
  <2>3. Passed' = Passed /\ Compared' = Passed /\ SiteOK' /\ SeenOK'
    BY <1>1, <2>1, <2>2, LeaveStep
  <2>4. Compared = Passed
    BY <1>1 DEF Compared, Passed
  <2>5. ReportedOK'
    BY <1>1, <1>3, <1>5, <2>3, <2>4 DEF ReportedOK, NameCodes
  <2>6. QED
    BY <1>1, <2>3, <2>5 DEF SchemaIInv, SchemaInv
<1>7. CASE Len(FieldsAt(site)) # 0
  <2>1. SchemaHere \notin {Absent, Other}
    BY <1>2, <1>7 DEF FieldsOf
  <2>2. field' = 1 /\ seen' = NoneSeen /\ part' = "fields" /\ phase' = phase /\ site' = site
    BY <1>2, <1>7, <2>1 DEF OpenSchema
  <2>3. SchemaHere' = SchemaHere /\ FieldsOf(SchemaHere)' = FieldsOf(SchemaHere)
    BY <1>1, <2>2 DEF SchemaHere
  <2>4. SiteOK'
    BY <1>1, <1>2, <1>7, <2>1, <2>2, <2>3 DEF SiteOK
  <2>5. SeenOK'
    <3>1. seen' \in [FieldNames -> Nat] /\ \A name \in FieldNames : seen'[name] = 0
      BY <2>2 DEF NoneSeen
    <3>2. 1..(field' - 1) = {}
      BY <2>2
    <3>3. QED
      BY <3>1, <3>2 DEF SeenOK
  <2>6. Passed' = Passed
    BY <1>1, <1>3, <2>2 DEF Passed, Before
  <2>7. Compared' = Compared
    <3>1. \A p \in Spots : p[2] \in Nat /\ p[2] >= 1
      BY SpotsType
    <3>2. QED
      BY <1>1, <1>3, <2>2, <2>6, <3>1 DEF Compared
  <2>8. ReportedOK'
    BY <1>1, <1>3, <1>5, <2>6, <2>7 DEF ReportedOK, NameCodes
  <2>9. QED
    BY <1>1, <2>4, <2>5, <2>8 DEF SchemaIInv, SchemaInv
<1>8. QED
  BY <1>6, <1>7

LEMMA FindingsCode == \A codes, at : \A g \in Findings(codes, at) : g.code \in codes
BY DEF Findings, Finding

(* The codes of TypedFindings, part by part.                                *)
LEMMA TypedFindingsSilent == \A f, at : Silent(TypedFindings(f, at))
<1> SUFFICES ASSUME NEW f, NEW at, NEW g \in TypedFindings(f, at)
             PROVE  g.code \notin NameCodes
  BY DEF Silent
<1>1. \/ g \in Findings(If(f.type = "enum" /\ f.enum = <<>>, "input_schema_enum_empty"), Append(at, "enum"))
      \/ g \in Findings(If(Crossed(f, "min", "max") \/ Crossed(f, "min_length", "max_length")
                              \/ Crossed(f, "min_items", "max_items"), "input_schema_invalid_range"), at)
      \/ \E k \in LimitKeys(f) :
           g \in Findings(If(f.type \notin MeantFor(k), "input_schema_constraint_type_mismatch")
                            \cup If(k \in Ceilinged /\ Limit(f, k) # Other /\ Limit(f, k) > MaxConstraint,
                                    "input_schema_constraint_out_of_range"), Append(at, k))
      \/ /\ f.when # Absent
         /\ g \in Findings(If(f.when.field = "" \/ (f.when.equals.kind # "nil") = (f.when.in # <<>>),
                              "input_schema_visible_when_no_predicate"), Append(at, "visible_when"))
      \/ g \in Findings(IF f.pattern \in LongTexts THEN {"input_schema_pattern_too_long"}
                         ELSE If(f.pattern \in BadPatterns, "input_schema_invalid_pattern"), Append(at, "pattern"))
  BY ZenonT(60) DEF TypedFindings
<1>2. g.code \in {"input_schema_enum_empty", "input_schema_invalid_range", "input_schema_constraint_type_mismatch",
                  "input_schema_constraint_out_of_range", "input_schema_visible_when_no_predicate",
                  "input_schema_pattern_too_long", "input_schema_invalid_pattern"}
  BY <1>1, FindingsCode DEF If
<1>3. QED
  BY <1>2 DEF NameCodes

(* A field is the first of its name, or is reported against the first.      *)
LEMMA NameFindingsExact ==
  ASSUME SeenOK, SiteOK, phase = "schema", part = "fields", SchemaHere.fields[field] # Other,
         FieldsOf(SchemaHere) = SchemaHere.fields
  PROVE  {f \in NameFindings(SchemaHere.fields[field], FieldAt(site, field)) : f.code = "input_schema_duplicate_field_name"}
           = {Finding("input_schema_duplicate_field_name", FieldAt(site, field), k) : k \in FirstTwins(site, field)}
<1> DEFINE F == SchemaHere.fields
           name == F[field].name
           having == {k \in 1..(field - 1) : F[k] # Other /\ F[k].name = name}
<1>1. field \in 1..Len(F) /\ FieldsAt(site) = F
  BY DEF SiteOK, FieldsAt, SchemaHere
<1>2. \A k, i : IsTwin(site, k, i) <=> F[k] # Other /\ F[i] # Other /\ F[k].name = F[i].name /\ F[i].name \in FieldNames
  BY <1>1 DEF IsTwin
<1>3. CASE name \notin FieldNames
  <2>1. FirstTwins(site, field) = {}
    BY <1>2, <1>3 DEF FirstTwins
  <2>2. NameFindings(F[field], FieldAt(site, field)) = {Finding("input_schema_invalid_field_name", FieldAt(site, field), 0)}
    BY <1>3 DEF NameFindings
  <2>3. QED
    BY <2>1, <2>2 DEF Finding
<1>4. CASE name \in FieldNames
  <2>1. /\ seen[name] \in Nat
        /\ IF having = {} THEN seen[name] = 0
           ELSE seen[name] \in having /\ \A k \in having : seen[name] <= k
    BY <1>4 DEF SeenOK
  <2>2. FirstTwins(site, field) = {k \in having : \A e \in 1..(k - 1) : e \notin having}
    <3>1. \A k \in 1..(field - 1) : IsTwin(site, k, field) <=> k \in having
      BY <1>2, <1>4
    <3>2. \A k \in 1..(field - 1) : \A e \in 1..(k - 1) : e \in 1..(field - 1)
      BY <1>1
    <3>3. QED
      BY <3>1, <3>2 DEF FirstTwins
  <2>3. CASE having = {}
    <3>1. FirstTwins(site, field) = {} /\ NameFindings(F[field], FieldAt(site, field)) = {}
      BY <1>4, <2>1, <2>2, <2>3 DEF NameFindings
    <3>2. QED
      BY <3>1
  <2>4. CASE having # {}
    <3>1. seen[name] \in having /\ \A k \in having : seen[name] <= k
      BY <2>1, <2>4
    <3>2. \A k \in having : k \in Nat /\ k >= 1 /\ k \in 1..k
      BY <1>1
    <3>3. FirstTwins(site, field) = {seen[name]}
      <4>1. \A k \in having : k = seen[name] <=> \A e \in 1..(k - 1) : e \notin having
        <5> TAKE k \in having
        <5>1. k = seen[name] => \A e \in 1..(k - 1) : e \notin having
          BY <3>1, <3>2
        <5>2. k # seen[name] => seen[name] \in 1..(k - 1)
          BY <3>1, <3>2
        <5>3. QED
          BY <3>1, <5>1, <5>2
      <4>2. QED
        BY <2>2, <3>1, <4>1
    <3>4. seen[name] # 0
      BY <3>1, <3>2
    <3>5. NameFindings(F[field], FieldAt(site, field))
            = {Finding("input_schema_duplicate_field_name", FieldAt(site, field), seen[name])}
      BY <1>4, <3>4 DEF NameFindings
    <3>6. QED
      BY <3>3, <3>5 DEF Finding
  <2>5. QED
    BY <2>3, <2>4
<1>5. QED
  BY <1>3, <1>4

LEMMA JudgeFieldKeeps ==
  ASSUME SchemaIInv, JudgeField
  PROVE  SchemaIInv'
<1> DEFINE F == SchemaHere.fields
           f == F[field]
           at == FieldAt(site, field)
           here == <<site, field>>
<1>1. /\ flow \in Flows /\ flow' = flow /\ phase = "schema" /\ part = "fields" /\ phase' = phase /\ site' = site
      /\ SiteOK /\ SeenOK /\ ReportedOK /\ site \in Sites(flow)
  BY DEF SchemaIInv, SchemaInv, JudgeField, SiteOK
<1>2. /\ SchemaHere \notin {Absent, Other} /\ Len(FieldsOf(SchemaHere)) > 0 /\ field \in 1..Len(FieldsOf(SchemaHere))
      /\ FieldsAt(site) = FieldsOf(SchemaHere) /\ Len(FieldsAt(site)) \in Nat
  BY <1>1, FlowsAssumption DEF SiteOK, FieldsAt, SchemaHere
<1>3. FieldsOf(SchemaHere) = F
  BY <1>2 DEF FieldsOf
<1>4. SchemaHere' = SchemaHere /\ FieldsOf(SchemaHere)' = FieldsOf(SchemaHere)
  BY <1>1 DEF SchemaHere
<1>5. Spots' = Spots /\ \A A : Repeats(A)' = Repeats(A) /\ Danglings(A)' = Danglings(A)
  BY <1>1, SameDocument
<1>6. site = <<site[1], site[2]>> /\ here \in Spots
  BY <1>1, <1>2, SitesType, SpotsType
<1>7. /\ f = Other => findings' = findings \cup {Finding("invalid_type", at, 0)} /\ seen' = seen
      /\ f # Other => /\ findings' = findings \cup (NameFindings(f, at)
                                        \cup (IF f.type \in FieldTypes THEN TypedFindings(f, at)
                                              ELSE {Finding("input_schema_unknown_type", Append(at, "type"), 0)}))
                      /\ seen' = IF f.name \in FieldNames /\ seen[f.name] = 0 THEN [seen EXCEPT ![f.name] = field] ELSE seen
  BY DEF JudgeField, Report, Remember
<1>8. /\ part' \in {"fields", "conditions"}
      /\ part' = "fields" => (field' = field + 1 /\ field + 1 \in 1..Len(F))
      /\ part' = "conditions" => field = Len(F)
  BY <1>1, <1>2, <1>3 DEF JudgeField
<1>9. SiteOK'
  BY <1>1, <1>2, <1>3, <1>4, <1>8 DEF SiteOK
<1>10. Passed' = Passed
  <2>1. Passed = {p \in Spots : Before(p[1], site)}
    BY <1>1 DEF Passed
  <2>2. Passed' = {p \in Spots : Before(p[1], site)}
    BY <1>1, <1>5, <1>8 DEF Passed, Before
  <2>3. QED
    BY <2>1, <2>2
<1>11. Compared' = Compared \cup {here}
  <2>1. \A p \in Spots : p = <<p[1], p[2]>> /\ p[2] \in 1..Len(FieldsAt(p[1]))
    BY SpotsType
  <2>2. Compared = {p \in Spots : p \in Passed \/ (p[1] = site /\ p[2] < field)}
    BY <1>1 DEF Compared
  <2>3. Compared' = {p \in Spots : p \in Passed \/ (p[1] = site /\ (part' = "conditions" \/ (part' = "fields" /\ p[2] < field')))}
    BY <1>1, <1>5, <1>10 DEF Compared
  <2>4. \A p \in Spots : p[1] = site => /\ p[2] \in 1..Len(F) /\ (p = here <=> p[2] = field)
    BY <1>2, <1>3, <2>1
  <2>5. \A p \in Spots : p[1] = site =>
          ((part' = "conditions" \/ (part' = "fields" /\ p[2] < field')) <=> (p[2] < field \/ p = here))
    <3> SUFFICES ASSUME NEW p \in Spots, p[1] = site
                 PROVE  (part' = "conditions" \/ (part' = "fields" /\ p[2] < field')) <=> (p[2] < field \/ p[2] = field)
      BY <2>4
    <3>1. p[2] \in 1..Len(F) /\ field \in 1..Len(F) /\ Len(F) \in Nat
      BY <1>2, <1>3, <2>4
    <3>2. QED
      BY <1>8, <3>1
  <2>6. here \in Spots /\ here[1] = site
    BY <1>6
  <2>7. QED
    BY <2>2, <2>3, <2>5, <2>6
<1>12. WithCode("input_schema_visible_when_unknown_field")' = WithCode("input_schema_visible_when_unknown_field")
  <2>1. \A new : findings' = findings \cup new /\ (\A g \in new : g.code # "input_schema_visible_when_unknown_field")
          => WithCode("input_schema_visible_when_unknown_field")' = WithCode("input_schema_visible_when_unknown_field")
    <3> SUFFICES ASSUME NEW new, findings' = findings \cup new,
                        \A g \in new : g.code # "input_schema_visible_when_unknown_field"
                 PROVE  WithCode("input_schema_visible_when_unknown_field")' = WithCode("input_schema_visible_when_unknown_field")
      OBVIOUS
    <3>1. QED
      BY ReportOne
  <2>2. \A g \in NameFindings(f, at) : g.code # "input_schema_visible_when_unknown_field"
    BY DEF NameFindings, Finding
  <2>3. \A g \in TypedFindings(f, at) : g.code \notin NameCodes
    BY TypedFindingsSilent DEF Silent
  <2>4. \A place : /\ Finding("input_schema_unknown_type", place, 0).code = "input_schema_unknown_type"
                   /\ Finding("invalid_type", place, 0).code = "invalid_type"
    BY DEF Finding
  <2>5. CASE f = Other
    BY <1>7, <2>1, <2>4, <2>5
  <2>6. CASE f # Other
    <3>1. \A g \in NameFindings(f, at) \cup (IF f.type \in FieldTypes THEN TypedFindings(f, at)
                                              ELSE {Finding("input_schema_unknown_type", Append(at, "type"), 0)}) :
            g.code # "input_schema_visible_when_unknown_field"
      BY <2>2, <2>3, <2>4 DEF NameCodes
    <3>2. QED
      BY <1>7, <2>1, <2>6, <3>1
  <2>7. QED
    BY <2>5, <2>6
<1>13. WithCode("input_schema_duplicate_field_name")'
         = WithCode("input_schema_duplicate_field_name") \cup Repeats({here})
  <2>1. Repeats({here}) = {Finding("input_schema_duplicate_field_name", at, k) : k \in FirstTwins(site, field)}
    BY DEF Repeats
  <2>2. CASE f = Other
    <3>1. FirstTwins(site, field) = {}
      BY <1>2, <1>3, <2>2 DEF FirstTwins, IsTwin
    <3>2. Finding("invalid_type", at, 0).code # "input_schema_duplicate_field_name"
      BY DEF Finding
    <3>3. WithCode("input_schema_duplicate_field_name")' = WithCode("input_schema_duplicate_field_name") \cup
            {g \in {Finding("invalid_type", at, 0)} : g.code = "input_schema_duplicate_field_name"}
      BY <1>7, <2>2, ReportOne
    <3>4. QED
      BY <2>1, <3>1, <3>2, <3>3
  <2>3. CASE f # Other
    <3> DEFINE rest == IF f.type \in FieldTypes THEN TypedFindings(f, at)
                       ELSE {Finding("input_schema_unknown_type", Append(at, "type"), 0)}
    <3>1. \A g \in rest : g.code # "input_schema_duplicate_field_name"
      <4>1. \A g \in TypedFindings(f, at) : g.code \notin NameCodes
        BY TypedFindingsSilent DEF Silent
      <4>2. Finding("input_schema_unknown_type", Append(at, "type"), 0).code = "input_schema_unknown_type"
        BY DEF Finding
      <4>3. QED
        BY <4>1, <4>2 DEF NameCodes
    <3> HIDE DEF rest
    <3>2. findings' = findings \cup (NameFindings(f, at) \cup rest)
      BY <1>7, <2>3 DEF rest
    <3>3. {g \in NameFindings(f, at) : g.code = "input_schema_duplicate_field_name"} = Repeats({here})
      BY <1>1, <1>3, <2>1, <2>3, NameFindingsExact
    <3>4. WithCode("input_schema_duplicate_field_name")' = WithCode("input_schema_duplicate_field_name") \cup
            {g \in NameFindings(f, at) \cup rest : g.code = "input_schema_duplicate_field_name"}
      BY <3>2, ReportOne
    <3>5. QED
      BY <3>1, <3>3, <3>4
  <2>4. QED
    BY <2>2, <2>3
<1>14. SeenOK'
  <2> SUFFICES ASSUME phase' = "schema" /\ part' = "fields"
               PROVE  /\ seen' \in [FieldNames -> Nat]
                      /\ \A name \in FieldNames :
                           LET having == {k \in 1..field : F[k] # Other /\ F[k].name = name} IN
                           IF having = {} THEN seen'[name] = 0
                           ELSE seen'[name] \in having /\ \A k \in having : seen'[name] <= k
    <3>1. part' = "fields" => field' - 1 = field
      BY <1>2, <1>8
    <3>2. FieldsOf(SchemaHere)' = F
      BY <1>3, <1>4
    <3>3. QED
      BY <3>1, <3>2 DEF SeenOK
  <2>1. /\ seen \in [FieldNames -> Nat]
        /\ \A name \in FieldNames :
             LET having == {k \in 1..(field - 1) : F[k] # Other /\ F[k].name = name} IN
             IF having = {} THEN seen[name] = 0
             ELSE seen[name] \in having /\ \A k \in having : seen[name] <= k
    BY <1>1, <1>3 DEF SeenOK
  <2>2. field \in Nat /\ field >= 1 /\ 1..field = (1..(field - 1)) \cup {field}
    BY <1>2
  <2>3. seen' \in [FieldNames -> Nat]
    BY <1>7, <2>1, <2>2
  <2>4. ASSUME NEW name \in FieldNames
        PROVE  LET having == {k \in 1..field : F[k] # Other /\ F[k].name = name} IN
               IF having = {} THEN seen'[name] = 0
               ELSE seen'[name] \in having /\ \A k \in having : seen'[name] <= k
    <3> DEFINE before == {k \in 1..(field - 1) : F[k] # Other /\ F[k].name = name}
               having == {k \in 1..field : F[k] # Other /\ F[k].name = name}
    <3>1. IF before = {} THEN seen[name] = 0 ELSE seen[name] \in before /\ \A k \in before : seen[name] <= k
      BY <2>1
    <3>2. \A k \in before : k \in Nat /\ k >= 1 /\ k < field
      BY <2>2
    <3>3. CASE f # Other /\ f.name = name
      <4>1. having = before \cup {field}
        BY <2>2, <3>3
      <4>2. CASE before = {}
        <5>1. seen'[name] = field
          BY <1>7, <2>1, <3>1, <3>3, <4>2
        <5>2. QED
          BY <2>2, <4>1, <4>2, <5>1
      <4>3. CASE before # {}
        <5>1. seen'[name] = seen[name]
          BY <1>7, <2>1, <3>1, <3>2, <3>3, <4>3
        <5>2. seen[name] <= field
          BY <2>2, <3>1, <3>2, <4>3
        <5>3. QED
          BY <3>1, <4>1, <4>3, <5>1, <5>2
      <4>4. QED
        BY <4>2, <4>3
    <3>4. CASE f = Other \/ f.name # name
      <4>1. having = before
        BY <2>2, <3>4
      <4>2. seen'[name] = seen[name]
        BY <1>7, <2>1, <3>4
      <4>3. QED
        BY <3>1, <4>1, <4>2
    <3>5. QED
      BY <3>3, <3>4
  <2>5. QED
    BY <2>3, <2>4
<1>15. ReportedOK'
  BY <1>1, <1>5, <1>10, <1>11, <1>12, <1>13, RepeatsUnion DEF ReportedOK
<1>16. QED
  BY <1>1, <1>9, <1>14, <1>15 DEF SchemaIInv, SchemaInv

LEMMA ResolveConditionsKeeps ==
  ASSUME SchemaIInv, ResolveConditions
  PROVE  SchemaIInv'
<1> DEFINE F == SchemaHere.fields
           isField == {i \in 1..Len(F) : F[i] # Other}
           dangling == {i \in isField : F[i].when # Absent /\ F[i].when.field \notin AllNames(F) \cup {""}}
           late == {i \in isField : F[i].type = "file" /\ \E k \in isField : k < i /\ F[k].type \in ParametricTypes}
           told == {Finding("input_schema_visible_when_unknown_field", FieldAt(site, i) \o <<"visible_when", "field">>, 0) : i \in dangling}
           lint == {Finding("input_schema_file_after_parametric", FieldAt(site, i), 0) : i \in late}
<1>1. /\ flow \in Flows /\ flow' = flow /\ phase = "schema" /\ part = "conditions" /\ Leave
      /\ SiteOK /\ ReportedOK /\ site \in Sites(flow)
  BY DEF SchemaIInv, SchemaInv, ResolveConditions, SiteOK
<1>2. FieldsAt(site) = F
  BY <1>1 DEF SiteOK, FieldsAt, SchemaHere, FieldsOf
<1>3. Spots' = Spots /\ \A A : Repeats(A)' = Repeats(A) /\ Danglings(A)' = Danglings(A)
  BY <1>1, SameDocument
<1>4. findings' = findings \cup (told \cup lint)
  BY DEF ResolveConditions, Report
<1>5. /\ \A g \in told : g.code = "input_schema_visible_when_unknown_field"
      /\ \A g \in lint : g.code = "input_schema_file_after_parametric"
  <2>1. \A code, place : Finding(code, place, 0).code = code
    BY DEF Finding
  <2>2. QED
    BY <2>1
<1>6. told = Danglings(Passes(site))
  <2>1. \A i \in 1..Len(F) : i \in dangling <=> Dangles(site, i)
    BY <1>2 DEF Dangles, AllNames
  <2>2. Passes(site) = {<<site, i>> : i \in 1..Len(F)}
    <3>1. site = <<site[1], site[2]>>
      BY <1>1, SitesType
    <3>2. \A p \in Passes(site) : p = <<site, p[2]>> /\ p[2] \in 1..Len(F)
      BY <1>2, SpotsType DEF Passes
    <3>3. \A i \in 1..Len(F) : <<site, i>> \in Passes(site)
      BY <1>1, <1>2, SpotsType DEF Passes
    <3>4. QED
      BY <3>2, <3>3
  <2>3. Danglings(Passes(site)) =
          {Finding("input_schema_visible_when_unknown_field", FieldAt(p[1], p[2]) \o <<"visible_when", "field">>, 0) :
             p \in {q \in Passes(site) : Dangles(q[1], q[2])}}
    BY DEF Danglings
  <2>4. dangling \subseteq 1..Len(F)
    OBVIOUS
  <2>5. told = {Finding("input_schema_visible_when_unknown_field", FieldAt(site, i) \o <<"visible_when", "field">>, 0) : i \in dangling}
    OBVIOUS
  <2> HIDE DEF F, dangling, told
  <2>6. {q \in Passes(site) : Dangles(q[1], q[2])} = {<<site, i>> : i \in dangling}
    <3>1. \A i \in 1..Len(F) : <<site, i>>[1] = site /\ <<site, i>>[2] = i
      OBVIOUS
    <3>2. QED
      BY <2>1, <2>2, <2>4, <3>1
  <2>7. QED
    <3> DEFINE about(s, i) == Finding("input_schema_visible_when_unknown_field", FieldAt(s, i) \o <<"visible_when", "field">>, 0)
    <3>1. told = {about(site, i) : i \in dangling} /\ Danglings(Passes(site)) = {about(p[1], p[2]) : p \in {<<site, i>> : i \in dangling}}
      BY <2>3, <2>5, <2>6
    <3> HIDE DEF about
    <3>2. \A i : about(<<site, i>>[1], <<site, i>>[2]) = about(site, i)
      OBVIOUS
    <3>3. {about(p[1], p[2]) : p \in {<<site, i>> : i \in dangling}} = {about(site, i) : i \in dangling}
      BY <3>2
    <3>4. QED
      BY <3>1, <3>3
<1> HIDE DEF F, isField, dangling, late, told, lint
<1>7. WithCode("input_schema_duplicate_field_name")' = WithCode("input_schema_duplicate_field_name")
  <2>1. WithCode("input_schema_duplicate_field_name")' = WithCode("input_schema_duplicate_field_name")
          \cup {g \in told \cup lint : g.code = "input_schema_duplicate_field_name"}
    BY <1>4, ReportOne
  <2>2. QED
    BY <1>5, <2>1
<1>8. WithCode("input_schema_visible_when_unknown_field")' = WithCode("input_schema_visible_when_unknown_field") \cup told
  <2>1. WithCode("input_schema_visible_when_unknown_field")' = WithCode("input_schema_visible_when_unknown_field")
          \cup {g \in told \cup lint : g.code = "input_schema_visible_when_unknown_field"}
    BY <1>4, ReportOne
  <2>2. QED
    BY <1>5, <2>1
<1>9. Passed' = Passed \cup Passes(site) /\ Compared' = Passed' /\ SiteOK' /\ SeenOK'
  BY <1>1, LeaveStep
<1>10. Compared = Passed \cup Passes(site)
  BY <1>1 DEF Compared, Passed, Passes
<1>11. ReportedOK'
  BY <1>1, <1>3, <1>6, <1>7, <1>8, <1>9, <1>10, DanglingsUnion DEF ReportedOK
<1>12. QED
  BY <1>1, <1>9, <1>11 DEF SchemaIInv, SchemaInv

LEMMA JudgeReservedKeeps ==
  ASSUME SchemaIInv, JudgeReserved
  PROVE  SchemaIInv'
<1>1. /\ flow \in Flows /\ flow' = flow /\ phase = "schema" /\ part = "reserved" /\ Leave
      /\ SiteOK /\ ReportedOK
  BY DEF SchemaIInv, SchemaInv, JudgeReserved
<1>2. Spots' = Spots /\ \A A : Repeats(A)' = Repeats(A) /\ Danglings(A)' = Danglings(A)
  BY <1>1, SameDocument
<1>3. \E found : Silent(found) /\ findings' = findings \cup found
  <2> DEFINE ofQuery(name) == Finding("reserved_input_name", <<"query", name>>, 0)
             ofSchema(name) == Finding("reserved_input_name", <<"input_schema", "fields", name>>, 0)
  <2>1. PICK A, B : findings' = findings \cup ({ofQuery(name) : name \in A} \cup {ofSchema(name) : name \in B})
    BY DEF JudgeReserved, Report
  <2>2. \A name : ofQuery(name).code = "reserved_input_name" /\ ofSchema(name).code = "reserved_input_name"
    BY DEF Finding
  <2> HIDE DEF ofQuery, ofSchema
  <2>3. Silent({ofQuery(name) : name \in A} \cup {ofSchema(name) : name \in B})
    BY <2>2 DEF Silent, NameCodes
  <2>4. QED
    BY <2>1, <2>3
<1>4. \A code \in NameCodes : WithCode(code)' = WithCode(code)
  BY <1>3, SilentReport
<1>5. Passed' = Passed \cup Passes(site) /\ Compared' = Passed' /\ SiteOK' /\ SeenOK'
  BY <1>1, LeaveStep
<1>6. Passes(site) \subseteq Passed /\ Compared = Passed
  BY <1>1 DEF Passes, Compared, Passed
<1>7. ReportedOK'
  BY <1>1, <1>2, <1>4, <1>5, <1>6 DEF ReportedOK, NameCodes
<1>8. QED
  BY <1>1, <1>5, <1>7 DEF SchemaIInv, SchemaInv

(* Steps that judge no schema: their findings are of other codes.           *)
LEMMA LaterStepKeeps ==
  ASSUME SchemaIInv, phase # "schema", phase' # "schema", UNCHANGED <<flow, site, part, field, seen>>,
         NEW found, Silent(found), findings' = findings \cup found
  PROVE  SchemaIInv'
<1>1. Spots' = Spots /\ \A A : Repeats(A)' = Repeats(A) /\ Danglings(A)' = Danglings(A)
  BY SameDocument
<1>2. \A code \in NameCodes : WithCode(code)' = WithCode(code)
  BY SilentReport
<1>3. Passed' = Passed /\ Compared' = Compared
  BY <1>1 DEF Passed, Compared
<1>4. ReportedOK'
  BY <1>1, <1>2, <1>3 DEF SchemaIInv, SchemaInv, ReportedOK, NameCodes
<1>5. QED
  BY <1>4 DEF SchemaIInv, SchemaInv, SiteOK, SeenOK

------------------------------------------------------------------------------
(* What is judged of examples has codes of its own.                         *)
Apart(codes) == codes \cap NameCodes = {}

LEMMA FindingsSilent == \A codes, at : Apart(codes) => Silent(Findings(codes, at))
BY SilentParts DEF Apart

LEMMA OneSilent == \A code, at, about : code \notin NameCodes => Silent({Finding(code, at, about)})
BY DEF Silent, Finding

LEMMA ApartParts ==
  /\ \A A, B : Apart(A) /\ Apart(B) => Apart(A \cup B)
  /\ Apart({})
  /\ \A code : code \notin NameCodes => Apart({code})
BY DEF Apart

LEMMA FileRefCodesApart == \A ref : Apart(FileRefCodes(ref))
BY ZenonT(60) DEF Apart, NameCodes, FileRefCodes, If

LEMMA ScoreCodesApart == \A score : Apart(ScoreCodes(score))
BY DEF Apart, NameCodes, ScoreCodes, If

LEMMA TextCodesApart == \A text, code : code \notin NameCodes => Apart(TextCodes(text, code))
BY DEF Apart, TextCodes, If

LEMMA WeightCodesApart == \A weight : Apart(WeightCodes(weight))
BY DEF Apart, NameCodes, WeightCodes, If

LEMMA IdCodesApart == \A id : Apart(IdCodes(id))
BY DEF Apart, NameCodes, IdCodes, If

LEMMA ValueCodesApart == \A input, name, code : code \notin NameCodes => Apart(ValueCodes(input, name, code))
BY FileRefCodesApart DEF Apart, NameCodes, ValueCodes, If

LEMMA AgainstSchemaSilent == \A input, at, code : code \notin NameCodes => Silent(AgainstSchema(input, at, code))
<1> SUFFICES ASSUME NEW input, NEW at, NEW code, code \notin NameCodes, NEW g \in AgainstSchema(input, at, code)
             PROVE  g.code = code
  BY DEF Silent
<1>1. PICK c, i : g \in Findings(If(c, code), Append(at, InputFields[i].name))
  BY DEF AgainstSchema
<1>2. QED
  BY <1>1, FindingsCode DEF If

LEMMA InputFindingsSilent == \A d, at, code : code \notin NameCodes => Silent(InputFindings(d, at, code))
<1> SUFFICES ASSUME NEW d, NEW at, NEW code, code \notin NameCodes
             PROVE  Silent(InputFindings(d, at, code))
  OBVIOUS
<1> DEFINE input == Normalised(d)
<1>1. Silent(AgainstSchema(input, at, code))
  BY AgainstSchemaSilent
<1>2. Silent(UNION {Findings(ValueCodes(input, n, code), Append(at, n)) : n \in NamesGiven(input)})
  BY ValueCodesApart, FindingsSilent DEF Silent
<1>3. Silent(UNION {Findings(If(n \notin flow.query, code), Append(at, n)) : n \in NamesGiven(input)})
  BY FindingsSilent DEF Silent, Apart, If
<1>4. /\ Silent({Finding("example_input_too_large", at, 0)}) /\ Silent({Finding("example_input_unvalidated", at, 0)})
      /\ Silent({})
  BY OneSilent, SilentParts DEF NameCodes
<1> HIDE DEF input
<1>5. QED
  BY <1>1, <1>2, <1>3, <1>4, SilentParts DEF InputFindings, input

LEMMA ReferenceFindingsSilent == \A r, at : Silent(ReferenceFindings(r, at))
BY FindingsSilent, OneSilent, SilentParts, FileRefCodesApart DEF ReferenceFindings, Apart, NameCodes, If

LEMMA KeyFindingsSilent == \A key, at, outputs : Silent(KeyFindings(key, at, outputs))
BY FindingsSilent DEF KeyFindings, Apart, NameCodes, If

LEMMA ListFindingsSilent == \A list, bad, code, at : code \notin NameCodes => Silent(ListFindings(list, bad, code, at))
BY FindingsSilent, SilentParts, OneSilent DEF ListFindings, Silent, Apart, If, Finding

LEMMA TagFindingsSilent == \A tags, at : Silent(TagFindings(tags, at))
BY FindingsSilent, SilentParts DEF TagFindings, Silent, Apart, NameCodes, If, Finding

LEMMA ExpectationFindingsSilent == \A e, at, outputs, checkpoint : Silent(ExpectationFindings(e, at, outputs, checkpoint))
<1> SUFFICES ASSUME NEW e, NEW at, NEW outputs, NEW checkpoint,
                    NEW g \in ExpectationFindings(e, at, outputs, checkpoint)
             PROVE  g.code \notin NameCodes
  BY DEF Silent
<1> DEFINE byKey == UNION {LET place == at \o <<"fields", key>> IN
                           KeyFindings(key, place, outputs)
                             \cup Findings(If(MatcherFails(e.fields[key]), "example_field_matcher_invalid")
                                             \cup If(Contradicts(e.fields[key], e.mustNotContain), "example_expectation_contradiction"),
                                           place) : key \in DOMAIN e.fields}
           byExact == UNION {KeyFindings(key, at \o <<"exact", key>>, outputs) : key \in NamesGiven(e.exact)}
<1>1. \/ \E c1, c2 : g \in Findings(If(c1, "example_status_invalid") \cup If(c2, "example_checkpoint_status"), Append(at, "status"))
      \/ \E c1, c2 : g \in Findings(If(c1, "example_expected_conflict") \cup If(c2, "example_expected_empty"), at)
      \/ g \in Findings(ScoreCodes(e.score), Append(at, "min_score"))
      \/ g \in Findings(IF e.rubric \in Blank \ {""} THEN {"example_rubric_empty"}
                        ELSE If(e.rubric \in LongTexts, "example_rubric_too_long"), Append(at, "rubric"))
      \/ g \in ReferenceFindings(e.reference, Append(at, "reference"))
      \/ g \in byKey \/ g \in byExact
      \/ g \in ListFindings(e.mustNot, Blank, "example_must_not_invalid", Append(at, "must_not"))
      \/ g \in ListFindings(e.mustNotContain, {""}, "example_must_not_contain_invalid", Append(at, "must_not_contain"))
  BY ZenonT(60) DEF ExpectationFindings
<1>2. CASE g \in byKey
  <2>1. PICK key, c1, c2, place : \/ g \in KeyFindings(key, place, outputs)
                                  \/ g \in Findings(If(c1, "example_field_matcher_invalid")
                                                      \cup If(c2, "example_expectation_contradiction"), place)
    BY <1>2
  <2>2. QED
    BY <2>1, FindingsCode, KeyFindingsSilent DEF Silent, If, NameCodes
<1>3. CASE g \in byExact
  <2>1. PICK key, place : g \in KeyFindings(key, place, outputs)
    BY <1>3
  <2>2. QED
    BY <2>1, KeyFindingsSilent DEF Silent
<1> HIDE DEF byKey, byExact
<1>4. \A code : code \notin NameCodes => \A list, bad, place : \A h \in ListFindings(list, bad, code, place) : h.code \notin NameCodes
  BY ListFindingsSilent DEF Silent
<1>5. \A r, place : \A h \in ReferenceFindings(r, place) : h.code \notin NameCodes
  BY ReferenceFindingsSilent DEF Silent
<1>6. \A codes, place : Apart(codes) => \A h \in Findings(codes, place) : h.code \notin NameCodes
  BY FindingsSilent DEF Silent
<1>7. /\ \A c : /\ Apart(If(c, "example_status_invalid")) /\ Apart(If(c, "example_checkpoint_status"))
                /\ Apart(If(c, "example_expected_conflict")) /\ Apart(If(c, "example_expected_empty"))
                /\ Apart(If(c, "example_rubric_too_long"))
      /\ Apart({"example_rubric_empty"})
      /\ "example_must_not_invalid" \notin NameCodes /\ "example_must_not_contain_invalid" \notin NameCodes
  BY DEF Apart, If, NameCodes
<1>8. QED
  BY <1>1, <1>2, <1>3, <1>4, <1>5, <1>6, <1>7, ApartParts, ScoreCodesApart

(* The scan for texts that look like credentials has one code.              *)
LEMMA SecretsSilent == \A text, at : Silent(Secrets(text, at))
BY FindingsSilent DEF Secrets, Apart, NameCodes, If

LEMMA LeafSecretsSilent == \A leaf, at, depth : Silent(LeafSecrets(leaf, at, depth))
BY SecretsSilent DEF LeafSecrets, Silent

LEMMA DocumentSecretsSilent == \A d, at : Silent(DocumentSecrets(d, at))
BY LeafSecretsSilent DEF DocumentSecrets, Silent

LEMMA ListSecretsSilent == \A list, at : Silent(ListSecrets(list, at))
BY SecretsSilent DEF ListSecrets, Silent

LEMMA MatcherSecretsSilent == \A m, at : Silent(MatcherSecrets(m, at))
BY SecretsSilent, LeafSecretsSilent DEF MatcherSecrets, Silent

LEMMA ExpectationSecretsSilent == \A e, at : Silent(ExpectationSecrets(e, at))
<1> SUFFICES ASSUME NEW e, NEW at, NEW g \in ExpectationSecrets(e, at)
             PROVE  g.code \notin NameCodes
  BY DEF Silent
<1>1. \/ \E text, place : g \in Secrets(text, place)
      \/ \E list, place : g \in ListSecrets(list, place)
      \/ \E m, place : g \in MatcherSecrets(m, place)
      \/ \E d, place : g \in DocumentSecrets(d, place)
  <2> DEFINE byKey == UNION {IF IsRecord(e.fields[key]) THEN MatcherSecrets(e.fields[key], at \o <<"fields", key>>) ELSE {} :
                               key \in DOMAIN e.fields}
  <2>1. g \in byKey => \E m, place : g \in MatcherSecrets(m, place)
    OBVIOUS
  <2>2. \/ g \in Secrets(e.rubric, Append(at, "rubric"))
        \/ g \in Secrets(e.reference.text, at \o <<"reference", "text">>)
        \/ g \in ListSecrets(e.mustNot, Append(at, "must_not"))
        \/ g \in ListSecrets(e.mustNotContain, Append(at, "must_not_contain"))
        \/ g \in byKey
        \/ g \in DocumentSecrets(e.exact, Append(at, "exact"))
    BY ZenonT(60) DEF ExpectationSecrets
  <2> HIDE DEF byKey
  <2>3. QED
    BY <2>1, <2>2
<1>2. CASE \E text, place : g \in Secrets(text, place)
  BY <1>2, SecretsSilent DEF Silent
<1>3. CASE \E list, place : g \in ListSecrets(list, place)
  BY <1>3, ListSecretsSilent DEF Silent
<1>4. CASE \E m, place : g \in MatcherSecrets(m, place)
  BY <1>4, MatcherSecretsSilent DEF Silent
<1>5. CASE \E d, place : g \in DocumentSecrets(d, place)
  BY <1>5, DocumentSecretsSilent DEF Silent
<1>6. QED
  BY <1>1, <1>2, <1>3, <1>4, <1>5

LEMMA TextSecretsSilent == \A m, keys, at : Silent(TextSecrets(m, keys, at))
BY SecretsSilent DEF TextSecrets, Silent

LEMMA VariantSecretsSilent == \A v, at : Silent(VariantSecrets(v, at))
BY TextSecretsSilent, DocumentSecretsSilent, ExpectationSecretsSilent DEF VariantSecrets, Silent

(* The steps of the walk over examples.                                     *)
LEMMA AboutFindingsSilent == \A ex : Silent(AboutFindings(ex))
<1> SUFFICES ASSUME NEW ex, NEW g \in AboutFindings(ex)
             PROVE  g.code \notin NameCodes
  BY DEF Silent
<1>1. \/ g \in Findings(IdCodes(ex.id), Append(At, "id"))
      \/ g \in {Finding("example_id_duplicate", Append(At, "id"), ids[ex.id])}
      \/ \E c : g \in Findings(If(c, "example_title_missing") \cup TextCodes(ex.title, "example_title_too_long"), Append(At, "title"))
      \/ \E c : g \in Findings(If(c, "example_guidance_missing") \cup TextCodes(ex.guidance, "example_guidance_too_long"),
                               Append(At, "guidance"))
      \/ g \in Findings(TextCodes(ex.notes, "example_notes_too_long"), Append(At, "notes"))
      \/ g \in TagFindings(ex.tags, Append(At, "tags"))
      \/ g \in Findings(WeightCodes(ex.weight), Append(At, "weight"))
      \/ g \in Findings(ScoreCodes(ex.score), Append(At, "min_score"))
      \/ \E c : g \in Findings(If(c, "example_side_effects_invalid"), Append(At, "side_effects"))
      \/ \E c : g \in Findings(If(c, "example_holdout_in_public_flow"), Append(At, "hold_out"))
  BY ZenonT(60) DEF AboutFindings
<1>2. \A codes, place : Apart(codes) => \A h \in Findings(codes, place) : h.code \notin NameCodes
  BY FindingsSilent DEF Silent
<1>3. /\ \A c : /\ Apart(If(c, "example_title_missing")) /\ Apart(If(c, "example_guidance_missing"))
                /\ Apart(If(c, "example_side_effects_invalid")) /\ Apart(If(c, "example_holdout_in_public_flow"))
      /\ \A text : /\ Apart(TextCodes(text, "example_title_too_long")) /\ Apart(TextCodes(text, "example_guidance_too_long"))
                   /\ Apart(TextCodes(text, "example_notes_too_long"))
  BY DEF Apart, If, TextCodes, NameCodes
<1>4. \A tags, place : \A h \in TagFindings(tags, place) : h.code \notin NameCodes
  BY TagFindingsSilent DEF Silent
<1>5. \A place, n : Finding("example_id_duplicate", place, n).code \notin NameCodes
  BY DEF Finding, NameCodes
<1>6. QED
  BY <1>1, <1>2, <1>3, <1>4, <1>5, ApartParts, IdCodesApart, WeightCodesApart, ScoreCodesApart

LEMMA GivenFindingsSilent == \A ex : Silent(GivenFindings(ex))
<1> SUFFICES ASSUME NEW ex, NEW g \in GivenFindings(ex)
             PROVE  g.code \notin NameCodes
  BY DEF Silent
<1>1. \/ \E c1, c2 : g \in Findings(If(c1, "example_input_conflict") \cup If(c2, "example_input_missing"), At)
      \/ g \in InputFindings(ex.input, Append(At, "input"), "example_input_invalid")
      \/ g \in Findings(FileRefCodes(ex.inputRef), Append(At, "input_ref"))
  BY DEF GivenFindings
<1>2. /\ \A c : Apart(If(c, "example_input_conflict")) /\ Apart(If(c, "example_input_missing"))
      /\ "example_input_invalid" \notin NameCodes
  BY DEF Apart, If, NameCodes
<1>3. \A codes, place : Apart(codes) => \A h \in Findings(codes, place) : h.code \notin NameCodes
  BY FindingsSilent DEF Silent
<1>4. \A d, place, code : code \notin NameCodes => \A h \in InputFindings(d, place, code) : h.code \notin NameCodes
  BY InputFindingsSilent DEF Silent
<1>5. QED
  BY <1>1, <1>2, <1>3, <1>4, ApartParts, FileRefCodesApart

LEMMA ExpectedFindingsSilent == \A ex : Silent(ExpectedFindings(ex))
<1> SUFFICES ASSUME NEW ex, NEW g \in ExpectedFindings(ex)
             PROVE  g.code \notin NameCodes
  BY DEF Silent
<1>1. \/ \E c, place : g \in Findings(If(c, "example_expected_missing"), place)
      \/ \E place : g \in ExpectationFindings(ex.expected, place, flow.output, FALSE)
      \/ \E c, place : g \in Findings(If(c, "examples_unreadable_by_judge"), place)
  BY DEF ExpectedFindings
<1>2. \A c : Apart(If(c, "example_expected_missing")) /\ Apart(If(c, "examples_unreadable_by_judge"))
  BY DEF Apart, If, NameCodes
<1>3. QED
  BY <1>1, <1>2, FindingsSilent, ExpectationFindingsSilent DEF Silent

LEMMA CheckpointFindingsSilent == \A ex : Silent(CheckpointFindings(ex))
<1> SUFFICES ASSUME NEW ex, NEW g \in CheckpointFindings(ex)
             PROVE  g.code \notin NameCodes
  BY DEF Silent
<1>1. \/ \E place : g \in {Finding("example_checkpoint_step_unknown", place, 0)}
      \/ \E place : g \in {Finding("example_checkpoint_step_composite", place, 0)}
      \/ \E e, place, outputs : g \in ExpectationFindings(e, place, outputs, TRUE)
  BY ZenonT(60) DEF CheckpointFindings
<1>2. \A place : /\ Finding("example_checkpoint_step_unknown", place, 0).code \notin NameCodes
                  /\ Finding("example_checkpoint_step_composite", place, 0).code \notin NameCodes
  BY DEF Finding, NameCodes
<1>3. QED
  BY <1>1, <1>2, ExpectationFindingsSilent DEF Silent

LEMMA VariantFindingsSilent == \A v : Silent(VariantFindings(v))
<1> SUFFICES ASSUME NEW v, NEW g \in VariantFindings(v)
             PROVE  g.code \notin NameCodes
  BY DEF Silent
<1>1. \/ \E c, place : g \in Findings(IF v.id \notin Ids THEN {"example_variant_id_invalid"}
                                       ELSE If(c, "example_variant_id_duplicate"), place)
      \/ \E c, place : g \in Findings(If(c, "example_variant_origin_invalid"), place)
      \/ \E text, place : \/ g \in Findings(TextCodes(text, "example_title_too_long"), place)
                          \/ g \in Findings(TextCodes(text, "example_guidance_too_long"), place)
                          \/ g \in Findings(TextCodes(text, "example_notes_too_long"), place)
      \/ \E place : g \in Findings(WeightCodes(v.weight), place)
      \/ \E c1, c2, place : g \in Findings(If(c1, "example_variant_input_conflict") \cup If(c2, "example_variant_empty"), place)
      \/ \E place : g \in Findings(FileRefCodes(v.inputRef), place)
      \/ \E c, place : g \in Findings(If(c, "example_variant_unchecked"), place)
      \/ \E place : g \in ExpectationFindings(v.expected, place, flow.output, FALSE)
  BY DEF VariantFindings
<1>2. /\ \A c : /\ Apart(If(c, "example_variant_id_duplicate")) /\ Apart(If(c, "example_variant_origin_invalid"))
                /\ Apart(If(c, "example_variant_input_conflict")) /\ Apart(If(c, "example_variant_empty"))
                /\ Apart(If(c, "example_variant_unchecked"))
      /\ Apart({"example_variant_id_invalid"})
      /\ \A text : /\ Apart(TextCodes(text, "example_title_too_long")) /\ Apart(TextCodes(text, "example_guidance_too_long"))
                   /\ Apart(TextCodes(text, "example_notes_too_long"))
  BY DEF Apart, If, TextCodes, NameCodes
<1>3. \A codes, place : Apart(codes) => \A h \in Findings(codes, place) : h.code \notin NameCodes
  BY FindingsSilent DEF Silent
<1>4. \A e, place, outputs, checkpoint : \A h \in ExpectationFindings(e, place, outputs, checkpoint) : h.code \notin NameCodes
  BY ExpectationFindingsSilent DEF Silent
<1>5. QED
  BY <1>1, <1>2, <1>3, <1>4, ApartParts, WeightCodesApart, FileRefCodesApart

LEMMA PatchSecretsSilent == \A patch : Silent(PatchSecrets(patch))
<1>1. \A place : Finding("example_secret_value", place, 0).code \notin NameCodes
  BY DEF Finding, NameCodes
<1>2. QED
  BY <1>1 DEF PatchSecrets, Silent

LEMMA LaterSteps ==
  ASSUME phase # "schema",
         JudgeSet \/ SkipExample \/ JudgeExample \/ JudgeVariant \/ Merge \/ JudgePatched \/ ScanExample
  PROVE  /\ phase' # "schema" /\ UNCHANGED <<flow, site, part, field, seen>>
         /\ \E found : Silent(found) /\ findings' = findings \cup found
<1>1. CASE JudgeSet
  <2>1. \A c : /\ Apart(If(c, "examples_too_many")) /\ Apart(If(c, "examples_all_held_out"))
               /\ Apart(If(c, "examples_published_with_public_flow"))
    BY DEF Apart, If, NameCodes
  <2>2. \E found : Silent(found) /\ findings' = findings \cup found
    BY <1>1, <2>1, ApartParts, FindingsSilent, SilentParts DEF JudgeSet, Report
  <2>3. QED
    BY <1>1, <2>2 DEF JudgeSet
<1>2. CASE SkipExample
  BY <1>2, SilentParts DEF SkipExample
<1>3. CASE JudgeExample
  <2>1. \A c : Apart(If(c, "example_variants_too_many"))
    BY DEF Apart, If, NameCodes
  <2>2. \E found : Silent(found) /\ findings' = findings \cup found
    BY <1>3, <2>1, FindingsSilent, SilentParts, AboutFindingsSilent, GivenFindingsSilent, ExpectedFindingsSilent,
       CheckpointFindingsSilent DEF JudgeExample, Report
  <2>3. QED
    BY <1>3, <2>2 DEF JudgeExample
<1>4. CASE JudgeVariant
  <2>1. \E found : Silent(found) /\ findings' = findings \cup found
    <3>1. CASE Scenario = Other
      BY <1>4, <3>1, SilentParts DEF JudgeVariant
    <3>2. CASE Scenario # Other
      <4> DEFINE own == IF Patches(Scenario) /\ HasInput(Current) THEN PatchSecrets(Scenario.patch) ELSE {}
      <4>1. findings' = findings \cup (VariantFindings(Scenario) \cup own)
        BY <1>4, <3>2 DEF JudgeVariant, Report
      <4>2. Silent(own)
        BY SilentParts, PatchSecretsSilent
      <4> HIDE DEF own
      <4>3. Silent(VariantFindings(Scenario) \cup own)
        BY <4>2, SilentParts, VariantFindingsSilent
      <4>4. QED
        BY <4>1, <4>3
    <3>3. QED
      BY <3>1, <3>2
  <2>2. phase' # "schema"
    BY <1>4 DEF JudgeVariant, NextVariant
  <2>3. QED
    BY <1>4, <2>1, <2>2 DEF JudgeVariant
<1>5. CASE Merge
  BY <1>5, SilentParts DEF Merge, schemaVars
<1>6. CASE JudgePatched
  <2>1. \A d, place : Silent({f \in InputFindings(d, place, "example_variant_input_invalid") : f.code # "example_secret_value"})
    BY InputFindingsSilent DEF Silent, NameCodes
  <2>2. \E found : Silent(found) /\ findings' = findings \cup found
    BY <1>6, <2>1 DEF JudgePatched, Report
  <2>3. QED
    BY <1>6, <2>2 DEF JudgePatched, NextVariant
<1>7. CASE ScanExample
  <2>1. \E found : Silent(found) /\ findings' = findings \cup found
    <3> DEFINE ex == Current
               at == ExampleAt(example)
               texts == TextSecrets(ex, {"title", "guidance", "notes"}, at) \cup DocumentSecrets(InputOf(ex), Append(at, "input"))
               ofExpected == IF IsRecord(ex.expected) THEN ExpectationSecrets(ex.expected, Append(at, "expected")) ELSE {}
               ofCheckpoints == UNION {IF IsRecord(ex.checkpoints[id])
                                       THEN ExpectationSecrets(ex.checkpoints[id], at \o <<"checkpoints", id>>)
                                       ELSE {} : id \in DOMAIN ex.checkpoints}
               ofVariants == UNION {VariantSecrets(ex.variants[j], VariantAt(example, j)) : j \in 1..Len(ex.variants)}
    <3>1. findings' = findings \cup (texts \cup ofExpected \cup ofCheckpoints \cup ofVariants)
      BY <1>7 DEF ScanExample, Report
    <3>2. Silent(texts)
      BY TextSecretsSilent, DocumentSecretsSilent, SilentParts
    <3>3. Silent(ofExpected)
      BY ExpectationSecretsSilent, SilentParts
    <3>4. Silent(ofCheckpoints)
      <4> SUFFICES ASSUME NEW id, NEW g \in IF IsRecord(ex.checkpoints[id])
                                             THEN ExpectationSecrets(ex.checkpoints[id], at \o <<"checkpoints", id>>) ELSE {}
                   PROVE  g.code \notin NameCodes
        BY DEF Silent
      <4>1. QED
        BY ExpectationSecretsSilent DEF Silent
    <3>5. Silent(ofVariants)
      <4> SUFFICES ASSUME NEW j, NEW g \in VariantSecrets(ex.variants[j], VariantAt(example, j))
                   PROVE  g.code \notin NameCodes
        BY DEF Silent
      <4>1. QED
        BY VariantSecretsSilent DEF Silent
    <3> HIDE DEF texts, ofExpected, ofCheckpoints, ofVariants
    <3>6. QED
      BY <3>1, <3>2, <3>3, <3>4, <3>5, SilentParts
  <2>2. QED
    BY <1>7, <2>1 DEF ScanExample
<1>8. QED
  BY <1>1, <1>2, <1>3, <1>4, <1>5, <1>6, <1>7

------------------------------------------------------------------------------
(* Whatever is judged after the schemas, the names reported are those that  *)
(* are repeated in a schema or that no field of it has.                     *)
THEOREM SchemaWalk == Spec => []SchemaIInv
<1>1. Init => SchemaIInv
  <2> SUFFICES ASSUME Init PROVE SchemaIInv
    OBVIOUS
  <2>1. /\ flow \in Flows /\ phase = "schema" /\ site = <<0, 0>> /\ part = "open" /\ findings = {}
    BY DEF Init, SchemaInit
  <2>2. SiteOK /\ SeenOK
    BY <2>1 DEF SiteOK, SeenOK, Sites
  <2>3. Passed = {} /\ Compared = {}
    <3>1. \A p \in Spots : ~Before(p[1], site)
      BY <2>1, SpotsType, SitesType DEF Before
    <3>2. QED
      BY <2>1, <3>1 DEF Passed, Compared
  <2>4. ReportedOK
    BY <2>1, <2>3 DEF ReportedOK, WithCode, Repeats, Danglings
  <2>5. QED
    BY <2>1, <2>2, <2>4 DEF SchemaIInv, SchemaInv
<1>2. SchemaIInv /\ [Next]_vars => SchemaIInv'
  <2> SUFFICES ASSUME SchemaIInv, [Next]_vars PROVE SchemaIInv'
    OBVIOUS
  <2>1. CASE JudgeSchemas
    BY <2>1, OpenSchemaKeeps, JudgeFieldKeeps, ResolveConditionsKeeps, JudgeReservedKeeps DEF JudgeSchemas, SchemaStep
  <2>2. CASE JudgeSet \/ SkipExample \/ JudgeExample \/ JudgeVariant \/ Merge \/ JudgePatched \/ ScanExample
    <3>1. phase # "schema"
      BY <2>2 DEF JudgeSet, SkipExample, JudgeExample, JudgeVariant, Merge, JudgePatched, ScanExample
    <3>2. /\ phase' # "schema" /\ UNCHANGED <<flow, site, part, field, seen>>
          /\ \E found : Silent(found) /\ findings' = findings \cup found
      BY <2>2, <3>1, LaterSteps
    <3>3. QED
      BY <3>1, <3>2, LaterStepKeeps
  <2>3. CASE UNCHANGED vars
    <3>1. UNCHANGED schemaVars
      BY <2>3 DEF vars
    <3>2. flow' = flow
      BY <3>1 DEF schemaVars
    <3>3. Spots' = Spots /\ \A A : Repeats(A)' = Repeats(A) /\ Danglings(A)' = Danglings(A)
      BY <3>2, SameDocument
    <3>4. Passed' = Passed /\ Compared' = Compared
      BY <3>1, <3>3 DEF schemaVars, Passed, Compared, Before
    <3>5. \A code : WithCode(code)' = WithCode(code)
      BY <3>1 DEF schemaVars, WithCode
    <3>6. ReportedOK'
      BY <3>3, <3>4, <3>5 DEF SchemaIInv, SchemaInv, ReportedOK
    <3>7. SchemaHere' = SchemaHere
      BY <3>1 DEF schemaVars, SchemaHere
    <3>8. SiteOK' /\ SeenOK'
      BY <3>1, <3>7 DEF schemaVars, SchemaIInv, SchemaInv, SiteOK, SeenOK
    <3>9. QED
      BY <3>2, <3>6, <3>8 DEF SchemaIInv, SchemaInv
  <2>4. QED
    BY <2>1, <2>2, <2>3 DEF Next
<1>3. QED
  BY <1>1, <1>2, PTL DEF Spec

THEOREM SchemaNamesAlways == Spec => []SchemaNames
<1>1. SchemaIInv => SchemaNames
  <2> SUFFICES ASSUME SchemaIInv, phase # "schema"
               PROVE  /\ WithCode("input_schema_duplicate_field_name") = Repeats(Spots)
                      /\ WithCode("input_schema_visible_when_unknown_field") = Danglings(Spots)
    BY DEF SchemaNames
  <2>1. Passed = Spots /\ Compared = Spots
    BY DEF Passed, Compared
  <2>2. QED
    BY <2>1 DEF SchemaIInv, SchemaInv, ReportedOK
<1>2. QED
  BY <1>1, SchemaWalk, PTL

------------------------------------------------------------------------------
(* Some locations of the heap hold a document: those of the result at the   *)
(* paths it owns, and its other mappings where they are shared.             *)
Loc(own, o, p) == <<IF p \in own THEN "result" ELSE o, p>>
Node(d, own, o, p) ==
  [k \in KeysAt(d, p) |-> LET q == Append(p, k) IN IF d[q].kind = "map" THEN [kind |-> "map", loc |-> Loc(own, o, q)] ELSE d[q]]
Holds(h, d, own, o) ==
  \A p \in MapPaths(d) : Loc(own, o, p) \in DOMAIN h /\ h[Loc(own, o, p)] = Node(d, own, o, p)

(* The calls under way, and the entries of the patch that are merged: all   *)
(* the bound allows but those that are left to a call, with what lies below.*)
Frame == [target : {"result"} \X Seq(Key), patch : {"patch"} \X Seq(Key), left : SUBSET Key]
Handled(calls, patch) ==
  {q \in DOMAIN patch : /\ Len(q) <= MaxDepth + 1
                        /\ \A i \in 1..Len(calls) :
                             LET t == calls[i].patch[2] IN t \in Above(q) \cup {<<>>} => q[Len(t) + 1] \notin calls[i].left}
CallsOK(calls, patch) ==
  /\ calls \in Seq(Frame) /\ Len(calls) <= MaxDepth + 1
  /\ \A i \in 1..Len(calls) :
       LET t == calls[i].patch[2] IN
       /\ calls[i].target[2] = t /\ Len(t) = Len(calls) - i
       /\ t \in MapPaths(patch) /\ calls[i].left \subseteq KeysAt(patch, t)
       /\ t \in Handled(calls, patch) \cup {<<>>}

(* A set of naturals with an element has a least one.                       *)
LEMMA NatMin == ASSUME NEW T \in SUBSET Nat, T # {} PROVE \E n \in T : \A m \in T : n <= m
<1> DEFINE R == OpToRel(<, Nat)
<1>1. IsWellFoundedOn(R, Nat)
  BY NatLessThanWellFounded
<1>2. \A x, y \in Nat : x < y => <<x, y>> \in R
  BY DEF OpToRel
<1> HIDE DEF R
<1>3. PICK x \in T : \A y \in T : <<y, x>> \notin R
  BY <1>1, WFMin
<1>4. \A y \in T : y \in Nat /\ x \in Nat /\ ~(y < x)
  BY <1>2, <1>3
<1>5. QED
  BY <1>4

------------------------------------------------------------------------------
(* Paths.                                                                   *)
Paths == Seq(Key)

(* The first part of a path is a path.                                      *)
LEMMA PathPart ==
  ASSUME NEW p \in Paths, NEW n \in 0..Len(p)
  PROVE  SubSeq(p, 1, n) \in Paths /\ Len(SubSeq(p, 1, n)) = n /\ \A i \in 1..n : SubSeq(p, 1, n)[i] = p[i]
<1>1. Len(p) \in Nat /\ n \in Int /\ 1 \in Int /\ \A i \in 1..n : p[i] \in Key
  BY DEF Paths
<1>2. /\ SubSeq(p, 1, n) \in Seq(Key)
      /\ Len(SubSeq(p, 1, n)) = IF 1 <= n THEN n - 1 + 1 ELSE 0
      /\ \A i \in 1..(n - 1 + 1) : SubSeq(p, 1, n)[i] = p[1 + i - 1]
  BY <1>1, SubSeqProperties
<1>3. QED
  BY <1>1, <1>2 DEF Paths

(* Paths with the same keys are the same.                                   *)
LEMMA SamePath ==
  ASSUME NEW p \in Paths, NEW q \in Paths, Len(p) = Len(q), \A i \in 1..Len(p) : p[i] = q[i]
  PROVE  p = q
BY SeqEqual DEF Paths

(* A path with one key more.                                                *)
LEMMA PathExtended ==
  ASSUME NEW p \in Paths, NEW k \in Key
  PROVE  /\ Append(p, k) \in Paths /\ Append(p, k) # <<>> /\ Len(Append(p, k)) = Len(p) + 1
         /\ Front(Append(p, k)) = p /\ Last(Append(p, k)) = k
         /\ \A i \in 1..Len(p) : Append(p, k)[i] = p[i]
<1> DEFINE q == Append(p, k)
<1>1. /\ q \in Paths /\ q # <<>> /\ Len(q) = Len(p) + 1 /\ q[Len(p) + 1] = k /\ Len(p) \in Nat
      /\ \A i \in 1..Len(p) : q[i] = p[i]
  <2>1. p \in Seq(Key) /\ Len(p) \in Nat
    BY DEF Paths
  <2>2. q \in Seq(Key) /\ Len(q) = Len(p) + 1
    BY <2>1
  <2>3. q # <<>>
    BY <2>1, AppendProperties
  <2>4. q[Len(p) + 1] = k
    BY <2>1
  <2>5. \A i \in 1..Len(p) : q[i] = p[i]
    BY <2>1
  <2>6. QED
    BY <2>1, <2>2, <2>3, <2>4, <2>5 DEF Paths
<1> HIDE DEF q
<1>2. SubSeq(q, 1, Len(p)) \in Paths /\ Len(SubSeq(q, 1, Len(p))) = Len(p) /\ \A i \in 1..Len(p) : SubSeq(q, 1, Len(p))[i] = q[i]
  BY <1>1, PathPart
<1>3. SubSeq(q, 1, Len(p)) = p
  BY <1>1, <1>2, SamePath
<1>4. Front(q) = p
  BY <1>1, <1>3 DEF Front
<1>5. QED
  BY <1>1, <1>4 DEF Last, q

(* A path other than the empty one is its front and its last key.           *)
LEMMA PathSplit ==
  ASSUME NEW p \in Paths, p # <<>>
  PROVE  /\ Front(p) \in Paths /\ Last(p) \in Key /\ Len(p) \in Nat /\ Len(p) = Len(Front(p)) + 1
         /\ Len(Front(p)) \in Nat /\ p = Append(Front(p), Last(p))
<1>1. Len(p) \in Nat /\ Len(p) > 0 /\ Len(p) - 1 \in 0..Len(p)
  BY DEF Paths
<1>2. Front(p) \in Paths /\ Len(Front(p)) = Len(p) - 1 /\ \A i \in 1..(Len(p) - 1) : Front(p)[i] = p[i]
  BY <1>1, PathPart DEF Front
<1>3. Last(p) \in Key /\ Last(p) = p[Len(p)]
  BY <1>1 DEF Last, Paths
<1> DEFINE q == Append(Front(p), Last(p))
<1>4. q \in Paths /\ Len(q) = Len(p) /\ (\A i \in 1..(Len(p) - 1) : q[i] = p[i]) /\ q[Len(p)] = p[Len(p)]
  <2>1. /\ q \in Seq(Key) /\ Len(q) = Len(Front(p)) + 1 /\ \A i \in 1..Len(Front(p)) : q[i] = Front(p)[i]
        /\ q[Len(Front(p)) + 1] = Last(p)
    BY <1>2, <1>3, AppendProperties DEF Paths
  <2>2. QED
    BY <1>1, <1>2, <1>3, <2>1 DEF Paths
<1> HIDE DEF q
<1>5. \A i \in 1..Len(p) : i \in 1..(Len(p) - 1) \/ i = Len(p)
  BY <1>1
<1>6. q = p
  BY <1>4, <1>5, SamePath
<1>7. QED
  BY <1>1, <1>2, <1>3, <1>6 DEF q

(* What lies above a path is a part of it, shorter than it.                 *)
LEMMA AboveType ==
  ASSUME NEW p \in Paths, NEW a \in Above(p)
  PROVE  /\ a \in Paths /\ a # <<>> /\ Len(a) < Len(p) /\ Len(a) \in Nat /\ Len(p) \in Nat /\ Len(a) > 0
         /\ \A i \in 1..Len(a) : a[i] = p[i]
<1>1. PICK n \in 1..(Len(p) - 1) : a = SubSeq(p, 1, n)
  BY DEF Above
<1>2. Len(p) \in Nat /\ n \in 0..Len(p) /\ n < Len(p) /\ n > 0
  BY DEF Paths
<1>3. a \in Paths /\ Len(a) = n /\ \A i \in 1..n : a[i] = p[i]
  BY <1>1, <1>2, PathPart
<1>4. a # <<>>
  BY <1>2, <1>3
<1>5. QED
  BY <1>2, <1>3, <1>4

(* A shorter path with the same keys lies above.                            *)
LEMMA AboveGiven ==
  ASSUME NEW p \in Paths, NEW a \in Paths, a # <<>>, Len(a) < Len(p), \A i \in 1..Len(a) : a[i] = p[i]
  PROVE  a \in Above(p)
<1>1. Len(p) \in Nat /\ Len(a) \in Nat /\ Len(a) > 0 /\ Len(a) \in 0..Len(p) /\ Len(a) \in 1..(Len(p) - 1)
  BY DEF Paths
<1>2. SubSeq(p, 1, Len(a)) = a
  <2> DEFINE b == SubSeq(p, 1, Len(a))
  <2>1. b \in Paths /\ Len(b) = Len(a) /\ \A i \in 1..Len(a) : b[i] = p[i]
    BY <1>1, PathPart
  <2> HIDE DEF b
  <2>2. b = a
    BY <2>1, SamePath
  <2>3. QED
    BY <2>2 DEF b
<1>3. QED
  BY <1>1, <1>2 DEF Above

(* Above a path with one key more lie the path and what is above it.        *)
LEMMA AboveExtended ==
  ASSUME NEW p \in Paths, NEW k \in Key
  PROVE  Above(Append(p, k)) = Above(p) \cup ({p} \ {<<>>})
<1> DEFINE q == Append(p, k)
<1>1. q \in Paths /\ Len(q) = Len(p) + 1 /\ Len(p) \in Nat /\ \A i \in 1..Len(p) : q[i] = p[i]
  <2>1. Len(p) \in Nat
    BY DEF Paths
  <2>2. QED
    BY <2>1, PathExtended
<1> HIDE DEF q
<1>2. ASSUME NEW a \in Above(q) PROVE a \in Above(p) \/ (a = p /\ p # <<>>)
  <2>1. /\ a \in Paths /\ a # <<>> /\ Len(a) < Len(q) /\ Len(a) \in Nat /\ Len(a) > 0
        /\ \A i \in 1..Len(a) : a[i] = q[i]
    BY <1>1, <1>2, AboveType
  <2>2. \A i \in 1..Len(a) : a[i] = p[i]
    BY <1>1, <2>1
  <2>3. CASE Len(a) = Len(p)
    BY <2>1, <2>2, <2>3, SamePath
  <2>4. CASE Len(a) < Len(p)
    BY <2>1, <2>2, <2>4, AboveGiven
  <2>5. QED
    BY <1>1, <2>1, <2>3, <2>4
<1>3. ASSUME NEW a \in Above(p) PROVE a \in Above(q)
  <2>1. /\ a \in Paths /\ a # <<>> /\ Len(a) < Len(p) /\ Len(a) \in Nat
        /\ \A i \in 1..Len(a) : a[i] = p[i]
    BY <1>3, AboveType
  <2>2. QED
    BY <1>1, <2>1, AboveGiven
<1>4. p # <<>> => p \in Above(q)
  BY <1>1, AboveGiven
<1>5. QED
  BY <1>2, <1>3, <1>4 DEF q

(* Above is transitive.                                                     *)
LEMMA AboveAbove ==
  ASSUME NEW p \in Paths, NEW a \in Above(p), NEW b \in Above(a)
  PROVE  b \in Above(p)
<1>1. a \in Paths /\ Len(a) < Len(p) /\ Len(a) \in Nat /\ Len(p) \in Nat /\ \A i \in 1..Len(a) : a[i] = p[i]
  BY AboveType
<1>2. b \in Paths /\ b # <<>> /\ Len(b) < Len(a) /\ Len(b) \in Nat /\ \A i \in 1..Len(b) : b[i] = a[i]
  BY <1>1, AboveType
<1>3. \A i \in 1..Len(b) : b[i] = p[i]
  BY <1>1, <1>2
<1>4. QED
  BY <1>1, <1>2, <1>3, AboveGiven

------------------------------------------------------------------------------
(* The recursion From: what solves it is unique where paths are closed.     *)
PathsOf(h) == {m[2] : m \in DOMAIN h}
Closed(S) == \A p \in S : p \in Paths /\ (p # <<>> => Front(p) \in S)

Step(h, l, f, p) ==
  IF p = l[2] THEN l
        ELSE IF Len(p) <= Len(l[2]) \/ f[Front(p)] = <<>> THEN <<>>
        ELSE LET above == h[f[Front(p)]] IN
             IF Last(p) \in DOMAIN above /\ above[Last(p)].kind = "map" THEN above[Last(p)].loc ELSE <<>>

(* From is the only function with its equation: paths get shorter.          *)
LEMMA FromIs ==
  ASSUME NEW h, NEW l, l[2] \in Paths, Closed(PathsOf(h)),
         NEW f, f = [p \in PathsOf(h) |-> Step(h, l, f, p)]
  PROVE  From(h, l) = f
<1> DEFINE g == From(h, l)
<1>1. g = CHOOSE e : e = [p \in PathsOf(h) |-> Step(h, l, e, p)]
  BY DEF From, PathsOf, Step
<1>2. g = [p \in PathsOf(h) |-> Step(h, l, g, p)]
  BY <1>1
<1> HIDE DEF g
<1>3. ASSUME NEW p \in PathsOf(h), g[p] # f[p] PROVE FALSE
  <2> DEFINE Differ == {r \in PathsOf(h) : g[r] # f[r]}
             T == {Len(r) : r \in Differ}
  <2>1. \A r \in Differ : Len(r) \in Nat
    BY DEF Paths, Closed
  <2>2. T \in SUBSET Nat /\ T # {}
    <3>1. p \in Differ
      BY <1>3
    <3>2. QED
      BY <2>1, <3>1
  <2>3. \E n \in T : \A m \in T : n <= m
    <3> HIDE DEF T
    <3>1. QED
      BY <2>2, NatMin
  <2>4. PICK r \in Differ : \A s \in Differ : Len(r) <= Len(s)
    BY <2>3
  <2> HIDE DEF T
  <2>5. g[r] = Step(h, l, g, r) /\ f[r] = Step(h, l, f, r)
    BY <1>2, <2>4
  <2>6. Len(r) > Len(l[2]) /\ Len(r) \in Nat /\ Len(l[2]) \in Nat
    <3>1. Len(r) \in Nat /\ Len(l[2]) \in Nat
      BY <2>1 DEF Paths
    <3>2. g[r] # f[r]
      BY <2>4
    <3>3. r = l[2] => Step(h, l, g, r) = Step(h, l, f, r)
      BY DEF Step
    <3>4. Len(r) <= Len(l[2]) => Step(h, l, g, r) = Step(h, l, f, r)
      BY <3>3 DEF Step
    <3>5. ~(Len(r) <= Len(l[2]))
      BY <2>5, <3>2, <3>4
    <3>6. QED
      BY <3>1, <3>5
  <2>7. r # <<>> /\ Len(Front(r)) < Len(r) /\ Front(r) \in PathsOf(h) /\ Len(Front(r)) \in Nat
    <3>1. r \in Paths /\ r # <<>>
      BY <2>4, <2>6 DEF Closed, Paths
    <3>2. QED
      BY <3>1, PathSplit, <2>4 DEF Closed, Paths
  <2>8. g[Front(r)] = f[Front(r)]
    <3>1. ~(Len(r) <= Len(Front(r)))
      BY <2>6, <2>7
    <3>2. QED
      BY <2>4, <2>7, <3>1
  <2>9. QED
    BY <2>4, <2>5, <2>8 DEF Step
<1>4. QED
  BY <1>2, <1>3 DEF g

------------------------------------------------------------------------------
(* Documents.                                                               *)
LEMMA DocumentPaths ==
  ASSUME NEW d, IsDocument(d)
  PROVE  /\ \A p \in DOMAIN d : /\ p \in Paths /\ p # <<>> /\ Front(p) \in MapPaths(d)
                                /\ p = Append(Front(p), Last(p)) /\ Last(p) \in Key
         /\ \A p \in MapPaths(d) : p \in Paths /\ (p # <<>> => p \in DOMAIN d /\ d[p].kind = "map" /\ Front(p) \in MapPaths(d))
         /\ \A p \in MapPaths(d) : Above(p) \subseteq MapPaths(d)
         /\ \A p, k : p \in Paths => (k \in KeysAt(d, p) <=> k \in Key /\ Append(p, k) \in DOMAIN d)
<1>1. \A p \in DOMAIN d : p \in Paths /\ p # <<>>
  BY DEF IsDocument, Paths
<1>2. ASSUME NEW p \in DOMAIN d
      PROVE  Front(p) \in MapPaths(d) /\ p = Append(Front(p), Last(p)) /\ Last(p) \in Key
  <2>1. p = Append(Front(p), Last(p)) /\ Front(p) \in Paths /\ Last(p) \in Key
    BY <1>1, PathSplit
  <2>2. Front(p) = <<>> \/ Front(p) \in Above(p)
    BY <2>1, AboveExtended
  <2>3. QED
    BY <2>1, <2>2 DEF IsDocument, MapPaths
<1>3. \A p \in MapPaths(d) : p \in Paths /\ (p # <<>> => p \in DOMAIN d /\ d[p].kind = "map" /\ Front(p) \in MapPaths(d))
  <2>1. <<>> \in Paths
    BY DEF Paths
  <2>2. \A p \in MapPaths(d) : p = <<>> \/ (p \in DOMAIN d /\ d[p].kind = "map")
    BY DEF MapPaths
  <2>3. QED
    BY <1>1, <1>2, <2>1, <2>2
<1>4. \A p \in MapPaths(d) : Above(p) \subseteq MapPaths(d)
  <2>1. Above(<<>>) = {}
    BY DEF Above
  <2>2. QED
    BY <2>1 DEF MapPaths, IsDocument
<1>5. ASSUME NEW p, NEW k, p \in Paths
      PROVE  k \in KeysAt(d, p) <=> k \in Key /\ Append(p, k) \in DOMAIN d
  <2>1. k \in KeysAt(d, p) <=> \E q \in DOMAIN d : Front(q) = p /\ Last(q) = k
    BY DEF KeysAt
  <2>2. QED
    BY <1>2, <1>5, <2>1, PathExtended
<1>6. QED
  BY <1>1, <1>2, <1>3, <1>4, <1>5

------------------------------------------------------------------------------
(* What a heap holds is what is found from any of its mappings on.          *)
Under(q, p) == q = <<>> \/ p = q \/ q \in Above(p)

(* A path is under another where its front is, or it is that one.           *)
LEMMA UnderSplit ==
  ASSUME NEW p \in Paths, p # <<>>, NEW q \in Paths, p # q
  PROVE  Under(q, p) <=> Under(q, Front(p))
<1>1. Front(p) \in Paths /\ Last(p) \in Key /\ p = Append(Front(p), Last(p))
  BY PathSplit
<1>2. Above(p) = Above(Front(p)) \cup ({Front(p)} \ {<<>>})
  BY <1>1, AboveExtended
<1>3. QED
  BY <1>2 DEF Under

(* What is under a path, and is not the path, is longer.                    *)
LEMMA UnderLonger ==
  ASSUME NEW p \in Paths, NEW q \in Paths, p # q, Under(q, p)
  PROVE  Len(p) > Len(q) /\ p # <<>>
<1>1. CASE q = <<>>
  <2>1. Len(p) \in Nat /\ Len(p) # 0 /\ Len(q) = 0
    BY <1>1 DEF Paths
  <2>2. QED
    BY <1>1, <2>1
<1>2. CASE q # <<>>
  <2>1. q \in Above(p)
    BY <1>2 DEF Under
  <2>2. Len(q) < Len(p) /\ Len(q) \in Nat /\ Len(p) \in Nat
    BY <2>1, AboveType
  <2>3. QED
    BY <2>2 DEF Paths
<1>3. QED
  BY <1>1, <1>2

(* The entries of a mapping that holds a part of a document.                *)
LEMMA NodeFacts ==
  ASSUME NEW d, IsDocument(d), NEW own, NEW o, NEW r \in MapPaths(d)
  PROVE  /\ \A k : k \in DOMAIN Node(d, own, o, r) <=> k \in Key /\ Append(r, k) \in DOMAIN d
         /\ \A k \in DOMAIN Node(d, own, o, r) :
              /\ Node(d, own, o, r)[k].kind = "map" <=> d[Append(r, k)].kind = "map"
              /\ d[Append(r, k)].kind = "map" => /\ Node(d, own, o, r)[k] = [kind |-> "map", loc |-> Loc(own, o, Append(r, k))]
                                                 /\ Append(r, k) \in MapPaths(d)
              /\ d[Append(r, k)].kind # "map" => Node(d, own, o, r)[k] = d[Append(r, k)]
<1>1. r \in Paths
  BY DocumentPaths
<1>2. DOMAIN Node(d, own, o, r) = KeysAt(d, r)
  BY DEF Node
<1>3. \A k \in KeysAt(d, r) : Node(d, own, o, r)[k] = IF d[Append(r, k)].kind = "map"
                                THEN [kind |-> "map", loc |-> Loc(own, o, Append(r, k))] ELSE d[Append(r, k)]
  BY DEF Node
<1>4. \A k : k \in KeysAt(d, r) <=> k \in Key /\ Append(r, k) \in DOMAIN d
  BY <1>1, DocumentPaths
<1>5. QED
  BY <1>2, <1>3, <1>4 DEF MapPaths

(* From a mapping of a held document on, the walk finds the mappings of     *)
(* what is under it.                                                        *)
LEMMA FromHolds ==
  ASSUME NEW h, NEW d, NEW own, NEW o, IsDocument(d), Holds(h, d, own, o), Closed(PathsOf(h)), NEW q \in MapPaths(d)
  PROVE  From(h, Loc(own, o, q)) = [p \in PathsOf(h) |-> IF p \in MapPaths(d) /\ Under(q, p) THEN Loc(own, o, p) ELSE <<>>]
<1> DEFINE l == Loc(own, o, q)
           f == [p \in PathsOf(h) |-> IF p \in MapPaths(d) /\ Under(q, p) THEN Loc(own, o, p) ELSE <<>>]
<1>1. \A p : Loc(own, o, p) # <<>> /\ Loc(own, o, p)[2] = p
  BY DEF Loc
<1>2. q \in Paths /\ l[2] \in Paths /\ l[2] = q
  BY <1>1, DocumentPaths
<1>3. \A p \in PathsOf(h) : f[p] = IF p \in MapPaths(d) /\ Under(q, p) THEN Loc(own, o, p) ELSE <<>>
  OBVIOUS
<1> HIDE DEF f, l
<1>4. ASSUME NEW p \in PathsOf(h) PROVE f[p] = Step(h, l, f, p)
  <2>1. p \in Paths /\ (p # <<>> => Front(p) \in PathsOf(h))
    BY DEF Closed
  <2>2. CASE p = q
    BY <1>2, <1>3, <2>2 DEF Step, Under, l
  <2>3. CASE p # q /\ Len(p) <= Len(q)
    <3>1. Len(p) \in Nat /\ Len(q) \in Nat
      BY <1>2, <2>1 DEF Paths
    <3>2. ~Under(q, p)
      BY <1>2, <2>1, <2>3, <3>1, UnderLonger
    <3>3. QED
      BY <1>2, <1>3, <2>3, <3>2 DEF Step
  <2>4. CASE p # q /\ ~(Len(p) <= Len(q))
    <3> DEFINE r == Front(p)
               k == Last(p)
    <3>1. p # <<>>
      BY <1>2, <2>1, <2>4 DEF Paths
    <3>2. r \in Paths /\ k \in Key /\ p = Append(r, k) /\ r \in PathsOf(h)
      BY <2>1, <3>1, PathSplit
    <3>3. Under(q, p) <=> Under(q, r)
      BY <1>2, <2>1, <2>4, <3>1, UnderSplit
    <3>4. p \in MapPaths(d) => r \in MapPaths(d)
      BY <3>1, DocumentPaths
    <3> HIDE DEF r, k
    <3>5. Step(h, l, f, p) = IF f[r] = <<>> THEN <<>>
                             ELSE IF k \in DOMAIN h[f[r]] /\ h[f[r]][k].kind = "map" THEN h[f[r]][k].loc ELSE <<>>
      BY <1>2, <2>4 DEF Step, r, k
    <3>6. CASE ~(r \in MapPaths(d) /\ Under(q, r))
      BY <1>3, <3>2, <3>3, <3>4, <3>5, <3>6
    <3>7. CASE r \in MapPaths(d) /\ Under(q, r)
      <4>1. f[r] = Loc(own, o, r) /\ f[r] # <<>> /\ h[f[r]] = Node(d, own, o, r)
        BY <1>1, <1>3, <3>2, <3>7 DEF Holds
      <4>2. k \in DOMAIN h[f[r]] <=> p \in DOMAIN d
        BY <4>1, <3>2, <3>7, NodeFacts
      <4>3. p \in MapPaths(d) <=> p \in DOMAIN d /\ d[p].kind = "map"
        BY <3>1 DEF MapPaths
      <4>4. CASE p \in DOMAIN d
        <5>1. (h[f[r]][k].kind = "map" <=> d[p].kind = "map") /\ (d[p].kind = "map" => h[f[r]][k].loc = Loc(own, o, p))
          BY <4>1, <4>2, <4>4, <3>2, <3>7, NodeFacts
        <5>2. QED
          BY <1>3, <3>3, <3>5, <3>7, <4>1, <4>2, <4>3, <4>4, <5>1
      <4>5. CASE p \notin DOMAIN d
        BY <1>3, <3>5, <4>1, <4>2, <4>3, <4>5
      <4>6. QED
        BY <4>4, <4>5
    <3>8. QED
      BY <3>6, <3>7
  <2>5. QED
    BY <2>2, <2>3, <2>4
<1>5. f = [p \in PathsOf(h) |-> Step(h, l, f, p)]
  BY <1>4 DEF f
<1>6. From(h, l) = f
  BY <1>2, <1>5, FromIs
<1>7. QED
  BY <1>6 DEF f, l

(* The paths of a held document's mappings are paths of the heap.           *)
LEMMA MapsOnHeap ==
  ASSUME NEW h, NEW d, NEW own, NEW o, Holds(h, d, own, o)
  PROVE  MapPaths(d) \subseteq PathsOf(h)
<1> SUFFICES ASSUME NEW p \in MapPaths(d) PROVE p \in PathsOf(h)
  OBVIOUS
<1>1. Loc(own, o, p) \in DOMAIN h /\ Loc(own, o, p)[2] = p
  BY DEF Holds, Loc
<1>2. QED
  BY <1>1 DEF PathsOf

(* It reaches all of these, and no others.                                  *)
LEMMA ReachedHolds ==
  ASSUME NEW h, NEW d, NEW own, NEW o, IsDocument(d), Holds(h, d, own, o), Closed(PathsOf(h)), NEW q \in MapPaths(d)
  PROVE  /\ Reached(h, Loc(own, o, q)) = {p \in MapPaths(d) : Under(q, p)}
         /\ \A p \in Reached(h, Loc(own, o, q)) : From(h, Loc(own, o, q))[p] = Loc(own, o, p)
<1>1. \A p : Loc(own, o, p) # <<>>
  BY DEF Loc
<1> DEFINE at == From(h, Loc(own, o, q))
<1>2. /\ DOMAIN at = PathsOf(h)
      /\ \A p \in PathsOf(h) : at[p] = IF p \in MapPaths(d) /\ Under(q, p) THEN Loc(own, o, p) ELSE <<>>
  BY FromHolds
<1>3. Reached(h, Loc(own, o, q)) = {p \in DOMAIN at : at[p] # <<>>}
  BY DEF Reached
<1> HIDE DEF at
<1>4. Reached(h, Loc(own, o, q)) = {p \in MapPaths(d) : Under(q, p)}
  BY <1>1, <1>2, <1>3, MapsOnHeap
<1>5. \A p \in Reached(h, Loc(own, o, q)) : at[p] = Loc(own, o, p)
  BY <1>1, <1>2, <1>3
<1>6. QED
  BY <1>4, <1>5 DEF at

(* A held document is what is read.                                         *)
LEMMA ReadHolds ==
  ASSUME NEW h, NEW d, NEW own, NEW o, IsDocument(d), Holds(h, d, own, o), Closed(PathsOf(h))
  PROVE  Read(h, Loc(own, o, <<>>)) = d
<1> DEFINE l == Loc(own, o, <<>>)
           at == From(h, l)
           all == UNION {{Append(p, k) : k \in DOMAIN h[at[p]]} : p \in Reached(h, l)}
<1>1. <<>> \in MapPaths(d) /\ \A p : Under(<<>>, p)
  BY DEF MapPaths, Under
<1>2. Reached(h, l) = MapPaths(d) /\ \A p \in MapPaths(d) : at[p] = Loc(own, o, p)
  BY <1>1, ReachedHolds
<1>3. Read(h, l) = [q \in all |-> LET leaf == h[at[Front(q)]][Last(q)] IN IF leaf.kind = "map" THEN [kind |-> "map"] ELSE leaf]
  BY DEF Read
<1> HIDE DEF l, at, all
<1>4. \A p \in MapPaths(d) : h[at[p]] = Node(d, own, o, p)
  BY <1>2 DEF Holds
<1>5. all = DOMAIN d
  <2>1. ASSUME NEW q \in all PROVE q \in DOMAIN d
    <3>1. PICK p \in MapPaths(d) : q \in {Append(p, k) : k \in DOMAIN h[at[p]]}
      BY <1>2 DEF all
    <3>2. PICK k \in DOMAIN Node(d, own, o, p) : q = Append(p, k)
      BY <1>4, <3>1
    <3>3. QED
      BY <3>2, NodeFacts
  <2>2. ASSUME NEW q \in DOMAIN d PROVE q \in all
    <3>1. Front(q) \in MapPaths(d) /\ q = Append(Front(q), Last(q)) /\ Last(q) \in Key
      BY DocumentPaths
    <3>2. Last(q) \in DOMAIN Node(d, own, o, Front(q))
      BY <3>1, NodeFacts
    <3>3. Front(q) \in Reached(h, l) /\ Last(q) \in DOMAIN h[at[Front(q)]]
      BY <1>2, <1>4, <3>1, <3>2
    <3>4. QED
      BY <3>1, <3>3 DEF all
  <2>3. QED
    BY <2>1, <2>2
<1>6. ASSUME NEW q \in DOMAIN d
      PROVE  (LET leaf == h[at[Front(q)]][Last(q)] IN IF leaf.kind = "map" THEN [kind |-> "map"] ELSE leaf) = d[q]
  <2>1. PICK r \in MapPaths(d), k \in Key : q = Append(r, k) /\ Front(q) = r /\ Last(q) = k
    BY DocumentPaths
  <2>2. /\ h[at[r]] = Node(d, own, o, r)
        /\ Node(d, own, o, r)[k].kind = "map" <=> d[q].kind = "map"
        /\ d[q].kind # "map" => Node(d, own, o, r)[k] = d[q]
    BY <1>4, <2>1, NodeFacts
  <2>3. d[q].kind = "map" => d[q] = [kind |-> "map"]
    BY DEF IsDocument
  <2>4. QED
    BY <2>1, <2>2, <2>3
<1>7. Read(h, l) = [q \in DOMAIN d |-> d[q]]
  BY <1>3, <1>5, <1>6
<1>8. QED
  BY <1>7 DEF IsDocument, l

(* A document that was stored is held.                                      *)
LEMMA HoldsStored ==
  ASSUME NEW d, IsDocument(d), NEW o, o # "result", NEW h,
         \A p \in MapPaths(d) : <<o, p>> \in DOMAIN h /\ h[<<o, p>>] = Stored(o, d)[<<o, p>>]
  PROVE  Holds(h, d, {}, o)
<1> SUFFICES ASSUME NEW p \in MapPaths(d)
             PROVE  Loc({}, o, p) \in DOMAIN h /\ h[Loc({}, o, p)] = Node(d, {}, o, p)
  BY DEF Holds
<1>1. \A r : Loc({}, o, r) = <<o, r>>
  BY DEF Loc
<1>2. Stored(o, d)[<<o, p>>] = [k \in KeysAt(d, p) |->
        LET leaf == d[Append(p, k)] IN IF leaf.kind = "map" THEN Ref(o, Append(p, k)) ELSE leaf]
  BY DEF Stored
<1>3. Stored(o, d)[<<o, p>>] = Node(d, {}, o, p)
  BY <1>1, <1>2 DEF Node, Ref
<1>4. QED
  BY <1>1, <1>3

Near(d, q) == {p \in MapPaths(d) : Under(q, p) /\ Len(p) - Len(q) <= MaxDepth + 1}

CopyOf(c, d, own, o, q) ==
  /\ DOMAIN c = {<<"result", p>> : p \in Near(d, q)}
  /\ \A p \in Near(d, q) : c[<<"result", p>>] = Node(d, own \cup Near(d, q), o, p)

(* deepCopyExampleMap copies what is near, and shares the rest.             *)
LEMMA CopiedHolds ==
  ASSUME NEW h, NEW d, NEW own, NEW o, IsDocument(d), Holds(h, d, own, o), Closed(PathsOf(h)), NEW q \in MapPaths(d)
  PROVE  CopyOf(Copied(h, Loc(own, o, q)), d, own, o, q)
<1> DEFINE l == Loc(own, o, q)
           at == From(h, l)
           mine == {p \in Reached(h, l) : Len(p) - Len(l[2]) <= MaxDepth + 1}
           copy(p) == [k \in DOMAIN h[at[p]] |-> IF Append(p, k) \in mine THEN Ref("result", Append(p, k)) ELSE h[at[p]][k]]
<1>1. l[2] = q
  BY DEF Loc
<1>2. Reached(h, l) = {p \in MapPaths(d) : Under(q, p)} /\ \A p \in Reached(h, l) : at[p] = Loc(own, o, p)
  BY ReachedHolds
<1>3. mine = Near(d, q)
  BY <1>1, <1>2 DEF Near
<1>4. Copied(h, l) = [m \in {<<"result", p>> : p \in mine} |-> copy(m[2])]
  BY DEF Copied
<1> HIDE DEF mine, l, at
<1>5. \A p \in mine : Copied(h, l)[<<"result", p>>] = copy(p)
  BY <1>4
<1>6. ASSUME NEW p \in mine PROVE copy(p) = Node(d, own \cup mine, o, p)
  <2>1. p \in MapPaths(d) /\ h[at[p]] = Node(d, own, o, p)
    BY <1>2, <1>3 DEF Near, Holds
  <2>2. DOMAIN Node(d, own, o, p) = KeysAt(d, p) /\ DOMAIN Node(d, own \cup mine, o, p) = KeysAt(d, p)
    BY DEF Node
  <2>3. ASSUME NEW k \in KeysAt(d, p)
        PROVE  (IF Append(p, k) \in mine THEN Ref("result", Append(p, k)) ELSE Node(d, own, o, p)[k])
                  = Node(d, own \cup mine, o, p)[k]
    <3>1. \A w : Node(d, w, o, p)[k] = IF d[Append(p, k)].kind = "map"
                                       THEN [kind |-> "map", loc |-> Loc(w, o, Append(p, k))] ELSE d[Append(p, k)]
      BY DEF Node
    <3>2. CASE Append(p, k) \in mine
      <4>1. d[Append(p, k)].kind = "map"
        <5>1. Append(p, k) \in MapPaths(d) /\ Append(p, k) # <<>>
          <6>1. p \in Paths /\ k \in Key
            BY <2>1, DocumentPaths
          <6>2. QED
            BY <3>2, <1>3, <6>1, PathExtended DEF Near
        <5>2. QED
          BY <5>1 DEF MapPaths
      <4>2. Loc(own \cup mine, o, Append(p, k)) = <<"result", Append(p, k)>>
        BY <3>2 DEF Loc
      <4>3. QED
        BY <3>1, <3>2, <4>1, <4>2 DEF Ref
    <3>3. CASE Append(p, k) \notin mine
      <4>1. Loc(own \cup mine, o, Append(p, k)) = Loc(own, o, Append(p, k))
        BY <3>3 DEF Loc
      <4>2. QED
        BY <3>1, <3>3, <4>1
    <3>4. QED
      BY <3>2, <3>3
  <2>4. copy(p) = [k \in KeysAt(d, p) |-> Node(d, own \cup mine, o, p)[k]]
    BY <2>1, <2>2, <2>3
  <2>5. Node(d, own \cup mine, o, p) = [k \in KeysAt(d, p) |-> Node(d, own \cup mine, o, p)[k]]
    BY DEF Node
  <2>6. QED
    BY <2>4, <2>5
<1>7. DOMAIN Copied(h, l) = {<<"result", p>> : p \in mine}
  BY <1>4
<1>8. QED
  BY <1>3, <1>5, <1>6, <1>7 DEF l, CopyOf

(* A copy that is put where its mapping was.                                *)
PutCopy(h, d, own, o, q, e, l) ==
  /\ DOMAIN h \subseteq DOMAIN e
  /\ \A p \in Near(d, q) : <<"result", p>> \in DOMAIN e /\ e[<<"result", p>>] = Node(d, own \cup Near(d, q), o, p)
  /\ \A p \in MapPaths(d) \ Near(d, q) : Loc(own, o, p) # l => e[Loc(own, o, p)] = h[Loc(own, o, p)]
  /\ \A p \in MapPaths(d) \ Near(d, q) : Loc(own, o, p) = l => e[l] = Node(d, own \cup Near(d, q), o, p)
  /\ \A p \in MapPaths(d) : \A k \in KeysAt(d, p) :
       Append(p, k) \in Near(d, q) => p \in Near(d, q) \/ Append(p, k) \in own \/ Loc(own, o, p) = l

(* With the copy on the heap the document is held as before, what is near   *)
(* in mappings of its own.                                                  *)
LEMMA CopyHolds ==
  ASSUME NEW h, NEW d, NEW own, NEW o, Holds(h, d, own, o), NEW q, NEW e, NEW l, PutCopy(h, d, own, o, q, e, l)
  PROVE  Holds(e, d, own \cup Near(d, q), o)
<1> DEFINE all == own \cup Near(d, q)
<1> SUFFICES ASSUME NEW p \in MapPaths(d)
             PROVE  Loc(all, o, p) \in DOMAIN e /\ e[Loc(all, o, p)] = Node(d, all, o, p)
  BY DEF Holds
<1>1. CASE p \in Near(d, q)
  <2>1. Loc(all, o, p) = <<"result", p>>
    BY <1>1 DEF Loc
  <2>2. QED
    BY <1>1, <2>1 DEF PutCopy
<1>2. CASE p \notin Near(d, q)
  <2>1. Loc(all, o, p) = Loc(own, o, p)
    BY <1>2 DEF Loc
  <2>2. Loc(own, o, p) \in DOMAIN e /\ h[Loc(own, o, p)] = Node(d, own, o, p)
    BY DEF Holds, PutCopy
  <2>3. CASE Loc(own, o, p) = l
    BY <1>2, <2>1, <2>2, <2>3 DEF PutCopy
  <2>4. CASE Loc(own, o, p) # l
    <3>1. Node(d, all, o, p) = Node(d, own, o, p)
      <4>1. \A k \in KeysAt(d, p) : Loc(all, o, Append(p, k)) = Loc(own, o, Append(p, k))
        BY <1>2, <2>4 DEF Loc, PutCopy
      <4>2. QED
        BY <4>1 DEF Node
    <3>2. QED
      BY <1>2, <2>1, <2>2, <2>4, <3>1 DEF PutCopy
  <2>5. QED
    BY <2>3, <2>4
<1>3. QED
  BY <1>1, <1>2

------------------------------------------------------------------------------
(* RFC 7386, one entry of the patch after the other.                        *)
Cut(d, q) == [p \in {r \in DOMAIN d : r # q /\ q \notin Above(r)} |-> d[p]]
Put(d, q, leaf) == [p \in DOMAIN Cut(d, q) \cup {q} |-> IF p = q THEN leaf ELSE d[p]]
Some(patch, S) == [p \in S |-> patch[p]]

(* RFC7386, path by path.                                                   *)
LEMMA MergedFacts ==
  ASSUME NEW b, NEW d
  PROVE  /\ \A p : p \in DOMAIN RFC7386(b, d) <=>
                     \/ p \in DOMAIN d /\ d[p].kind # "nil"
                     \/ p \in DOMAIN b \ DOMAIN d /\ \A a \in Above(p) : a \in DOMAIN d => d[a].kind = "map"
         /\ \A p \in DOMAIN RFC7386(b, d) : RFC7386(b, d)[p] = IF p \in DOMAIN d THEN d[p] ELSE b[p]
         /\ RFC7386(b, d) = [p \in DOMAIN RFC7386(b, d) |-> RFC7386(b, d)[p]]
<1> DEFINE given == {p \in DOMAIN d : d[p].kind # "nil"}
           stays == {p \in DOMAIN b \ DOMAIN d : \A a \in Above(p) : a \in DOMAIN d => d[a].kind = "map"}
<1>1. RFC7386(b, d) = [p \in given \cup stays |-> IF p \in given THEN d[p] ELSE b[p]]
  BY DEF RFC7386
<1>2. DOMAIN RFC7386(b, d) = given \cup stays
  BY <1>1
<1>3. \A p \in given \cup stays : RFC7386(b, d)[p] = IF p \in DOMAIN d THEN d[p] ELSE b[p]
  BY <1>1
<1>4. \A p : p \in given \cup stays <=>
                     \/ p \in DOMAIN d /\ d[p].kind # "nil"
                     \/ p \in DOMAIN b \ DOMAIN d /\ \A a \in Above(p) : a \in DOMAIN d => d[a].kind = "map"
  OBVIOUS
<1> HIDE DEF given, stays
<1>5. RFC7386(b, d) = [p \in DOMAIN RFC7386(b, d) |-> RFC7386(b, d)[p]]
  BY <1>1
<1>6. QED
  BY <1>2, <1>3, <1>4, <1>5

(* A merged document is a document.                                         *)
LEMMA MergedIsDocument ==
  ASSUME NEW b, NEW d, IsDocument(b), IsDocument(d)
  PROVE  IsDocument(RFC7386(b, d))
<1> DEFINE m == RFC7386(b, d)
<1>1. /\ \A p : p \in DOMAIN m <=> \/ p \in DOMAIN d /\ d[p].kind # "nil"
                                   \/ p \in DOMAIN b \ DOMAIN d /\ \A a \in Above(p) : a \in DOMAIN d => d[a].kind = "map"
      /\ \A p \in DOMAIN m : m[p] = IF p \in DOMAIN d THEN d[p] ELSE b[p]
      /\ m = [p \in DOMAIN m |-> m[p]]
  BY MergedFacts
<1> HIDE DEF m
<1>2. ASSUME NEW p \in DOMAIN m
      PROVE  p \in Seq(Key) /\ p # <<>> /\ (m[p].kind = "map" => m[p] = [kind |-> "map"])
  BY <1>1 DEF IsDocument
<1>3. ASSUME NEW p \in DOMAIN m, NEW a \in Above(p) PROVE a \in DOMAIN m /\ m[a].kind = "map"
  <2>1. CASE p \in DOMAIN d
    <3>1. a \in DOMAIN d /\ d[a].kind = "map"
      BY <2>1 DEF IsDocument
    <3>2. QED
      BY <1>1, <3>1
  <2>2. CASE p \notin DOMAIN d
    <3>1. p \in DOMAIN b /\ a \in DOMAIN b /\ b[a].kind = "map" /\ p \in Paths
      BY <1>1, <2>2 DEF IsDocument, Paths
    <3>2. \A c \in Above(a) : c \in Above(p)
      BY <3>1, AboveAbove
    <3>3. QED
      BY <1>1, <2>2, <3>1, <3>2
  <2>3. QED
    BY <2>1, <2>2
<1>4. QED
  BY <1>1, <1>2, <1>3 DEF IsDocument, m

(* So is a part of one that has what lies above its paths.                  *)
LEMMA SomeIsDocument ==
  ASSUME NEW d, IsDocument(d), NEW S, S \subseteq DOMAIN d, \A p \in S : Above(p) \subseteq S
  PROVE  IsDocument(Some(d, S))
BY DEF IsDocument, Some

(* The merge of a part of the patch, path by path.                          *)
LEMMA MergedSome ==
  ASSUME NEW b, NEW patch, NEW S, NEW m, m = RFC7386(b, Some(patch, S))
  PROVE  /\ \A p : p \in DOMAIN m <=> \/ p \in S /\ patch[p].kind # "nil"
                                      \/ p \in DOMAIN b \ S /\ \A a \in Above(p) : a \in S => patch[a].kind = "map"
         /\ \A p \in DOMAIN m : m[p] = IF p \in S THEN patch[p] ELSE b[p]
         /\ m = [p \in DOMAIN m |-> m[p]]
<1> DEFINE d == Some(patch, S)
<1>1. DOMAIN d = S /\ \A p \in S : d[p] = patch[p]
  BY DEF Some
<1> HIDE DEF d
<1>2. /\ \A p : p \in DOMAIN m <=> \/ p \in DOMAIN d /\ d[p].kind # "nil"
                                   \/ p \in DOMAIN b \ DOMAIN d /\ \A a \in Above(p) : a \in DOMAIN d => d[a].kind = "map"
      /\ \A p \in DOMAIN m : m[p] = IF p \in DOMAIN d THEN d[p] ELSE b[p]
      /\ m = [p \in DOMAIN m |-> m[p]]
  BY MergedFacts DEF d
<1>3. \A p : (\A a \in Above(p) : a \in DOMAIN d => d[a].kind = "map") <=> (\A a \in Above(p) : a \in S => patch[a].kind = "map")
  BY <1>1
<1>4. \A p : p \in DOMAIN m <=> \/ p \in S /\ patch[p].kind # "nil"
                                \/ p \in DOMAIN b \ S /\ \A a \in Above(p) : a \in S => patch[a].kind = "map"
  BY <1>1, <1>2, <1>3
<1>5. \A p \in DOMAIN m : m[p] = IF p \in S THEN patch[p] ELSE b[p]
  BY <1>1, <1>2
<1>6. QED
  BY <1>2, <1>4, <1>5

(* An entry whose part of the patch is merged and that is not yet itself.   *)
IsNext(b, patch, S, q) ==
  /\ IsDocument(b) /\ IsDocument(patch) /\ S \subseteq DOMAIN patch /\ \A p \in S : Above(p) \subseteq S
  /\ q \in DOMAIN patch \ S /\ Above(q) \subseteq S

(* What one more entry of the patch changes.                                *)
LEMMA OneMore ==
  ASSUME NEW b, NEW patch, NEW S, NEW q, IsNext(b, patch, S, q), NEW m, m = RFC7386(b, Some(patch, S)), NEW n, n = RFC7386(b, Some(patch, S \cup {q}))
  PROVE  /\ patch[q].kind = "nil" => n = Cut(m, q)
         /\ patch[q].kind \notin {"nil", "map"} => n = Put(m, q, patch[q])
         /\ patch[q].kind = "map" /\ q \in DOMAIN m /\ m[q].kind = "map" => n = m
         /\ patch[q].kind = "map" /\ ~(q \in DOMAIN m /\ m[q].kind = "map") => n = Put(m, q, [kind |-> "map"])
<1>0. /\ IsDocument(b) /\ IsDocument(patch) /\ S \subseteq DOMAIN patch /\ \A p \in S : Above(p) \subseteq S
      /\ q \in DOMAIN patch \ S /\ Above(q) \subseteq S
  BY DEF IsNext
<1>1. /\ \A p : p \in DOMAIN m <=> \/ p \in S /\ patch[p].kind # "nil"
                                   \/ p \in DOMAIN b \ S /\ \A a \in Above(p) : a \in S => patch[a].kind = "map"
      /\ \A p \in DOMAIN m : m[p] = IF p \in S THEN patch[p] ELSE b[p]
      /\ m = [p \in DOMAIN m |-> m[p]]
  BY MergedSome
<1>2. /\ \A p : p \in DOMAIN n <=> \/ p \in S \cup {q} /\ patch[p].kind # "nil"
                                   \/ p \in DOMAIN b \ (S \cup {q}) /\ \A a \in Above(p) : a \in S \cup {q} => patch[a].kind = "map"
      /\ \A p \in DOMAIN n : n[p] = IF p \in S \cup {q} THEN patch[p] ELSE b[p]
      /\ n = [p \in DOMAIN n |-> n[p]]
  BY MergedSome
<1>3. \A p \in S : p # q /\ q \notin Above(p)
  BY <1>0
<1>4. IsDocument(Some(patch, S)) /\ IsDocument(m)
  BY <1>0, SomeIsDocument, MergedIsDocument
<1>5. q \in Paths /\ q # <<>> /\ q \notin Above(q)
  <2>1. q \in Paths /\ q # <<>>
    BY <1>0 DEF IsDocument, Paths
  <2>2. q \notin Above(q)
    BY <2>1, AboveType
  <2>3. QED
    BY <2>1, <2>2
<1>6. ASSUME patch[q].kind # "map", NEW p, p # q PROVE p \in DOMAIN n <=> p \in DOMAIN m /\ q \notin Above(p)
  <2>1. CASE p \in S
    BY <1>1, <1>2, <1>3, <2>1
  <2>2. CASE p \notin S
    <3>1. p \in DOMAIN n <=> p \in DOMAIN b /\ \A a \in Above(p) : a \in S \cup {q} => patch[a].kind = "map"
      BY <1>2, <1>6, <2>2
    <3>2. p \in DOMAIN m <=> p \in DOMAIN b /\ \A a \in Above(p) : a \in S => patch[a].kind = "map"
      BY <1>1, <2>2
    <3>3. QED
      BY <1>6, <3>1, <3>2
  <2>3. QED
    BY <2>1, <2>2
<1>7. patch[q].kind = "map" => \A p : p # q => (p \in DOMAIN n <=> p \in DOMAIN m)
  BY <1>1, <1>2, <1>3
<1>8. \A p \in DOMAIN n : p # q => p \in DOMAIN m /\ n[p] = m[p]
  BY <1>1, <1>2, <1>3, <1>6, <1>7
<1>9. patch[q].kind # "nil" => q \in DOMAIN n /\ n[q] = patch[q]
  BY <1>2
<1>10. patch[q].kind = "nil" => q \notin DOMAIN n
  BY <1>2
<1>11. patch[q].kind = "map" => patch[q] = [kind |-> "map"]
  BY <1>0 DEF IsDocument
<1>12. ASSUME patch[q].kind = "nil" PROVE n = Cut(m, q)
  <2>1. DOMAIN n = {r \in DOMAIN m : r # q /\ q \notin Above(r)}
    BY <1>6, <1>10, <1>12
  <2>2. \A p \in DOMAIN n : n[p] = m[p]
    BY <1>8, <1>10, <1>12
  <2>3. Cut(m, q) = [p \in DOMAIN n |-> m[p]]
    BY <2>1 DEF Cut
  <2>4. [p \in DOMAIN n |-> n[p]] = [p \in DOMAIN n |-> m[p]]
    BY <2>2
  <2>5. QED
    BY <1>2, <2>3, <2>4
<1>13. ASSUME patch[q].kind \notin {"nil", "map"} PROVE n = Put(m, q, patch[q])
  <2>1. DOMAIN n = DOMAIN Cut(m, q) \cup {q}
    BY <1>6, <1>9, <1>13 DEF Cut
  <2>2. \A p \in DOMAIN n : n[p] = IF p = q THEN patch[q] ELSE m[p]
    BY <1>8, <1>9, <1>13
  <2>3. QED
    BY <1>2, <2>1, <2>2 DEF Put
<1>14. ASSUME patch[q].kind = "map", q \in DOMAIN m, m[q].kind = "map" PROVE n = m
  <2>1. DOMAIN n = DOMAIN m
    BY <1>7, <1>9, <1>14
  <2>2. m[q] = [kind |-> "map"]
    BY <1>4, <1>14 DEF IsDocument
  <2>3. \A p \in DOMAIN n : n[p] = m[p]
    BY <1>8, <1>9, <1>11, <1>14, <2>2
  <2>4. QED
    BY <1>1, <1>2, <2>1, <2>3
<1>15. ASSUME patch[q].kind = "map", ~(q \in DOMAIN m /\ m[q].kind = "map") PROVE n = Put(m, q, [kind |-> "map"])
  <2>1. \A r \in DOMAIN m : q \notin Above(r)
    BY <1>4, <1>15 DEF IsDocument
  <2>2. DOMAIN n = DOMAIN Cut(m, q) \cup {q}
    BY <1>7, <1>9, <1>15, <2>1 DEF Cut
  <2>3. \A p \in DOMAIN n : n[p] = IF p = q THEN [kind |-> "map"] ELSE m[p]
    BY <1>8, <1>9, <1>11, <1>15
  <2>4. QED
    BY <1>2, <2>2, <2>3 DEF Put
<1>16. QED
  BY <1>12, <1>13, <1>14, <1>15

------------------------------------------------------------------------------
(* A change of one entry in a mapping of the result.                        *)
Edited(d, e, t, k, q) ==
  /\ IsDocument(d) /\ IsDocument(e) /\ t \in MapPaths(d) /\ k \in Key /\ q = Append(t, k)
  /\ DOMAIN Cut(d, q) \subseteq DOMAIN e /\ DOMAIN e \subseteq DOMAIN Cut(d, q) \cup {q}
  /\ \A p \in DOMAIN Cut(d, q) : e[p] = d[p]

(* Where one entry is edited, the other entries are as they were.           *)
LEMMA EditedKeys ==
  ASSUME NEW d, NEW e, NEW t, NEW k, NEW q, Edited(d, e, t, k, q)
  PROVE  /\ \A p \in MapPaths(e) : p # q => p \in MapPaths(d)
         /\ t \in MapPaths(e)
         /\ \A p \in MapPaths(e) : p \notin {t, q} =>
              KeysAt(e, p) = KeysAt(d, p) /\ \A j \in KeysAt(d, p) : e[Append(p, j)] = d[Append(p, j)] /\ Append(p, j) # q
         /\ KeysAt(e, t) \ {k} = KeysAt(d, t) \ {k}
         /\ \A j \in KeysAt(d, t) \ {k} : e[Append(t, j)] = d[Append(t, j)] /\ Append(t, j) # q
         /\ k \in KeysAt(e, t) <=> q \in DOMAIN e
         /\ KeysAt(e, q) = {}
<1>0. /\ IsDocument(d) /\ IsDocument(e) /\ t \in MapPaths(d) /\ k \in Key
      /\ DOMAIN Cut(d, q) \subseteq DOMAIN e /\ DOMAIN e \subseteq DOMAIN Cut(d, q) \cup {q}
      /\ \A p \in DOMAIN Cut(d, q) : e[p] = d[p]
  BY DEF Edited
<1>1. t \in Paths /\ q \in Paths /\ Front(q) = t /\ Last(q) = k /\ q # <<>> /\ t # q /\ Above(q) = Above(t) \cup ({t} \ {<<>>})
  <2>1. t \in Paths
    BY <1>0, DocumentPaths
  <2>4. q = Append(t, k)
    BY DEF Edited
  <2>2. Len(q) = Len(t) + 1 /\ Len(t) \in Nat
    BY <1>0, <2>1, <2>4, PathExtended DEF Paths
  <2>3. QED
    BY <1>0, <2>1, <2>2, <2>4, PathExtended, AboveExtended
<1>2. DOMAIN Cut(d, q) = {r \in DOMAIN d : r # q /\ q \notin Above(r)}
  BY DEF Cut
<1>3. ASSUME NEW p \in Paths, NEW j \in Key
      PROVE  /\ Append(p, j) \in Paths /\ (Append(p, j) = q => p = t /\ j = k)
             /\ Above(Append(p, j)) = Above(p) \cup ({p} \ {<<>>})
  <2>1. Append(p, j) \in Paths /\ Front(Append(p, j)) = p /\ Last(Append(p, j)) = j
    BY PathExtended
  <2>2. QED
    BY <1>0, <1>1, <2>1, AboveExtended
<1>4. \A p \in MapPaths(e) : p # q => p \in MapPaths(d)
  BY <1>0, <1>2 DEF MapPaths
<1>5. t \in MapPaths(e)
  <2>1. CASE t = <<>>
    BY <1>0, <2>1 DEF MapPaths
  <2>2. CASE t # <<>>
    <3>1. t \in DOMAIN d /\ d[t].kind = "map"
      BY <1>0, <2>2 DEF MapPaths
    <3>2. q \notin Above(t)
      BY <1>0, <1>1, AboveType DEF Paths
    <3>3. QED
      BY <1>0, <1>1, <1>2, <3>1, <3>2 DEF MapPaths
  <2>3. QED
    BY <1>0, <2>1, <2>2
<1>6. \A p, j : p \in Paths => /\ j \in KeysAt(d, p) <=> j \in Key /\ Append(p, j) \in DOMAIN d
                               /\ j \in KeysAt(e, p) <=> j \in Key /\ Append(p, j) \in DOMAIN e
  BY <1>0, DocumentPaths
<1>7. \A p \in MapPaths(e) : p \in Paths /\ Above(p) \subseteq MapPaths(e)
  BY <1>0, DocumentPaths
<1>8. KeysAt(e, q) = {}
  <2>1. ASSUME NEW j \in KeysAt(e, q) PROVE FALSE
    <3>1. j \in Key /\ Append(q, j) \in DOMAIN e
      BY <1>0, <1>1, <1>6, <2>1
    <3>2. Append(q, j) # q /\ q \in Above(Append(q, j))
      <4>1. Append(q, j) # q
        BY <1>0, <1>1, <1>3, <3>1
      <4>2. QED
        BY <1>0, <1>1, <1>3, <3>1, <4>1
    <3>3. QED
      BY <1>0, <1>2, <3>1, <3>2
  <2>2. QED
    BY <1>0, <2>1
<1>9. ASSUME NEW p \in MapPaths(e), p \notin {t, q}
      PROVE  KeysAt(e, p) = KeysAt(d, p) /\ \A j \in KeysAt(d, p) : e[Append(p, j)] = d[Append(p, j)] /\ Append(p, j) # q
  <2>1. p \in Paths
    BY <1>0, <1>7
  <2>2. q \notin Above(p)
    <3>1. p # <<>> => p \in DOMAIN Cut(d, q)
      BY <1>0, <1>9 DEF MapPaths
    <3>2. Above(<<>>) = {}
      BY DEF Above
    <3>3. QED
      BY <1>0, <1>2, <3>1, <3>2
  <2>3. \A j \in Key : Append(p, j) # q /\ (Append(p, j) \in DOMAIN e <=> Append(p, j) \in DOMAIN d)
                       /\ (Append(p, j) \in DOMAIN d => e[Append(p, j)] = d[Append(p, j)])
    BY <1>0, <1>2, <1>3, <1>9, <2>1, <2>2
  <2>4. \A j : /\ j \in KeysAt(d, p) <=> j \in Key /\ Append(p, j) \in DOMAIN d
               /\ j \in KeysAt(e, p) <=> j \in Key /\ Append(p, j) \in DOMAIN e
    BY <1>0, <1>6, <2>1
  <2>5. KeysAt(e, p) = KeysAt(d, p)
    BY <1>0, <2>3, <2>4
  <2>6. QED
    BY <1>0, <2>3, <2>4, <2>5
<1>10. \A j \in Key \ {k} : Append(t, j) # q /\ (Append(t, j) \in DOMAIN e <=> Append(t, j) \in DOMAIN d)
                            /\ (Append(t, j) \in DOMAIN d => e[Append(t, j)] = d[Append(t, j)])
  <2>1. q \notin Above(t) \cup {t}
    BY <1>0, <1>1, AboveType DEF Paths
  <2>2. QED
    BY <1>0, <1>1, <1>2, <1>3, <2>1
<1>11. \A j : /\ j \in KeysAt(d, t) <=> j \in Key /\ Append(t, j) \in DOMAIN d
              /\ j \in KeysAt(e, t) <=> j \in Key /\ Append(t, j) \in DOMAIN e
  BY <1>1, <1>6
<1>12. KeysAt(e, t) \ {k} = KeysAt(d, t) \ {k} /\ \A j \in KeysAt(d, t) \ {k} : e[Append(t, j)] = d[Append(t, j)] /\ Append(t, j) # q
  <2>1. ASSUME NEW j, j # k PROVE j \in KeysAt(e, t) <=> j \in KeysAt(d, t)
    <3>1. CASE j \in Key
      <4>1. Append(t, j) \in DOMAIN e <=> Append(t, j) \in DOMAIN d
        BY <1>10, <2>1, <3>1
      <4>2. QED
        BY <1>11, <4>1
    <3>2. CASE j \notin Key
      BY <1>11, <3>2
    <3>3. QED
      BY <3>1, <3>2
  <2>2. ASSUME NEW j \in KeysAt(d, t) \ {k} PROVE e[Append(t, j)] = d[Append(t, j)] /\ Append(t, j) # q
    <3>1. j \in Key \ {k} /\ Append(t, j) \in DOMAIN d
      BY <1>11, <2>2
    <3>2. QED
      BY <1>10, <3>1
  <2>3. QED
    BY <2>1, <2>2
<1>13. k \in KeysAt(e, t) <=> q \in DOMAIN e
  <2>1. q = Append(t, k) /\ k \in Key
    BY DEF Edited
  <2>2. k \in KeysAt(e, t) <=> Append(t, k) \in DOMAIN e
    BY <1>11, <2>1
  <2>3. QED
    BY <2>1, <2>2
<1>14. QED
  BY <1>4, <1>5, <1>8, <1>9, <1>12, <1>13

(* Where the mapping above an entry is changed, the heap holds the edited   *)
(* document.                                                                *)
LEMMA EditHolds ==
  ASSUME NEW h, NEW d, NEW own, NEW o, o # "result", Holds(h, d, own, o),
         NEW e, NEW t \in own, NEW k, NEW q, Edited(d, e, t, k, q),
         NEW g, DOMAIN h \subseteq DOMAIN g, g[<<"result", t>>] = Node(e, own \cup {q}, o, t),
         \A l \in DOMAIN h : l \notin {<<"result", t>>, <<"result", q>>} => g[l] = h[l],
         q \in MapPaths(e) => /\ <<"result", q>> \in DOMAIN g
                                         /\ DOMAIN g[<<"result", q>>] = {}
                                         /\ g[<<"result", q>>] = Empty
  PROVE  Holds(g, e, own \cup {q}, o)
<1> DEFINE all == own \cup {q}
<1>1. /\ \A p \in MapPaths(e) : p # q => p \in MapPaths(d)
      /\ \A p \in MapPaths(e) : p \notin {t, q} =>
              KeysAt(e, p) = KeysAt(d, p) /\ \A j \in KeysAt(d, p) : e[Append(p, j)] = d[Append(p, j)] /\ Append(p, j) # q
      /\ KeysAt(e, q) = {}
  BY EditedKeys
<1> SUFFICES ASSUME NEW p \in MapPaths(e) PROVE Loc(all, o, p) \in DOMAIN g /\ g[Loc(all, o, p)] = Node(e, all, o, p)
  BY DEF Holds
<1>2. CASE p = q
  <2>1. Loc(all, o, p) = <<"result", q>>
    BY <1>2 DEF Loc
  <2>2. Node(e, all, o, p) = Empty
    <3>1. \A w : KeysAt(e, q) = {} => Node(e, w, o, q) = [j \in {} |-> j]
      BY DEF Node
    <3>2. QED
      BY <1>1, <1>2, <3>1 DEF Empty
  <2>3. QED
    BY <1>2, <2>1, <2>2
<1>3. CASE p = t
  <2>1. Loc(all, o, p) = <<"result", t>> /\ Loc(own, o, p) = <<"result", t>>
    BY <1>3 DEF Loc
  <2>2. <<"result", t>> \in DOMAIN g
    BY <1>3, <2>1 DEF Holds, Edited
  <2>3. QED
    BY <1>3, <2>1, <2>2
<1>4. CASE p \notin {t, q}
  <2>1. p \in MapPaths(d) /\ Loc(all, o, p) = Loc(own, o, p)
    BY <1>1, <1>4 DEF Loc
  <2>2. Loc(own, o, p) \in DOMAIN h /\ h[Loc(own, o, p)] = Node(d, own, o, p) /\ Loc(own, o, p) \notin {<<"result", t>>, <<"result", q>>}
    BY <1>4, <2>1 DEF Holds, Loc
  <2>3. Node(e, all, o, p) = Node(d, own, o, p)
    <3>1. KeysAt(e, p) = KeysAt(d, p)
      BY <1>1, <1>4
    <3>2. \A j \in KeysAt(d, p) : e[Append(p, j)] = d[Append(p, j)] /\ Loc(all, o, Append(p, j)) = Loc(own, o, Append(p, j))
      BY <1>1, <1>4 DEF Loc
    <3>3. QED
      BY <3>1, <3>2 DEF Node
  <2>4. QED
    BY <2>1, <2>2, <2>3
<1>5. QED
  BY <1>2, <1>3, <1>4

------------------------------------------------------------------------------
(* The calls under way.                                                     *)
LEMMA HandledClosed ==
  ASSUME NEW patch, IsDocument(patch), NEW calls, CallsOK(calls, patch), NEW p \in Handled(calls, patch), NEW a \in Above(p)
  PROVE  a \in Handled(calls, patch)
<1>1. p \in DOMAIN patch /\ p \in Paths /\ a \in DOMAIN patch /\ Len(p) <= MaxDepth + 1
  BY DEF Handled, IsDocument, Paths
<1>2. a \in Paths /\ Len(a) < Len(p) /\ Len(a) \in Nat /\ Len(p) \in Nat /\ Len(a) > 0 /\ \A i \in 1..Len(a) : a[i] = p[i]
  BY <1>1, AboveType
<1>3. ASSUME NEW i \in 1..Len(calls), calls[i].patch[2] \in Above(a) \cup {<<>>}
      PROVE  a[Len(calls[i].patch[2]) + 1] \notin calls[i].left
  <2> DEFINE t == calls[i].patch[2]
  <2>1. t \in Above(p) \cup {<<>>}
    BY <1>1, <1>3, AboveAbove
  <2>2. Len(t) + 1 \in 1..Len(a)
    BY <1>2, <1>3, AboveType
  <2>3. p[Len(t) + 1] \notin calls[i].left
    BY <2>1 DEF Handled
  <2>4. QED
    BY <1>2, <2>2, <2>3
<1>4. QED
  BY <1>1, <1>2, <1>3, DepthAssumption DEF Handled

(* The call on top is for the longest path.                                 *)
LEMMA CallFacts ==
  ASSUME NEW patch, IsDocument(patch), NEW calls, CallsOK(calls, patch), calls # <<>>
  PROVE  /\ Len(calls) \in Nat /\ Len(calls) > 0 /\ 1 \in 1..Len(calls)
         /\ \A i \in 1..Len(calls) : calls[i] \in Frame /\ Len(calls[i].patch[2]) \in Nat /\ calls[i].patch[2] \in Paths
         /\ Head(calls) = calls[1] /\ Len(calls[1].patch[2]) + 1 = Len(calls)
<1>1. calls \in Seq(Frame) /\ Len(calls) \in Nat /\ Len(calls) > 0
  BY DEF CallsOK
<1>2. \A i \in 1..Len(calls) : calls[i] \in Frame
  BY <1>1
<1>3. \A i \in 1..Len(calls) : Len(calls[i].patch[2]) \in Nat /\ calls[i].patch[2] \in Paths
  BY <1>2 DEF Frame, Paths
<1>4. Head(calls) = calls[1]
  BY <1>1
<1>5. Len(calls[1].patch[2]) = Len(calls) - 1
  BY <1>1 DEF CallsOK
<1>6. QED
  BY <1>1, <1>2, <1>3, <1>4, <1>5

(* The entry a call takes up is the only one that gets handled, with a call *)
(* of its own if it is a mapping the bound allows to descend to.            *)
Takes(patch, calls, k, q) ==
  /\ IsDocument(patch) /\ CallsOK(calls, patch) /\ calls # <<>> /\ k \in calls[1].left
  /\ q = Append(calls[1].patch[2], k)

(* An entry that is left is the next one of the patch: it is not handled,   *)
(* what lies above it is.                                                   *)
LEMMA EntryTaken ==
  ASSUME NEW patch, NEW calls, NEW k, NEW q, Takes(patch, calls, k, q)
  PROVE  /\ q \in DOMAIN patch /\ q \notin Handled(calls, patch) /\ Above(q) \subseteq Handled(calls, patch)
         /\ k \in Key /\ q \in Paths /\ Len(q) = Len(calls) /\ Above(q) = Above(calls[1].patch[2]) \cup ({calls[1].patch[2]} \ {<<>>})
         /\ q # <<>> /\ q[Len(calls[1].patch[2]) + 1] = k
         /\ \A i \in 2..Len(calls) : calls[i].patch[2] \in Above(q) \cup {<<>>} => q[Len(calls[i].patch[2]) + 1] \notin calls[i].left
<1> DEFINE t == calls[1].patch[2]
<1>0. IsDocument(patch) /\ CallsOK(calls, patch) /\ calls # <<>> /\ k \in calls[1].left /\ q = Append(t, k)
  BY DEF Takes
<1>1. /\ Len(calls) \in Nat /\ Len(calls) > 0 /\ 1 \in 1..Len(calls) /\ t \in Paths /\ Len(t) \in Nat /\ Len(t) + 1 = Len(calls)
      /\ \A i \in 1..Len(calls) : calls[i] \in Frame /\ Len(calls[i].patch[2]) \in Nat /\ calls[i].patch[2] \in Paths
  BY <1>0, CallFacts
<1>2. t \in MapPaths(patch) /\ k \in KeysAt(patch, t) /\ t \in Handled(calls, patch) \cup {<<>>}
  BY <1>0, <1>1 DEF CallsOK
<1>3. k \in Key /\ q \in DOMAIN patch
  BY <1>0, <1>1, <1>2, DocumentPaths
<1>4. /\ q \in Paths /\ q # <<>> /\ Len(q) = Len(t) + 1 /\ \A i \in 1..Len(t) : q[i] = t[i]
      /\ Above(q) = Above(t) \cup ({t} \ {<<>>}) /\ Last(q) = k
  BY <1>0, <1>1, <1>3, PathExtended, AboveExtended
<1>5. q[Len(t) + 1] = k
  BY <1>4 DEF Last
<1>6. q \notin Handled(calls, patch)
  BY <1>0, <1>1, <1>4, <1>5 DEF Handled
<1>7. Above(q) \subseteq Handled(calls, patch)
  <2>1. CASE t = <<>>
    <3>1. Above(<<>>) = {}
      BY DEF Above
    <3>2. QED
      BY <1>4, <2>1, <3>1
  <2>2. CASE t # <<>>
    <3>1. t \in Handled(calls, patch)
      BY <1>2, <2>2
    <3>2. \A a \in Above(t) : a \in Handled(calls, patch)
      BY <1>0, <3>1, HandledClosed
    <3>3. QED
      BY <1>4, <3>1, <3>2
  <2>3. QED
    BY <2>1, <2>2
<1>8. ASSUME NEW i \in 2..Len(calls), calls[i].patch[2] \in Above(q) \cup {<<>>}
      PROVE  q[Len(calls[i].patch[2]) + 1] \notin calls[i].left
  <2> DEFINE s == calls[i].patch[2]
  <2>1. i \in 1..Len(calls) /\ Len(s) = Len(calls) - i /\ Len(s) < Len(t) /\ Len(s) \in Nat
    <3>1. i \in 1..Len(calls)
      BY <1>1
    <3>2. Len(s) = Len(calls) - i
      BY <1>0, <3>1 DEF CallsOK
    <3>3. i \in Nat /\ i > 1 /\ Len(s) \in Nat
      BY <1>1, <3>1
    <3> HIDE DEF s, t
    <3>4. QED
      BY <1>1, <3>1, <3>2, <3>3
  <2>2. s # t
    BY <2>1
  <2>3. s \in Above(t) \cup {<<>>}
    BY <1>4, <1>8, <2>2
  <2>4. t \in Handled(calls, patch)
    <3>1. t # <<>>
      BY <1>1, <2>1
    <3>2. QED
      BY <1>2, <3>1
  <2>5. t[Len(s) + 1] \notin calls[i].left
    BY <2>1, <2>3, <2>4 DEF Handled
  <2>6. Len(s) + 1 \in 1..Len(t)
    BY <1>1, <2>1
  <2>7. QED
    BY <1>4, <2>5, <2>6
<1>9. QED
  BY <1>1, <1>3, <1>4, <1>5, <1>6, <1>7, <1>8

(* The calls without an entry that the one on top had left.                *)
Less(calls, k, n) ==
  /\ n \in Seq(Frame) /\ Len(n) = Len(calls)
  /\ n[1] = [calls[1] EXCEPT !.left = @ \ {k}] /\ \A i \in 2..Len(calls) : n[i] = calls[i]

(* With an entry off the call's list, it is handled, and what lies below    *)
(* it.                                                                      *)
LEMMA EntryLeft ==
  ASSUME NEW patch, NEW calls, NEW k, NEW q, Takes(patch, calls, k, q), NEW n, Less(calls, k, n)
  PROVE  /\ Handled(n, patch) = Handled(calls, patch) \cup {r \in DOMAIN patch : Len(r) <= MaxDepth + 1 /\ (r = q \/ q \in Above(r))}
         /\ CallsOK(n, patch)
<1> DEFINE t == calls[1].patch[2]
<1>10. IsDocument(patch) /\ CallsOK(calls, patch) /\ calls # <<>> /\ k \in calls[1].left /\ q = Append(t, k)
  BY DEF Takes
<1>1. /\ Len(calls) \in Nat /\ Len(calls) > 0 /\ 1 \in 1..Len(calls) /\ t \in Paths /\ Len(t) \in Nat /\ Len(t) + 1 = Len(calls)
      /\ \A i \in 1..Len(calls) : calls[i] \in Frame /\ Len(calls[i].patch[2]) \in Nat /\ calls[i].patch[2] \in Paths
  BY <1>10, CallFacts
<1>2. /\ q \in DOMAIN patch /\ q \notin Handled(calls, patch) /\ Above(q) \subseteq Handled(calls, patch)
      /\ k \in Key /\ q \in Paths /\ Len(q) = Len(calls) /\ Above(q) = Above(t) \cup ({t} \ {<<>>})
      /\ q # <<>> /\ q[Len(t) + 1] = k
      /\ \A i \in 2..Len(calls) : calls[i].patch[2] \in Above(q) \cup {<<>>} => q[Len(calls[i].patch[2]) + 1] \notin calls[i].left
  <2>1. /\ q \in DOMAIN patch /\ q \notin Handled(calls, patch) /\ Above(q) \subseteq Handled(calls, patch)
        /\ k \in Key /\ q \in Paths /\ Len(q) = Len(calls)
    BY EntryTaken
  <2>2. Above(q) = Above(t) \cup ({t} \ {<<>>}) /\ q # <<>> /\ q[Len(t) + 1] = k
    BY EntryTaken
  <2>3. \A i \in 2..Len(calls) : calls[i].patch[2] \in Above(q) \cup {<<>>} => q[Len(calls[i].patch[2]) + 1] \notin calls[i].left
    BY EntryTaken
  <2>4. QED
    BY <2>1, <2>2, <2>3
<1>3. /\ \A i \in 1..Len(calls) : n[i].patch = calls[i].patch /\ n[i].target = calls[i].target /\ n[i].left \subseteq calls[i].left
      /\ n[1].left = calls[1].left \ {k}
      /\ \A i \in 2..Len(calls) : n[i].left = calls[i].left
  <2>1. calls[1] \in Frame
    BY <1>1
  <2>2. n[1].patch = calls[1].patch /\ n[1].target = calls[1].target /\ n[1].left = calls[1].left \ {k}
    BY <2>1 DEF Frame, Less
  <2>3. \A i \in 1..Len(calls) : i = 1 \/ i \in 2..Len(calls)
    BY <1>1
  <2>4. QED
    BY <2>2, <2>3 DEF Less
<1>0. n \in Seq(Frame) /\ Len(n) = Len(calls)
  BY DEF Less
<1> HIDE DEF t
<1>4. ASSUME NEW r \in DOMAIN patch, Len(r) <= MaxDepth + 1, r = q \/ q \in Above(r)
      PROVE  r \in Handled(n, patch)
  <2>1. r \in Paths /\ Len(r) \in Nat
    BY <1>10 DEF IsDocument, Paths
  <2>2. \A i \in 1..Len(q) : r[i] = q[i]
    <3>1. CASE r = q
      BY <3>1
    <3>2. CASE q \in Above(r)
      <4>1. \A i \in 1..Len(q) : q[i] = r[i]
        BY <2>1, <3>2, AboveType
      <4>2. QED
        BY <4>1
    <3>3. QED
      BY <1>4, <3>1, <3>2
  <2>3. \A a \in Above(r) : Len(a) < Len(q) => a \in Above(q)
    <3>1. SUFFICES ASSUME NEW a \in Above(r), Len(a) < Len(q) PROVE a \in Above(q)
      OBVIOUS
    <3>2. a \in Paths /\ a # <<>> /\ Len(a) \in Nat /\ \A i \in 1..Len(a) : a[i] = r[i]
      BY <2>1, <3>1, AboveType
    <3>3. \A i \in 1..Len(a) : i \in 1..Len(q)
      BY <1>1, <1>2, <3>1, <3>2
    <3>4. QED
      BY <1>2, <2>2, <3>1, <3>2, <3>3, AboveGiven
  <2>4. ASSUME NEW i \in 1..Len(n), n[i].patch[2] \in Above(r) \cup {<<>>}
        PROVE  r[Len(n[i].patch[2]) + 1] \notin n[i].left
    <3> DEFINE s == calls[i].patch[2]
    <3>1. i \in 1..Len(calls) /\ n[i].patch = calls[i].patch /\ Len(s) \in Nat /\ i \in Nat
      BY <1>0, <1>1, <1>3, <2>4
    <3>2. Len(s) = Len(calls) - i
      BY <1>10, <3>1 DEF CallsOK
    <3>3. Len(s) < Len(q) /\ Len(s) + 1 \in 1..Len(q)
      <4> HIDE DEF s
      <4>1. QED
        BY <1>1, <1>2, <3>1, <3>2
    <3>4. r[Len(s) + 1] = q[Len(s) + 1]
      BY <2>2, <3>3
    <3>5. s \in Above(q) \cup {<<>>}
      BY <2>3, <2>4, <3>1, <3>3
    <3>6. CASE i = 1
      BY <1>2, <1>3, <3>1, <3>4, <3>6 DEF t
    <3>7. CASE i # 1
      <4>1. i \in 2..Len(calls)
        BY <3>1, <3>7
      <4>2. QED
        BY <1>2, <1>3, <3>1, <3>4, <3>5, <4>1
    <3>8. QED
      BY <3>6, <3>7
  <2>5. QED
    BY <1>4, <2>4 DEF Handled
<1>5. Handled(calls, patch) \subseteq Handled(n, patch)
  BY <1>3, <1>0 DEF Handled
<1>6. ASSUME NEW r \in Handled(n, patch), r \notin Handled(calls, patch) PROVE r = q \/ q \in Above(r)
  <2>1. r \in DOMAIN patch /\ r \in Paths /\ Len(r) \in Nat
    BY <1>10 DEF Handled, IsDocument, Paths
  <2>2. PICK i \in 1..Len(calls) : calls[i].patch[2] \in Above(r) \cup {<<>>} /\ r[Len(calls[i].patch[2]) + 1] \in calls[i].left
    BY <1>6 DEF Handled
  <2>3. r[Len(n[i].patch[2]) + 1] \notin n[i].left
    BY <1>3, <1>0, <2>2 DEF Handled
  <2>4. i = 1
    <3>1. CASE i \in 2..Len(calls)
      <4>1. n[i].left = calls[i].left /\ n[i].patch = calls[i].patch
        BY <1>3, <3>1
      <4>2. QED
        BY <2>2, <2>3, <4>1
    <3>2. i \in 2..Len(calls) \/ i = 1
      BY <1>1
    <3>3. QED
      BY <3>1, <3>2
  <2>5. t \in Above(r) \cup {<<>>} /\ r[Len(t) + 1] = k
    BY <1>1, <1>3, <2>2, <2>3, <2>4 DEF t
  <2>6. Len(r) >= Len(q) /\ \A i_1 \in 1..Len(q) : r[i_1] = q[i_1]
    <3>1. r # <<>>
      BY <1>10, <2>1 DEF IsDocument
    <3>2. Len(t) < Len(r) /\ \A j \in 1..Len(t) : r[j] = t[j]
      <4>1. CASE t = <<>>
        <5>1. Len(r) > 0 /\ Len(t) = 0
          BY <2>1, <3>1, <4>1 DEF Paths
        <5>2. QED
          BY <5>1
      <4>2. CASE t # <<>>
        BY <2>1, <2>5, <4>2, AboveType
      <4>3. QED
        BY <4>1, <4>2
    <3>3. q = Append(t, k)
      BY <1>10 DEF t
    <3>4. \A j \in 1..Len(t) : q[j] = t[j]
      BY <1>1, <1>2, <3>3, PathExtended
    <3>5. \A j \in 1..Len(q) : j \in 1..Len(t) \/ j = Len(t) + 1
      BY <1>1, <1>2
    <3>6. QED
      BY <1>1, <1>2, <2>1, <2>5, <3>2, <3>4, <3>5
  <2>7. CASE Len(r) = Len(q)
    BY <1>2, <2>1, <2>6, <2>7, SamePath
  <2>8. CASE Len(r) # Len(q)
    <3>1. Len(q) < Len(r)
      BY <1>1, <1>2, <2>1, <2>6, <2>8
    <3>2. QED
      BY <1>2, <2>1, <2>6, <3>1, AboveGiven
  <2>9. QED
    BY <2>7, <2>8
<1>7. Handled(n, patch) = Handled(calls, patch) \cup {r \in DOMAIN patch : Len(r) <= MaxDepth + 1 /\ (r = q \/ q \in Above(r))}
  <2>1. \A r \in Handled(n, patch) : r \in DOMAIN patch /\ Len(r) <= MaxDepth + 1
    BY DEF Handled
  <2>2. QED
    BY <1>4, <1>5, <1>6, <2>1
<1>8. CallsOK(n, patch)
  <2>1. Len(n) <= MaxDepth + 1
    BY <1>10, <1>0 DEF CallsOK
  <2>2. ASSUME NEW i \in 1..Len(n)
        PROVE  LET s == n[i].patch[2] IN
               /\ n[i].target[2] = s /\ Len(s) = Len(n) - i
               /\ s \in MapPaths(patch) /\ n[i].left \subseteq KeysAt(patch, s)
               /\ s \in Handled(n, patch) \cup {<<>>}
    <3>1. LET s == calls[i].patch[2] IN
          /\ calls[i].target[2] = s /\ Len(s) = Len(calls) - i
          /\ s \in MapPaths(patch) /\ calls[i].left \subseteq KeysAt(patch, s)
          /\ s \in Handled(calls, patch) \cup {<<>>}
      BY <1>10, <1>0 DEF CallsOK
    <3>2. QED
      BY <1>3, <1>5, <1>0, <3>1
  <2>3. QED
    BY <1>10, <1>0, <2>1, <2>2 DEF CallsOK
<1>9. QED
  BY <1>7, <1>8

(* The next key of a longer path is one of the mapping's.                   *)
LEMMA FirstKey ==
  ASSUME NEW d, IsDocument(d), NEW q \in DOMAIN d, NEW t \in Above(q) \cup {<<>>}
  PROVE  q[Len(t) + 1] \in KeysAt(d, t)
<1> DEFINE k == q[Len(t) + 1]
           b == Append(t, k)
<1>1. q \in Paths /\ q # <<>> /\ Above(q) \subseteq DOMAIN d
  BY DEF IsDocument, Paths
<1>2. t \in Paths /\ Len(t) \in Nat /\ Len(q) \in Nat /\ Len(t) < Len(q) /\ \A i \in 1..Len(t) : t[i] = q[i]
  <2>1. CASE t = <<>>
    <3>1. Len(q) \in Nat /\ Len(q) > 0 /\ Len(t) = 0
      BY <1>1, <2>1 DEF Paths
    <3>2. QED
      BY <2>1, <3>1 DEF Paths
  <2>2. CASE t \in Above(q)
    BY <1>1, <2>2, AboveType
  <2>3. QED
    BY <2>1, <2>2
<1>3. Len(t) + 1 \in 1..Len(q)
  BY <1>2
<1>4. k \in Key
  BY <1>1, <1>3 DEF Paths
<1>5. b \in Paths /\ b # <<>> /\ Len(b) = Len(t) + 1 /\ (\A i \in 1..Len(t) : b[i] = t[i]) /\ b[Len(t) + 1] = k
  <2>1. b \in Paths /\ b # <<>> /\ Len(b) = Len(t) + 1 /\ (\A i \in 1..Len(t) : b[i] = t[i]) /\ Last(b) = k
    BY <1>2, <1>4, PathExtended
  <2>2. QED
    BY <2>1 DEF Last
<1> HIDE DEF b, k
<1>6. \A i \in 1..Len(b) : b[i] = q[i]
  <2>1. \A i \in 1..Len(b) : i \in 1..Len(t) \/ i = Len(t) + 1
    BY <1>2, <1>5
  <2>2. \A i \in 1..Len(t) : b[i] = q[i]
    BY <1>2, <1>5
  <2>3. b[Len(t) + 1] = q[Len(t) + 1]
    BY <1>5 DEF k
  <2>4. QED
    BY <2>1, <2>2, <2>3
<1>7. CASE Len(b) = Len(q)
  <2>1. b = q
    BY <1>1, <1>5, <1>6, <1>7, SamePath
  <2>2. QED
    BY <1>2, <1>4, <2>1, DocumentPaths DEF b, k
<1>8. CASE Len(b) < Len(q)
  <2>1. b \in DOMAIN d
    BY <1>1, <1>5, <1>6, <1>8, AboveGiven
  <2>2. QED
    BY <1>2, <1>4, <2>1, DocumentPaths DEF b, k
<1>9. QED
  BY <1>2, <1>3, <1>5, <1>7, <1>8

(* The first call has all of the patch left.                                *)
LEMMA CallsStart ==
  ASSUME NEW patch, IsDocument(patch), NEW calls, calls = <<[target |-> Result, patch |-> Patch, left |-> KeysAt(patch, <<>>)]>>
  PROVE  CallsOK(calls, patch) /\ Handled(calls, patch) = {}
<1>1. Result[2] = <<>> /\ Patch[2] = <<>> /\ Result \in {"result"} \X Seq(Key) /\ Patch \in {"patch"} \X Seq(Key)
  <2>1. <<>> \in Seq(Key)
    OBVIOUS
  <2> DEFINE S == Seq(Key)
  <2> HIDE DEF S
  <2>2. <<>> \in S
    BY <2>1 DEF S
  <2>3. Result \in {"result"} \X S /\ Patch \in {"patch"} \X S
    BY <2>2 DEF Result, Patch
  <2>4. Result[2] = <<>> /\ Patch[2] = <<>>
    BY DEF Result, Patch
  <2>5. QED
    BY <2>3, <2>4 DEF S
<1>2. <<>> \in MapPaths(patch) /\ <<>> \in Paths
  BY DEF MapPaths, Paths
<1>3. KeysAt(patch, <<>>) \subseteq Key
  BY <1>2, DocumentPaths
<1>4. Len(calls) = 1 /\ calls[1].target = Result /\ calls[1].patch = Patch /\ calls[1].left = KeysAt(patch, <<>>) /\ calls \in Seq(Frame)
  <2> DEFINE c == [target |-> Result, patch |-> Patch, left |-> KeysAt(patch, <<>>)]
  <2>1. c \in Frame
    BY <1>1, <1>3 DEF Frame
  <2>2. c.target = Result /\ c.patch = Patch /\ c.left = KeysAt(patch, <<>>)
    OBVIOUS
  <2> HIDE DEF c
  <2>3. <<c>> \in Seq(Frame) /\ Len(<<c>>) = 1 /\ <<c>>[1] = c
    BY <2>1
  <2>4. calls = <<c>>
    BY DEF c
  <2>5. QED
    BY <2>2, <2>3, <2>4
<1>5. Len(<<>>) = 0
  OBVIOUS
<1>6. CallsOK(calls, patch)
  <2>1. \A i \in 1..Len(calls) : i = 1
    BY <1>4
  <2>2. Len(calls) <= MaxDepth + 1
    BY <1>4, DepthAssumption
  <2>3. Len(<<>>) = Len(calls) - 1
    BY <1>4, <1>5
  <2>4. QED
    BY <1>1, <1>2, <1>4, <2>1, <2>2, <2>3 DEF CallsOK
<1>7. ASSUME NEW q \in Handled(calls, patch) PROVE FALSE
  <2>1. q \in DOMAIN patch /\ 1 \in 1..Len(calls)
    BY <1>4 DEF Handled
  <2>2. q[Len(<<>>) + 1] \notin calls[1].left
    BY <1>1, <1>4, <1>7, <2>1 DEF Handled
  <2>3. q[Len(<<>>) + 1] \in KeysAt(patch, <<>>)
    BY <2>1, FirstKey
  <2>4. QED
    BY <1>4, <2>2, <2>3
<1>8. QED
  BY <1>6, <1>7

(* An entry that gets no call of its own.                                   *)
LEMMA CallsStay ==
  ASSUME NEW patch, NEW calls, NEW k, NEW q, Takes(patch, calls, k, q), NEW n, Less(calls, k, n),
         patch[q].kind # "map" \/ Len(calls) > MaxDepth
  PROVE  CallsOK(n, patch) /\ Handled(n, patch) = Handled(calls, patch) \cup {q}
<1>1. IsDocument(patch) /\ CallsOK(calls, patch) /\ calls # <<>>
  BY DEF Takes
<1>2. q \in DOMAIN patch /\ q \in Paths /\ Len(q) = Len(calls)
  BY EntryTaken
<1>3. Len(calls) \in Nat /\ Len(calls) <= MaxDepth + 1
  BY <1>1, CallFacts DEF CallsOK
<1>4. ASSUME NEW r \in DOMAIN patch, Len(r) <= MaxDepth + 1, q \in Above(r) PROVE FALSE
  <2>1. patch[q].kind = "map"
    BY <1>1, <1>4 DEF IsDocument
  <2>2. r \in Paths
    BY <1>1 DEF IsDocument, Paths
  <2>3. Len(q) < Len(r) /\ Len(r) \in Nat
    BY <1>4, <2>2, AboveType
  <2>4. QED
    BY <1>2, <1>3, <1>4, <2>1, <2>3, DepthAssumption
<1>5. Len(q) <= MaxDepth + 1
  BY <1>2, <1>3
<1>6. {r \in DOMAIN patch : Len(r) <= MaxDepth + 1 /\ (r = q \/ q \in Above(r))} = {q}
  BY <1>2, <1>4, <1>5
<1>7. CallsOK(n, patch)
  BY EntryLeft
<1>8. Handled(n, patch) = Handled(calls, patch) \cup {r \in DOMAIN patch : Len(r) <= MaxDepth + 1 /\ (r = q \/ q \in Above(r))}
  BY EntryLeft
<1>9. QED
  BY <1>6, <1>7, <1>8

(* An entry that gets one: of what lies below it nothing is merged yet.     *)
Deeper(q, patch, m, n) ==
  /\ n \in Seq(Frame) /\ Len(n) = Len(m) + 1
  /\ n[1] = [target |-> <<"result", q>>, patch |-> <<"patch", q>>, left |-> KeysAt(patch, q)]
  /\ \A i \in 1..Len(m) : n[i + 1] = m[i]

(* A call for the mapping of an entry leaves what lies below it.            *)
LEMMA CallsDescend ==
  ASSUME NEW patch, NEW calls, NEW k, NEW q, Takes(patch, calls, k, q), NEW m, Less(calls, k, m),
         patch[q].kind = "map", Len(calls) <= MaxDepth, NEW n, Deeper(q, patch, m, n)
  PROVE  CallsOK(n, patch) /\ Handled(n, patch) = Handled(calls, patch) \cup {q}
<1>1. IsDocument(patch) /\ CallsOK(calls, patch) /\ calls # <<>>
  BY DEF Takes
<1>2. q \in DOMAIN patch /\ q \in Paths /\ Len(q) = Len(calls) /\ q \notin Handled(calls, patch) /\ q # <<>>
  BY EntryTaken
<1>3. Len(calls) \in Nat /\ Len(m) = Len(calls) /\ Len(n) = Len(m) + 1 /\ n \in Seq(Frame)
  BY <1>1, CallFacts DEF Less, Deeper
<1>4. Handled(m, patch) = Handled(calls, patch) \cup {r \in DOMAIN patch : Len(r) <= MaxDepth + 1 /\ (r = q \/ q \in Above(r))}
  BY EntryLeft
<1>5. CallsOK(m, patch)
  BY EntryLeft
<1>6. /\ n[1].target[2] = q /\ n[1].patch[2] = q /\ n[1].left = KeysAt(patch, q)
      /\ \A i \in 1..Len(m) : n[i + 1] = m[i]
  BY DEF Deeper
<1>7. ASSUME NEW i \in 1..Len(n) PROVE i = 1 \/ \E j \in 1..Len(m) : i = j + 1
  <2>1. i # 1 => i - 1 \in 1..Len(m) /\ i = (i - 1) + 1
    BY <1>3
  <2>2. QED
    BY <2>1
<1>8. ASSUME NEW r \in DOMAIN patch
      PROVE  r \in Handled(n, patch) <=> r \in Handled(m, patch) /\ q \notin Above(r)
  <2>1. q \in Above(r) => r[Len(q) + 1] \in KeysAt(patch, q)
    BY <1>1, FirstKey
  <2>2. 1 \in 1..Len(n) /\ \A j \in 1..Len(m) : j + 1 \in 1..Len(n)
    BY <1>3
  <2>3. ASSUME r \in Handled(n, patch) PROVE r \in Handled(m, patch) /\ q \notin Above(r)
    <3>1. Len(r) <= MaxDepth + 1
      BY <2>3 DEF Handled
    <3>2. \A i \in 1..Len(n) : n[i].patch[2] \in Above(r) \cup {<<>>} => r[Len(n[i].patch[2]) + 1] \notin n[i].left
      BY <2>3 DEF Handled
    <3>3. q \notin Above(r)
      BY <1>6, <2>1, <2>2, <3>2
    <3>4. \A j \in 1..Len(m) : m[j].patch[2] \in Above(r) \cup {<<>>} => r[Len(m[j].patch[2]) + 1] \notin m[j].left
      BY <1>6, <2>2, <3>2
    <3>5. QED
      BY <3>1, <3>3, <3>4 DEF Handled
  <2>4. ASSUME r \in Handled(m, patch), q \notin Above(r) PROVE r \in Handled(n, patch)
    <3>1. Len(r) <= MaxDepth + 1
      BY <2>4 DEF Handled
    <3>2. \A j \in 1..Len(m) : m[j].patch[2] \in Above(r) \cup {<<>>} => r[Len(m[j].patch[2]) + 1] \notin m[j].left
      BY <2>4 DEF Handled
    <3>3. \A i \in 1..Len(n) : n[i].patch[2] \in Above(r) \cup {<<>>} => r[Len(n[i].patch[2]) + 1] \notin n[i].left
      BY <1>2, <1>6, <1>7, <2>4, <3>2
    <3>4. QED
      BY <3>1, <3>3 DEF Handled
  <2>5. QED
    BY <2>3, <2>4
<1>9. \A r \in Handled(calls, patch) : q \notin Above(r)
  BY <1>1, <1>2, HandledClosed
<1>10. q \notin Above(q) /\ Len(q) <= MaxDepth + 1
  <2>1. q \notin Above(q)
    BY <1>2, AboveType
  <2>2. Len(q) <= MaxDepth + 1
    BY <1>2, <1>3, DepthAssumption
  <2>3. QED
    BY <2>1, <2>2
<1>11. Handled(n, patch) = Handled(calls, patch) \cup {q}
  <2>1. Handled(n, patch) \subseteq DOMAIN patch /\ Handled(calls, patch) \subseteq DOMAIN patch
    BY DEF Handled
  <2>2. \A r \in DOMAIN patch : r \in Handled(n, patch) <=> r \in Handled(calls, patch) \cup {q}
    BY <1>4, <1>8, <1>9, <1>10
  <2>3. QED
    BY <1>2, <2>1, <2>2
<1>12. ASSUME NEW i \in 1..Len(n)
       PROVE  LET t == n[i].patch[2] IN
              /\ n[i].target[2] = t /\ Len(t) = Len(n) - i
              /\ t \in MapPaths(patch) /\ n[i].left \subseteq KeysAt(patch, t)
              /\ t \in Handled(n, patch) \cup {<<>>}
  <2>1. CASE i = 1
    <3>1. Len(q) = Len(n) - 1
      BY <1>2, <1>3
    <3>2. q \in MapPaths(patch)
      BY <1>2 DEF MapPaths
    <3>3. QED
      BY <1>6, <1>11, <2>1, <3>1, <3>2
  <2>2. ASSUME NEW j \in 1..Len(m), i = j + 1
        PROVE  LET t == n[i].patch[2] IN
               /\ n[i].target[2] = t /\ Len(t) = Len(n) - i
               /\ t \in MapPaths(patch) /\ n[i].left \subseteq KeysAt(patch, t)
               /\ t \in Handled(n, patch) \cup {<<>>}
    <3> DEFINE t == m[j].patch[2]
    <3>1. /\ m[j].target[2] = t /\ Len(t) = Len(m) - j
          /\ t \in MapPaths(patch) /\ m[j].left \subseteq KeysAt(patch, t)
          /\ t \in Handled(m, patch) \cup {<<>>}
      BY <1>5 DEF CallsOK
    <3>2. n[i] = m[j]
      BY <1>6, <2>2
    <3> HIDE DEF t
    <3>3. Len(t) = Len(n) - i /\ Len(t) < Len(q)
      BY <1>2, <1>3, <2>2, <3>1
    <3>4. t \in Handled(n, patch) \cup {<<>>}
      <4>1. t \in Paths
        BY <1>1, <3>1, DocumentPaths
      <4>2. q \in Above(t) => Len(q) < Len(t) /\ Len(q) \in Nat /\ Len(t) \in Nat
        BY <4>1, AboveType
      <4>3. q \notin Above(t)
        BY <3>3, <4>2
      <4>4. t # <<>> => t \in DOMAIN patch
        BY <3>1 DEF MapPaths
      <4>5. QED
        BY <1>8, <3>1, <4>3, <4>4
    <3>5. QED
      BY <3>1, <3>2, <3>3, <3>4 DEF t
  <2>3. QED
    BY <1>7, <2>1, <2>2
<1>13. Len(n) <= MaxDepth + 1
  BY <1>3, DepthAssumption
<1>14. CallsOK(n, patch)
  BY <1>3, <1>12, <1>13 DEF CallsOK
<1>15. QED
  BY <1>11, <1>14

(* A call that has nothing left returns.                                    *)
LEMMA CallsReturn ==
  ASSUME NEW patch, NEW calls, CallsOK(calls, patch), calls # <<>>, calls[1].left = {}
  PROVE  CallsOK(Tail(calls), patch) /\ Handled(Tail(calls), patch) = Handled(calls, patch)
<1> DEFINE n == Tail(calls)
<1>1. calls \in Seq(Frame) /\ Len(calls) \in Nat /\ Len(calls) > 0
  BY DEF CallsOK
<1>2. n \in Seq(Frame) /\ Len(n) = Len(calls) - 1 /\ \A i \in 1..Len(n) : n[i] = calls[i + 1]
  BY <1>1
<1> HIDE DEF n
<1>3. \A i \in 1..Len(n) : i + 1 \in 1..Len(calls)
  BY <1>1, <1>2
<1>4. \A i \in 1..Len(calls) : i = 1 \/ (i - 1 \in 1..Len(n) /\ n[i - 1] = calls[i])
  BY <1>1, <1>2
<1>5. Handled(n, patch) = Handled(calls, patch)
  <2>1. ASSUME NEW r \in DOMAIN patch
        PROVE  (\A i \in 1..Len(n) : n[i].patch[2] \in Above(r) \cup {<<>>} => r[Len(n[i].patch[2]) + 1] \notin n[i].left)
                 <=> (\A i \in 1..Len(calls) : calls[i].patch[2] \in Above(r) \cup {<<>>} => r[Len(calls[i].patch[2]) + 1] \notin calls[i].left)
    <3>1. ASSUME NEW i \in 1..Len(n), \A j \in 1..Len(calls) : calls[j].patch[2] \in Above(r) \cup {<<>>} => r[Len(calls[j].patch[2]) + 1] \notin calls[j].left,
                 n[i].patch[2] \in Above(r) \cup {<<>>}
          PROVE  r[Len(n[i].patch[2]) + 1] \notin n[i].left
      BY <1>2, <1>3, <3>1
    <3>2. ASSUME NEW i \in 1..Len(calls), \A j \in 1..Len(n) : n[j].patch[2] \in Above(r) \cup {<<>>} => r[Len(n[j].patch[2]) + 1] \notin n[j].left,
                 calls[i].patch[2] \in Above(r) \cup {<<>>}
          PROVE  r[Len(calls[i].patch[2]) + 1] \notin calls[i].left
      BY <1>4, <3>2
    <3>3. QED
      BY <3>1, <3>2
  <2>2. QED
    BY <2>1 DEF Handled
<1>6. CallsOK(n, patch)
  <2>1. Len(n) <= MaxDepth + 1
    BY <1>1, <1>2, DepthAssumption DEF CallsOK
  <2>2. ASSUME NEW i \in 1..Len(n)
        PROVE  LET t == n[i].patch[2] IN
               /\ n[i].target[2] = t /\ Len(t) = Len(n) - i
               /\ t \in MapPaths(patch) /\ n[i].left \subseteq KeysAt(patch, t)
               /\ t \in Handled(n, patch) \cup {<<>>}
    <3> DEFINE t == calls[i + 1].patch[2]
    <3>1. /\ calls[i + 1].target[2] = t /\ Len(t) = Len(calls) - (i + 1)
          /\ t \in MapPaths(patch) /\ calls[i + 1].left \subseteq KeysAt(patch, t)
          /\ t \in Handled(calls, patch) \cup {<<>>}
      BY <1>3 DEF CallsOK
    <3>2. n[i] = calls[i + 1]
      BY <1>2
    <3> HIDE DEF t
    <3>3. Len(t) = Len(n) - i
      BY <1>1, <1>2, <3>1
    <3>4. QED
      BY <1>5, <3>1, <3>2, <3>3 DEF t
  <2>3. QED
    BY <1>2, <2>1, <2>2 DEF CallsOK
<1>7. QED
  BY <1>5, <1>6 DEF n

(* With no call left, all the bound allows is handled.                      *)
LEMMA CallsDone ==
  ASSUME NEW patch
  PROVE  Handled(<<>>, patch) = {q \in DOMAIN patch : Len(q) <= MaxDepth + 1} /\ Some(patch, Handled(<<>>, patch)) = Within(patch)
<1>1. Len(<<>>) = 0
  OBVIOUS
<1>2. Handled(<<>>, patch) = {q \in DOMAIN patch : Len(q) <= MaxDepth + 1}
  BY <1>1 DEF Handled
<1>3. QED
  BY <1>2 DEF Some, Within

------------------------------------------------------------------------------
(* A merge under way: the result holds what RFC 7386 makes of the base and  *)
(* the part of the patch that is merged, in mappings of its own down to the *)
(* bound.                                                                   *)
Merged(calls, b, patch) == RFC7386(b, Some(patch, Handled(calls, patch)))
Owned(h, own, m) == Holds(h, m, own, "base") /\ \A p \in MapPaths(m) : Len(p) <= MaxDepth + 1 => p \in own
Going(h, calls, own, b, patch) ==
  /\ IsDocument(b) /\ IsDocument(patch) /\ CallsOK(calls, patch)
  /\ Holds(h, patch, {}, "patch") /\ Closed(PathsOf(h)) /\ Owned(h, own, Merged(calls, b, patch))
Merging(h, calls, b, patch) == \E own : Going(h, calls, own, b, patch)

(* What is merged so far is a document.                                     *)
LEMMA MergedDocument ==
  ASSUME NEW b, NEW patch, IsDocument(b), IsDocument(patch), NEW calls, CallsOK(calls, patch)
  PROVE  /\ IsDocument(Merged(calls, b, patch))
         /\ Handled(calls, patch) \subseteq DOMAIN patch /\ \A p \in Handled(calls, patch) : Above(p) \subseteq Handled(calls, patch)
<1>1. Handled(calls, patch) \subseteq DOMAIN patch
  BY DEF Handled
<1>2. \A p \in Handled(calls, patch) : Above(p) \subseteq Handled(calls, patch)
  BY HandledClosed
<1>3. IsDocument(Some(patch, Handled(calls, patch)))
  BY <1>1, <1>2, SomeIsDocument
<1>4. IsDocument(Merged(calls, b, patch))
  BY <1>3, MergedIsDocument DEF Merged
<1>5. QED
  BY <1>1, <1>2, <1>4

(* The mapping the call on top merges into, and the one it merges.          *)
AtTop(h, calls, own, b, patch, t) ==
  /\ calls[1].target = <<"result", t>> /\ calls[1].patch = <<"patch", t>> /\ t \in Paths /\ Len(t) + 1 = Len(calls)
  /\ t \in MapPaths(patch) /\ t \in MapPaths(Merged(calls, b, patch)) /\ t \in own
  /\ calls[1].left \subseteq KeysAt(patch, t)
  /\ h[<<"patch", t>>] = Node(patch, {}, "patch", t) /\ <<"patch", t>> \in DOMAIN h
  /\ h[<<"result", t>>] = Node(Merged(calls, b, patch), own, "base", t) /\ <<"result", t>> \in DOMAIN h

(* The call on top merges the mapping of the patch into the result's at the *)
(* same path.                                                               *)
LEMMA TopFacts ==
  ASSUME NEW h, NEW calls, NEW own, NEW b, NEW patch, Going(h, calls, own, b, patch), calls # <<>>
  PROVE  AtTop(h, calls, own, b, patch, calls[1].patch[2])
<1> DEFINE t == calls[1].patch[2]
           m == Merged(calls, b, patch)
<1>0. /\ IsDocument(b) /\ IsDocument(patch) /\ CallsOK(calls, patch)
      /\ Holds(h, patch, {}, "patch") /\ Closed(PathsOf(h)) /\ Owned(h, own, m)
  BY DEF Going
<1>1. 1 \in 1..Len(calls) /\ calls[1] \in Frame /\ t \in Paths /\ Len(t) + 1 = Len(calls) /\ Len(t) \in Nat
  BY <1>0, CallFacts
<1>2. /\ calls[1].target[2] = t /\ t \in MapPaths(patch) /\ calls[1].left \subseteq KeysAt(patch, t)
      /\ t \in Handled(calls, patch) \cup {<<>>} /\ Len(calls) <= MaxDepth + 1
  BY <1>0, <1>1 DEF CallsOK
<1>3. calls[1].target = <<"result", t>> /\ calls[1].patch = <<"patch", t>>
  <2> DEFINE S == Seq(Key)
  <2>1. calls[1].target \in {"result"} \X S /\ calls[1].patch \in {"patch"} \X S
    BY <1>1 DEF Frame
  <2> HIDE DEF S
  <2>2. \A x \in {"result"} \X S : x = <<"result", x[2]>>
    OBVIOUS
  <2>3. \A x \in {"patch"} \X S : x = <<"patch", x[2]>>
    OBVIOUS
  <2>4. QED
    BY <1>2, <2>1, <2>2, <2>3
<1>4. t \in MapPaths(m)
  <2>1. CASE t = <<>>
    BY <2>1 DEF MapPaths
  <2>2. CASE t # <<>>
    <3>1. t \in Handled(calls, patch) /\ patch[t].kind = "map"
      BY <1>2, <2>2 DEF MapPaths
    <3>2. t \in DOMAIN m /\ m[t] = patch[t]
      BY <3>1, MergedSome DEF Merged
    <3>3. QED
      BY <3>1, <3>2 DEF MapPaths
  <2>3. QED
    BY <2>1, <2>2
<1>5. t \in own
  <2>1. Len(t) <= MaxDepth + 1
    BY <1>1, <1>2, DepthAssumption
  <2>2. QED
    BY <1>0, <1>4, <2>1 DEF Owned
<1>6. h[<<"patch", t>>] = Node(patch, {}, "patch", t) /\ <<"patch", t>> \in DOMAIN h
  <2>1. Loc({}, "patch", t) = <<"patch", t>>
    BY DEF Loc
  <2>2. QED
    BY <1>0, <1>2, <2>1 DEF Holds
<1>7. h[<<"result", t>>] = Node(m, own, "base", t) /\ <<"result", t>> \in DOMAIN h
  <2>1. Loc(own, "base", t) = <<"result", t>>
    BY <1>5 DEF Loc
  <2>2. QED
    BY <1>0, <1>4, <2>1 DEF Owned, Holds
<1>8. QED
  BY <1>1, <1>2, <1>3, <1>4, <1>5, <1>6, <1>7 DEF AtTop

(* What a heap is where one entry is merged, no mapping having been there.  *)
EditedHeap(h, g, patch, l, k, q) ==
  /\ DOMAIN g = DOMAIN h \cup (IF patch[q].kind = "map" THEN {<<"result", q>>} ELSE {})
  /\ \A i \in DOMAIN h : i \notin {l, <<"result", q>>} => g[i] = h[i]
  /\ patch[q].kind = "map" => g[<<"result", q>>] = Empty
  /\ g[l] = IF patch[q].kind = "nil" THEN Without(h[l], k)
            ELSE IF patch[q].kind = "map" THEN With(h[l], k, Ref("result", q)) ELSE With(h[l], k, patch[q])

(* An entry that replaces or deletes, or a new mapping: the merge goes on   *)
(* with one entry more.                                                     *)
LEMMA EditMerges ==
  ASSUME NEW h, NEW calls, NEW own, NEW b, NEW patch, Going(h, calls, own, b, patch), NEW k, NEW q, Takes(patch, calls, k, q),
         NEW n, CallsOK(n, patch), Handled(n, patch) = Handled(calls, patch) \cup {q},
         \/ patch[q].kind # "map"
         \/ patch[q].kind = "map" /\ ~(q \in DOMAIN Merged(calls, b, patch) /\ Merged(calls, b, patch)[q].kind = "map"),
         NEW g, EditedHeap(h, g, patch, calls[1].target, k, q)
  PROVE  Merging(g, n, b, patch)
<1> DEFINE t == calls[1].patch[2]
           m == Merged(calls, b, patch)
           e == Merged(n, b, patch)
           S == Handled(calls, patch)
<1>19. /\ IsDocument(b) /\ IsDocument(patch) /\ CallsOK(calls, patch)
      /\ Holds(h, patch, {}, "patch") /\ Closed(PathsOf(h)) /\ Owned(h, own, m)
  BY DEF Going
<1>1. CallsOK(calls, patch) /\ calls # <<>> /\ k \in calls[1].left /\ q = Append(t, k)
  BY DEF Takes
<1>2. /\ calls[1].target = <<"result", t>> /\ t \in Paths /\ t \in MapPaths(patch) /\ t \in MapPaths(m) /\ t \in own
      /\ h[<<"result", t>>] = Node(m, own, "base", t) /\ <<"result", t>> \in DOMAIN h
  <2>1. AtTop(h, calls, own, b, patch, t)
    BY <1>1, TopFacts
  <2>2. QED
    BY <2>1 DEF AtTop
<1>3. k \in Key /\ q \in DOMAIN patch /\ q \notin S /\ Above(q) \subseteq S /\ q # <<>> /\ q \in Paths
  BY EntryTaken
<1>4. IsDocument(m) /\ S \subseteq DOMAIN patch /\ \A p \in S : Above(p) \subseteq S
  BY <1>19, MergedDocument
<1>5. IsDocument(e)
  BY <1>19, MergedDocument
<1>6. Front(q) = t /\ t # q
  BY <1>1, <1>2, <1>3, PathExtended, AboveType
<1>7. m = RFC7386(b, Some(patch, S)) /\ e = RFC7386(b, Some(patch, S \cup {q}))
  BY DEF Merged
<1> HIDE DEF t, m, e, S
<1>0. IsNext(b, patch, S, q)
  BY <1>19, <1>3, <1>4 DEF IsNext
<1>8. /\ patch[q].kind = "nil" => e = Cut(m, q)
      /\ patch[q].kind \notin {"nil", "map"} => e = Put(m, q, patch[q])
      /\ patch[q].kind = "map" => e = Put(m, q, [kind |-> "map"])
  <2>1. /\ patch[q].kind = "nil" => e = Cut(m, q)
        /\ patch[q].kind \notin {"nil", "map"} => e = Put(m, q, patch[q])
        /\ patch[q].kind = "map" /\ ~(q \in DOMAIN m /\ m[q].kind = "map") => e = Put(m, q, [kind |-> "map"])
    BY <1>0, <1>7, OneMore
  <2>2. patch[q].kind = "map" => ~(q \in DOMAIN m /\ m[q].kind = "map")
    BY DEF m
  <2>3. QED
    BY <2>1, <2>2
<1>9. /\ DOMAIN Cut(m, q) \subseteq DOMAIN e /\ DOMAIN e \subseteq DOMAIN Cut(m, q) \cup {q}
      /\ \A p \in DOMAIN Cut(m, q) : e[p] = m[p]
      /\ q \in DOMAIN e <=> patch[q].kind # "nil"
      /\ patch[q].kind \notin {"nil", "map"} => e[q] = patch[q]
      /\ patch[q].kind = "map" => e[q] = [kind |-> "map"]
  <2>1. q \notin DOMAIN Cut(m, q) /\ \A p \in DOMAIN Cut(m, q) : Cut(m, q)[p] = m[p]
    BY DEF Cut
  <2>2. \A x : /\ DOMAIN Put(m, q, x) = DOMAIN Cut(m, q) \cup {q} /\ Put(m, q, x)[q] = x
               /\ \A p \in DOMAIN Cut(m, q) : Put(m, q, x)[p] = m[p]
    BY <2>1 DEF Put
  <2>3. CASE patch[q].kind = "nil"
    BY <1>8, <2>1, <2>3
  <2>4. CASE patch[q].kind = "map"
    BY <1>8, <2>2, <2>4
  <2>5. CASE patch[q].kind \notin {"nil", "map"}
    BY <1>8, <2>2, <2>5
  <2>6. QED
    BY <2>3, <2>4, <2>5
<1>10. q \in MapPaths(e) <=> patch[q].kind = "map"
  <2>1. q \in MapPaths(e) <=> q \in DOMAIN e /\ e[q].kind = "map"
    BY <1>3 DEF MapPaths
  <2>2. CASE patch[q].kind = "map"
    BY <1>9, <2>1, <2>2
  <2>3. CASE patch[q].kind # "map"
    BY <1>9, <2>1, <2>3
  <2>4. QED
    BY <2>2, <2>3
<1>18. Edited(m, e, t, k, q)
  BY <1>1, <1>2, <1>3, <1>4, <1>5, <1>9 DEF Edited
<1>11. /\ KeysAt(e, t) \ {k} = KeysAt(m, t) \ {k}
       /\ \A j \in KeysAt(m, t) \ {k} : e[Append(t, j)] = m[Append(t, j)] /\ Append(t, j) # q
       /\ k \in KeysAt(e, t) <=> q \in DOMAIN e
       /\ t \in MapPaths(e) /\ \A p \in MapPaths(e) : p # q => p \in MapPaths(m)
  BY <1>18, EditedKeys
<1> DEFINE all == own \cup {q}
<1>12. g[<<"result", t>>] = Node(e, all, "base", t)
  <2> DEFINE o == Node(m, own, "base", t)
             w == Node(e, all, "base", t)
  <2>1. DOMAIN o = KeysAt(m, t) /\ DOMAIN w = KeysAt(e, t)
    BY DEF Node
  <2>2. \A j \in KeysAt(m, t) \ {k} : o[j] = w[j]
    <3>1. SUFFICES ASSUME NEW j \in KeysAt(m, t) \ {k} PROVE o[j] = w[j]
      OBVIOUS
    <3>2. e[Append(t, j)] = m[Append(t, j)] /\ Append(t, j) # q /\ j \in KeysAt(e, t)
      BY <1>11, <3>1
    <3>3. Loc(own, "base", Append(t, j)) = Loc(all, "base", Append(t, j))
      BY <3>2 DEF Loc
    <3>4. QED
      BY <3>1, <3>2, <3>3 DEF Node
  <2>3. patch[q].kind # "nil" => k \in KeysAt(e, t) /\ w[k] = IF patch[q].kind = "map" THEN Ref("result", q) ELSE patch[q]
    <3>1. SUFFICES ASSUME patch[q].kind # "nil"
                   PROVE  k \in KeysAt(e, t) /\ w[k] = IF patch[q].kind = "map" THEN Ref("result", q) ELSE patch[q]
      OBVIOUS
    <3>2. k \in KeysAt(e, t)
      BY <1>9, <1>11, <3>1
    <3>3. w[k] = IF e[q].kind = "map" THEN [kind |-> "map", loc |-> Loc(all, "base", q)] ELSE e[q]
      BY <1>1, <3>2 DEF Node
    <3>4. Loc(all, "base", q) = <<"result", q>>
      BY DEF Loc
    <3>5. CASE patch[q].kind = "map"
      <4>1. e[q].kind = "map"
        BY <1>9, <3>5
      <4>2. w[k] = [kind |-> "map", loc |-> <<"result", q>>]
        BY <3>3, <3>4, <4>1
      <4>3. QED
        BY <3>2, <3>5, <4>2 DEF Ref
    <3>6. CASE patch[q].kind # "map"
      BY <1>9, <3>1, <3>2, <3>3, <3>6
    <3>7. QED
      BY <3>5, <3>6
  <2>4. patch[q].kind = "nil" => k \notin KeysAt(e, t)
    BY <1>9, <1>11
  <2>5. w = [j \in KeysAt(e, t) |-> w[j]]
    BY DEF Node
  <2> HIDE DEF o, w
  <2>6. CASE patch[q].kind = "nil"
    <3>1. g[<<"result", t>>] = [j \in DOMAIN o \ {k} |-> o[j]]
      BY <1>2, <2>6 DEF Without, o, EditedHeap
    <3>2. DOMAIN o \ {k} = KeysAt(e, t)
      BY <1>11, <2>1, <2>4, <2>6
    <3>3. \A j \in KeysAt(e, t) : o[j] = w[j]
      BY <2>1, <2>2, <3>2
    <3>4. QED
      BY <2>5, <3>1, <3>2, <3>3 DEF w
  <2>7. CASE patch[q].kind # "nil"
    <3> DEFINE x == IF patch[q].kind = "map" THEN Ref("result", q) ELSE patch[q]
    <3>1. g[<<"result", t>>] = With(o, k, x)
      BY <1>2, <2>7 DEF o, EditedHeap
    <3>2. With(o, k, x) = [j \in DOMAIN o \cup {k} |-> IF j = k THEN x ELSE o[j]]
      BY DEF With
    <3>3. w[k] = x /\ k \in KeysAt(e, t)
      BY <2>3, <2>7 DEF w
    <3> HIDE DEF x
    <3>4. DOMAIN o \cup {k} = KeysAt(e, t)
      BY <1>11, <2>1, <3>3
    <3>5. \A j \in KeysAt(e, t) : (IF j = k THEN x ELSE o[j]) = w[j]
      BY <2>1, <2>2, <3>3, <3>4
    <3>6. QED
      BY <2>5, <3>1, <3>2, <3>4, <3>5 DEF w
  <2>8. QED
    BY <2>6, <2>7
<1>13. Holds(g, e, all, "base")
  <2>1. Holds(h, m, own, "base")
    BY <1>19 DEF Owned
  <2>2. \A l \in DOMAIN h : l \notin {<<"result", t>>, <<"result", q>>} => g[l] = h[l]
    BY <1>2 DEF EditedHeap
  <2>3. q \in MapPaths(e) => /\ <<"result", q>> \in DOMAIN g /\ DOMAIN g[<<"result", q>>] = {} /\ g[<<"result", q>>] = Empty
    BY <1>10 DEF Empty, EditedHeap
  <2>4. DOMAIN h \subseteq DOMAIN g
    BY DEF EditedHeap
  <2>5. t \in own
    BY <1>2
  <2> HIDE DEF all
  <2>6. QED
    BY <1>18, <1>12, <2>1, <2>2, <2>3, <2>4, <2>5, EditHolds DEF all
<1>14. Holds(g, patch, {}, "patch")
  <2>1. \A p : Loc({}, "patch", p) = <<"patch", p>>
    BY DEF Loc
  <2>2. \A p, r : <<"patch", p>> # <<"result", r>>
    OBVIOUS
  <2>3. \A p \in MapPaths(patch) : <<"patch", p>> \in DOMAIN h /\ h[<<"patch", p>>] = Node(patch, {}, "patch", p)
    BY <1>19, <2>1 DEF Holds
  <2>4. QED
    BY <1>2, <2>1, <2>2, <2>3 DEF Holds, EditedHeap
<1>15. Closed(PathsOf(g))
  <2>1. \A p \in PathsOf(g) : p \in PathsOf(h) \/ p = q
    BY DEF PathsOf, EditedHeap
  <2>2. PathsOf(h) \subseteq PathsOf(g)
    BY DEF PathsOf, EditedHeap
  <2>3. t \in PathsOf(h)
    BY <1>2 DEF PathsOf
  <2>4. QED
    BY <1>19, <1>3, <1>6, <2>1, <2>2, <2>3 DEF Closed
<1>16. \A p \in MapPaths(e) : Len(p) <= MaxDepth + 1 => p \in all
  BY <1>19, <1>11 DEF Owned
<1>17. QED
  BY <1>19, <1>13, <1>14, <1>15, <1>16 DEF Merging, Going, Owned, e

(* What a heap is where one is: a copy takes its place.                     *)
NestedHeap(h, g, l, k, q) == g = [Over(Copied(h, h[l][k].loc), h) EXCEPT ![l] = With(@, k, Ref("result", q))]

(* An entry whose mapping is there already: it is copied, and nothing of    *)
(* the document changes.                                                    *)
LEMMA NestMerges ==
  ASSUME NEW h, NEW calls, NEW own, NEW b, NEW patch, Going(h, calls, own, b, patch), NEW k, NEW q, Takes(patch, calls, k, q),
         NEW n, CallsOK(n, patch), Handled(n, patch) = Handled(calls, patch) \cup {q},
         patch[q].kind = "map", q \in MapPaths(Merged(calls, b, patch)),
         NEW g, NestedHeap(h, g, calls[1].target, k, q)
  PROVE  Merging(g, n, b, patch)
<1> DEFINE t == calls[1].patch[2]
           m == Merged(calls, b, patch)
           S == Handled(calls, patch)
           l == <<"result", t>>
           c == Copied(h, h[l][k].loc)
           all == own \cup Near(m, q)
<1>1. /\ IsDocument(b) /\ IsDocument(patch) /\ CallsOK(calls, patch)
      /\ Holds(h, patch, {}, "patch") /\ Closed(PathsOf(h)) /\ Holds(h, m, own, "base")
      /\ \A p \in MapPaths(m) : Len(p) <= MaxDepth + 1 => p \in own
  BY DEF Going, Owned
<1>2. calls # <<>> /\ k \in calls[1].left /\ q = Append(t, k)
  BY DEF Takes
<1>3. /\ calls[1].target = l /\ t \in Paths /\ t \in MapPaths(m) /\ t \in own /\ Len(t) + 1 = Len(calls)
      /\ h[l] = Node(m, own, "base", t) /\ l \in DOMAIN h
  <2>1. AtTop(h, calls, own, b, patch, t)
    BY <1>2, TopFacts
  <2>2. QED
    BY <2>1 DEF AtTop
<1>4. /\ k \in Key /\ q \in DOMAIN patch /\ q \notin S /\ Above(q) \subseteq S /\ q # <<>> /\ q \in Paths /\ Len(q) = Len(calls)
      /\ Above(q) = Above(t) \cup ({t} \ {<<>>})
  BY EntryTaken
<1>5. IsDocument(m) /\ S \subseteq DOMAIN patch /\ \A p \in S : Above(p) \subseteq S
  BY <1>1, MergedDocument
<1>6. q \in DOMAIN m /\ m[q].kind = "map" /\ Len(t) \in Nat
  BY <1>3, <1>4 DEF MapPaths, Paths
<1>7. Merged(n, b, patch) = m
  <2>1. IsNext(b, patch, S, q)
    BY <1>1, <1>4, <1>5 DEF IsNext
  <2>2. m = RFC7386(b, Some(patch, S)) /\ Merged(n, b, patch) = RFC7386(b, Some(patch, S \cup {q}))
    BY DEF Merged
  <2> HIDE DEF m, S
  <2>3. QED
    BY <1>6, <2>1, <2>2, OneMore
<1>8. g = [Over(c, h) EXCEPT ![l] = With(@, k, Ref("result", q))]
  BY <1>3 DEF NestedHeap
<1> HIDE DEF t, m, S
<1>9. h[l][k].loc = Loc(own, "base", q)
  <2>1. k \in DOMAIN Node(m, own, "base", t)
    BY <1>2, <1>3, <1>4, <1>5, <1>6, NodeFacts
  <2>2. Node(m, own, "base", t)[k] = [kind |-> "map", loc |-> Loc(own, "base", q)]
    BY <1>2, <1>3, <1>5, <1>6, <2>1, NodeFacts
  <2>3. QED
    BY <1>3, <2>2
<1>10. /\ DOMAIN c = {<<"result", p>> : p \in Near(m, q)}
       /\ \A p \in Near(m, q) : c[<<"result", p>>] = Node(m, all, "base", p)
  <2>1. q \in MapPaths(m)
    BY DEF m
  <2>2. c = Copied(h, Loc(own, "base", q))
    BY <1>9
  <2>3. IsDocument(m) /\ Holds(h, m, own, "base") /\ Closed(PathsOf(h))
    BY <1>1, <1>5
  <2>4. CopyOf(Copied(h, Loc(own, "base", q)), m, own, "base", q)
    BY <2>1, <2>3, CopiedHolds
  <2> HIDE DEF c
  <2>5. CopyOf(c, m, own, "base", q)
    BY <2>2, <2>4
  <2>6. QED
    BY <2>5 DEF CopyOf
<1> HIDE DEF c
<1>11. t # q /\ t \notin Near(m, q)
  <2>1. Len(t) < Len(q)
    BY <1>3, <1>4, <1>6
  <2>2. t # q
    BY <2>1
  <2>3. Under(q, t) => Len(t) > Len(q)
    BY <1>3, <1>4, <2>2, UnderLonger
  <2>4. QED
    BY <1>3, <1>4, <1>6, <2>2, <2>3 DEF Near
<1>12. l \notin DOMAIN c
  BY <1>10, <1>11
<1>13. /\ DOMAIN g = DOMAIN c \cup DOMAIN h
       /\ \A i \in DOMAIN c : g[i] = c[i]
       /\ \A i \in DOMAIN h \ DOMAIN c : i # l => g[i] = h[i]
       /\ g[l] = With(h[l], k, Ref("result", q))
  <2> DEFINE x == With(Over(c, h)[l], k, Ref("result", q))
  <2>1. g = [Over(c, h) EXCEPT ![l] = x]
    BY <1>8
  <2>2. /\ DOMAIN Over(c, h) = DOMAIN c \cup DOMAIN h
        /\ \A i \in DOMAIN c : Over(c, h)[i] = c[i]
        /\ \A i \in DOMAIN h \ DOMAIN c : Over(c, h)[i] = h[i]
    BY DEF Over
  <2>3. x = With(h[l], k, Ref("result", q))
    BY <1>3, <1>12, <2>2
  <2> HIDE DEF x, l
  <2> DEFINE f == Over(c, h)
  <2>4. g = [f EXCEPT ![l] = x]
    BY <2>1
  <2> HIDE DEF f
  <2>5. DOMAIN g = DOMAIN f /\ g[l] = x /\ \A i \in DOMAIN f : i # l => g[i] = f[i]
    <3>1. l \in DOMAIN f
      BY <1>3, <2>2 DEF f
    <3>2. QED
      BY <2>4, <3>1
  <2>6. QED
    BY <1>12, <2>2, <2>3, <2>5 DEF f
<1>14. PutCopy(h, m, own, "base", q, g, l)
  <2>1. DOMAIN h \subseteq DOMAIN g
    BY <1>13
  <2>2. \A p \in Near(m, q) : <<"result", p>> \in DOMAIN g /\ g[<<"result", p>>] = Node(m, all, "base", p)
    BY <1>10, <1>13
  <2>3. ASSUME NEW p \in MapPaths(m) \ Near(m, q), Loc(own, "base", p) # l PROVE g[Loc(own, "base", p)] = h[Loc(own, "base", p)]
    <3>1. Loc(own, "base", p) \in DOMAIN h
      BY <1>1 DEF Holds
    <3>2. Loc(own, "base", p) \notin DOMAIN c
      BY <1>10, <2>3 DEF Loc
    <3>3. QED
      BY <1>13, <2>3, <3>1, <3>2
  <2>4. ASSUME NEW p \in MapPaths(m) \ Near(m, q), Loc(own, "base", p) = l PROVE g[l] = Node(m, all, "base", p)
    <3>1. p = t
      BY <2>4 DEF Loc
    <3> DEFINE o == Node(m, own, "base", t)
               w == Node(m, all, "base", t)
    <3>2. DOMAIN o = KeysAt(m, t) /\ DOMAIN w = KeysAt(m, t) /\ w = [j \in KeysAt(m, t) |-> w[j]]
      BY DEF Node
    <3>3. k \in KeysAt(m, t)
      BY <1>2, <1>3, <1>4, <1>5, <1>6, DocumentPaths
    <3>4. ASSUME NEW j \in KeysAt(m, t), j # k PROVE o[j] = w[j]
      <4>1. j \in Key
        BY <1>3, <1>5, DocumentPaths
      <4>2. Append(t, j) \in Paths /\ Last(Append(t, j)) = j /\ Last(q) = k /\ Len(Append(t, j)) = Len(q)
        BY <1>2, <1>3, <1>4, <4>1, PathExtended
      <4>3. Append(t, j) # q
        BY <3>4, <4>2
      <4>4. Append(t, j) \notin Near(m, q)
        <5>1. Under(q, Append(t, j)) => Len(Append(t, j)) > Len(q)
          BY <1>4, <4>2, <4>3, UnderLonger
        <5>2. Len(q) \in Nat
          BY <1>4 DEF Paths
        <5>3. QED
          BY <4>2, <5>1, <5>2 DEF Near
      <4>5. Loc(all, "base", Append(t, j)) = Loc(own, "base", Append(t, j))
        BY <4>4 DEF Loc
      <4>6. QED
        BY <4>5 DEF Node
    <3>5. w[k] = Ref("result", q)
      <4>1. q \in Near(m, q)
        <5>1. q \in MapPaths(m) /\ Under(q, q)
          BY DEF m, Under
        <5>2. Len(q) - Len(q) <= MaxDepth + 1
          BY <1>4, DepthAssumption DEF Paths
        <5>3. QED
          BY <5>1, <5>2 DEF Near
      <4>2. Loc(all, "base", q) = <<"result", q>>
        BY <4>1 DEF Loc
      <4>3. w[k] = [kind |-> "map", loc |-> Loc(all, "base", q)]
        BY <1>2, <1>6, <3>3 DEF Node
      <4>4. QED
        BY <4>2, <4>3 DEF Ref
    <3> HIDE DEF o, w
    <3>6. g[l] = With(o, k, Ref("result", q))
      BY <1>3, <1>13 DEF o
    <3>7. With(o, k, Ref("result", q)) = [j \in KeysAt(m, t) |-> IF j = k THEN Ref("result", q) ELSE o[j]]
      <4>1. DOMAIN o \cup {k} = KeysAt(m, t)
        BY <3>2, <3>3
      <4>2. QED
        BY <4>1 DEF With
    <3>8. \A j \in KeysAt(m, t) : (IF j = k THEN Ref("result", q) ELSE o[j]) = w[j]
      BY <3>4, <3>5
    <3>9. g[l] = w
      BY <3>2, <3>6, <3>7, <3>8
    <3>10. QED
      BY <3>1, <3>9 DEF w
  <2>5. ASSUME NEW p \in MapPaths(m), NEW j \in KeysAt(m, p), Append(p, j) \in Near(m, q)
        PROVE  p \in Near(m, q) \/ Append(p, j) \in own \/ Loc(own, "base", p) = l
    <3>1. p \in Paths /\ j \in Key
      BY <1>5, DocumentPaths
    <3>2. Append(p, j) \in Paths /\ Append(p, j) # <<>> /\ Front(Append(p, j)) = p /\ Len(Append(p, j)) = Len(p) + 1
      BY <3>1, PathExtended
    <3>3. CASE Append(p, j) = q
      <4>1. p = t
        <5>1. Front(q) = t
          BY <1>2, <1>3, <1>4, PathExtended
        <5>2. QED
          BY <3>2, <3>3, <5>1
      <4>2. QED
        BY <1>3, <4>1 DEF Loc
    <3>4. CASE Append(p, j) # q
      <4>1. Under(q, p)
        <5>1. Under(q, Append(p, j))
          BY <2>5 DEF Near
        <5>2. Under(q, Append(p, j)) <=> Under(q, Front(Append(p, j)))
          BY <1>4, <3>2, <3>4, UnderSplit
        <5>3. QED
          BY <3>2, <5>1, <5>2
      <4>2. Len(p) - Len(q) <= MaxDepth + 1
        <5>1. Len(Append(p, j)) - Len(q) <= MaxDepth + 1
          BY <2>5 DEF Near
        <5>2. Len(p) \in Nat /\ Len(q) \in Nat
          BY <1>4, <3>1 DEF Paths
        <5>3. QED
          BY <3>2, <5>1, <5>2, DepthAssumption
      <4>3. QED
        BY <4>1, <4>2 DEF Near
    <3>5. QED
      BY <3>3, <3>4
  <2> HIDE DEF all, l
  <2>6. QED
    BY <2>1, <2>2, <2>3, <2>4, <2>5 DEF PutCopy, all
<1>15. Holds(g, m, all, "base")
  BY <1>1, <1>14, CopyHolds
<1>16. Holds(g, patch, {}, "patch")
  <2>1. \A p : Loc({}, "patch", p) = <<"patch", p>>
    BY DEF Loc
  <2>2. \A p : <<"patch", p>> # l /\ <<"patch", p>> \notin DOMAIN c
    BY <1>10
  <2>3. \A p \in MapPaths(patch) : <<"patch", p>> \in DOMAIN h /\ h[<<"patch", p>>] = Node(patch, {}, "patch", p)
    BY <1>1, <2>1 DEF Holds
  <2> HIDE DEF l
  <2>4. \A p \in MapPaths(patch) : <<"patch", p>> \in DOMAIN g /\ g[<<"patch", p>>] = Node(patch, {}, "patch", p)
    BY <1>13, <2>2, <2>3
  <2>5. QED
    BY <2>1, <2>4 DEF Holds
<1>17. Closed(PathsOf(g))
  <2>1. MapPaths(m) \subseteq PathsOf(h)
    BY <1>1, MapsOnHeap
  <2>2. \A i \in DOMAIN c : i[2] \in PathsOf(h)
    BY <1>10, <2>1 DEF Near
  <2>3. PathsOf(g) = PathsOf(h)
    <3>1. DOMAIN g = DOMAIN c \cup DOMAIN h
      BY <1>13
    <3>2. QED
      BY <2>2, <3>1 DEF PathsOf
  <2>4. QED
    BY <1>1, <2>3
<1>18. \A p \in MapPaths(m) : Len(p) <= MaxDepth + 1 => p \in all
  BY <1>1
<1>19. QED
  BY <1>1, <1>7, <1>15, <1>16, <1>17, <1>18 DEF Merging, Going, Owned

------------------------------------------------------------------------------
(* The steps of the merge, and its start.                                   *)
BaseOf(h) == [l \in {i \in DOMAIN h : i[1] = "base"} |-> h[l]]

(* A heap with the same mappings of the base.                               *)
LEMMA BaseKept ==
  ASSUME NEW h, NEW g, DOMAIN h \subseteq DOMAIN g, \A i \in DOMAIN g : i[1] = "base" => i \in DOMAIN h /\ g[i] = h[i]
  PROVE  BaseOf(g) = BaseOf(h)
<1>1. {i \in DOMAIN g : i[1] = "base"} = {i \in DOMAIN h : i[1] = "base"}
  OBVIOUS
<1> DEFINE B == {i \in DOMAIN h : i[1] = "base"}
<1>2. \A i \in B : g[i] = h[i]
  OBVIOUS
<1>3. BaseOf(g) = [l \in B |-> g[l]] /\ BaseOf(h) = [l \in B |-> h[l]]
  BY <1>1 DEF BaseOf
<1> HIDE DEF B
<1>4. QED
  BY <1>2, <1>3

IsOver(f, x, y) == f = Over(x, y)
Overlaid(f, x, y) ==
  /\ DOMAIN f = DOMAIN x \cup DOMAIN y
  /\ \A i \in DOMAIN x : f[i] = x[i]
  /\ \A i \in DOMAIN y : i \notin DOMAIN x => f[i] = y[i]

(* What lies over another covers it.                                        *)
LEMMA OverFacts ==
  ASSUME NEW x, NEW y, NEW f, IsOver(f, x, y)
  PROVE  Overlaid(f, x, y)
BY DEF IsOver, Over, Overlaid

IsStored(K, b) == K = Stored("base", b)
Started(K, patch, h, calls) ==
  /\ IsOver(h, Copied(K, Base), Over(Stored("patch", patch), K))
  /\ calls = <<Call(Result, Patch, Stored("patch", patch))>>

(* A patch that is applied is merged, nothing of it so far; the base stays. *)
LEMMA StartMerges ==
  ASSUME NEW b, NEW patch, IsDocument(b), IsDocument(patch), NEW K, IsStored(K, b),
         NEW h, NEW calls, Started(K, patch, h, calls)
  PROVE  Merging(h, calls, b, patch) /\ BaseOf(h) = K
<1> DEFINE c == Copied(K, Base)
           s == Stored("patch", patch)
<1>1. /\ DOMAIN K = {<<"base", p>> : p \in MapPaths(b)} /\ DOMAIN s = {<<"patch", p>> : p \in MapPaths(patch)}
      /\ K = [l \in DOMAIN K |-> K[l]]
  BY DEF Stored, IsStored
<1>2. <<>> \in MapPaths(b) /\ <<>> \in MapPaths(patch) /\ <<>> \in Paths
  BY DEF MapPaths, Paths
<1>3. CallsOK(calls, patch) /\ Handled(calls, patch) = {}
  <2>1. s[<<"patch", <<>>>>] = [k \in KeysAt(patch, <<>>) |->
                               LET leaf == patch[Append(<<>>, k)] IN IF leaf.kind = "map" THEN Ref("patch", Append(<<>>, k)) ELSE leaf]
    BY <1>1, <1>2 DEF Stored
  <2>2. DOMAIN s[Patch] = KeysAt(patch, <<>>)
    BY <2>1 DEF Patch
  <2> HIDE DEF s
  <2>3. calls = <<[target |-> Result, patch |-> Patch, left |-> KeysAt(patch, <<>>)]>>
    BY <2>2 DEF Call, s, Started
  <2>4. QED
    BY <2>3, CallsStart
<1>4. Merged(calls, b, patch) = b
  <2> DEFINE m == RFC7386(b, Some(patch, {}))
  <2>1. /\ \A p : p \in DOMAIN m <=> \/ p \in {} /\ patch[p].kind # "nil"
                                     \/ p \in DOMAIN b \ {} /\ \A a \in Above(p) : a \in {} => patch[a].kind = "map"
        /\ \A p \in DOMAIN m : m[p] = IF p \in {} THEN patch[p] ELSE b[p]
        /\ m = [p \in DOMAIN m |-> m[p]]
    BY MergedSome
  <2>2. b = [p \in DOMAIN b |-> b[p]]
    BY DEF IsDocument
  <2> HIDE DEF m
  <2>3. DOMAIN m = DOMAIN b /\ \A p \in DOMAIN b : m[p] = b[p]
    BY <2>1
  <2>4. m = b
    BY <2>1, <2>2, <2>3
  <2>5. QED
    BY <1>3, <2>4 DEF Merged, m
<1>5. Closed(PathsOf(K)) /\ PathsOf(K) = MapPaths(b)
  <2>1. PathsOf(K) = MapPaths(b)
    <3>1. ASSUME NEW p PROVE p \in PathsOf(K) <=> p \in MapPaths(b)
      <4>1. p \in PathsOf(K) <=> \E i \in DOMAIN K : i[2] = p
        BY DEF PathsOf
      <4>2. (\E i \in DOMAIN K : i[2] = p) <=> p \in MapPaths(b)
        <5>1. ASSUME NEW i \in DOMAIN K PROVE i[2] \in MapPaths(b)
          BY <1>1
        <5>2. ASSUME p \in MapPaths(b) PROVE <<"base", p>> \in DOMAIN K /\ <<"base", p>>[2] = p
          BY <1>1, <5>2
        <5>3. QED
          BY <5>1, <5>2
      <4>3. QED
        BY <4>1, <4>2
    <3>2. QED
      BY <3>1
  <2>2. QED
    BY <2>1, DocumentPaths DEF Closed
<1>6. Holds(K, b, {}, "base")
  <2>1. \A p \in MapPaths(b) : <<"base", p>> \in DOMAIN K /\ K[<<"base", p>>] = Stored("base", b)[<<"base", p>>]
    BY <1>1 DEF IsStored
  <2>2. QED
    BY <2>1, HoldsStored
<1> DEFINE own == Near(b, <<>>)
<1>7. CopyOf(c, b, {}, "base", <<>>)
  <2>1. Loc({}, "base", <<>>) = Base
    BY DEF Loc, Base
  <2>2. CopyOf(Copied(K, Loc({}, "base", <<>>)), b, {}, "base", <<>>)
    BY <1>2, <1>5, <1>6, CopiedHolds
  <2>3. QED
    BY <2>1, <2>2
<1>8. /\ DOMAIN c = {<<"result", p>> : p \in own}
      /\ \A p \in own : c[<<"result", p>>] = Node(b, {} \cup own, "base", p)
  BY <1>7 DEF CopyOf
<1> HIDE DEF c, s
<1>9. IsOver(h, c, Over(s, K))
  BY DEF c, s, Started
<1>10. \A p, r : <<"result", p>> # <<"base", r>> /\ <<"result", p>> # <<"patch", r>> /\ <<"patch", p>> # <<"base", r>>
  OBVIOUS
<1>11. /\ DOMAIN h = DOMAIN c \cup (DOMAIN s \cup DOMAIN K)
       /\ \A i \in DOMAIN c : h[i] = c[i]
       /\ \A i \in DOMAIN s : h[i] = s[i]
       /\ \A i \in DOMAIN K : h[i] = K[i]
  <2>1. \A i \in DOMAIN s : i \notin DOMAIN c
    BY <1>1, <1>8, <1>10
  <2>2. \A i \in DOMAIN K : i \notin DOMAIN c /\ i \notin DOMAIN s
    BY <1>1, <1>8, <1>10
  <2>3. PICK f : f = Over(s, K)
    OBVIOUS
  <2>8. IsOver(f, s, K)
    BY <2>3 DEF IsOver
  <2>4. IsOver(h, c, f)
    BY <1>9, <2>3
  <2>5. Overlaid(f, s, K)
    BY <2>8, OverFacts
  <2>6. Overlaid(h, c, f)
    BY <2>4, OverFacts
  <2>7. QED
    BY <2>1, <2>2, <2>5, <2>6 DEF Overlaid
<1>12. PutCopy(K, b, {}, "base", <<>>, h, <<>>)
  <2>1. DOMAIN K \subseteq DOMAIN h
    BY <1>11
  <2>2. \A p \in own : <<"result", p>> \in DOMAIN h /\ h[<<"result", p>>] = Node(b, {} \cup own, "base", p)
    BY <1>8, <1>11
  <2>3. \A p \in MapPaths(b) : Loc({}, "base", p) = <<"base", p>> /\ Loc({}, "base", p) # <<>> /\ Loc({}, "base", p) \in DOMAIN K
    BY <1>1 DEF Loc
  <2>4. \A p \in MapPaths(b) : h[Loc({}, "base", p)] = K[Loc({}, "base", p)]
    BY <1>11, <2>3
  <2>5. ASSUME NEW p \in MapPaths(b), NEW k \in KeysAt(b, p), Append(p, k) \in own PROVE p \in own
    <3>1. p \in Paths /\ k \in Key
      BY <2>5, DocumentPaths
    <3>2. Len(Append(p, k)) = Len(p) + 1 /\ Len(p) \in Nat
      BY <3>1, PathExtended DEF Paths
    <3>3. Len(Append(p, k)) - Len(<<>>) <= MaxDepth + 1
      BY <2>5 DEF Near
    <3>4. Len(<<>>) = 0 /\ Under(<<>>, p)
      BY DEF Under
    <3>5. Len(p) - Len(<<>>) <= MaxDepth + 1
      BY <3>2, <3>3, <3>4, DepthAssumption
    <3>6. QED
      BY <3>4, <3>5 DEF Near
  <2> HIDE DEF own
  <2>6. QED
    BY <2>1, <2>2, <2>3, <2>4, <2>5 DEF PutCopy, own
<1>13. Holds(h, b, own, "base")
  <2>1. {} \cup own = own
    OBVIOUS
  <2>2. Holds(h, b, {} \cup own, "base")
    BY <1>6, <1>12, CopyHolds
  <2>3. QED
    BY <2>1, <2>2
<1>14. ASSUME NEW p \in MapPaths(b), Len(p) <= MaxDepth + 1 PROVE p \in own
  <2>1. p \in Paths /\ Len(p) \in Nat /\ Len(<<>>) = 0 /\ Under(<<>>, p)
    BY DocumentPaths DEF Paths, Under
  <2>2. Len(p) - Len(<<>>) <= MaxDepth + 1
    BY <1>14, <2>1, DepthAssumption
  <2>3. QED
    BY <2>1, <2>2 DEF Near
<1>15. Holds(h, patch, {}, "patch")
  <2>1. \A p \in MapPaths(patch) : <<"patch", p>> \in DOMAIN h /\ h[<<"patch", p>>] = s[<<"patch", p>>]
    BY <1>1, <1>11
  <2>2. QED
    BY <2>1, HoldsStored DEF s
<1>16. Closed(PathsOf(h))
  <2>1. ASSUME NEW i \in DOMAIN h PROVE i[2] \in MapPaths(b) \cup MapPaths(patch)
    BY <1>1, <1>8, <1>11 DEF Near
  <2>2. ASSUME NEW p \in MapPaths(b) \cup MapPaths(patch) PROVE \E i \in DOMAIN h : i[2] = p
    <3>1. CASE p \in MapPaths(b)
      <4>1. <<"base", p>> \in DOMAIN h /\ <<"base", p>>[2] = p
        BY <1>1, <1>11, <3>1
      <4>2. QED
        BY <4>1
    <3>2. CASE p \in MapPaths(patch)
      <4>1. <<"patch", p>> \in DOMAIN h /\ <<"patch", p>>[2] = p
        BY <1>1, <1>11, <3>2
      <4>2. QED
        BY <4>1
    <3>3. QED
      BY <3>1, <3>2
  <2>3. PathsOf(h) = MapPaths(b) \cup MapPaths(patch)
    BY <2>1, <2>2 DEF PathsOf
  <2>4. \A p \in MapPaths(b) : p \in Paths /\ (p # <<>> => Front(p) \in MapPaths(b))
    BY DocumentPaths
  <2>5. \A p \in MapPaths(patch) : p \in Paths /\ (p # <<>> => Front(p) \in MapPaths(patch))
    BY DocumentPaths
  <2>6. QED
    BY <2>3, <2>4, <2>5 DEF Closed
<1>17. BaseOf(h) = K
  <2>1. ASSUME NEW i \in DOMAIN h, i[1] = "base" PROVE i \in DOMAIN K /\ h[i] = K[i]
    BY <1>1, <1>8, <1>11, <2>1
  <2>2. BaseOf(h) = BaseOf(K)
    BY <1>11, <2>1, BaseKept
  <2>3. {i \in DOMAIN K : i[1] = "base"} = DOMAIN K
    BY <1>1
  <2>4. QED
    BY <1>1, <2>2, <2>3 DEF BaseOf
<1> HIDE DEF own
<1>18. QED
  BY <1>3, <1>4, <1>13, <1>14, <1>15, <1>16, <1>17 DEF Merging, Going, Owned

(* A sequence with one element more in front.                               *)
LEMMA OnFront ==
  ASSUME NEW S, NEW x \in S, NEW s \in Seq(S), NEW n, n = <<x>> \o s
  PROVE  n \in Seq(S) /\ Len(n) = Len(s) + 1 /\ n[1] = x /\ \A i \in 1..Len(s) : n[i + 1] = s[i]
<1>1. <<x>> \in Seq(S) /\ Len(<<x>>) = 1 /\ <<x>>[1] = x
  OBVIOUS
<1>2. n \in Seq(S) /\ Len(n) = Len(<<x>>) + Len(s)
  BY <1>1, ConcatProperties
<1>3. Len(s) \in Nat
  OBVIOUS
<1>4. \A i \in 1..(Len(<<x>>) + Len(s)) : n[i] = IF i <= Len(<<x>>) THEN <<x>>[i] ELSE s[i - Len(<<x>>)]
  BY <1>1, ConcatProperties
<1>5. QED
  BY <1>1, <1>2, <1>3, <1>4

------------------------------------------------------------------------------
(* One key of the mapping the call on top merges, in the heap as it is.     *)
Entry(own, b, patch, k, q) ==
  LET t == frames[1].patch[2] IN
  /\ Going(heap, frames, own, b, patch) /\ Takes(patch, frames, k, q)
  /\ t \in Paths /\ t # q /\ q \in Paths /\ q # <<>>
  /\ Top = frames[1] /\ frames[1].target = <<"result", t>> /\ Place(k) = <<"result", q>> /\ <<"result", t>> \in DOMAIN heap
  /\ patch[q].kind # "map" => Given(k) = patch[q]
  /\ patch[q].kind = "map" => Given(k) = [kind |-> "map", loc |-> <<"patch", q>>] /\ DOMAIN heap[<<"patch", q>>] = KeysAt(patch, q)
  /\ Given(k).kind = patch[q].kind
  /\ Less(frames, k, Rest(k))

(* What a key of the call on top stands for.                                *)
LEMMA EntryGiven ==
  ASSUME NEW b, NEW patch, NEW own, Going(heap, frames, own, b, patch), frames # <<>>, NEW k \in Top.left
  PROVE  Entry(own, b, patch, k, Append(frames[1].patch[2], k))
<1> DEFINE t == frames[1].patch[2]
           q == Append(t, k)
<1>1. IsDocument(patch) /\ CallsOK(frames, patch) /\ Holds(heap, patch, {}, "patch")
  BY DEF Going
<1>2. /\ Len(frames) \in Nat /\ Len(frames) > 0
      /\ \A i \in 1..Len(frames) : frames[i] \in Frame
      /\ Top = frames[1]
  BY <1>1, CallFacts DEF Top
<1>3. Takes(patch, frames, k, q)
  BY <1>1, <1>2 DEF Takes
<1> HIDE DEF q
<1>4. AtTop(heap, frames, own, b, patch, t)
  BY TopFacts
<1>5. q \in DOMAIN patch /\ k \in Key /\ q \in Paths /\ q # <<>>
  BY <1>3, EntryTaken
<1>6. Place(k) = <<"result", q>>
  BY <1>2 DEF Place, q
<1>7. t # q
  BY <1>4, <1>5, PathExtended DEF AtTop, q
<1>8. t \in MapPaths(patch) /\ Given(k) = Node(patch, {}, "patch", t)[k]
  BY <1>2, <1>4 DEF AtTop, Given
<1>9. /\ k \in DOMAIN Node(patch, {}, "patch", t)
      /\ Node(patch, {}, "patch", t)[k].kind = "map" <=> patch[q].kind = "map"
      /\ patch[q].kind = "map" => Node(patch, {}, "patch", t)[k] = [kind |-> "map", loc |-> Loc({}, "patch", q)] /\ q \in MapPaths(patch)
      /\ patch[q].kind # "map" => Node(patch, {}, "patch", t)[k] = patch[q]
  <2>1. k \in DOMAIN Node(patch, {}, "patch", t)
    BY <1>1, <1>5, <1>8, NodeFacts DEF q
  <2>2. QED
    BY <1>1, <1>8, <2>1, NodeFacts DEF q
<1>10. Loc({}, "patch", q) = <<"patch", q>>
  BY DEF Loc
<1>11. q \in MapPaths(patch) => DOMAIN heap[<<"patch", q>>] = KeysAt(patch, q)
  BY <1>1, <1>10 DEF Holds, Node
<1>12. Less(frames, k, Rest(k))
  <2> DEFINE first == [frames[1] EXCEPT !.left = @ \ {k}]
  <2>1. frames \in Seq(Frame) /\ frames # <<>>
    BY <1>1 DEF CallsOK
  <2>2. Tail(frames) \in Seq(Frame) /\ Len(Tail(frames)) = Len(frames) - 1 /\ \A i \in 1..Len(Tail(frames)) : Tail(frames)[i] = frames[i + 1]
    BY <2>1, <1>2
  <2>3. first \in Frame
    <3> DEFINE T == {"result"} \X Seq(Key)
               P == {"patch"} \X Seq(Key)
    <3>1. frames[1] \in [target : T, patch : P, left : SUBSET Key]
      BY <1>2 DEF Frame
    <3> HIDE DEF T, P
    <3>2. first \in [target : T, patch : P, left : SUBSET Key]
      BY <3>1
    <3>3. QED
      BY <3>2 DEF Frame, T, P
  <2>4. Rest(k) = <<first>> \o Tail(frames)
    BY <1>2 DEF Rest
  <2> HIDE DEF first
  <2>5. /\ Rest(k) \in Seq(Frame) /\ Len(Rest(k)) = Len(Tail(frames)) + 1 /\ Rest(k)[1] = first
        /\ \A i \in 1..Len(Tail(frames)) : Rest(k)[i + 1] = Tail(frames)[i]
    BY <2>2, <2>3, <2>4, OnFront
  <2>6. \A i \in 2..Len(frames) : Rest(k)[i] = frames[i]
    <3>1. SUFFICES ASSUME NEW i \in 2..Len(frames) PROVE Rest(k)[i] = frames[i]
      OBVIOUS
    <3>2. i - 1 \in 1..Len(Tail(frames)) /\ (i - 1) + 1 = i
      BY <1>2, <2>2, <3>1
    <3>3. QED
      BY <2>2, <2>5, <3>2
  <2>7. QED
    BY <1>2, <2>2, <2>5, <2>6 DEF Less, first
<1>13. QED
  BY <1>2, <1>3, <1>4, <1>5, <1>6, <1>7, <1>8, <1>9, <1>10, <1>11, <1>12 DEF Entry, AtTop, q

Went(b, patch) == Merging(heap', frames', b, patch) /\ BaseOf(heap') = BaseOf(heap)

(* A key that is deleted or replaced.                                       *)
LEMMA LeafMerges ==
  ASSUME NEW b, NEW patch, NEW own, NEW k, NEW q, Entry(own, b, patch, k, q), DeleteKey(k) \/ ReplaceKey(k)
  PROVE  Went(b, patch)
<1> DEFINE l == frames[1].target
<1>1. /\ Going(heap, frames, own, b, patch) /\ Takes(patch, frames, k, q) /\ Less(frames, k, Rest(k))
      /\ Top.target = l /\ l \in DOMAIN heap /\ l[1] = "result" /\ l # <<"result", q>> /\ Given(k).kind = patch[q].kind
      /\ patch[q].kind # "map" => Given(k) = patch[q]
  BY DEF Entry
<1>2. frames' = Rest(k) /\ patch[q].kind # "map"
  BY <1>1 DEF DeleteKey, ReplaceKey
<1>3. CallsOK(frames', patch) /\ Handled(frames', patch) = Handled(frames, patch) \cup {q}
  BY <1>1, <1>2, CallsStay
<1>4. /\ DOMAIN heap' = DOMAIN heap /\ \A i \in DOMAIN heap : i # l => heap'[i] = heap[i]
      /\ heap'[l] = IF patch[q].kind = "nil" THEN Without(heap[l], k) ELSE With(heap[l], k, patch[q])
  <2>1. CASE DeleteKey(k)
    <3>1. heap' = [heap EXCEPT ![l] = Without(heap[l], k)] /\ patch[q].kind = "nil"
      BY <1>1, <2>1 DEF DeleteKey
    <3> HIDE DEF l
    <3>2. QED
      BY <1>1, <3>1
  <2>2. CASE ReplaceKey(k)
    <3>1. heap' = [heap EXCEPT ![l] = With(heap[l], k, patch[q])] /\ patch[q].kind # "nil"
      BY <1>1, <1>2, <2>2 DEF ReplaceKey
    <3> HIDE DEF l
    <3>2. QED
      BY <1>1, <3>1
  <2>3. QED
    BY <2>1, <2>2
<1>5. EditedHeap(heap, heap', patch, l, k, q)
  BY <1>2, <1>4 DEF EditedHeap
<1>6. Merging(heap', frames', b, patch)
  BY <1>1, <1>2, <1>3, <1>5, EditMerges
<1>7. BaseOf(heap') = BaseOf(heap)
  <2>1. \A i \in DOMAIN heap' : i[1] = "base" => i \in DOMAIN heap /\ heap'[i] = heap[i]
    BY <1>1, <1>4
  <2>2. QED
    BY <1>4, <2>1, BaseKept
<1>8. QED
  BY <1>6, <1>7 DEF Went

(* The calls where a mapping is merged: its own is on top, but at the bound.*)
LEMMA MappingCalls ==
  ASSUME NEW b, NEW patch, NEW own, NEW k, NEW q, Entry(own, b, patch, k, q), MergeMapping(k)
  PROVE  patch[q].kind = "map" /\ CallsOK(frames', patch) /\ Handled(frames', patch) = Handled(frames, patch) \cup {q}
<1>1. /\ Going(heap, frames, own, b, patch) /\ Takes(patch, frames, k, q) /\ Less(frames, k, Rest(k))
      /\ Given(k).kind = patch[q].kind /\ Place(k) = <<"result", q>> /\ q \in Paths
      /\ patch[q].kind = "map" => Given(k) = [kind |-> "map", loc |-> <<"patch", q>>] /\ DOMAIN heap[<<"patch", q>>] = KeysAt(patch, q)
  BY DEF Entry
<1>2. patch[q].kind = "map"
  BY <1>1 DEF MergeMapping
<1>3. frames' = (IF Len(frames) > MaxDepth THEN <<>> ELSE <<Call(Place(k), Given(k).loc, heap)>>) \o Rest(k)
  BY DEF MergeMapping
<1>4. Rest(k) \in Seq(Frame) /\ Len(Rest(k)) = Len(frames)
  BY <1>1 DEF Less
<1>5. CASE Len(frames) > MaxDepth
  <2>1. frames' = <<>> \o Rest(k)
    BY <1>3, <1>5
  <2>2. frames' = Rest(k)
    BY <1>4, <2>1
  <2>3. QED
    BY <1>1, <1>2, <1>5, <2>2, CallsStay
<1>6. CASE ~(Len(frames) > MaxDepth)
  <2> DEFINE c == [target |-> <<"result", q>>, patch |-> <<"patch", q>>, left |-> KeysAt(patch, q)]
  <2>1. Call(Place(k), Given(k).loc, heap) = c
    BY <1>1, <1>2 DEF Call
  <2>2. frames' = <<c>> \o Rest(k)
    BY <1>3, <1>6, <2>1
  <2>3. c \in Frame
    <3>1. KeysAt(patch, q) \subseteq Key
      BY <1>1, DocumentPaths DEF Going
    <3>2. QED
      BY <1>1, <3>1 DEF Frame, Paths
  <2> HIDE DEF c
  <2>4. /\ frames' \in Seq(Frame) /\ Len(frames') = Len(Rest(k)) + 1 /\ frames'[1] = c
        /\ \A i \in 1..Len(Rest(k)) : frames'[i + 1] = Rest(k)[i]
    BY <1>4, <2>2, <2>3, OnFront
  <2>5. Deeper(q, patch, Rest(k), frames')
    BY <2>4 DEF Deeper, c
  <2>6. Len(frames) <= MaxDepth
    <3>1. Len(frames) \in Nat
      BY <1>1 DEF Going, CallsOK
    <3>2. QED
      BY <1>6, <3>1, DepthAssumption
  <2>7. QED
    BY <1>1, <1>2, <2>5, <2>6, CallsDescend
<1>7. QED
  BY <1>2, <1>5, <1>6

(* A copy is the result's.                                                  *)
LEMMA CopiedOwner ==
  ASSUME NEW h, NEW x, NEW i \in DOMAIN Copied(h, x)
  PROVE  i[1] = "result"
<1> DEFINE mine == {p \in Reached(h, x) : Len(p) - Len(x[2]) <= MaxDepth + 1}
<1>1. DOMAIN Copied(h, x) = {<<"result", p>> : p \in mine}
  BY DEF Copied
<1> HIDE DEF mine
<1>2. QED
  BY <1>1

(* A key that is a mapping.                                                 *)
LEMMA MappingMerges ==
  ASSUME NEW b, NEW patch, NEW own, NEW k, NEW q, Entry(own, b, patch, k, q), MergeMapping(k)
  PROVE  Went(b, patch)
<1> DEFINE l == frames[1].target
           t == frames[1].patch[2]
           m == Merged(frames, b, patch)
           there == k \in DOMAIN heap[l] /\ heap[l][k].kind = "map"
<1>1. /\ Going(heap, frames, own, b, patch) /\ Takes(patch, frames, k, q) /\ Top = frames[1]
      /\ l = <<"result", t>> /\ l \in DOMAIN heap /\ l # <<"result", q>> /\ Place(k) = <<"result", q>>
  BY DEF Entry
<1>2. patch[q].kind = "map" /\ CallsOK(frames', patch) /\ Handled(frames', patch) = Handled(frames, patch) \cup {q}
  BY MappingCalls
<1>3. there <=> q \in MapPaths(m)
  <2>1. AtTop(heap, frames, own, b, patch, t) /\ k \in Key /\ q # <<>> /\ q = Append(t, k)
    BY <1>1, TopFacts, EntryTaken DEF Takes
  <2>2. t \in MapPaths(m) /\ heap[l] = Node(m, own, "base", t)
    BY <1>1, <2>1 DEF AtTop
  <2>3. IsDocument(m)
    BY <1>1, MergedDocument DEF Going
  <2> HIDE DEF m, l, t
  <2>4. /\ k \in DOMAIN heap[l] <=> q \in DOMAIN m
        /\ k \in DOMAIN heap[l] => (heap[l][k].kind = "map" <=> m[q].kind = "map")
    BY <2>1, <2>2, <2>3, NodeFacts
  <2>5. QED
    BY <2>1, <2>4 DEF MapPaths
<1> DEFINE copied == Over(Existing(k), heap)
<1>4. heap' = [copied EXCEPT ![l] = With(copied[l], k, Ref("result", q))]
  BY <1>1 DEF MergeMapping
<1>5. CASE there
  <2>1. Existing(k) = Copied(heap, heap[l][k].loc)
    BY <1>1, <1>5 DEF Existing
  <2>2. NestedHeap(heap, heap', l, k, q)
    BY <1>4, <2>1 DEF NestedHeap
  <2>3. Merging(heap', frames', b, patch)
    BY <1>1, <1>2, <1>3, <1>5, <2>2, NestMerges
  <2>4. \A i \in DOMAIN Existing(k) : i[1] = "result"
    BY <2>1, CopiedOwner
  <2>5. Overlaid(copied, Existing(k), heap)
    BY OverFacts DEF IsOver
  <2> HIDE DEF copied, l
  <2>6. DOMAIN heap' = DOMAIN copied /\ \A i \in DOMAIN heap' : i # l => heap'[i] = copied[i]
    BY <1>4
  <2>7. \A i \in DOMAIN heap' : i[1] = "base" => i \in DOMAIN heap /\ heap'[i] = heap[i]
    BY <1>1, <2>4, <2>5, <2>6 DEF Overlaid
  <2>8. BaseOf(heap') = BaseOf(heap)
    BY <2>5, <2>6, <2>7, BaseKept DEF Overlaid
  <2>9. QED
    BY <2>3, <2>8 DEF Went
<1>6. CASE ~there
  <2>1. Existing(k) = [i \in {<<"result", q>>} |-> Empty]
    BY <1>1, <1>6 DEF Existing
  <2>2. Overlaid(copied, Existing(k), heap)
    BY OverFacts DEF IsOver
  <2>3. /\ DOMAIN copied = DOMAIN heap \cup {<<"result", q>>} /\ copied[<<"result", q>>] = Empty
        /\ \A i \in DOMAIN heap : i # <<"result", q>> => copied[i] = heap[i]
    BY <2>1, <2>2 DEF Overlaid
  <2> HIDE DEF copied, l
  <2>4. /\ DOMAIN heap' = DOMAIN heap \cup {<<"result", q>>} /\ heap'[<<"result", q>>] = Empty
        /\ \A i \in DOMAIN heap : i \notin {l, <<"result", q>>} => heap'[i] = heap[i]
        /\ heap'[l] = With(heap[l], k, Ref("result", q))
    BY <1>1, <1>4, <2>3
  <2>5. EditedHeap(heap, heap', patch, l, k, q)
    BY <1>2, <2>4 DEF EditedHeap
  <2>6. ~(q \in DOMAIN m /\ m[q].kind = "map")
    BY <1>3, <1>6 DEF MapPaths
  <2>7. Merging(heap', frames', b, patch)
    BY <1>1, <1>2, <2>5, <2>6, EditMerges DEF l
  <2>8. \A i \in DOMAIN heap' : i[1] = "base" => i \in DOMAIN heap /\ heap'[i] = heap[i]
    BY <1>1, <2>4
  <2>9. BaseOf(heap') = BaseOf(heap)
    BY <2>4, <2>8, BaseKept
  <2>10. QED
    BY <2>7, <2>9 DEF Went
<1>7. QED
  BY <1>5, <1>6

(* A step of the merge.                                                     *)
LEMMA MergeGoesOn ==
  ASSUME NEW b, NEW patch, Merging(heap, frames, b, patch), MergeStep
  PROVE  Merging(heap', frames', b, patch) /\ BaseOf(heap') = BaseOf(heap)
<1>1. PICK own : Going(heap, frames, own, b, patch)
  BY DEF Merging
<1>2. CASE \E k \in Top.left : DeleteKey(k) \/ MergeMapping(k) \/ ReplaceKey(k)
  <2>1. PICK k \in Top.left : DeleteKey(k) \/ MergeMapping(k) \/ ReplaceKey(k)
    BY <1>2
  <2>2. Entry(own, b, patch, k, Append(frames[1].patch[2], k))
    BY <1>1, EntryGiven DEF MergeStep
  <2>3. Went(b, patch)
    BY <2>1, <2>2, LeafMerges, MappingMerges
  <2>4. QED
    BY <2>3 DEF Went
<1>3. CASE ReturnMerge
  <2>1. /\ IsDocument(b) /\ IsDocument(patch) /\ CallsOK(frames, patch)
        /\ Holds(heap, patch, {}, "patch") /\ Closed(PathsOf(heap)) /\ Owned(heap, own, Merged(frames, b, patch))
    BY <1>1 DEF Going
  <2>2. frames # <<>> /\ frames' = Tail(frames) /\ heap' = heap
    BY <1>3 DEF ReturnMerge, MergeStep
  <2>3. frames[1].left = {}
    BY <1>3, <2>1, <2>2, CallFacts DEF ReturnMerge, Top
  <2>4. CallsOK(Tail(frames), patch) /\ Handled(Tail(frames), patch) = Handled(frames, patch)
    BY <2>1, <2>2, <2>3, CallsReturn
  <2>5. Merged(frames', b, patch) = Merged(frames, b, patch)
    BY <2>2, <2>4 DEF Merged
  <2>6. Going(heap', frames', own, b, patch)
    BY <2>1, <2>2, <2>4, <2>5 DEF Going
  <2>7. QED
    BY <2>2, <2>6 DEF Merging
<1>4. QED
  BY <1>2, <1>3 DEF MergeStep

------------------------------------------------------------------------------
(* The invariant of the merges: an example's input stays where it was put,  *)
(* and while a patch is merged the merge is under way as it should be.      *)
AtVariant ==
  Current # Other /\ variant \in 1..Len(Current.variants) /\ BaseOf(heap) = Stored("base", InputOf(Current))
MergeInv ==
  /\ flow \in Flows
  /\ phase \in {"schema", "set"} => example = 1
  /\ phase \in {"example", "variant", "merge", "scan"} => example \in 1..Len(flow.examples)
  /\ phase \in {"variant", "merge"} => AtVariant
  /\ phase = "merge" => Scenario # Other /\ Merging(heap, frames, InputOf(Current), Scenario.patch)

(* The base is what the heap has of it.                                     *)
LEMMA KeptIsBase == Kept = BaseOf(heap)
BY DEF Kept, BaseOf

(* What is stored as the base is the base.                                  *)
LEMMA StoredIsBase == \A b : BaseOf(Stored("base", b)) = Stored("base", b)
<1> TAKE b
<1> DEFINE s == Stored("base", b)
<1>1. s = [l \in DOMAIN s |-> s[l]] /\ DOMAIN s = {<<"base", p>> : p \in MapPaths(b)}
  BY DEF Stored
<1> HIDE DEF s
<1>2. {l \in DOMAIN s : l[1] = "base"} = DOMAIN s
  BY <1>1
<1>3. BaseOf(s) = s
  BY <1>1, <1>2 DEF BaseOf
<1>4. QED
  BY <1>3 DEF s

(* The example and the scenario the walk is at are of the flow.             *)
LEMMA HereFacts ==
  ASSUME flow \in Flows, example \in 1..Len(flow.examples), Current # Other
  PROVE  /\ Len(flow.examples) \in Nat /\ IsDocument(InputOf(Current)) /\ Len(Current.variants) \in Nat
         /\ Current.variants # <<>> => Len(Current.variants) > 0
         /\ variant \in 1..Len(Current.variants) /\ Scenario # Other => IsDocument(Scenario.patch)
<1>1. /\ Len(flow.examples) \in Nat
      /\ Current.variants \in Seq(Range(Current.variants)) /\ IsDocument(InputOf(Current))
      /\ \A j \in 1..Len(Current.variants) : Current.variants[j] # Other => IsDocument(Current.variants[j].patch)
  BY DocumentsAssumption DEF Current
<1> DEFINE S == Range(Current.variants)
<1>2. Current.variants \in Seq(S)
  BY <1>1
<1> HIDE DEF S
<1>3. Len(Current.variants) \in Nat /\ (Current.variants # <<>> => Len(Current.variants) > 0)
  BY <1>2
<1>4. QED
  BY <1>1, <1>3 DEF Scenario

(* What a step leaves of where the walk is.                                 *)
LEMMA SamePlace ==
  ASSUME UNCHANGED <<flow, example>>
  PROVE  /\ Current' = Current
         /\ AtVariant' <=> /\ Current # Other /\ variant' \in 1..Len(Current.variants)
                           /\ BaseOf(heap') = Stored("base", InputOf(Current))
         /\ variant' = variant => Scenario' = Scenario
BY DEF Current, AtVariant, Scenario, BaseOf, Stored, InputOf

(* A step to the next scenario, or past the last.                           *)
LEMMA NextVariantStep ==
  ASSUME MergeInv, phase \in {"variant", "merge"}, NextVariant, UNCHANGED <<flow, example>>, heap' = heap
  PROVE  MergeInv'
<1>1. flow \in Flows /\ example \in 1..Len(flow.examples) /\ AtVariant
  BY DEF MergeInv
<1>2. Len(Current.variants) \in Nat
  BY <1>1, HereFacts DEF AtVariant
<1>3. CASE variant < Len(Current.variants)
  <2>1. variant' = variant + 1 /\ phase' = "variant"
    BY <1>3 DEF NextVariant
  <2>2. variant' \in 1..Len(Current.variants)
    BY <1>1, <1>2, <1>3, <2>1 DEF AtVariant
  <2>3. AtVariant'
    BY <1>1, <2>2, SamePlace DEF AtVariant
  <2>4. QED
    BY <1>1, <2>1, <2>3 DEF MergeInv
<1>4. CASE ~(variant < Len(Current.variants))
  <2>1. phase' = "scan"
    BY <1>4 DEF NextVariant
  <2>2. QED
    BY <1>1, <2>1 DEF MergeInv
<1>5. QED
  BY <1>3, <1>4

(* A patch that is applied starts a merge.                                  *)
LEMMA ApplyStarts ==
  ASSUME flow \in Flows, example \in 1..Len(flow.examples), AtVariant, Scenario # Other, Apply(Scenario.patch)
  PROVE  /\ Merging(heap', frames', InputOf(Current), Scenario.patch)
         /\ BaseOf(heap') = Stored("base", InputOf(Current))
<1>1. IsDocument(InputOf(Current)) /\ IsDocument(Scenario.patch)
  BY HereFacts DEF AtVariant
<1>2. IsStored(Kept, InputOf(Current))
  BY KeptIsBase DEF AtVariant, IsStored
<1>3. Started(Kept, Scenario.patch, heap', frames')
  BY DEF Apply, Started, IsOver
<1>4. Merging(heap', frames', InputOf(Current), Scenario.patch) /\ BaseOf(heap') = Kept
  BY <1>1, <1>2, <1>3, StartMerges
<1>5. QED
  BY <1>2, <1>4 DEF IsStored

(* A merge that is under way after a step that stays where it is.           *)
LEMMA MergingAlso ==
  ASSUME Current' = Current, Scenario' = Scenario, Merging(heap', frames', InputOf(Current), Scenario.patch)
  PROVE  Merging(heap, frames, InputOf(Current), Scenario.patch)'
<1>1. InputOf(Current)' = InputOf(Current)
  BY DEF InputOf
<1>2. (Scenario.patch)' = Scenario.patch
  OBVIOUS
<1>3. QED
  BY <1>1, <1>2

(* Judging a scenario.                                                      *)
LEMMA VariantStep ==
  ASSUME MergeInv, JudgeVariant
  PROVE  MergeInv'
<1>1. flow \in Flows /\ example \in 1..Len(flow.examples) /\ AtVariant /\ phase = "variant"
  BY DEF MergeInv, JudgeVariant
<1>2. UNCHANGED <<flow, example>>
  BY DEF JudgeVariant
<1>3. CASE NextVariant /\ UNCHANGED mergeVars
  BY <1>1, <1>2, <1>3, NextVariantStep DEF mergeVars
<1>4. CASE Scenario # Other /\ Apply(Scenario.patch) /\ phase' = "merge" /\ UNCHANGED variant
  <2>1. /\ Merging(heap', frames', InputOf(Current), Scenario.patch)
        /\ BaseOf(heap') = Stored("base", InputOf(Current))
    BY <1>1, <1>4, ApplyStarts
  <2>2. Current' = Current /\ Scenario' = Scenario
    BY <1>2, <1>4, SamePlace
  <2>3. AtVariant'
    BY <1>1, <1>2, <1>4, <2>1, SamePlace DEF AtVariant
  <2>4. Merging(heap, frames, InputOf(Current), Scenario.patch)'
    BY <2>1, <2>2, MergingAlso
  <2>5. QED
    BY <1>1, <1>2, <1>4, <2>2, <2>3, <2>4 DEF MergeInv
<1>5. QED
  BY <1>3, <1>4 DEF JudgeVariant

(* A step of the merge.                                                     *)
LEMMA MergeKeeps ==
  ASSUME MergeInv, Merge
  PROVE  MergeInv'
<1>1. /\ flow \in Flows /\ example \in 1..Len(flow.examples) /\ AtVariant /\ phase = "merge"
      /\ Scenario # Other /\ Merging(heap, frames, InputOf(Current), Scenario.patch)
  BY DEF MergeInv, Merge
<1>2. UNCHANGED <<flow, phase, example, variant>> /\ MergeStep
  BY DEF Merge, schemaVars, exampleVars
<1>3. Merging(heap', frames', InputOf(Current), Scenario.patch) /\ BaseOf(heap') = BaseOf(heap)
  BY <1>1, <1>2, MergeGoesOn
<1>4. Current' = Current /\ Scenario' = Scenario
  BY <1>2, SamePlace
<1>5. AtVariant'
  BY <1>1, <1>2, <1>3, SamePlace DEF AtVariant
<1>6. Merging(heap, frames, InputOf(Current), Scenario.patch)'
  BY <1>3, <1>4, MergingAlso
<1>7. QED
  BY <1>1, <1>2, <1>4, <1>5, <1>6 DEF MergeInv

(* A step that moves on to the next example, or ends.                       *)
LEMMA NextExampleStep ==
  ASSUME flow \in Flows, example \in 1..Len(flow.examples), flow' = flow,
         \/ example < Len(flow.examples) /\ example' = example + 1 /\ phase' = "example"
         \/ phase' = "done"
  PROVE  MergeInv'
<1>1. Len(flow.examples) \in Nat
  BY DocumentsAssumption
<1>2. CASE example < Len(flow.examples) /\ example' = example + 1 /\ phase' = "example"
  BY <1>1, <1>2 DEF MergeInv
<1>3. CASE phase' = "done"
  BY <1>3 DEF MergeInv
<1>4. QED
  BY <1>2, <1>3

(* Judging an example.                                                      *)
LEMMA ExampleStep ==
  ASSUME MergeInv, JudgeExample
  PROVE  MergeInv'
<1>1. /\ flow \in Flows /\ example \in 1..Len(flow.examples) /\ Current # Other
      /\ UNCHANGED <<flow, example>> /\ heap' = Stored("base", InputOf(Current)) /\ variant' = 1
      /\ phase' = IF Current.variants = <<>> THEN "scan" ELSE "variant"
  BY DEF MergeInv, JudgeExample
<1>2. CASE Current.variants = <<>>
  BY <1>1, <1>2 DEF MergeInv
<1>3. CASE Current.variants # <<>>
  <2>1. Len(Current.variants) \in Nat /\ Len(Current.variants) > 0
    BY <1>1, <1>3, HereFacts
  <2>2. BaseOf(heap') = Stored("base", InputOf(Current))
    BY <1>1, StoredIsBase
  <2>3. AtVariant'
    BY <1>1, <2>1, <2>2, SamePlace
  <2>4. QED
    BY <1>1, <1>3, <2>3 DEF MergeInv
<1>4. QED
  BY <1>2, <1>3

(* Where nothing of the merge changes, nor where the walk is.               *)
LEMMA MergeStays ==
  ASSUME MergeInv, UNCHANGED <<flow, phase, example, variant, heap, frames>>
  PROVE  MergeInv'
<1>1. Current' = Current /\ Scenario' = Scenario
  BY SamePlace
<1>2. phase \in {"variant", "merge"} => AtVariant'
  BY SamePlace DEF MergeInv, AtVariant
<1>3. phase = "merge" => Scenario # Other /\ Merging(heap, frames, InputOf(Current), Scenario.patch)'
  BY <1>1, MergingAlso DEF MergeInv
<1>4. QED
  BY <1>1, <1>2, <1>3 DEF MergeInv

(* The schemas and the block as a whole come before any example.            *)
LEMMA EarlierSteps ==
  ASSUME MergeInv, JudgeSchemas \/ JudgeSet
  PROVE  MergeInv'
<1>1. CASE JudgeSchemas
  <2>1. phase = "schema" /\ phase' \in {"schema", "set"} /\ UNCHANGED <<flow, example>>
    BY <1>1 DEF JudgeSchemas, SchemaStep, OpenSchema, JudgeField, ResolveConditions, JudgeReserved, Leave, exampleVars
  <2>2. QED
    BY <2>1 DEF MergeInv
<1>2. CASE JudgeSet
  <2>1. /\ phase = "set" /\ UNCHANGED <<flow, example>>
        /\ phase' = IF Len(flow.examples) = 0 THEN "done" ELSE "example"
    BY <1>2 DEF JudgeSet, exampleVars
  <2>2. Len(flow.examples) \in Nat
    BY DocumentsAssumption DEF MergeInv
  <2>3. QED
    BY <2>1, <2>2 DEF MergeInv
<1>3. QED
  BY <1>1, <1>2

(* The invariant of the merges.                                             *)
THEOREM MergesAreGoing == Spec => []MergeInv
<1>1. Init => MergeInv
  BY DEF Init, SchemaInit, MergeInv
<1>2. MergeInv /\ [Next]_vars => MergeInv'
  <2> SUFFICES ASSUME MergeInv, [Next]_vars PROVE MergeInv'
    OBVIOUS
  <2>1. CASE JudgeSchemas \/ JudgeSet
    BY <2>1, EarlierSteps
  <2>2. CASE SkipExample
    BY <2>2, NextExampleStep DEF SkipExample, MergeInv
  <2>3. CASE JudgeExample
    BY <2>3, ExampleStep
  <2>4. CASE JudgeVariant
    BY <2>4, VariantStep
  <2>5. CASE Merge
    BY <2>5, MergeKeeps
  <2>6. CASE JudgePatched
    <3>1. phase = "merge" /\ NextVariant /\ UNCHANGED <<flow, example, heap>>
      BY <2>6 DEF JudgePatched, mergeVars
    <3>2. QED
      BY <3>1, NextVariantStep
  <2>7. CASE ScanExample
    BY <2>7, NextExampleStep DEF ScanExample, MergeInv
  <2>8. CASE UNCHANGED vars
    BY <2>8, MergeStays DEF vars, schemaVars, mergeVars, exampleVars
  <2>9. QED
    BY <2>1, <2>2, <2>3, <2>4, <2>5, <2>6, <2>7, <2>8 DEF Next
<1>3. QED
  BY <1>1, <1>2, PTL DEF Spec

(* Where all calls have returned, the heap reads as RFC 7386 has it.        *)
LEMMA MergeEnds ==
  ASSUME NEW b, NEW patch, Merging(heap, frames, b, patch), frames = <<>>, BaseOf(heap) = Stored("base", b)
  PROVE  /\ Read(heap, Result) = RFC7386(b, Within(patch))
         /\ Read(heap, Base) = b /\ Read(heap, Patch) = patch
         /\ \A p \in Reached(heap, Result) : Len(p) <= MaxDepth + 1 => From(heap, Result)[p] = <<"result", p>>
<1> DEFINE m == Merged(frames, b, patch)
<1>1. PICK own : Going(heap, frames, own, b, patch)
  BY DEF Merging
<1>2. /\ IsDocument(b) /\ IsDocument(patch) /\ CallsOK(frames, patch)
      /\ Holds(heap, patch, {}, "patch") /\ Closed(PathsOf(heap)) /\ Holds(heap, m, own, "base")
      /\ \A p \in MapPaths(m) : Len(p) <= MaxDepth + 1 => p \in own
  BY <1>1 DEF Going, Owned
<1>3. IsDocument(m)
  BY <1>2, MergedDocument
<1>4. m = RFC7386(b, Within(patch))
  BY CallsDone DEF Merged
<1>5. <<>> \in MapPaths(m) /\ <<>> \in own
  <2>1. <<>> \in MapPaths(m) /\ Len(<<>>) = 0
    BY DEF MapPaths
  <2>2. 0 <= MaxDepth + 1
    BY DepthAssumption
  <2>3. QED
    BY <1>2, <2>1, <2>2
<1> HIDE DEF m
<1>6. Loc(own, "base", <<>>) = Result /\ Loc({}, "base", <<>>) = Base /\ Loc({}, "patch", <<>>) = Patch
  BY <1>5 DEF Loc, Result, Base, Patch
<1>7. Read(heap, Result) = m
  BY <1>2, <1>3, <1>6, ReadHolds
<1>8. Read(heap, Patch) = patch
  BY <1>2, <1>6, ReadHolds
<1>9. Read(heap, Base) = b
  <2>1. \A p \in MapPaths(b) : <<"base", p>> \in DOMAIN heap /\ heap[<<"base", p>>] = Stored("base", b)[<<"base", p>>]
    <3>1. SUFFICES ASSUME NEW p \in MapPaths(b)
                   PROVE  <<"base", p>> \in DOMAIN heap /\ heap[<<"base", p>>] = Stored("base", b)[<<"base", p>>]
      OBVIOUS
    <3>2. <<"base", p>> \in DOMAIN Stored("base", b)
      BY <3>1 DEF Stored
    <3>3. <<"base", p>> \in DOMAIN BaseOf(heap) /\ BaseOf(heap)[<<"base", p>>] = Stored("base", b)[<<"base", p>>]
      BY <3>2
    <3>4. QED
      BY <3>3 DEF BaseOf
  <2>2. Holds(heap, b, {}, "base")
    BY <1>2, <2>1, HoldsStored
  <2>3. QED
    BY <1>2, <1>6, <2>2, ReadHolds
<1>10. ASSUME NEW p \in Reached(heap, Result), Len(p) <= MaxDepth + 1
       PROVE  From(heap, Result)[p] = <<"result", p>>
  <2>1. /\ Reached(heap, Result) = {r \in MapPaths(m) : Under(<<>>, r)}
        /\ \A r \in Reached(heap, Result) : From(heap, Result)[r] = Loc(own, "base", r)
    BY <1>2, <1>3, <1>5, <1>6, ReachedHolds
  <2>2. p \in own
    BY <1>2, <1>10, <2>1
  <2>3. QED
    BY <1>10, <2>1, <2>2 DEF Loc
<1>11. QED
  BY <1>4, <1>7, <1>8, <1>9, <1>10

(* Every scenario is judged on what RFC 7386 makes of the input and the     *)
(* patch, whatever the order of the keys.                                   *)
THEOREM PatchAlwaysMerged == Spec => []PatchIsMergePatch
<1>1. MergeInv => PatchIsMergePatch
  <2> SUFFICES ASSUME MergeInv, phase = "merge", frames = <<>>
               PROVE  /\ Read(heap, Result) = RFC7386(InputOf(Current), Within(Scenario.patch))
                      /\ Read(heap, Base) = InputOf(Current) /\ Read(heap, Patch) = Scenario.patch
                      /\ \A p \in Reached(heap, Result) : Len(p) <= MaxDepth + 1 => From(heap, Result)[p] = <<"result", p>>
    BY DEF PatchIsMergePatch
  <2>1. Merging(heap, frames, InputOf(Current), Scenario.patch) /\ BaseOf(heap) = Stored("base", InputOf(Current))
    BY DEF MergeInv, AtVariant
  <2>2. QED
    BY <2>1, MergeEnds
<1>2. QED
  BY <1>1, MergesAreGoing, PTL

------------------------------------------------------------------------------
(* Places.                                                                  *)
IsPlace(t) == \E S : t \in Seq(S)
Begins(t, s) == IsPlace(s) /\ IsPlace(t) /\ Len(s) <= Len(t) /\ \A i \in 1..Len(s) : t[i] = s[i]

(* The length of a place.                                                   *)
LEMMA PlaceLength == \A t : IsPlace(t) => Len(t) \in Nat
BY DEF IsPlace

(* A place with one key more.                                               *)
LEMMA PlaceAppend ==
  ASSUME NEW s, IsPlace(s), NEW x
  PROVE  /\ IsPlace(Append(s, x)) /\ Len(Append(s, x)) = Len(s) + 1 /\ Append(s, x)[Len(s) + 1] = x
         /\ Begins(Append(s, x), s)
<1>1. PICK S : s \in Seq(S)
  BY DEF IsPlace
<1> DEFINE T == S \cup {x}
<1>2. s \in Seq(T) /\ x \in T
  BY <1>1, SeqMonotonic
<1> HIDE DEF T
<1>3. /\ Append(s, x) \in Seq(T) /\ Len(Append(s, x)) = Len(s) + 1 /\ Append(s, x)[Len(s) + 1] = x
      /\ \A i \in 1..Len(s) : Append(s, x)[i] = s[i]
  BY <1>2, AppendProperties
<1>4. Len(s) \in Nat
  BY <1>2
<1>5. QED
  BY <1>2, <1>3, <1>4 DEF IsPlace, Begins

(* A place with several keys more.                                          *)
LEMMA PlaceConcat ==
  ASSUME NEW s, IsPlace(s), NEW u, IsPlace(u)
  PROVE  /\ IsPlace(s \o u) /\ Len(s \o u) = Len(s) + Len(u) /\ \A i \in 1..Len(u) : (s \o u)[Len(s) + i] = u[i]
         /\ Begins(s \o u, s)
<1>1. PICK S, T : s \in Seq(S) /\ u \in Seq(T)
  BY DEF IsPlace
<1> DEFINE U == S \cup T
<1>2. s \in Seq(U) /\ u \in Seq(U)
  BY <1>1, SeqMonotonic
<1> HIDE DEF U
<1>3. /\ s \o u \in Seq(U) /\ Len(s \o u) = Len(s) + Len(u)
      /\ \A i \in 1..(Len(s) + Len(u)) : (s \o u)[i] = IF i <= Len(s) THEN s[i] ELSE u[i - Len(s)]
  BY <1>2, ConcatProperties
<1>4. Len(s) \in Nat /\ Len(u) \in Nat
  BY <1>2
<1>5. \A i \in 1..Len(s) : (s \o u)[i] = s[i]
  BY <1>3, <1>4
<1>6. \A i \in 1..Len(u) : (s \o u)[Len(s) + i] = u[i]
  <2>1. SUFFICES ASSUME NEW i \in 1..Len(u) PROVE (s \o u)[Len(s) + i] = u[i]
    OBVIOUS
  <2>2. Len(s) + i \in 1..(Len(s) + Len(u)) /\ ~(Len(s) + i <= Len(s)) /\ (Len(s) + i) - Len(s) = i
    BY <1>4
  <2>3. QED
    BY <1>3, <2>2
<1>7. QED
  BY <1>2, <1>3, <1>4, <1>5, <1>6 DEF IsPlace, Begins

(* What stands under a place stands under what that place is under.         *)
LEMMA BeginsTwice ==
  ASSUME NEW s, NEW t, NEW u, Begins(t, s), Begins(u, t)
  PROVE  Begins(u, s)
<1>1. Len(s) \in Nat /\ Len(t) \in Nat /\ Len(u) \in Nat
  BY PlaceLength DEF Begins
<1>2. QED
  BY <1>1 DEF Begins

(* Short places.                                                            *)
LEMMA ShortPlaces ==
  ASSUME NEW a, NEW b, NEW c
  PROVE  /\ IsPlace(<<a>>) /\ Len(<<a>>) = 1 /\ <<a>>[1] = a
         /\ IsPlace(<<a, b>>) /\ Len(<<a, b>>) = 2 /\ <<a, b>>[1] = a /\ <<a, b>>[2] = b
         /\ IsPlace(<<a, b, c>>) /\ Len(<<a, b, c>>) = 3 /\ <<a, b, c>>[1] = a /\ <<a, b, c>>[3] = c
<1>1. <<a>> \in Seq({a}) /\ Len(<<a>>) = 1 /\ <<a>>[1] = a
  OBVIOUS
<1>2. <<a, b>> \in Seq({a, b}) /\ Len(<<a, b>>) = 2 /\ <<a, b>>[1] = a /\ <<a, b>>[2] = b
  OBVIOUS
<1>3. <<a, b, c>> \in Seq({a, b, c}) /\ Len(<<a, b, c>>) = 3 /\ <<a, b, c>>[1] = a /\ <<a, b, c>>[3] = c
  OBVIOUS
<1>4. QED
  BY <1>1, <1>2, <1>3 DEF IsPlace

(* A place stands under another when that one is a prefix of it.            *)
LEMMA PrefixBegins ==
  ASSUME NEW s, NEW t, IsPlace(s), IsPlace(t)
  PROVE  IsPrefix(s, t) <=> Begins(t, s)
<1>1. PICK S, T : s \in Seq(S) /\ t \in Seq(T)
  BY DEF IsPlace
<1> DEFINE U == S \cup T
<1>2. s \in Seq(U) /\ t \in Seq(U)
  BY <1>1, SeqMonotonic
<1> HIDE DEF U
<1>3. Len(s) \in Nat /\ Len(t) \in Nat
  BY <1>2
<1>4. CASE Len(s) <= Len(t)
  <2> DEFINE x == SubSeq(s, 1, Len(s))
             y == SubSeq(t, 1, Len(s))
  <2>1. x \in Seq(U) /\ Len(x) = Len(s) /\ \A i \in 1..Len(s) : x[i] = s[i]
    BY <1>2, <1>3
  <2>2. y \in Seq(U) /\ Len(y) = Len(s) /\ \A i \in 1..Len(s) : y[i] = t[i]
    <3>1. \A i \in 1..Len(s) : i \in 1..Len(t) /\ t[i] \in U
      BY <1>2, <1>3, <1>4, ElementOfSeq
    <3>2. QED
      BY <1>2, <1>3, <1>4, <3>1
  <2> HIDE DEF x, y
  <2>3. x = y <=> \A i \in 1..Len(s) : x[i] = y[i]
    BY <1>3, <2>1, <2>2, SeqEqual
  <2>4. x = y <=> \A i \in 1..Len(s) : t[i] = s[i]
    BY <2>1, <2>2, <2>3
  <2>5. QED
    BY <1>4, <2>4 DEF IsPrefix, Begins, x, y
<1>5. CASE ~(Len(s) <= Len(t))
  BY <1>5 DEF IsPrefix, Begins
<1>6. QED
  BY <1>4, <1>5

(* A place with two keys more, written at once or one by one.               *)
LEMMA SamePlaceText ==
  ASSUME NEW s, IsPlace(s), NEW a, NEW b
  PROVE  s \o <<a, b>> = Append(Append(s, a), b)
<1>1. PICK S : s \in Seq(S)
  BY DEF IsPlace
<1> DEFINE U == S \cup {a, b}
<1>2. s \in Seq(U) /\ <<a, b>> \in Seq(U) /\ a \in U /\ b \in U
  BY <1>1, SeqMonotonic
<1> HIDE DEF U
<1>3. s \o <<a, b>> \in Seq(U) /\ Append(Append(s, a), b) \in Seq(U) /\ Len(s) \in Nat
  BY <1>2, ConcatProperties, AppendProperties
<1>4. Len(s \o <<a, b>>) = Len(s) + 2 /\ Len(Append(Append(s, a), b)) = Len(s) + 2
  BY <1>2
<1>5. ASSUME NEW i \in 1..(Len(s) + 2) PROVE (s \o <<a, b>>)[i] = Append(Append(s, a), b)[i]
  BY <1>2, <1>3, <1>5
<1>6. QED
  BY <1>3, <1>4, <1>5, SeqEqual

(* Where an example, a scenario, an input and a patch stand.                *)
LEMMA ExamplePlace ==
  ASSUME NEW i
  PROVE  IsPlace(ExampleAt(i)) /\ Len(ExampleAt(i)) = 2 /\ ExampleAt(i)[1] = "examples" /\ ExampleAt(i)[2] = Index[i]
BY ShortPlaces DEF ExampleAt

(* Where a scenario stands.                                                 *)
LEMMA VariantPlace ==
  ASSUME NEW i, NEW j
  PROVE  /\ IsPlace(VariantAt(i, j)) /\ Len(VariantAt(i, j)) = 4 /\ VariantAt(i, j)[1] = "examples"
         /\ VariantAt(i, j)[2] = Index[i] /\ VariantAt(i, j)[3] = "variants" /\ VariantAt(i, j)[4] = Index[j]
<1> DEFINE s == ExampleAt(i)
           u == <<"variants", Index[j]>>
<1>1. IsPlace(s) /\ Len(s) = 2 /\ s[1] = "examples" /\ s[2] = Index[i]
  BY ExamplePlace
<1>2. IsPlace(u) /\ Len(u) = 2 /\ u[1] = "variants" /\ u[2] = Index[j]
  BY ShortPlaces
<1>3. VariantAt(i, j) = s \o u
  BY DEF VariantAt
<1> HIDE DEF s, u
<1>4. /\ IsPlace(s \o u) /\ Len(s \o u) = Len(s) + Len(u) /\ \A k \in 1..Len(u) : (s \o u)[Len(s) + k] = u[k]
      /\ Begins(s \o u, s)
  BY <1>1, <1>2, PlaceConcat
<1>5. (s \o u)[1] = s[1] /\ (s \o u)[2] = s[2] /\ (s \o u)[3] = u[1] /\ (s \o u)[4] = u[2]
  BY <1>1, <1>2, <1>4 DEF Begins
<1>6. QED
  BY <1>1, <1>2, <1>3, <1>4, <1>5

(* Where an input stands.                                                   *)
LEMMA InputPlace ==
  ASSUME NEW i
  PROVE  /\ IsPlace(InputAt(i)) /\ Len(InputAt(i)) = 3
         /\ InputAt(i)[1] = "examples" /\ InputAt(i)[2] = Index[i] /\ InputAt(i)[3] = "input"
<1>1. /\ Begins(InputAt(i), ExampleAt(i)) /\ IsPlace(InputAt(i)) /\ Len(InputAt(i)) = Len(ExampleAt(i)) + 1
      /\ InputAt(i)[Len(ExampleAt(i)) + 1] = "input"
  BY ExamplePlace, PlaceAppend DEF InputAt
<1>2. QED
  BY <1>1, ExamplePlace DEF Begins

(* Where a patch stands.                                                    *)
LEMMA PatchPlace ==
  ASSUME NEW s
  PROVE  /\ IsPlace(PatchAt(s)) /\ Len(PatchAt(s)) = 5
         /\ PatchAt(s)[1] = "examples" /\ PatchAt(s)[2] = Index[s[1]] /\ PatchAt(s)[3] = "variants"
         /\ PatchAt(s)[4] = Index[s[2]] /\ PatchAt(s)[5] = "input_patch"
<1> DEFINE v == VariantAt(s[1], s[2])
<1>1. /\ IsPlace(v) /\ Len(v) = 4 /\ v[1] = "examples" /\ v[2] = Index[s[1]] /\ v[3] = "variants" /\ v[4] = Index[s[2]]
  BY VariantPlace
<1>2. PatchAt(s) = Append(v, "input_patch")
  BY DEF PatchAt
<1> HIDE DEF v
<1> DEFINE p == Append(v, "input_patch")
<1>3. Begins(p, v) /\ IsPlace(p) /\ Len(p) = Len(v) + 1 /\ p[Len(v) + 1] = "input_patch"
  BY <1>1, PlaceAppend
<1> HIDE DEF p
<1>4. /\ IsPlace(p) /\ Len(p) = 5 /\ p[1] = "examples" /\ p[2] = Index[s[1]] /\ p[3] = "variants"
      /\ p[4] = Index[s[2]] /\ p[5] = "input_patch"
  BY <1>1, <1>3 DEF Begins
<1>5. QED
  BY <1>2, <1>4 DEF p

(* Inputs and patches stand apart.                                          *)
LEMMA InputsApart ==
  ASSUME NEW i \in DOMAIN Index, NEW k \in DOMAIN Index, NEW t, Begins(t, InputAt(i)), Begins(t, InputAt(k))
  PROVE  i = k
<1>1. t[2] = Index[i] /\ t[2] = Index[k]
  BY InputPlace DEF Begins
<1>2. QED
  BY <1>1, IndexAssumption

(* Nothing stands in two patches.                                           *)
LEMMA PatchesApart ==
  ASSUME NEW r, NEW s, r[1] \in DOMAIN Index, r[2] \in DOMAIN Index, s[1] \in DOMAIN Index, s[2] \in DOMAIN Index,
         NEW t, Begins(t, PatchAt(r)), Begins(t, PatchAt(s))
  PROVE  r[1] = s[1] /\ r[2] = s[2]
<1>1. t[2] = Index[r[1]] /\ t[2] = Index[s[1]] /\ t[4] = Index[r[2]] /\ t[4] = Index[s[2]]
  BY PatchPlace DEF Begins
<1>2. QED
  BY <1>1, IndexAssumption

(* Nothing stands in an input and in a patch.                               *)
LEMMA InputIsNoPatch ==
  ASSUME NEW i, NEW s, NEW t, Begins(t, InputAt(i)), Begins(t, PatchAt(s))
  PROVE  FALSE
<1>1. t[3] = "input"
  BY InputPlace DEF Begins
<1>2. t[3] = "variants"
  BY PatchPlace DEF Begins
<1>3. QED
  BY <1>1, <1>2

(* A place that is in no input and in no patch.                             *)
Off(t) ==
  /\ IsPlace(t)
  /\ \/ t[1] # "examples"
     \/ Len(t) < 3
     \/ t[3] \notin {"input", "variants"}
     \/ t[3] = "variants" /\ (Len(t) < 5 \/ t[5] # "input_patch")

(* What is off stands under no input and under no patch.                    *)
LEMMA OffApart ==
  ASSUME NEW t, Off(t)
  PROVE  (\A i : ~Begins(t, InputAt(i))) /\ \A s : ~Begins(t, PatchAt(s))
<1>1. Len(t) \in Nat
  BY PlaceLength DEF Off
<1>2. ASSUME NEW i, Begins(t, InputAt(i)) PROVE FALSE
  BY <1>1, <1>2, InputPlace DEF Begins, Off
<1>3. ASSUME NEW s, Begins(t, PatchAt(s)) PROVE FALSE
  BY <1>1, <1>3, PatchPlace DEF Begins, Off
<1>4. QED
  BY <1>2, <1>3

(* Of an example, what is not under its input and not under its scenarios.  *)
LEMMA OffExample ==
  ASSUME NEW i
  PROVE  /\ Off(ExampleAt(i)) /\ Off(Append(ExampleAt(i), "variants"))
         /\ \A k, t : k \notin {"input", "variants"} /\ Begins(t, Append(ExampleAt(i), k)) => Off(t)
<1> DEFINE e == ExampleAt(i)
<1>1. IsPlace(e) /\ Len(e) = 2
  BY ExamplePlace
<1> HIDE DEF e
<1>2. ASSUME NEW k PROVE IsPlace(Append(e, k)) /\ Len(Append(e, k)) = 3 /\ Append(e, k)[3] = k
  <2>1. IsPlace(Append(e, k)) /\ Len(Append(e, k)) = Len(e) + 1 /\ Append(e, k)[Len(e) + 1] = k
    BY <1>1, PlaceAppend
  <2>2. QED
    BY <1>1, <2>1
<1>3. Off(e)
  BY <1>1 DEF Off
<1>4. Off(Append(e, "variants"))
  BY <1>2 DEF Off
<1>5. ASSUME NEW k, NEW t, k \notin {"input", "variants"}, Begins(t, Append(e, k)) PROVE Off(t)
  <2>1. t[3] = k /\ IsPlace(t)
    BY <1>2, <1>5 DEF Begins
  <2>2. QED
    BY <1>5, <2>1 DEF Off
<1>6. QED
  BY <1>3, <1>4, <1>5 DEF e

(* A key of a scenario, but for its patch, is off.                          *)
LEMMA OffVariant ==
  ASSUME NEW i, NEW j
  PROVE  /\ Off(VariantAt(i, j))
         /\ \A k, t : k # "input_patch" /\ Begins(t, Append(VariantAt(i, j), k)) => Off(t)
<1> DEFINE v == VariantAt(i, j)
<1>1. IsPlace(v) /\ Len(v) = 4 /\ v[3] = "variants"
  BY VariantPlace
<1> HIDE DEF v
<1>2. ASSUME NEW k
      PROVE  IsPlace(Append(v, k)) /\ Len(Append(v, k)) = 5 /\ Append(v, k)[5] = k /\ Append(v, k)[3] = "variants"
  <2>1. /\ IsPlace(Append(v, k)) /\ Len(Append(v, k)) = Len(v) + 1 /\ Append(v, k)[Len(v) + 1] = k
        /\ Begins(Append(v, k), v)
    BY <1>1, PlaceAppend
  <2>2. QED
    BY <1>1, <2>1 DEF Begins
<1>3. Off(v)
  BY <1>1 DEF Off
<1>4. ASSUME NEW k, NEW t, k # "input_patch", Begins(t, Append(v, k)) PROVE Off(t)
  <2>1. t[5] = k /\ t[3] = "variants" /\ IsPlace(t)
    BY <1>2, <1>4 DEF Begins
  <2>2. QED
    BY <1>4, <2>1 DEF Off
<1>5. QED
  BY <1>3, <1>4 DEF v

(* Whatever does not start with the examples is off.                        *)
LEMMA OffElsewhere ==
  ASSUME NEW s, IsPlace(s), Len(s) >= 1, s[1] # "examples", NEW t, Begins(t, s)
  PROVE  Off(t)
<1>1. Len(s) \in Nat /\ IsPlace(t)
  BY PlaceLength DEF Begins
<1>2. t[1] = s[1]
  BY <1>1 DEF Begins
<1>3. QED
  BY <1>1, <1>2 DEF Off

------------------------------------------------------------------------------
(* Findings under a place, none of them of a secret.                        *)
Plain(codes) == "example_secret_value" \notin codes
Placed(found, at) == \A f \in found : Begins(f.at, at) /\ f.code # "example_secret_value"

(* A place stands under itself.                                             *)
LEMMA BeginsItself == \A at : IsPlace(at) => Begins(at, at)
BY PlaceLength DEF Begins

(* Findings are placed when each part of them is.                           *)
LEMMA PlacedParts ==
  /\ \A A, B, at : Placed(A, at) /\ Placed(B, at) => Placed(A \cup B, at)
  /\ \A at : Placed({}, at)
BY DEF Placed

(* What is placed under a place is placed under what that place is under.   *)
LEMMA PlacedFurther ==
  ASSUME NEW s, NEW t, Begins(t, s), NEW found, Placed(found, t)
  PROVE  Placed(found, s)
<1>1. \A f \in found : Begins(f.at, s)
  BY BeginsTwice DEF Placed
<1>2. QED
  BY <1>1 DEF Placed

(* Findings of plain codes are placed where they are made.                  *)
LEMMA FindingsPlaced ==
  ASSUME NEW at, IsPlace(at)
  PROVE  \A codes : Plain(codes) => /\ Placed(Findings(codes, at), at)
                                    /\ \A key : Placed(Findings(codes, Append(at, key)), at)
                                    /\ \A u : IsPlace(u) => Placed(Findings(codes, at \o u), at)
<1>1. Begins(at, at) /\ (\A key : Begins(Append(at, key), at)) /\ \A u : IsPlace(u) => Begins(at \o u, at)
  BY BeginsItself, PlaceAppend, PlaceConcat
<1>2. ASSUME NEW codes, Plain(codes), NEW t, Begins(t, at) PROVE Placed(Findings(codes, t), at)
  <2>1. SUFFICES ASSUME NEW c \in codes PROVE Begins(Finding(c, t, 0).at, at) /\ Finding(c, t, 0).code # "example_secret_value"
    BY DEF Placed, Findings
  <2>2. Finding(c, t, 0).at = t /\ Finding(c, t, 0).code = c
    BY DEF Finding
  <2>3. QED
    BY <1>2, <2>2 DEF Plain
<1>3. QED
  BY <1>1, <1>2

(* One finding of a plain code.                                             *)
LEMMA OnePlaced ==
  ASSUME NEW at, IsPlace(at), NEW code, code # "example_secret_value", NEW about
  PROVE  Placed({Finding(code, at, about)}, at) /\ \A key : Placed({Finding(code, Append(at, key), about)}, at)
<1>1. Begins(at, at) /\ \A key : Begins(Append(at, key), at)
  BY BeginsItself, PlaceAppend
<1>2. QED
  BY <1>1 DEF Placed, Finding

(* Codes are plain when each part of them is.                               *)
LEMMA PlainParts ==
  /\ \A A, B : Plain(A) /\ Plain(B) => Plain(A \cup B)
  /\ Plain({})
  /\ \A code : code # "example_secret_value" => Plain({code}) /\ \A c : Plain(If(c, code))
BY DEF Plain, If

(* The codes of a file reference are plain.                                 *)
LEMMA FileRefCodesPlain == \A ref : Plain(FileRefCodes(ref))
BY ZenonT(60) DEF Plain, FileRefCodes, If

(* So are the codes of scores, weights, ids and texts.                      *)
LEMMA OtherCodesPlain ==
  /\ \A score : Plain(ScoreCodes(score))
  /\ \A weight : Plain(WeightCodes(weight))
  /\ \A id : Plain(IdCodes(id))
  /\ \A text, code : code # "example_secret_value" => Plain(TextCodes(text, code))
BY DEF Plain, ScoreCodes, WeightCodes, IdCodes, TextCodes, If

(* The findings of a list of paths stand under it.                          *)
LEMMA ListPlaced ==
  ASSUME NEW at, IsPlace(at), NEW code, code # "example_secret_value", NEW list, NEW bad
  PROVE  Placed(ListFindings(list, bad, code, at), at)
<1> DEFINE long == Findings(If(Len(list) > MaxListed, code), at)
           each == {Finding(code, Append(at, Index[n]), 0) : n \in {k \in 1..Len(list) : list[k] \in bad \cup LongTexts}}
<1>1. Placed(long, at)
  BY FindingsPlaced, PlainParts
<1>2. Placed(each, at)
  <2>1. \A key : Begins(Append(at, key), at)
    BY PlaceAppend
  <2>2. \A t : Finding(code, t, 0).at = t /\ Finding(code, t, 0).code = code
    BY DEF Finding
  <2>3. QED
    BY <2>1, <2>2 DEF Placed
<1> HIDE DEF long, each
<1>3. Placed(long \cup each, at)
  BY <1>1, <1>2, PlacedParts
<1>4. QED
  BY <1>3 DEF ListFindings, long, each

(* The findings of tags stand under the example.                            *)
LEMMA TagsPlaced ==
  ASSUME NEW at, IsPlace(at), NEW tags
  PROVE  Placed(TagFindings(tags, at), at)
<1> DEFINE long == Findings(If(Len(tags) > MaxListed, "example_tag_invalid"), at)
           each == {Finding("example_tag_invalid", Append(at, Index[n]), 0) :
                      n \in {k \in 1..Len(tags) : /\ tags[k] # Other
                                                  /\ tags[k] \notin Tags \/ \E e \in 1..(k - 1) : tags[e] = tags[k]}}
<1>1. Placed(long, at)
  BY FindingsPlaced, PlainParts
<1>2. Placed(each, at)
  <2>1. \A key : Begins(Append(at, key), at)
    BY PlaceAppend
  <2>2. \A t : Finding("example_tag_invalid", t, 0).at = t /\ Finding("example_tag_invalid", t, 0).code = "example_tag_invalid"
    BY DEF Finding
  <2>3. QED
    BY <2>1, <2>2 DEF Placed
<1> HIDE DEF long, each
<1>3. Placed(long \cup each, at)
  BY <1>1, <1>2, PlacedParts
<1>4. QED
  BY <1>3 DEF TagFindings, long, each

(* The findings of an output reference stand at it.                         *)
LEMMA ReferencePlaced ==
  ASSUME NEW at, IsPlace(at), NEW r
  PROVE  Placed(ReferenceFindings(r, at), at)
<1>1. Placed({Finding("example_reference_invalid", at, 0)}, at)
  BY OnePlaced
<1>2. Placed(Findings(If(r.text \in LongTexts, "example_reference_invalid"), at), at)
  BY FindingsPlaced, PlainParts
<1>3. /\ Placed(Findings(FileRefCodes(r.ref), Append(at, "ref")), at)
      /\ Placed(Findings(If(r.ref.media \notin Textual \cup {""}, "example_reference_binary"), at), at)
  BY FindingsPlaced, FileRefCodesPlain, PlainParts
<1>4. QED
  BY <1>1, <1>2, <1>3, PlacedParts DEF ReferenceFindings

(* The findings of one key stand under it.                                  *)
LEMMA KeyPlaced ==
  ASSUME NEW at, IsPlace(at), NEW key, NEW outputs
  PROVE  Placed(KeyFindings(key, at, outputs), at)
<1>1. Plain({"example_expected_field_unchecked"}) /\ \A c : Plain(If(c, "example_expected_field_unknown"))
  BY PlainParts
<1>2. QED
  BY <1>1, FindingsPlaced DEF KeyFindings

(* The findings of an expectation stand under it.                           *)
LEMMA ExpectationPlaced ==
  ASSUME NEW at, IsPlace(at), NEW e, NEW outputs, NEW checkpoint
  PROVE  Placed(ExpectationFindings(e, at, outputs, checkpoint), at)
<1> DEFINE byKey == UNION {LET place == at \o <<"fields", key>> IN
                           KeyFindings(key, place, outputs)
                             \cup Findings(If(MatcherFails(e.fields[key]), "example_field_matcher_invalid")
                                             \cup If(Contradicts(e.fields[key], e.mustNotContain), "example_expectation_contradiction"),
                                           place) : key \in DOMAIN e.fields}
           byExact == UNION {KeyFindings(key, at \o <<"exact", key>>, outputs) : key \in NamesGiven(e.exact)}
           p1 == Findings(If(e.status \notin Statuses \cup {""}, "example_status_invalid")
                            \cup If(checkpoint /\ e.status # "", "example_checkpoint_status"), Append(at, "status"))
           p2 == Findings(If(\/ DOMAIN e.fields # {} /\ DOMAIN e.exact # {}
                             \/ NoOutput(e) /\ Compares(e), "example_expected_conflict")
                            \cup If(SaysNothingElse(e) /\ e.reference = Absent, "example_expected_empty"), at)
           p3 == Findings(ScoreCodes(e.score), Append(at, "min_score"))
           p4 == Findings(IF e.rubric \in Blank \ {""} THEN {"example_rubric_empty"}
                          ELSE If(e.rubric \in LongTexts, "example_rubric_too_long"), Append(at, "rubric"))
           p5 == IF IsRecord(e.reference) THEN ReferenceFindings(e.reference, Append(at, "reference")) ELSE {}
           p6 == ListFindings(e.mustNot, Blank, "example_must_not_invalid", Append(at, "must_not"))
           p7 == ListFindings(e.mustNotContain, {""}, "example_must_not_contain_invalid", Append(at, "must_not_contain"))
<1>1. Placed(p1, at) /\ Placed(p2, at) /\ Placed(p3, at)
  BY FindingsPlaced, PlainParts, OtherCodesPlain
<1>2. Placed(p4, at)
  <2>1. Plain(IF e.rubric \in Blank \ {""} THEN {"example_rubric_empty"} ELSE If(e.rubric \in LongTexts, "example_rubric_too_long"))
    BY PlainParts
  <2>2. QED
    BY <2>1, FindingsPlaced
<1>3. \A key : IsPlace(Append(at, key)) /\ Begins(Append(at, key), at)
  BY PlaceAppend
<1>4. Placed(p5, at)
  BY <1>3, ReferencePlaced, PlacedFurther, PlacedParts
<1>5. Placed(p6, at) /\ Placed(p7, at)
  BY <1>3, ListPlaced, PlacedFurther
<1>6. \A a, b : IsPlace(at \o <<a, b>>) /\ Begins(at \o <<a, b>>, at)
  BY ShortPlaces, PlaceConcat
<1>7. Placed(byKey, at)
  <2>1. SUFFICES ASSUME NEW key,
                        NEW g \in KeyFindings(key, at \o <<"fields", key>>, outputs)
                                    \cup Findings(If(MatcherFails(e.fields[key]), "example_field_matcher_invalid")
                                                    \cup If(Contradicts(e.fields[key], e.mustNotContain),
                                                            "example_expectation_contradiction"),
                                                  at \o <<"fields", key>>)
                 PROVE  Begins(g.at, at) /\ g.code # "example_secret_value"
    BY DEF Placed
  <2> DEFINE place == at \o <<"fields", key>>
             codes == If(MatcherFails(e.fields[key]), "example_field_matcher_invalid")
                        \cup If(Contradicts(e.fields[key], e.mustNotContain), "example_expectation_contradiction")
  <2>2. IsPlace(place) /\ Begins(place, at) /\ Plain(codes)
    BY <1>6, PlainParts
  <2>3. g \in KeyFindings(key, place, outputs) \/ g \in Findings(codes, place)
    BY <2>1
  <2> HIDE DEF place, codes
  <2>4. Placed(KeyFindings(key, place, outputs), place) /\ Placed(Findings(codes, place), place)
    BY <2>2, KeyPlaced, FindingsPlaced
  <2>5. Placed(KeyFindings(key, place, outputs), at) /\ Placed(Findings(codes, place), at)
    BY <2>2, <2>4, PlacedFurther
  <2>6. QED
    BY <2>3, <2>5 DEF Placed
<1>8. Placed(byExact, at)
  <2>1. \A key : Placed(KeyFindings(key, at \o <<"exact", key>>, outputs), at)
    <3>1. SUFFICES ASSUME NEW key PROVE Placed(KeyFindings(key, at \o <<"exact", key>>, outputs), at)
      OBVIOUS
    <3>2. QED
      BY <1>6, KeyPlaced, PlacedFurther
  <2>2. QED
    BY <2>1 DEF Placed
<1>9. ExpectationFindings(e, at, outputs, checkpoint) = p1 \cup p2 \cup p3 \cup p4 \cup p5 \cup byKey \cup byExact \cup p6 \cup p7
  BY DEF ExpectationFindings
<1> HIDE DEF byKey, byExact, p1, p2, p3, p4, p5, p6, p7
<1>10. Placed(p1 \cup p2 \cup p3 \cup p4 \cup p5, at)
  BY <1>1, <1>2, <1>4, PlacedParts
<1>11. Placed(byKey \cup byExact \cup p6 \cup p7, at)
  BY <1>5, <1>7, <1>8, PlacedParts
<1>12. Placed((p1 \cup p2 \cup p3 \cup p4 \cup p5) \cup (byKey \cup byExact \cup p6 \cup p7), at)
  BY <1>10, <1>11, PlacedParts
<1>13. ExpectationFindings(e, at, outputs, checkpoint)
         = (p1 \cup p2 \cup p3 \cup p4 \cup p5) \cup (byKey \cup byExact \cup p6 \cup p7)
  BY <1>9
<1>14. QED
  BY <1>12, <1>13

------------------------------------------------------------------------------
(* Findings that are off every input and patch and of no secret, or of a    *)
(* text that looks like a credential.                                       *)
Quiet(found) ==
  \A f \in found : \/ f.code = "example_secret_like_value"
                   \/ f.code # "example_secret_value" /\ Off(f.at)

(* Findings are quiet when each part of them is.                            *)
LEMMA QuietParts ==
  /\ \A A, B : Quiet(A) /\ Quiet(B) => Quiet(A \cup B)
  /\ Quiet({})
BY DEF Quiet

(* Findings placed under a place that is off are quiet.                     *)
LEMMA QuietPlaced ==
  ASSUME NEW at, \A t : Begins(t, at) => Off(t), NEW found, Placed(found, at)
  PROVE  Quiet(found)
BY DEF Quiet, Placed

(* Findings made off every input and patch are quiet.                       *)
LEMMA QuietFindings ==
  ASSUME NEW at, Off(at), NEW codes, Plain(codes)
  PROVE  Quiet(Findings(codes, at)) /\ \A about : \A code \in codes : Quiet({Finding(code, at, about)})
<1>1. \A c, about : Finding(c, at, about).at = at /\ Finding(c, at, about).code = c
  BY DEF Finding
<1>2. QED
  BY <1>1 DEF Quiet, Findings, Plain

(* Where schemas stand.                                                     *)
LEMMA SchemaPlace ==
  ASSUME NEW s
  PROVE  IsPlace(PathOf(s)) /\ \A t : Begins(t, PathOf(s)) => Off(t)
<1>1. CASE s[1] = 0
  <2>1. PathOf(s) = <<"input_schema">>
    BY <1>1 DEF PathOf
  <2>2. IsPlace(<<"input_schema">>) /\ Len(<<"input_schema">>) = 1 /\ <<"input_schema">>[1] = "input_schema"
    BY ShortPlaces
  <2>3. QED
    BY <2>1, <2>2, OffElsewhere
<1>2. CASE s[1] # 0
  <2> DEFINE a == <<"steps", flow.steps[s[1]].id>>
             b == IF s[2] = 0 THEN <<>> ELSE <<"loop", Index[s[2]]>>
             c == <<"output_schema">>
  <2>1. PathOf(s) = (a \o b) \o c
    BY <1>2 DEF PathOf
  <2>2. IsPlace(a) /\ Len(a) = 2 /\ a[1] = "steps"
    BY ShortPlaces
  <2>3. IsPlace(b)
    <3>1. IsPlace(<<>>)
      <4>1. <<>> \in Seq({})
        OBVIOUS
      <4>2. QED
        BY <4>1 DEF IsPlace
    <3>2. QED
      BY <3>1, ShortPlaces
  <2>4. IsPlace(c)
    BY ShortPlaces
  <2> HIDE DEF a, b, c
  <2>5. IsPlace(a \o b) /\ Begins(a \o b, a)
    BY <2>2, <2>3, PlaceConcat
  <2>6. IsPlace((a \o b) \o c) /\ Begins((a \o b) \o c, a \o b)
    BY <2>4, <2>5, PlaceConcat
  <2>7. \A t : Begins(t, (a \o b) \o c) => Begins(t, a)
    BY <2>5, <2>6, BeginsTwice
  <2>8. QED
    BY <2>1, <2>2, <2>6, <2>7, OffElsewhere
<1>3. QED
  BY <1>1, <1>2

(* Where a field of a schema stands.                                        *)
LEMMA FieldPlace ==
  ASSUME NEW s, NEW i
  PROVE  IsPlace(FieldAt(s, i)) /\ \A t : Begins(t, FieldAt(s, i)) => Off(t)
<1>1. IsPlace(PathOf(s)) /\ IsPlace(<<"fields", Index[i]>>)
  BY SchemaPlace, ShortPlaces
<1>2. IsPlace(FieldAt(s, i)) /\ Begins(FieldAt(s, i), PathOf(s))
  BY <1>1, PlaceConcat DEF FieldAt
<1>3. \A t : Begins(t, FieldAt(s, i)) => Begins(t, PathOf(s))
  BY <1>2, BeginsTwice
<1>4. QED
  BY <1>2, <1>3, SchemaPlace

(* What a field is told for its type stands at it.                          *)
LEMMA TypedPlaced ==
  ASSUME NEW f, NEW at, IsPlace(at)
  PROVE  Placed(TypedFindings(f, at), at)
<1> DEFINE p1 == Findings(If(f.type = "enum" /\ f.enum = <<>>, "input_schema_enum_empty"), Append(at, "enum"))
           p2 == Findings(If(Crossed(f, "min", "max") \/ Crossed(f, "min_length", "max_length")
                               \/ Crossed(f, "min_items", "max_items"), "input_schema_invalid_range"), at)
           ofKey(k) == Findings(If(f.type \notin MeantFor(k), "input_schema_constraint_type_mismatch")
                                  \cup If(k \in Ceilinged /\ Limit(f, k) # Other /\ Limit(f, k) > MaxConstraint,
                                          "input_schema_constraint_out_of_range"), Append(at, k))
           p3 == UNION {ofKey(k) : k \in LimitKeys(f)}
           p4 == IF f.when = Absent THEN {}
                 ELSE Findings(If(f.when.field = "" \/ (f.when.equals.kind # "nil") = (f.when.in # <<>>),
                                  "input_schema_visible_when_no_predicate"), Append(at, "visible_when"))
           p5 == Findings(IF f.pattern \in LongTexts THEN {"input_schema_pattern_too_long"}
                          ELSE If(f.pattern \in BadPatterns, "input_schema_invalid_pattern"), Append(at, "pattern"))
<1>1. Placed(p1, at) /\ Placed(p2, at) /\ (\A k : Placed(ofKey(k), at)) /\ Placed(p4, at)
  BY FindingsPlaced, PlainParts, PlacedParts
<1>2. Placed(p5, at)
  <2>1. Plain(IF f.pattern \in LongTexts THEN {"input_schema_pattern_too_long"}
              ELSE If(f.pattern \in BadPatterns, "input_schema_invalid_pattern"))
    BY PlainParts
  <2>2. QED
    BY <2>1, FindingsPlaced
<1>3. TypedFindings(f, at) = p1 \cup p2 \cup p3 \cup p4 \cup p5
  BY DEF TypedFindings
<1> HIDE DEF p1, p2, ofKey, p4, p5
<1>4. Placed(p3, at)
  BY <1>1 DEF Placed
<1> HIDE DEF p3
<1>5. Placed(p1 \cup p2, at)
  BY <1>1, PlacedParts
<1>6. Placed((p1 \cup p2) \cup p3, at)
  BY <1>4, <1>5, PlacedParts
<1>7. Placed(((p1 \cup p2) \cup p3) \cup p4, at)
  BY <1>1, <1>6, PlacedParts
<1>8. QED
  BY <1>2, <1>3, <1>7, PlacedParts

(* What a step on a schema reports.                                         *)
LEMMA SchemaStepQuiet ==
  ASSUME SchemaStep
  PROVE  \E found : Quiet(found) /\ findings' = findings \cup found
<1>1. CASE OpenSchema
  <2> DEFINE at == PathOf(site)
             s == SchemaHere
             odd == Findings(If(s = Other, "invalid_type"), at)
             parts == Findings(If(s.version # SchemaVersion, "input_schema_invalid_version"), Append(at, "version"))
                        \cup Findings(If(s.fields = Other, "invalid_type"), Append(at, "fields"))
  <2>1. findings' = findings \cup odd \/ findings' = findings \cup parts
    BY <1>1 DEF OpenSchema, Report
  <2>2. IsPlace(at) /\ \A t : Begins(t, at) => Off(t)
    BY SchemaPlace
  <2> HIDE DEF at
  <2>3. Placed(odd, at) /\ Placed(parts, at)
    <3>1. \A c : Plain(If(c, "invalid_type")) /\ Plain(If(c, "input_schema_invalid_version"))
      BY PlainParts
    <3>2. Placed(odd, at) /\ Placed(Findings(If(s.version # SchemaVersion, "input_schema_invalid_version"), Append(at, "version")), at)
      BY <2>2, <3>1, FindingsPlaced
    <3>3. Placed(Findings(If(s.fields = Other, "invalid_type"), Append(at, "fields")), at)
      BY <2>2, <3>1, FindingsPlaced
    <3>4. QED
      BY <3>2, <3>3, PlacedParts
  <2> HIDE DEF odd, parts
  <2>4. QED
    BY <2>1, <2>2, <2>3, QuietPlaced
<1>2. CASE JudgeField
  <2> DEFINE at == FieldAt(site, field)
             f == SchemaHere.fields[field]
             named == NameFindings(f, at)
             typed == IF f.type \in FieldTypes THEN TypedFindings(f, at)
                      ELSE {Finding("input_schema_unknown_type", Append(at, "type"), 0)}
             odd == {Finding("invalid_type", at, 0)}
  <2>1. findings' = findings \cup odd \/ findings' = findings \cup (named \cup typed)
    BY <1>2 DEF JudgeField, Report
  <2>2. IsPlace(at) /\ \A t : Begins(t, at) => Off(t)
    BY FieldPlace
  <2>3. Placed(odd, at)
    BY <2>2, OnePlaced
  <2>4. Placed(named, at)
    BY <2>2, OnePlaced, PlacedParts DEF NameFindings
  <2>5. Placed(typed, at)
    BY <2>2, OnePlaced, TypedPlaced
  <2> HIDE DEF at, named, typed, odd
  <2>6. QED
    BY <2>1, <2>2, <2>3, <2>4, <2>5, QuietPlaced, PlacedParts
<1>3. CASE ResolveConditions
  <2> DEFINE ofWhen(i) == Finding("input_schema_visible_when_unknown_field", FieldAt(site, i) \o <<"visible_when", "field">>, 0)
             ofFile(i) == Finding("input_schema_file_after_parametric", FieldAt(site, i), 0)
  <2>1. PICK A, B : findings' = findings \cup ({ofWhen(i) : i \in A} \cup {ofFile(i) : i \in B})
    BY <1>3 DEF ResolveConditions, Report
  <2>2. ASSUME NEW i PROVE Off(ofWhen(i).at) /\ Off(ofFile(i).at)
    <3>1. IsPlace(FieldAt(site, i)) /\ \A t : Begins(t, FieldAt(site, i)) => Off(t)
      BY FieldPlace
    <3>2. Begins(FieldAt(site, i), FieldAt(site, i)) /\ Begins(FieldAt(site, i) \o <<"visible_when", "field">>, FieldAt(site, i))
      BY <3>1, BeginsItself, PlaceConcat, ShortPlaces
    <3>3. QED
      BY <3>1, <3>2 DEF Finding
  <2>3. \A i : ofWhen(i).code # "example_secret_value" /\ ofFile(i).code # "example_secret_value"
    BY DEF Finding
  <2> HIDE DEF ofWhen, ofFile
  <2>4. Quiet({ofWhen(i) : i \in A} \cup {ofFile(i) : i \in B})
    BY <2>2, <2>3 DEF Quiet
  <2>5. QED
    BY <2>1, <2>4
<1>4. CASE JudgeReserved
  <2> DEFINE ofQuery(name) == Finding("reserved_input_name", <<"query", name>>, 0)
             ofSchema(name) == Finding("reserved_input_name", <<"input_schema", "fields", name>>, 0)
  <2>1. PICK A, B : findings' = findings \cup ({ofQuery(name) : name \in A} \cup {ofSchema(name) : name \in B})
    BY <1>4 DEF JudgeReserved, Report
  <2>2. ASSUME NEW name PROVE Off(ofQuery(name).at) /\ Off(ofSchema(name).at)
    <3>1. Off(<<"query", name>>) /\ Off(<<"input_schema", "fields", name>>)
      BY ShortPlaces DEF Off
    <3>2. QED
      BY <3>1 DEF Finding
  <2>3. \A name : ofQuery(name).code # "example_secret_value" /\ ofSchema(name).code # "example_secret_value"
    BY DEF Finding
  <2> HIDE DEF ofQuery, ofSchema
  <2>4. Quiet({ofQuery(name) : name \in A} \cup {ofSchema(name) : name \in B})
    BY <2>2, <2>3 DEF Quiet
  <2>5. QED
    BY <2>1, <2>4
<1>5. QED
  BY <1>1, <1>2, <1>3, <1>4 DEF SchemaStep

------------------------------------------------------------------------------
(* What is said of an example but of its input.                             *)
LEMMA AboutQuiet ==
  ASSUME phase = "example", NEW ex
  PROVE  Quiet(AboutFindings(ex))
<1> DEFINE e == ExampleAt(example)
           keys == {"id", "title", "guidance", "notes", "tags", "weight", "min_score", "side_effects", "hold_out"}
<1>1. At = e
  BY DEF At
<1>2. \A k \in keys : \A t : Begins(t, Append(e, k)) => Off(t)
  BY OffExample
<1>3. \A k : IsPlace(Append(e, k))
  BY ExamplePlace, PlaceAppend
<1> HIDE DEF e
<1>4. ASSUME NEW k \in keys, NEW codes, Plain(codes) PROVE Quiet(Findings(codes, Append(e, k)))
  <2>1. Placed(Findings(codes, Append(e, k)), Append(e, k))
    BY <1>3, <1>4, FindingsPlaced
  <2>2. QED
    BY <1>2, <2>1, QuietPlaced
<1>5. Quiet(TagFindings(ex.tags, Append(e, "tags")))
  <2>1. Placed(TagFindings(ex.tags, Append(e, "tags")), Append(e, "tags"))
    BY <1>3, TagsPlaced
  <2>2. QED
    BY <1>2, <2>1, QuietPlaced
<1>6. \A n : Quiet({Finding("example_id_duplicate", Append(e, "id"), n)})
  <2>1. SUFFICES ASSUME NEW n PROVE Quiet({Finding("example_id_duplicate", Append(e, "id"), n)})
    OBVIOUS
  <2>2. Placed({Finding("example_id_duplicate", Append(e, "id"), n)}, Append(e, "id"))
    BY <1>3, OnePlaced
  <2>3. QED
    BY <1>2, <2>2, QuietPlaced
<1> DEFINE p1 == Findings(IdCodes(ex.id), Append(e, "id"))
           p2 == IF ex.id \in Ids /\ ids[ex.id] # 0 THEN {Finding("example_id_duplicate", Append(e, "id"), ids[ex.id])} ELSE {}
           p3 == Findings(If(ex.title \in Blank, "example_title_missing")
                            \cup TextCodes(ex.title, "example_title_too_long"), Append(e, "title"))
           p4 == Findings(If(ex.guidance \in Blank, "example_guidance_missing")
                            \cup TextCodes(ex.guidance, "example_guidance_too_long"), Append(e, "guidance"))
           p5 == Findings(TextCodes(ex.notes, "example_notes_too_long"), Append(e, "notes"))
           p6 == TagFindings(ex.tags, Append(e, "tags"))
           p7 == Findings(WeightCodes(ex.weight), Append(e, "weight"))
           p8 == Findings(ScoreCodes(ex.score), Append(e, "min_score"))
           p9 == Findings(If(ex.sideEffects \notin SideEffects \cup {""}, "example_side_effects_invalid"), Append(e, "side_effects"))
           p10 == Findings(If(ex.holdOut /\ flow.public, "example_holdout_in_public_flow"), Append(e, "hold_out"))
<1>7. AboutFindings(ex) = p1 \cup p2 \cup p3 \cup p4 \cup p5 \cup p6 \cup p7 \cup p8 \cup p9 \cup p10
  BY <1>1 DEF AboutFindings
<1>8. Quiet(p1) /\ Quiet(p5) /\ Quiet(p7) /\ Quiet(p8)
  BY <1>4, OtherCodesPlain
<1>9. Quiet(p3) /\ Quiet(p4)
  <2>1. /\ Plain(If(ex.title \in Blank, "example_title_missing") \cup TextCodes(ex.title, "example_title_too_long"))
        /\ Plain(If(ex.guidance \in Blank, "example_guidance_missing") \cup TextCodes(ex.guidance, "example_guidance_too_long"))
    BY OtherCodesPlain, PlainParts
  <2>2. QED
    BY <1>4, <2>1
<1>10. Quiet(p9) /\ Quiet(p10)
  BY <1>4, PlainParts
<1>11. Quiet(p2) /\ Quiet(p6)
  BY <1>5, <1>6, QuietParts
<1> HIDE DEF p1, p2, p3, p4, p5, p6, p7, p8, p9, p10
<1>12. Quiet(p1 \cup p2 \cup p3 \cup p4 \cup p5)
  BY <1>8, <1>9, <1>11, QuietParts
<1>13. Quiet((((p1 \cup p2 \cup p3 \cup p4 \cup p5) \cup p6) \cup p7) \cup p8)
  BY <1>8, <1>11, <1>12, QuietParts
<1>14. Quiet((((((p1 \cup p2 \cup p3 \cup p4 \cup p5) \cup p6) \cup p7) \cup p8) \cup p9) \cup p10)
  BY <1>10, <1>13, QuietParts
<1>15. QED
  BY <1>7, <1>14

(* What an example expects is judged quietly.                               *)
LEMMA ExpectedQuiet ==
  ASSUME phase = "example", NEW ex
  PROVE  Quiet(ExpectedFindings(ex))
<1> DEFINE at == Append(ExampleAt(example), "expected")
<1>1. IsPlace(at) /\ \A t : Begins(t, at) => Off(t)
  BY ExamplePlace, PlaceAppend, OffExample
<1>2. Append(At, "expected") = at
  BY DEF At
<1> HIDE DEF at
<1>3. /\ Placed(Findings(If(ex.expected = Absent, "example_expected_missing"), at), at)
      /\ Placed(Findings(If(BinaryOnly(ex.expected), "examples_unreadable_by_judge"), at), at)
  BY <1>1, FindingsPlaced, PlainParts
<1>4. Placed(ExpectationFindings(ex.expected, at, flow.output, FALSE), at)
  BY <1>1, ExpectationPlaced
<1>5. Placed(ExpectedFindings(ex), at)
  BY <1>2, <1>3, <1>4, PlacedParts DEF ExpectedFindings
<1>6. QED
  BY <1>1, <1>5, QuietPlaced

(* So are its checkpoints.                                                  *)
LEMMA CheckpointQuiet ==
  ASSUME phase = "example", NEW ex
  PROVE  Quiet(CheckpointFindings(ex))
<1> SUFFICES ASSUME NEW g \in CheckpointFindings(ex)
             PROVE  g.code # "example_secret_value" /\ Off(g.at)
  BY DEF Quiet
<1>1. PICK id :
        \/ g = Finding("example_checkpoint_step_unknown", At \o <<"checkpoints", id>>, 0)
        \/ g = Finding("example_checkpoint_step_composite", At \o <<"checkpoints", id>>, 0)
        \/ \E e, outputs : g \in ExpectationFindings(e, At \o <<"checkpoints", id>>, outputs, TRUE)
  BY ZenonT(60) DEF CheckpointFindings
<1> DEFINE at == At \o <<"checkpoints", id>>
<1>2. at = Append(Append(ExampleAt(example), "checkpoints"), id)
  BY ExamplePlace, SamePlaceText DEF At
<1> HIDE DEF at
<1> DEFINE c == Append(ExampleAt(example), "checkpoints")
<1>3. IsPlace(c) /\ \A t : Begins(t, c) => Off(t)
  BY ExamplePlace, PlaceAppend, OffExample
<1> HIDE DEF c
<1>4. IsPlace(at) /\ Begins(at, c)
  BY <1>2, <1>3, PlaceAppend DEF c
<1>5. \A t : Begins(t, at) => Off(t)
  BY <1>3, <1>4, BeginsTwice
<1>6. /\ Placed({Finding("example_checkpoint_step_unknown", at, 0)}, at)
      /\ Placed({Finding("example_checkpoint_step_composite", at, 0)}, at)
      /\ \A e, outputs : Placed(ExpectationFindings(e, at, outputs, TRUE), at)
  BY <1>4, OnePlaced, ExpectationPlaced
<1>7. \/ g = Finding("example_checkpoint_step_unknown", at, 0)
      \/ g = Finding("example_checkpoint_step_composite", at, 0)
      \/ \E e, outputs : g \in ExpectationFindings(e, at, outputs, TRUE)
  BY <1>1 DEF at
<1>8. g.code # "example_secret_value" /\ Begins(g.at, at)
  BY <1>6, <1>7 DEF Placed
<1>9. QED
  BY <1>5, <1>8

(* What is said of a scenario but of its patch.                             *)
Unpatched(v) == IF Patches(v) /\ ~HasInput(Current) THEN {Finding("example_variant_unchecked", Append(At, "input_patch"), 0)} ELSE {}

(* What a scenario is told, but of its patch, is quiet.                     *)
LEMMA VariantQuiet ==
  ASSUME phase # "example", NEW v
  PROVE  \E found : Quiet(found) /\ VariantFindings(v) = found \cup Unpatched(v)
<1> DEFINE e == VariantAt(example, variant)
           keys == {"id", "origin", "title", "guidance", "provenance", "weight", "input_ref", "expected"}
<1>1. At = e
  BY DEF At
<1>2. Off(e) /\ \A k \in keys : \A t : Begins(t, Append(e, k)) => Off(t)
  BY OffVariant
<1>3. \A k : IsPlace(Append(e, k))
  BY VariantPlace, PlaceAppend
<1> HIDE DEF e
<1>4. ASSUME NEW k \in keys, NEW codes, Plain(codes) PROVE Quiet(Findings(codes, Append(e, k)))
  <2>1. Placed(Findings(codes, Append(e, k)), Append(e, k))
    BY <1>3, <1>4, FindingsPlaced
  <2>2. QED
    BY <1>2, <2>1, QuietPlaced
<1> DEFINE p1 == Findings(IF v.id \notin Ids THEN {"example_variant_id_invalid"}
                          ELSE If(v.id \in variantIds, "example_variant_id_duplicate"), Append(e, "id"))
           p2 == Findings(If(v.origin \notin Origins, "example_variant_origin_invalid"), Append(e, "origin"))
           p3 == Findings(TextCodes(v.title, "example_title_too_long"), Append(e, "title"))
           p4 == Findings(TextCodes(v.guidance, "example_guidance_too_long"), Append(e, "guidance"))
           p5 == Findings(TextCodes(v.provenance, "example_notes_too_long"), Append(e, "provenance"))
           p6 == Findings(WeightCodes(v.weight), Append(e, "weight"))
           p7 == Findings(If(Patches(v) /\ v.inputRef # Absent, "example_variant_input_conflict")
                            \cup If(~Patches(v) /\ v.inputRef = Absent /\ v.expected = Absent, "example_variant_empty"), e)
           p8 == IF v.inputRef # Absent THEN Findings(FileRefCodes(v.inputRef), Append(e, "input_ref")) ELSE {}
           p9 == Findings(If(Patches(v) /\ ~HasInput(Current), "example_variant_unchecked"), Append(e, "input_patch"))
           p10 == IF IsRecord(v.expected) THEN ExpectationFindings(v.expected, Append(e, "expected"), flow.output, FALSE) ELSE {}
<1>5. VariantFindings(v) = p1 \cup p2 \cup p3 \cup p4 \cup p5 \cup p6 \cup p7 \cup p8 \cup p9 \cup p10
  BY <1>1 DEF VariantFindings
<1>6. p9 = Unpatched(v)
  BY <1>1 DEF Findings, If, Unpatched
<1>7. Quiet(p3) /\ Quiet(p4) /\ Quiet(p5) /\ Quiet(p6)
  BY <1>4, OtherCodesPlain
<1>8. Quiet(p1) /\ Quiet(p2)
  <2>1. Plain(IF v.id \notin Ids THEN {"example_variant_id_invalid"} ELSE If(v.id \in variantIds, "example_variant_id_duplicate"))
    BY PlainParts
  <2>2. QED
    BY <1>4, <2>1, PlainParts
<1>9. Quiet(p7)
  <2>1. Plain(If(Patches(v) /\ v.inputRef # Absent, "example_variant_input_conflict")
                \cup If(~Patches(v) /\ v.inputRef = Absent /\ v.expected = Absent, "example_variant_empty"))
    BY PlainParts
  <2>2. QED
    BY <1>2, <2>1, QuietFindings
<1>10. Quiet(p8)
  BY <1>4, FileRefCodesPlain, QuietParts
<1>11. Quiet(p10)
  <2>1. Placed(ExpectationFindings(v.expected, Append(e, "expected"), flow.output, FALSE), Append(e, "expected"))
    BY <1>3, ExpectationPlaced
  <2>2. Quiet(ExpectationFindings(v.expected, Append(e, "expected"), flow.output, FALSE))
    BY <1>2, <2>1, QuietPlaced
  <2>3. QED
    BY <2>2, QuietParts
<1> HIDE DEF p1, p2, p3, p4, p5, p6, p7, p8, p9, p10
<1>12. Quiet(p1 \cup p2 \cup p3 \cup p4 \cup p5)
  BY <1>7, <1>8, QuietParts
<1>13. Quiet((((p1 \cup p2 \cup p3 \cup p4 \cup p5) \cup p6) \cup p7) \cup p8)
  BY <1>7, <1>9, <1>10, <1>12, QuietParts
<1> DEFINE found == ((((p1 \cup p2 \cup p3 \cup p4 \cup p5) \cup p6) \cup p7) \cup p8) \cup p10
<1>14. Quiet(found)
  BY <1>11, <1>13, QuietParts
<1>15. VariantFindings(v) = found \cup Unpatched(v)
  BY <1>5, <1>6
<1>16. QED
  BY <1>14, <1>15

(* What the scan reports has one code.                                      *)
Likely(found) == \A f \in found : f.code = "example_secret_like_value"

(* A text may only look like a credential.                                  *)
LEMMA SecretsLikely == \A text, at : Likely(Secrets(text, at))
BY FindingsCode DEF Likely, Secrets, If

(* So may a leaf of a document.                                             *)
LEMMA LeafSecretsLikely == \A leaf, at, depth : Likely(LeafSecrets(leaf, at, depth))
BY SecretsLikely DEF LeafSecrets, Likely

(* So may a document.                                                       *)
LEMMA DocumentSecretsLikely == \A d, at : Likely(DocumentSecrets(d, at))
BY LeafSecretsLikely DEF DocumentSecrets, Likely

(* So may a list of texts.                                                  *)
LEMMA ListSecretsLikely == \A list, at : Likely(ListSecrets(list, at))
BY SecretsLikely DEF ListSecrets, Likely

(* So may a matcher.                                                        *)
LEMMA MatcherSecretsLikely == \A m, at : Likely(MatcherSecrets(m, at))
BY SecretsLikely, LeafSecretsLikely DEF MatcherSecrets, Likely

(* So may an expectation.                                                   *)
LEMMA ExpectationSecretsLikely == \A e, at : Likely(ExpectationSecrets(e, at))
<1> SUFFICES ASSUME NEW e, NEW at, NEW g \in ExpectationSecrets(e, at)
             PROVE  g.code = "example_secret_like_value"
  BY DEF Likely
<1> DEFINE byKey == UNION {IF IsRecord(e.fields[key]) THEN MatcherSecrets(e.fields[key], at \o <<"fields", key>>) ELSE {} :
                             key \in DOMAIN e.fields}
<1>1. g \in byKey => \E m, place : g \in MatcherSecrets(m, place)
  OBVIOUS
<1>2. \/ g \in Secrets(e.rubric, Append(at, "rubric"))
      \/ g \in Secrets(e.reference.text, at \o <<"reference", "text">>)
      \/ g \in ListSecrets(e.mustNot, Append(at, "must_not"))
      \/ g \in ListSecrets(e.mustNotContain, Append(at, "must_not_contain"))
      \/ g \in byKey
      \/ g \in DocumentSecrets(e.exact, Append(at, "exact"))
  BY ZenonT(60) DEF ExpectationSecrets
<1> HIDE DEF byKey
<1>3. QED
  BY <1>1, <1>2, SecretsLikely, ListSecretsLikely, MatcherSecretsLikely, DocumentSecretsLikely DEF Likely

(* So may the texts of a record.                                            *)
LEMMA TextSecretsLikely == \A m, keys, at : Likely(TextSecrets(m, keys, at))
BY SecretsLikely DEF TextSecrets, Likely

(* So may a scenario.                                                       *)
LEMMA VariantSecretsLikely == \A v, at : Likely(VariantSecrets(v, at))
BY TextSecretsLikely, DocumentSecretsLikely, ExpectationSecretsLikely DEF VariantSecrets, Likely

(* The scan tells of nothing but texts that look like credentials.          *)
LEMMA ScanQuiet ==
  ASSUME ScanExample
  PROVE  \E found : Quiet(found) /\ findings' = findings \cup found
<1> DEFINE ex == Current
           at == ExampleAt(example)
           texts == TextSecrets(ex, {"title", "guidance", "notes"}, at) \cup DocumentSecrets(InputOf(ex), Append(at, "input"))
           ofExpected == IF IsRecord(ex.expected) THEN ExpectationSecrets(ex.expected, Append(at, "expected")) ELSE {}
           ofCheckpoints == UNION {IF IsRecord(ex.checkpoints[id])
                                   THEN ExpectationSecrets(ex.checkpoints[id], at \o <<"checkpoints", id>>)
                                   ELSE {} : id \in DOMAIN ex.checkpoints}
           ofVariants == UNION {VariantSecrets(ex.variants[j], VariantAt(example, j)) : j \in 1..Len(ex.variants)}
<1>1. findings' = findings \cup (texts \cup ofExpected \cup ofCheckpoints \cup ofVariants)
  BY DEF ScanExample, Report
<1>2. Likely(texts) /\ Likely(ofExpected)
  BY TextSecretsLikely, DocumentSecretsLikely, ExpectationSecretsLikely DEF Likely
<1>3. Likely(ofCheckpoints)
  <2> SUFFICES ASSUME NEW id, NEW g \in IF IsRecord(ex.checkpoints[id])
                                         THEN ExpectationSecrets(ex.checkpoints[id], at \o <<"checkpoints", id>>) ELSE {}
               PROVE  g.code = "example_secret_like_value"
    BY DEF Likely
  <2>1. QED
    BY ExpectationSecretsLikely DEF Likely
<1>4. Likely(ofVariants)
  <2> SUFFICES ASSUME NEW j, NEW g \in VariantSecrets(ex.variants[j], VariantAt(example, j))
               PROVE  g.code = "example_secret_like_value"
    BY DEF Likely
  <2>1. QED
    BY VariantSecretsLikely DEF Likely
<1> HIDE DEF texts, ofExpected, ofCheckpoints, ofVariants
<1>5. Quiet(texts \cup ofExpected \cup ofCheckpoints \cup ofVariants)
  BY <1>2, <1>3, <1>4 DEF Likely, Quiet
<1>6. QED
  BY <1>1, <1>5

------------------------------------------------------------------------------
(* An input without its secrets.                                            *)
Alike(a, b) ==
  /\ NamesGiven(a) = {n \in NamesGiven(b) : ~Secret(n)}
  /\ \A n \in NamesGiven(a) :
       /\ a[<<n>>] = b[<<n>>] /\ KeysAt(a, <<n>>) = KeysAt(b, <<n>>)
       /\ \A key : TextAt(a, n, key) = TextAt(b, n, key)

(* The names of a document, and its paths.                                  *)
LEMMA DocumentNames ==
  ASSUME NEW d, IsDocument(d)
  PROVE  /\ \A p \in DOMAIN d : p \in Seq(Key) /\ Len(p) \in Nat /\ Len(p) >= 1
         /\ \A n \in NamesGiven(d) : <<n>> \in DOMAIN d
<1>1. ASSUME NEW p \in DOMAIN d PROVE p \in Seq(Key) /\ Len(p) \in Nat /\ Len(p) >= 1 /\ <<p[1]>> \in DOMAIN d
  <2>1. p \in Seq(Key) /\ p # <<>> /\ Above(p) \subseteq DOMAIN d
    BY DEF IsDocument
  <2>2. Len(p) \in Nat /\ Len(p) >= 1
    BY <2>1
  <2>3. SubSeq(p, 1, 1) \in Seq(Key) /\ Len(SubSeq(p, 1, 1)) = 1 /\ SubSeq(p, 1, 1)[1] = p[1]
    BY <2>1, <2>2
  <2>4. SubSeq(p, 1, 1) = <<p[1]>>
    <3> DEFINE q == SubSeq(p, 1, 1)
               k == p[1]
    <3>1. q \in Seq(Key) /\ Len(q) = 1 /\ q[1] = k
      BY <2>3
    <3>2. k \in Key
      BY <2>1, <2>2
    <3> HIDE DEF q, k
    <3>3. <<k>> \in Seq(Key) /\ Len(<<k>>) = 1 /\ <<k>>[1] = k
      BY <3>2
    <3>4. q = <<k>>
      BY <3>1, <3>3, SeqEqual
    <3>5. QED
      BY <3>4 DEF q, k
  <2>5. CASE Len(p) = 1
    BY <2>1, <2>5
  <2>6. CASE Len(p) > 1
    <3>1. 1 \in 1..(Len(p) - 1)
      BY <2>2, <2>6
    <3>2. SubSeq(p, 1, 1) \in Above(p)
      BY <3>1 DEF Above
    <3>3. QED
      BY <2>1, <2>2, <2>4, <3>2
  <2>7. QED
    BY <2>1, <2>2, <2>5, <2>6
<1>2. QED
  BY <1>1 DEF NamesGiven

(* What a run receives has the names of the document.                       *)
LEMMA NormalisedFacts ==
  ASSUME NEW d, IsDocument(d)
  PROVE  /\ DOMAIN Normalised(d) = {q \in DOMAIN d : Len(q) <= MaxDepth + 1}
         /\ NamesGiven(Normalised(d)) = NamesGiven(d)
         /\ \A n \in NamesGiven(d) : <<n>> \in DOMAIN Normalised(d)
<1>1. DOMAIN Normalised(d) = {q \in DOMAIN d : Len(q) <= MaxDepth + 1}
  BY DEF Normalised
<1>2. ASSUME NEW n \in NamesGiven(d) PROVE <<n>> \in DOMAIN Normalised(d) /\ <<n>>[1] = n
  <2>1. <<n>> \in DOMAIN d /\ Len(<<n>>) = 1 /\ 1 <= MaxDepth + 1
    BY DocumentNames, DepthAssumption
  <2>2. QED
    BY <1>1, <2>1
<1>3. NamesGiven(Normalised(d)) \subseteq NamesGiven(d)
  BY <1>1 DEF NamesGiven
<1>4. NamesGiven(d) \subseteq NamesGiven(Normalised(d))
  <2>1. SUFFICES ASSUME NEW n \in NamesGiven(d) PROVE n \in NamesGiven(Normalised(d))
    OBVIOUS
  <2>2. <<n>> \in DOMAIN Normalised(d) /\ <<n>>[1] = n
    BY <1>2
  <2>3. QED
    BY <2>2 DEF NamesGiven
<1>5. QED
  BY <1>1, <1>2, <1>3, <1>4

(* A key of a name is a path of two keys.                                   *)
LEMMA KeyBelow ==
  ASSUME NEW r \in Seq(Key), NEW n, Front(r) = <<n>>
  PROVE  r[1] = n
<1>1. Len(r) \in Nat
  OBVIOUS
<1>2. Front(r) = SubSeq(r, 1, Len(r) - 1)
  BY DEF Front
<1>3. Len(Front(r)) = 1
  BY Len(<<n>>) = 1
<1>4. Len(r) >= 2
  BY <1>1, <1>2, <1>3
<1>5. Front(r)[1] = r[1]
  BY <1>1, <1>2, <1>4
<1>6. QED
  BY <1>5

(* A document without its secrets is like the document.                     *)
LEMMA PublicAlike ==
  ASSUME NEW d, IsDocument(d)
  PROVE  /\ Alike(Normalised(Public(d)), Normalised(d))
         /\ DOMAIN Normalised(Public(d)) \subseteq DOMAIN Normalised(d)
<1> DEFINE b == Normalised(d)
           a == Normalised(Public(d))
<1>1. /\ DOMAIN Public(d) = {q \in DOMAIN d : ~Secret(q[1])}
      /\ \A q \in DOMAIN Public(d) : Public(d)[q] = d[q]
  BY DEF Public
<1>2. DOMAIN a = {q \in DOMAIN Public(d) : Len(q) <= MaxDepth + 1}
  BY DEF Normalised
<1>3. DOMAIN b = {q \in DOMAIN d : Len(q) <= MaxDepth + 1} /\ NamesGiven(b) = NamesGiven(d)
      /\ \A n \in NamesGiven(d) : <<n>> \in DOMAIN b
  BY NormalisedFacts
<1>4. DOMAIN a = {q \in DOMAIN b : ~Secret(q[1])}
  BY <1>1, <1>2, <1>3
<1>5. ASSUME NEW q \in DOMAIN a PROVE a[q] = b[q]
  <2>1. q \in DOMAIN Public(d) /\ q \in DOMAIN d /\ q \in DOMAIN b /\ Len(q) <= MaxDepth + 1 /\ Public(d)[q] = d[q]
    BY <1>1, <1>2, <1>3, <1>4
  <2>2. a[q] = IF Len(q) > MaxDepth THEN [kind |-> "nil", is |-> ""]
               ELSE IF Public(d)[q].kind = "time" THEN [Public(d)[q] EXCEPT !.kind = "string"] ELSE Public(d)[q]
    BY <2>1 DEF Normalised
  <2>3. b[q] = IF Len(q) > MaxDepth THEN [kind |-> "nil", is |-> ""]
               ELSE IF d[q].kind = "time" THEN [d[q] EXCEPT !.kind = "string"] ELSE d[q]
    BY <2>1 DEF Normalised
  <2>4. QED
    BY <2>1, <2>2, <2>3
<1>6. \A r \in DOMAIN b : r \in Seq(Key)
  BY <1>3, DocumentNames
<1> HIDE DEF a, b
<1>7. NamesGiven(a) = {n \in NamesGiven(b) : ~Secret(n)}
  <2>1. ASSUME NEW n \in NamesGiven(a) PROVE n \in NamesGiven(b) /\ ~Secret(n)
    BY <1>4 DEF NamesGiven
  <2>2. ASSUME NEW n \in NamesGiven(b), ~Secret(n) PROVE n \in NamesGiven(a)
    <3>1. PICK p \in DOMAIN b : p[1] = n
      BY <2>2 DEF NamesGiven
    <3>2. p \in DOMAIN a
      BY <1>4, <2>2, <3>1
    <3>3. QED
      BY <3>1, <3>2 DEF NamesGiven
  <2>3. QED
    BY <2>1, <2>2
<1>8. ASSUME NEW n \in NamesGiven(a)
      PROVE  /\ a[<<n>>] = b[<<n>>] /\ KeysAt(a, <<n>>) = KeysAt(b, <<n>>)
             /\ \A key : TextAt(a, n, key) = TextAt(b, n, key)
  <2>1. ~Secret(n) /\ <<n>> \in DOMAIN b /\ <<n>>[1] = n
    BY <1>3, <1>7
  <2>2. <<n>> \in DOMAIN a
    BY <1>4, <2>1
  <2>3. {r \in DOMAIN a : Front(r) = <<n>>} = {r \in DOMAIN b : Front(r) = <<n>>}
    <3>1. ASSUME NEW r \in DOMAIN b, Front(r) = <<n>> PROVE r \in DOMAIN a
      BY <1>4, <1>6, <2>1, <3>1, KeyBelow
    <3>2. QED
      BY <1>4, <3>1
  <2>4. KeysAt(a, <<n>>) = KeysAt(b, <<n>>)
    BY <2>3 DEF KeysAt
  <2>5. ASSUME NEW key PROVE TextAt(a, n, key) = TextAt(b, n, key)
    <3> DEFINE p == <<n, key>>
               text(leaf) == IF leaf.kind = "string" THEN leaf.is ELSE ""
    <3>1. p[1] = n
      OBVIOUS
    <3>2. TextAt(a, n, key) = IF p \in DOMAIN a THEN text(a[p]) ELSE ""
      BY DEF TextAt
    <3>3. TextAt(b, n, key) = IF p \in DOMAIN b THEN text(b[p]) ELSE ""
      BY DEF TextAt
    <3> HIDE DEF p, text
    <3>4. p \in DOMAIN a <=> p \in DOMAIN b
      BY <1>4, <2>1, <3>1
    <3>5. p \in DOMAIN a => a[p] = b[p]
      BY <1>5
    <3>6. CASE p \in DOMAIN a
      <4>1. a[p] = b[p] /\ p \in DOMAIN b
        BY <3>4, <3>5, <3>6
      <4>2. QED
        BY <3>2, <3>3, <3>6, <4>1
    <3>7. CASE p \notin DOMAIN a
      BY <3>2, <3>3, <3>4, <3>7
    <3>8. QED
      BY <3>6, <3>7
  <2>6. QED
    BY <1>5, <2>2, <2>4, <2>5
<1>9. Alike(a, b)
  BY <1>7, <1>8 DEF Alike
<1>10. QED
  BY <1>4, <1>9 DEF a, b

(* Of what is no secret, the same is found.                                 *)
LEMMA AlikeFileRefs ==
  ASSUME NEW a, NEW b, Alike(a, b), NEW n \in NamesGiven(a)
  PROVE  /\ ~Secret(n) /\ n \in NamesGiven(b) /\ (IsNil(a, n) <=> IsNil(b, n))
         /\ IsFileRef(a, n) <=> IsFileRef(b, n)
         /\ FileRefOf(a, n) = FileRefOf(b, n)
<1>1. /\ ~Secret(n) /\ n \in NamesGiven(b)
      /\ a[<<n>>] = b[<<n>>] /\ KeysAt(a, <<n>>) = KeysAt(b, <<n>>)
      /\ \A key : TextAt(a, n, key) = TextAt(b, n, key)
  BY DEF Alike
<1>2. IsNil(a, n) <=> IsNil(b, n)
  BY <1>1 DEF IsNil
<1>3. IsFileRef(a, n) <=> IsFileRef(b, n)
  BY <1>1 DEF IsFileRef
<1>4. FileRefOf(a, n) = FileRefOf(b, n)
  BY <1>1 DEF FileRefOf
<1>5. QED
  BY <1>1, <1>2, <1>3, <1>4

(* Documents that are alike but for secrets give the same run.              *)
LEMMA AlikeRuns ==
  ASSUME NEW a, NEW b, Alike(a, b)
  PROVE  RunInput(a) = RunInput(b) /\ RunInput(a) \subseteq NamesGiven(a)
<1>1. RunInput(a) \subseteq NamesGiven(a)
  BY DEF RunInput
<1>2. ASSUME NEW n PROVE n \in RunInput(a) <=> n \in RunInput(b)
  <2>1. n \in NamesGiven(a) <=> n \in NamesGiven(b) /\ ~Secret(n)
    BY DEF Alike
  <2>2. n \in NamesGiven(a) => (IsNil(a, n) <=> IsNil(b, n)) /\ (IsFileRef(a, n) <=> IsFileRef(b, n))
    BY AlikeFileRefs
  <2>3. n \in RunInput(a) <=> /\ n \in NamesGiven(a) /\ ~Secret(n)
                              /\ (TypeNamed(n) = "file" /\ ~IsNil(a, n)) => IsFileRef(a, n)
    BY DEF RunInput, Secret
  <2>4. n \in RunInput(b) <=> /\ n \in NamesGiven(b) /\ ~Secret(n)
                              /\ (TypeNamed(n) = "file" /\ ~IsNil(b, n)) => IsFileRef(b, n)
    BY DEF RunInput, Secret
  <2>5. QED
    BY <2>1, <2>2, <2>3, <2>4
<1>3. QED
  BY <1>1, <1>2

(* And the schema finds the same of both.                                   *)
LEMMA AlikeSchemas ==
  ASSUME NEW a, NEW b, Alike(a, b), NEW at, NEW code
  PROVE  AgainstSchema(a, at, code) = AgainstSchema(b, at, code)
<1> DEFINE run == RunInput(b)
           of(x, i) == Findings(If(/\ Visible(InputFields[i], x, run)
                                   /\ IF InputFields[i].name \in run /\ ~IsNil(x, InputFields[i].name)
                                      THEN KindFails(InputFields[i], x[<<InputFields[i].name>>])
                                      ELSE InputFields[i].required /\ InputFields[i].type # "secret", code),
                                Append(at, InputFields[i].name))
<1>1. RunInput(a) = run /\ run \subseteq NamesGiven(a)
  BY AlikeRuns
<1>2. AgainstSchema(a, at, code) = UNION {of(a, i) : i \in JudgedFields}
  BY <1>1 DEF AgainstSchema
<1>3. AgainstSchema(b, at, code) = UNION {of(b, i) : i \in JudgedFields}
  BY DEF AgainstSchema
<1>4. \A n \in run : a[<<n>>] = b[<<n>>] /\ (IsNil(a, n) <=> IsNil(b, n))
  BY <1>1, AlikeFileRefs DEF Alike
<1>5. ASSUME NEW i \in JudgedFields PROVE of(a, i) = of(b, i)
  <2> DEFINE f == InputFields[i]
  <2> HIDE DEF run
  <2>1. Visible(f, a, run) <=> Visible(f, b, run)
    <3> HIDE DEF f
    <3>1. f.when.field \in run => a[<<f.when.field>>] = b[<<f.when.field>>]
      BY <1>4
    <3>2. QED
      BY <3>1 DEF Visible
  <2>2. f.name \in run => a[<<f.name>>] = b[<<f.name>>] /\ (IsNil(a, f.name) <=> IsNil(b, f.name))
    BY <1>4
  <2>3. QED
    BY <2>1, <2>2
<1> HIDE DEF of
<1>6. QED
  BY <1>2, <1>3, <1>5

(* Codes of no secret, of no text that looks like one, and of no input that *)
(* is too large.                                                            *)
Ordinary(codes) ==
  \A c \in codes : c \notin {"example_secret_value", "example_secret_like_value", "example_input_too_large"}

(* The codes of a file reference are ordinary.                              *)
LEMMA FileRefCodesOrdinary == \A ref : Ordinary(FileRefCodes(ref))
BY ZenonT(60) DEF Ordinary, FileRefCodes, If

(* And a value that both hold has the same codes.                           *)
LEMMA AlikeValues ==
  ASSUME NEW a, NEW b, Alike(a, b), NEW n \in NamesGiven(a), NEW code
  PROVE  ValueCodes(a, n, code) = ValueCodes(b, n, code)
<1>1. (IsNil(a, n) <=> IsNil(b, n)) /\ (IsFileRef(a, n) <=> IsFileRef(b, n)) /\ FileRefOf(a, n) = FileRefOf(b, n)
  BY AlikeFileRefs
<1>2. QED
  BY <1>1 DEF ValueCodes

(* The codes of a value that is no secret are ordinary.                     *)
LEMMA ValuesOfPublic ==
  ASSUME NEW b, NEW n, ~Secret(n), NEW code, Ordinary({code})
  PROVE  Ordinary(ValueCodes(b, n, code))
<1>1. \A c : Ordinary(If(c, code))
  BY DEF Ordinary, If
<1>2. Ordinary({"example_file_input_needs_ref"})
  BY DEF Ordinary
<1>3. CASE IsNil(b, n)
  BY <1>1, <1>3 DEF ValueCodes
<1>4. CASE ~IsNil(b, n)
  BY <1>1, <1>2, <1>4, FileRefCodesOrdinary DEF ValueCodes, Secret
<1>5. QED
  BY <1>3, <1>4

(* The codes of a secret.                                                   *)
LEMMA ValuesOfSecret ==
  ASSUME NEW b, NEW n, Secret(n), NEW code
  PROVE  ValueCodes(b, n, code) = If(~IsNil(b, n), "example_secret_value")
<1>1. Named(n) # {} /\ TypeNamed(n) = "secret"
  BY DEF Secret, TypeNamed
<1>2. QED
  BY <1>1 DEF ValueCodes, If

(* What is found of an input, without its secrets, and its secrets.         *)
Large(at) == Finding("example_input_too_large", at, 0)
SecretFindings(at, names) == {Finding("example_secret_value", Append(at, n), 0) : n \in names}
WithoutSecrets(found) == {f \in found : f.code # "example_secret_value"}
OnlySecrets(found) == {f \in found : f.code = "example_secret_value"}
HasKinds(d) == \A p \in DOMAIN d : "kind" \in DOMAIN d[p]

(* An input that is not too large is judged as it would be without its      *)
(* secrets, but that these are reported.                                    *)
JudgedApart(d, at, code) ==
  /\ Large(at) \notin InputFindings(d, at, code)
  /\ WithoutSecrets(InputFindings(d, at, code)) = InputFindings(Public(d), at, code)
  /\ HasKinds(d) => OnlySecrets(InputFindings(d, at, code)) = SecretFindings(at, SecretsGiven(d))

(* Findings of ordinary codes.                                              *)
LEMMA FindingsOf ==
  ASSUME NEW codes, NEW at, Ordinary(codes)
  PROVE  \A f \in Findings(codes, at) :
           f.code \in codes /\ f.code # "example_secret_value" /\ \A t : f # Large(t)
<1>1. \A f \in Findings(codes, at) : f.code \in codes
  BY FindingsCode
<1>2. \A t : Large(t).code = "example_input_too_large"
  BY DEF Large, Finding
<1>3. QED
  BY <1>1, <1>2 DEF Ordinary

(* The schema's own findings.                                               *)
LEMMA SchemasOrdinary ==
  ASSUME NEW b, NEW at, NEW code, Ordinary({code})
  PROVE  \A f \in AgainstSchema(b, at, code) : f.code = code
<1> SUFFICES ASSUME NEW f \in AgainstSchema(b, at, code) PROVE f.code = code
  OBVIOUS
<1>1. PICK c, i : f \in Findings(If(c, code), Append(at, InputFields[i].name))
  BY DEF AgainstSchema
<1>2. QED
  BY <1>1, FindingsCode DEF If

(* Without a schema of fields nothing is secret.                            *)
LEMMA NoSecrets ==
  ASSUME flow.inputSchema \in {Absent, Other}, NEW d, d = [p \in DOMAIN d |-> d[p]]
  PROVE  Public(d) = d /\ SecretsGiven(d) = {} /\ \A n : ~Secret(n)
<1>1. InputFields = <<>>
  BY DEF InputFields, FieldsOf
<1>2. JudgedFields = {}
  BY <1>1 DEF JudgedFields
<1>3. \A n : Named(n) = {}
  BY <1>2 DEF Named
<1>4. \A n : TypeNamed(n) = ""
  BY <1>3 DEF TypeNamed
<1>5. \A n : ~Secret(n)
  BY <1>4 DEF Secret
<1>6. SecretsGiven(d) = {}
  BY <1>5 DEF SecretsGiven
<1>7. Public(d) = [p \in DOMAIN d |-> d[p]]
  BY <1>5 DEF Public
<1>8. QED
  BY <1>5, <1>6, <1>7

(* Where the schema judges.                                                 *)
LEMMA SchemaJudgesApart ==
  ASSUME NEW d, IsDocument(d), IsFiniteSet(DOMAIN d), NEW at, NEW code, Ordinary({code}),
         flow.inputSchema \notin {Absent, Other},
         ~(Cardinality(DOMAIN Normalised(d)) > MaxEntries), ~(Cardinality(DOMAIN Normalised(Public(d))) > MaxEntries)
  PROVE  JudgedApart(d, at, code)
<1> DEFINE b == Normalised(d)
           a == Normalised(Public(d))
           of(x, n) == Findings(ValueCodes(x, n, code), Append(at, n))
           values(x) == UNION {of(x, n) : n \in NamesGiven(x)}
           schema == AgainstSchema(b, at, code)
           F == InputFindings(d, at, code)
<1>1. F = schema \cup values(b)
  BY DEF InputFindings
<1>2. Alike(a, b) /\ NamesGiven(b) = NamesGiven(d) /\ \A n \in NamesGiven(d) : <<n>> \in DOMAIN b
  BY PublicAlike, NormalisedFacts
<1>3. InputFindings(Public(d), at, code) = schema \cup values(a)
  <2>1. InputFindings(Public(d), at, code) = AgainstSchema(a, at, code) \cup values(a)
    BY DEF InputFindings
  <2> HIDE DEF a, b
  <2>2. AgainstSchema(a, at, code) = AgainstSchema(b, at, code)
    BY <1>2, AlikeSchemas
  <2>3. QED
    BY <2>1, <2>2
<1> HIDE DEF a, b
<1>4. \A f \in schema : f.code # "example_secret_value" /\ \A t : f # Large(t)
  <2>1. \A f \in schema : f.code = code
    BY SchemasOrdinary
  <2>2. \A t : Large(t).code = "example_input_too_large"
    BY DEF Large, Finding
  <2>3. QED
    BY <2>1, <2>2 DEF Ordinary
<1>5. NamesGiven(a) = {n \in NamesGiven(b) : ~Secret(n)}
  BY <1>2 DEF Alike
<1>6. \A n \in NamesGiven(a) : of(a, n) = of(b, n)
  BY <1>2, AlikeValues
<1>7. ASSUME NEW n, ~Secret(n) PROVE \A f \in of(b, n) : f.code # "example_secret_value" /\ \A t : f # Large(t)
  <2>1. Ordinary(ValueCodes(b, n, code))
    BY <1>7, ValuesOfPublic
  <2>2. QED
    BY <2>1, FindingsOf
<1>8. ASSUME NEW n, Secret(n)
      PROVE  of(b, n) = IF IsNil(b, n) THEN {} ELSE {Finding("example_secret_value", Append(at, n), 0)}
  BY <1>8, ValuesOfSecret DEF Findings, If
<1>9. \A t, n : Finding("example_secret_value", t, n).code = "example_secret_value"
                /\ \A u : Finding("example_secret_value", t, n) # Large(u)
  <2>1. \A t, n : Finding("example_secret_value", t, n).code = "example_secret_value"
    BY DEF Finding
  <2>2. \A t : Large(t).code = "example_input_too_large"
    BY DEF Large, Finding
  <2>3. QED
    BY <2>1, <2>2
<1> HIDE DEF of, schema
<1>10. \A n \in NamesGiven(b) : \A f \in of(b, n) : f # Large(at)
  BY <1>7, <1>8, <1>9
<1>11. Large(at) \notin F
  BY <1>1, <1>4, <1>10
<1>12. WithoutSecrets(F) = schema \cup values(a)
  <2>1. ASSUME NEW f \in F, f.code # "example_secret_value" PROVE f \in schema \cup values(a)
    <3>1. SUFFICES ASSUME NEW n \in NamesGiven(b), f \in of(b, n) PROVE f \in values(a)
      BY <1>1
    <3>2. ~Secret(n)
      BY <1>8, <1>9, <2>1, <3>1
    <3>3. QED
      BY <1>5, <1>6, <3>1, <3>2
  <2>2. ASSUME NEW f \in schema \cup values(a) PROVE f \in F /\ f.code # "example_secret_value"
    <3>1. CASE f \in schema
      BY <1>1, <1>4, <3>1
    <3>2. ASSUME NEW n \in NamesGiven(a), f \in of(a, n) PROVE f \in F /\ f.code # "example_secret_value"
      <4>1. n \in NamesGiven(b) /\ ~Secret(n) /\ f \in of(b, n)
        BY <1>5, <1>6, <3>2
      <4>2. QED
        BY <1>1, <1>7, <4>1
    <3>3. QED
      BY <2>2, <3>1, <3>2
  <2>3. QED
    BY <2>1, <2>2 DEF WithoutSecrets
<1>13. ASSUME HasKinds(d) PROVE OnlySecrets(F) = SecretFindings(at, SecretsGiven(d))
  <2>1. ASSUME NEW n \in NamesGiven(d) PROVE IsNil(b, n) <=> IsNil(d, n)
    <3>1. <<n>> \in DOMAIN b /\ <<n>> \in DOMAIN d /\ Len(<<n>>) = 1 /\ ~(1 > MaxDepth)
      BY <1>2, DocumentNames, DepthAssumption
    <3>2. b[<<n>>] = IF d[<<n>>].kind = "time" THEN [d[<<n>>] EXCEPT !.kind = "string"] ELSE d[<<n>>]
      BY <3>1 DEF b, Normalised
    <3>3. "kind" \in DOMAIN d[<<n>>]
      BY <1>13, <3>1 DEF HasKinds
    <3>4. d[<<n>>].kind = "time" => b[<<n>>].kind = "string"
      BY <3>2, <3>3
    <3>5. QED
      BY <3>2, <3>4 DEF IsNil
  <2>2. ASSUME NEW f \in F, f.code = "example_secret_value" PROVE f \in SecretFindings(at, SecretsGiven(d))
    <3>1. PICK n \in NamesGiven(b) : f \in of(b, n)
      BY <1>1, <1>4, <2>2
    <3>2. Secret(n)
      BY <1>7, <2>2, <3>1
    <3>3. ~IsNil(b, n) /\ f = Finding("example_secret_value", Append(at, n), 0)
      BY <1>8, <3>1, <3>2
    <3>4. n \in SecretsGiven(d)
      BY <1>2, <2>1, <3>1, <3>2, <3>3 DEF SecretsGiven
    <3>5. QED
      BY <3>3, <3>4 DEF SecretFindings
  <2>3. ASSUME NEW n \in SecretsGiven(d)
        PROVE  /\ Finding("example_secret_value", Append(at, n), 0) \in F
               /\ Finding("example_secret_value", Append(at, n), 0).code = "example_secret_value"
    <3>1. n \in NamesGiven(b) /\ Secret(n) /\ ~IsNil(b, n)
      BY <1>2, <2>1 DEF SecretsGiven
    <3>2. Finding("example_secret_value", Append(at, n), 0) \in of(b, n)
      BY <1>8, <3>1
    <3>3. QED
      BY <1>1, <1>9, <3>1, <3>2
  <2>4. QED
    BY <2>2, <2>3 DEF OnlySecrets, SecretFindings
<1>14. QED
  BY <1>3, <1>11, <1>12, <1>13 DEF JudgedApart

(* Without one.                                                             *)
LEMMA PlainlyJudged ==
  ASSUME NEW d, d = [p \in DOMAIN d |-> d[p]], NEW at, NEW code, Ordinary({code}), flow.inputSchema \in {Absent, Other},
         ~(Cardinality(DOMAIN Normalised(d)) > MaxEntries)
  PROVE  JudgedApart(d, at, code)
<1> DEFINE b == Normalised(d)
           F == InputFindings(d, at, code)
<1>1. Public(d) = d /\ SecretsGiven(d) = {}
  BY NoSecrets
<1>2. \/ F = {}
      \/ F = UNION {Findings(If(n \notin flow.query, code), Append(at, n)) : n \in NamesGiven(b)}
      \/ F = {Finding("example_input_unvalidated", at, 0)}
  BY DEF InputFindings
<1> HIDE DEF b
<1>3. \A f \in F : f.code # "example_secret_value" /\ f # Large(at)
  <2>1. ASSUME NEW n PROVE \A f \in Findings(If(n \notin flow.query, code), Append(at, n)) :
                             f.code # "example_secret_value" /\ f # Large(at)
    <3>1. Ordinary(If(n \notin flow.query, code))
      BY DEF Ordinary, If
    <3>2. QED
      BY <3>1, FindingsOf
  <2>2. Finding("example_input_unvalidated", at, 0).code = "example_input_unvalidated" /\ Large(at).code = "example_input_too_large"
    BY DEF Finding, Large
  <2>3. QED
    BY <1>2, <2>1, <2>2
<1> HIDE DEF F
<1>4. WithoutSecrets(F) = F /\ OnlySecrets(F) = {} /\ SecretFindings(at, SecretsGiven(d)) = {}
  BY <1>1, <1>3 DEF WithoutSecrets, OnlySecrets, SecretFindings
<1>5. QED
  BY <1>1, <1>3, <1>4 DEF JudgedApart, F

(* An input is too large, or it is judged apart from its secrets.           *)
LEMMA InputJudged ==
  ASSUME NEW d, IsDocument(d), IsFiniteSet(DOMAIN d), NEW at, NEW code, Ordinary({code})
  PROVE  InputFindings(d, at, code) = {Large(at)} \/ JudgedApart(d, at, code)
<1> DEFINE b == Normalised(d)
           a == Normalised(Public(d))
<1>1. CASE Cardinality(DOMAIN b) > MaxEntries
  BY <1>1 DEF InputFindings, Large
<1>2. CASE ~(Cardinality(DOMAIN b) > MaxEntries)
  <2>1. DOMAIN a \subseteq DOMAIN b /\ DOMAIN b \subseteq DOMAIN d
    BY PublicAlike, NormalisedFacts
  <2>2. IsFiniteSet(DOMAIN b)
    BY <2>1, FS_Subset
  <2>3. /\ Cardinality(DOMAIN a) \in Nat /\ Cardinality(DOMAIN b) \in Nat /\ Cardinality(DOMAIN a) <= Cardinality(DOMAIN b)
    BY <2>1, <2>2, FS_Subset, FS_CardinalityType
  <2>4. ~(Cardinality(DOMAIN a) > MaxEntries)
    BY <1>2, <2>3, EntriesAssumption
  <2>5. d = [p \in DOMAIN d |-> d[p]]
    BY DEF IsDocument
  <2>6. QED
    BY <1>2, <2>4, <2>5, SchemaJudgesApart, PlainlyJudged
<1>3. QED
  BY <1>1, <1>2

(* Where the findings of an input stand.                                    *)
LEMMA InputStands ==
  ASSUME NEW d, NEW at, IsPlace(at), NEW code, Ordinary({code})
  PROVE  \A f \in InputFindings(d, at, code) : Begins(f.at, at) /\ f.code # "example_secret_like_value"
<1> DEFINE b == Normalised(d)
<1>1. Begins(at, at) /\ \A n : Begins(Append(at, n), at)
  BY BeginsItself, PlaceAppend
<1>2. \A codes, t : \A f \in Findings(codes, t) : f.at = t /\ f.code \in codes
  BY DEF Findings, Finding
<1>3. ASSUME NEW f \in AgainstSchema(b, at, code) PROVE Begins(f.at, at) /\ f.code # "example_secret_like_value"
  <2>1. PICK c, i : f \in Findings(If(c, code), Append(at, InputFields[i].name))
    BY <1>3 DEF AgainstSchema
  <2>2. QED
    BY <1>1, <1>2, <2>1 DEF If, Ordinary
<1>4. ASSUME NEW n, NEW f \in Findings(ValueCodes(b, n, code), Append(at, n))
      PROVE  Begins(f.at, at) /\ f.code # "example_secret_like_value"
  <2>1. f.at = Append(at, n) /\ f.code \in ValueCodes(b, n, code)
    BY <1>2
  <2>2. "example_secret_like_value" \notin ValueCodes(b, n, code)
    <3>1. CASE Secret(n)
      BY <3>1, ValuesOfSecret DEF If
    <3>2. CASE ~Secret(n)
      BY <3>2, ValuesOfPublic DEF Ordinary
    <3>3. QED
      BY <3>1, <3>2
  <2>3. QED
    BY <1>1, <2>1, <2>2
<1>5. ASSUME NEW n, NEW f \in Findings(If(n \notin flow.query, code), Append(at, n))
      PROVE  Begins(f.at, at) /\ f.code # "example_secret_like_value"
  BY <1>1, <1>2 DEF If, Ordinary
<1>6. \A c : c \in {"example_input_too_large", "example_input_unvalidated"} =>
        Begins(Finding(c, at, 0).at, at) /\ Finding(c, at, 0).code # "example_secret_like_value"
  BY <1>1 DEF Finding
<1>7. ASSUME NEW f \in InputFindings(d, at, code)
      PROVE  \/ f \in AgainstSchema(b, at, code)
             \/ \E n : f \in Findings(ValueCodes(b, n, code), Append(at, n))
             \/ \E n : f \in Findings(If(n \notin flow.query, code), Append(at, n))
             \/ f = Finding("example_input_too_large", at, 0) \/ f = Finding("example_input_unvalidated", at, 0)
  BY <1>7 DEF InputFindings
<1> HIDE DEF b
<1>8. QED
  BY <1>3, <1>4, <1>5, <1>6, <1>7

------------------------------------------------------------------------------
(* What is told of secrets and of inputs: the secrets, and whatever stands  *)
(* in an input or in a patch but for the texts that look like credentials.  *)
InPlace(t) == (\E i \in Judged : IsPrefix(InputAt(i), t)) \/ \E s \in Patched : IsPrefix(PatchAt(s), t)
Told(found) ==
  {f \in found : \/ f.code = "example_secret_value"
                 \/ f.code # "example_secret_like_value" /\ InPlace(f.at)}

InputCode == "example_input_invalid"
PatchCode == "example_variant_input_invalid"
OfInput(i) ==
  IF IsRecord(flow.examples[i].input) THEN InputFindings(InputGiven(i), InputAt(i), InputCode) ELSE {}
OwnSecrets(s) == SecretFindings(PatchAt(s), SecretsPatched(PatchGiven(s)))
MergedGiven(s) == RFC7386(InputGiven(s[1]), Within(PatchGiven(s)))
OfPatch(s) == WithoutSecrets(InputFindings(MergedGiven(s), PatchAt(s), PatchCode))
Owed(I, B, D) == (UNION {OfInput(i) : i \in I}) \cup (UNION {OwnSecrets(s) : s \in B}) \cup UNION {OfPatch(s) : s \in D}

InputsDone == {i \in Judged : phase = "done" \/ i < example \/ (i = example /\ phase \in {"variant", "merge", "scan"})}
Begun(s) == phase = "done" \/ s[1] < example \/ (s[1] = example /\ (phase = "scan" \/ (phase \in {"variant", "merge"} /\ s[2] < variant)))
PatchesDone == {s \in Patched : Begun(s)}
PatchesBegun == {s \in Patched : Begun(s) \/ (phase = "merge" /\ s = <<example, variant>>)}

SecretsInv == Told(findings) = Owed(InputsDone, PatchesBegun, PatchesDone)

(* Inputs and patches of the flow.                                          *)
LEMMA JudgedFacts ==
  ASSUME flow \in Flows, NEW i \in Judged
  PROVE  /\ i \in 1..Len(flow.examples) /\ i \in DOMAIN Index /\ flow.examples[i] # Other
         /\ IsDocument(InputGiven(i)) /\ IsFiniteSet(DOMAIN InputGiven(i)) /\ HasKinds(InputGiven(i))
<1>1. i \in 1..Len(flow.examples) /\ flow.examples[i] # Other
  BY DEF Judged
<1> DEFINE ex == flow.examples[i]
           documents == {InputOf(ex)} \cup {ex.variants[j].patch : j \in {k \in 1..Len(ex.variants) : ex.variants[k] # Other}}
<1>2. /\ i \in DOMAIN Index
      /\ \A d \in documents : IsDocument(d) /\ IsFiniteSet(DOMAIN d) /\ \A p \in DOMAIN d : "kind" \in DOMAIN d[p]
  BY <1>1, DocumentsAssumption
<1>3. InputOf(ex) \in documents
  OBVIOUS
<1> HIDE DEF documents
<1>4. QED
  BY <1>1, <1>2, <1>3 DEF InputGiven, HasKinds

(* A scenario with a patch.                                                 *)
LEMMA PatchedFacts ==
  ASSUME flow \in Flows, NEW s \in Patched
  PROVE  /\ s = <<s[1], s[2]>> /\ s[1] \in Judged /\ s[2] \in 1..Len(flow.examples[s[1]].variants)
         /\ s[1] \in DOMAIN Index /\ s[2] \in DOMAIN Index /\ flow.examples[s[1]].variants[s[2]] # Other
         /\ Patches(flow.examples[s[1]].variants[s[2]])
         /\ IsDocument(PatchGiven(s)) /\ IsFiniteSet(DOMAIN PatchGiven(s))
<1>1. PICK i \in Judged : \E j \in {k \in 1..Len(flow.examples[i].variants) : Patches(flow.examples[i].variants[k])} : s = <<i, j>>
  BY DEF Patched
<1>2. PICK j \in 1..Len(flow.examples[i].variants) : Patches(flow.examples[i].variants[j]) /\ s = <<i, j>>
  BY <1>1
<1>3. s[1] = i /\ s[2] = j /\ flow.examples[i].variants[j] # Other
  BY <1>2 DEF Patches
<1>4. i \in 1..Len(flow.examples) /\ i \in DOMAIN Index /\ flow.examples[i] # Other
  BY JudgedFacts
<1> DEFINE ex == flow.examples[i]
           documents == {InputOf(ex)} \cup {ex.variants[k].patch : k \in {m \in 1..Len(ex.variants) : ex.variants[m] # Other}}
<1>5. /\ 1..Len(ex.variants) \subseteq DOMAIN Index
      /\ \A d \in documents : IsDocument(d) /\ IsFiniteSet(DOMAIN d)
  BY <1>4, DocumentsAssumption
<1>6. ex.variants[j].patch \in documents
  BY <1>2, <1>3
<1> HIDE DEF documents
<1>7. QED
  BY <1>2, <1>3, <1>4, <1>5, <1>6 DEF PatchGiven

(* A scenario with a patch is one of an example with an input.              *)
LEMMA PatchedGiven ==
  ASSUME NEW i, NEW j
  PROVE  <<i, j>> \in Patched <=> /\ i \in Judged /\ j \in 1..Len(flow.examples[i].variants)
                                  /\ Patches(flow.examples[i].variants[j])
BY DEF Patched

(* The codes inputs and patches are judged with.                            *)
LEMMA CodesOrdinary == Ordinary({InputCode}) /\ Ordinary({PatchCode})
BY DEF Ordinary, InputCode, PatchCode

(* Where they stand.                                                        *)
LEMMA OfInputStands ==
  ASSUME NEW i
  PROVE  \A f \in OfInput(i) : Begins(f.at, InputAt(i)) /\ f.code # "example_secret_like_value"
BY InputPlace, InputStands, CodesOrdinary DEF OfInput

(* What a patched input is told stands in the patch, and is of no secret.   *)
LEMMA OfPatchStands ==
  ASSUME NEW s
  PROVE  \A f \in OfPatch(s) : Begins(f.at, PatchAt(s)) /\ f.code \notin {"example_secret_like_value", "example_secret_value"}
<1>1. \A f \in InputFindings(MergedGiven(s), PatchAt(s), PatchCode) : Begins(f.at, PatchAt(s)) /\ f.code # "example_secret_like_value"
  BY PatchPlace, InputStands, CodesOrdinary
<1>2. QED
  BY <1>1 DEF OfPatch, WithoutSecrets

(* The secrets of a patch stand in it.                                      *)
LEMMA OwnSecretsStand ==
  ASSUME NEW s
  PROVE  \A f \in OwnSecrets(s) : Begins(f.at, PatchAt(s)) /\ f.code = "example_secret_value"
<1>1. \A n : Begins(Append(PatchAt(s), n), PatchAt(s))
  BY PatchPlace, PlaceAppend
<1>2. \A n : /\ Finding("example_secret_value", Append(PatchAt(s), n), 0).at = Append(PatchAt(s), n)
              /\ Finding("example_secret_value", Append(PatchAt(s), n), 0).code = "example_secret_value"
  BY DEF Finding
<1>3. QED
  BY <1>1, <1>2 DEF OwnSecrets, SecretFindings

(* What stands in an input is in place.                                     *)
LEMMA PlaceOfInput ==
  ASSUME NEW i, NEW t, Begins(t, InputAt(i))
  PROVE  /\ IsPrefix(InputAt(i), t)
         /\ i \in Judged => InPlace(t)
<1>1. IsPrefix(InputAt(i), t)
  BY InputPlace, PrefixBegins DEF Begins
<1>2. QED
  BY <1>1 DEF InPlace

(* What stands in a patch is in place.                                      *)
LEMMA PlaceOfPatch ==
  ASSUME NEW s, NEW t, Begins(t, PatchAt(s))
  PROVE  /\ IsPrefix(PatchAt(s), t)
         /\ s \in Patched => InPlace(t)
<1>1. IsPrefix(PatchAt(s), t)
  BY PatchPlace, PrefixBegins DEF Begins
<1>2. QED
  BY <1>1 DEF InPlace

(* What is told.                                                            *)
LEMMA ToldParts ==
  /\ \A A, B : Told(A \cup B) = Told(A) \cup Told(B)
  /\ \A found : Quiet(found) => Told(found) = {}
  /\ Told({}) = {}
<1>1. \A A, B : Told(A \cup B) = Told(A) \cup Told(B)
  BY DEF Told
<1>2. ASSUME NEW t, Off(t) PROVE ~InPlace(t)
  <2>1. IsPlace(t) /\ (\A i : ~Begins(t, InputAt(i))) /\ \A s : ~Begins(t, PatchAt(s))
    BY <1>2, OffApart DEF Off
  <2>2. \A i : ~IsPrefix(InputAt(i), t)
    BY <2>1, InputPlace, PrefixBegins
  <2>3. \A s : ~IsPrefix(PatchAt(s), t)
    BY <2>1, PatchPlace, PrefixBegins
  <2>4. QED
    BY <2>2, <2>3 DEF InPlace
<1>3. \A found : Quiet(found) => Told(found) = {}
  BY <1>2 DEF Quiet, Told
<1>4. Told({}) = {}
  BY DEF Told
<1>5. QED
  BY <1>1, <1>3, <1>4

(* All that an input is told is told of inputs and secrets.                 *)
LEMMA ToldOfInput ==
  ASSUME NEW i \in Judged
  PROVE  Told(OfInput(i)) = OfInput(i)
<1>1. \A f \in OfInput(i) : f.code # "example_secret_like_value" /\ InPlace(f.at)
  BY OfInputStands, PlaceOfInput
<1>2. QED
  BY <1>1 DEF Told

(* So is all that a patch is told.                                          *)
LEMMA ToldOfPatch ==
  ASSUME NEW s \in Patched
  PROVE  Told(OfPatch(s)) = OfPatch(s) /\ Told(OwnSecrets(s)) = OwnSecrets(s)
<1>1. \A f \in OfPatch(s) : f.code # "example_secret_like_value" /\ InPlace(f.at)
  BY OfPatchStands, PlaceOfPatch
<1>2. \A f \in OwnSecrets(s) : f.code = "example_secret_value"
  BY OwnSecretsStand
<1>3. QED
  BY <1>1, <1>2 DEF Told

(* While the flow is the same, so is what is owed of it.                    *)
LEMMA SameSchema ==
  ASSUME flow' = flow
  PROVE  /\ InputFields' = InputFields /\ JudgedFields' = JudgedFields
         /\ \A n : Named(n)' = Named(n) /\ TypeNamed(n)' = TypeNamed(n) /\ (Secret(n)' <=> Secret(n))
<1>1. InputFields' = InputFields
  BY DEF InputFields, FieldsOf
<1>2. JudgedFields' = JudgedFields
  BY <1>1 DEF JudgedFields
<1>3. \A n : Named(n)' = Named(n)
  BY <1>1, <1>2 DEF Named
<1>4. \A n : TypeNamed(n)' = TypeNamed(n)
  BY <1>1, <1>3 DEF TypeNamed
<1>5. QED
  BY <1>1, <1>2, <1>3, <1>4 DEF Secret

(* What is found of an input depends on the flow only.                      *)
LEMMA SameJudging ==
  ASSUME flow' = flow
  PROVE  \A d, at, code : InputFindings(d, at, code)' = InputFindings(d, at, code)
<1> SUFFICES ASSUME NEW d, NEW at, NEW code PROVE InputFindings(d, at, code)' = InputFindings(d, at, code)
  OBVIOUS
<1>1. \A b : RunInput(b)' = RunInput(b)
  BY SameSchema DEF RunInput
<1>2. \A b : AgainstSchema(b, at, code)' = AgainstSchema(b, at, code)
  BY <1>1, SameSchema DEF AgainstSchema
<1>3. \A b, n : ValueCodes(b, n, code)' = ValueCodes(b, n, code)
  BY SameSchema DEF ValueCodes
<1>4. QED
  BY <1>2, <1>3 DEF InputFindings

(* So does what is owed.                                                    *)
LEMMA SameOwed ==
  ASSUME flow' = flow
  PROVE  /\ Judged' = Judged /\ Patched' = Patched
         /\ \A t : InPlace(t)' <=> InPlace(t)
         /\ \A i : OfInput(i)' = OfInput(i)
         /\ \A s : OwnSecrets(s)' = OwnSecrets(s) /\ OfPatch(s)' = OfPatch(s)
<1>1. Judged' = Judged
  BY DEF Judged, HasInput
<1>2. Patched' = Patched
  BY <1>1 DEF Patched, Patches
<1>3. \A t : InPlace(t)' <=> InPlace(t)
  BY <1>1, <1>2 DEF InPlace
<1>4. \A i : OfInput(i)' = OfInput(i)
  <2>1. \A i : InputGiven(i)' = InputGiven(i)
    BY DEF InputGiven, InputOf, IsRecord
  <2>2. QED
    BY <2>1, SameJudging DEF OfInput, IsRecord
<1>5. \A s : OwnSecrets(s)' = OwnSecrets(s)
  BY SameSchema DEF OwnSecrets, SecretsPatched, PatchGiven
<1>6. \A s : OfPatch(s)' = OfPatch(s)
  <2>1. \A s : MergedGiven(s)' = MergedGiven(s)
    BY DEF MergedGiven, InputGiven, InputOf, IsRecord, PatchGiven
  <2>2. QED
    BY <2>1, SameJudging DEF OfPatch
<1>7. QED
  BY <1>1, <1>2, <1>3, <1>4, <1>5, <1>6

(* A step that reports what is owed of what it is done with.                *)
LEMMA OwedMore ==
  ASSUME NEW I, NEW B, NEW D, NEW X, NEW Y, NEW Z
  PROVE  Owed(I \cup X, B \cup Y, D \cup Z) = Owed(I, B, D) \cup Owed(X, Y, Z)
BY DEF Owed

(* A step that tells what it adds to what is owed.                          *)
LEMMA SecretsStep ==
  ASSUME SecretsInv, flow' = flow, NEW found, findings' = findings \cup found,
         NEW X, NEW Y, NEW Z, InputsDone' = InputsDone \cup X, PatchesBegun' = PatchesBegun \cup Y,
         PatchesDone' = PatchesDone \cup Z, Told(found) = Owed(X, Y, Z)
  PROVE  SecretsInv'
<1>1. Told(findings)' = Told(findings \cup found)
  <2>1. \A t : InPlace(t)' <=> InPlace(t)
    BY SameOwed
  <2>2. Told(findings)' = {f \in findings' : \/ f.code = "example_secret_value"
                                             \/ f.code # "example_secret_like_value" /\ InPlace(f.at)'}
    BY DEF Told
  <2>3. QED
    BY <2>1, <2>2 DEF Told
<1>2. Owed(InputsDone, PatchesBegun, PatchesDone)' = Owed(InputsDone', PatchesBegun', PatchesDone')
  BY SameOwed DEF Owed
<1>3. Told(findings \cup found) = Owed(InputsDone, PatchesBegun, PatchesDone) \cup Owed(X, Y, Z)
  BY ToldParts DEF SecretsInv
<1>4. Owed(InputsDone', PatchesBegun', PatchesDone') = Owed(InputsDone \cup X, PatchesBegun \cup Y, PatchesDone \cup Z)
  OBVIOUS
<1>5. @ = Owed(InputsDone, PatchesBegun, PatchesDone) \cup Owed(X, Y, Z)
  BY OwedMore
<1>6. Told(findings)' = Owed(InputsDone, PatchesBegun, PatchesDone)'
  BY <1>1, <1>2, <1>3, <1>4, <1>5
<1>7. QED
  BY <1>6 DEF SecretsInv

(* Nothing is owed of nothing.                                              *)
LEMMA NothingOwed == Owed({}, {}, {}) = {}
BY DEF Owed

(* A step that is done with nothing, and reports nothing of the kind.       *)
LEMMA QuietStep ==
  ASSUME SecretsInv, flow' = flow, NEW found, Quiet(found), findings' = findings \cup found,
         InputsDone' = InputsDone, PatchesBegun' = PatchesBegun, PatchesDone' = PatchesDone
  PROVE  SecretsInv'
<1>1. Told(found) = Owed({}, {}, {})
  BY ToldParts, NothingOwed
<1>2. InputsDone' = InputsDone \cup {} /\ PatchesBegun' = PatchesBegun \cup {} /\ PatchesDone' = PatchesDone \cup {}
  OBVIOUS
<1>3. QED
  BY <1>1, <1>2, SecretsStep

(* What is done, as the walk goes on.                                       *)
IsDone(i) == phase = "done" \/ i < example \/ (i = example /\ phase \in {"variant", "merge", "scan"})

(* When nothing more is done, the same is done.                             *)
LEMMA DoneSame ==
  ASSUME flow' = flow,
         \A i \in Judged : IsDone(i)' <=> IsDone(i),
         \A s \in Patched : Begun(s)' <=> Begun(s),
         \A s \in Patched : (phase = "merge" /\ s = <<example, variant>>)' <=> (phase = "merge" /\ s = <<example, variant>>)
  PROVE  InputsDone' = InputsDone /\ PatchesBegun' = PatchesBegun /\ PatchesDone' = PatchesDone
<1>1. Judged' = Judged /\ Patched' = Patched
  BY SameOwed
<1>2. InputsDone' = InputsDone
  <2>1. InputsDone = {i \in Judged : IsDone(i)}
    BY DEF InputsDone, IsDone
  <2>2. InputsDone' = {i \in Judged' : IsDone(i)'}
    BY DEF InputsDone, IsDone
  <2>3. QED
    BY <1>1, <2>1, <2>2
<1>3. PatchesDone' = PatchesDone
  <2>1. PatchesDone' = {s \in Patched' : Begun(s)'}
    BY DEF PatchesDone
  <2>2. QED
    BY <1>1, <2>1 DEF PatchesDone
<1>4. PatchesBegun' = PatchesBegun
  <2>1. PatchesBegun' = {s \in Patched' : Begun(s)' \/ (phase = "merge" /\ s = <<example, variant>>)'}
    BY DEF PatchesBegun
  <2>2. QED
    BY <1>1, <2>1 DEF PatchesBegun
<1>5. QED
  BY <1>2, <1>3, <1>4

(* Before the examples nothing is done, and the walk is at the first.       *)
LEMMA EarlyDone ==
  ASSUME UNCHANGED <<flow, example>>, phase \in {"schema", "set", "example"}, phase' \in {"schema", "set", "example"}
  PROVE  InputsDone' = InputsDone /\ PatchesBegun' = PatchesBegun /\ PatchesDone' = PatchesDone
<1>1. \A i : IsDone(i)' <=> IsDone(i)
  BY DEF IsDone
<1>2. \A s : Begun(s)' <=> Begun(s)
  BY DEF Begun
<1>3. QED
  BY <1>1, <1>2, DoneSame

(* Before the examples, and at the keys of the block, nothing is owed.      *)
LEMMA EarlySecrets ==
  ASSUME MergeInv, SecretsInv, JudgeSchemas \/ JudgeSet
  PROVE  SecretsInv'
<1>1. CASE JudgeSchemas
  <2>1. phase = "schema" /\ phase' \in {"schema", "set"} /\ UNCHANGED <<flow, example>>
    BY <1>1 DEF JudgeSchemas, SchemaStep, OpenSchema, JudgeField, ResolveConditions, JudgeReserved, Leave, exampleVars
  <2>2. PICK found : Quiet(found) /\ findings' = findings \cup found
    BY <1>1, SchemaStepQuiet DEF JudgeSchemas
  <2>3. InputsDone' = InputsDone /\ PatchesBegun' = PatchesBegun /\ PatchesDone' = PatchesDone
    BY <2>1, EarlyDone
  <2>4. QED
    BY <2>1, <2>2, <2>3, QuietStep
<1>2. CASE JudgeSet
  <2>1. /\ phase = "set" /\ UNCHANGED <<flow, example>>
        /\ phase' = IF Len(flow.examples) = 0 THEN "done" ELSE "example"
    BY <1>2 DEF JudgeSet, exampleVars
  <2>2. \E found : Quiet(found) /\ findings' = findings \cup found
    <3> DEFINE all == flow.examples
               n == Len(all)
               codes == If(n > MaxExamples, "examples_too_many")
                          \cup If(\A i \in 1..n : all[i] # Other /\ all[i].holdOut, "examples_all_held_out")
                          \cup If(flow.public, "examples_published_with_public_flow")
    <3>1. findings' = findings \cup (IF n = 0 THEN {} ELSE Findings(codes, <<"examples">>))
      BY <1>2 DEF JudgeSet, Report
    <3>2. Plain(codes)
      BY PlainParts
    <3>3. Off(<<"examples">>)
      <4>1. IsPlace(<<"examples">>) /\ Len(<<"examples">>) = 1
        BY ShortPlaces
      <4>2. QED
        BY <4>1 DEF Off
    <3> HIDE DEF n, codes
    <3>4. Quiet(Findings(codes, <<"examples">>)) /\ Quiet({})
      BY <3>2, <3>3, QuietFindings, QuietParts
    <3>5. QED
      BY <3>1, <3>4
  <2>3. InputsDone' = InputsDone /\ PatchesBegun' = PatchesBegun /\ PatchesDone' = PatchesDone
    <3>1. CASE Len(flow.examples) = 0
      <4>1. Judged = {} /\ Patched = {}
        BY <3>1 DEF Judged, Patched
      <4>2. QED
        BY <2>1, <4>1, DoneSame
    <3>2. CASE Len(flow.examples) # 0
      BY <2>1, <3>2, EarlyDone
    <3>3. QED
      BY <3>1, <3>2
  <2>4. QED
    BY <2>1, <2>2, <2>3, QuietStep
<1>3. QED
  BY <1>1, <1>2

(* On to the next example, from one that is done with.                      *)
LEMMA NextExampleDone ==
  ASSUME flow \in Flows, flow' = flow, example \in 1..Len(flow.examples),
         (phase = "example" /\ example \notin Judged) \/ phase = "scan",
         \/ example < Len(flow.examples) /\ example' = example + 1 /\ phase' = "example"
         \/ ~(example < Len(flow.examples)) /\ phase' = "done"
  PROVE  InputsDone' = InputsDone /\ PatchesBegun' = PatchesBegun /\ PatchesDone' = PatchesDone
<1>1. Len(flow.examples) \in Nat /\ example \in Nat /\ example <= Len(flow.examples)
  BY DocumentsAssumption
<1>2. ASSUME NEW i \in Judged PROVE /\ i \in Nat /\ i <= Len(flow.examples)
                                    /\ (phase' = "done" \/ i < example') <=> (i < example \/ (i = example /\ phase = "scan"))
  <2>1. i \in Nat /\ i <= Len(flow.examples)
    BY <1>1, JudgedFacts
  <2>2. CASE example < Len(flow.examples) /\ example' = example + 1 /\ phase' = "example"
    BY <1>1, <2>1, <2>2
  <2>3. CASE ~(example < Len(flow.examples)) /\ phase' = "done"
    BY <1>1, <2>1, <2>3
  <2>4. QED
    BY <2>1, <2>2, <2>3
<1>3. \A i \in Judged : IsDone(i)' <=> IsDone(i)
  BY <1>2 DEF IsDone
<1>4. ASSUME NEW s \in Patched PROVE Begun(s)' <=> Begun(s)
  <2>1. s[1] \in Judged
    BY PatchedFacts
  <2>2. (phase' = "done" \/ s[1] < example') <=> (s[1] < example \/ (s[1] = example /\ phase = "scan"))
    BY <1>2, <2>1
  <2>3. QED
    BY <2>2 DEF Begun
<1>5. QED
  BY <1>3, <1>4, DoneSame

(* Skipping an example, and the scan of one, add nothing that is owed.      *)
LEMMA SkipSecrets ==
  ASSUME MergeInv, SecretsInv, SkipExample \/ ScanExample
  PROVE  SecretsInv'
<1>1. flow \in Flows /\ flow' = flow /\ example \in 1..Len(flow.examples)
  BY DEF MergeInv, SkipExample, ScanExample
<1>2. CASE SkipExample
  <2>1. example \notin Judged
    BY <1>2 DEF SkipExample, Judged, Current
  <2>2. InputsDone' = InputsDone /\ PatchesBegun' = PatchesBegun /\ PatchesDone' = PatchesDone
    BY <1>1, <1>2, <2>1, NextExampleDone DEF SkipExample
  <2>3. Quiet({}) /\ findings' = findings \cup {}
    BY <1>2, QuietParts DEF SkipExample
  <2>4. QED
    BY <1>1, <2>2, <2>3, QuietStep
<1>3. CASE ScanExample
  <2>1. InputsDone' = InputsDone /\ PatchesBegun' = PatchesBegun /\ PatchesDone' = PatchesDone
    BY <1>1, <1>3, NextExampleDone DEF ScanExample
  <2>2. PICK found : Quiet(found) /\ findings' = findings \cup found
    BY <1>3, ScanQuiet
  <2>3. QED
    BY <1>1, <2>1, <2>2, QuietStep
<1>4. QED
  BY <1>2, <1>3

(* Judging an example reports what is owed of its input.                    *)
LEMMA GivenTold ==
  ASSUME phase = "example", flow \in Flows, example \in 1..Len(flow.examples), Current # Other
  PROVE  Told(GivenFindings(Current)) = Owed({example} \cap Judged, {}, {})
<1> DEFINE e == ExampleAt(example)
           p1 == Findings(If(HasInput(Current) /\ Current.inputRef # Absent, "example_input_conflict")
                            \cup If(~HasInput(Current) /\ Current.inputRef = Absent, "example_input_missing"), e)
           p2 == IF IsRecord(Current.input) THEN InputFindings(Current.input, Append(e, "input"), "example_input_invalid") ELSE {}
           p3 == IF IsRecord(Current.inputRef) THEN Findings(FileRefCodes(Current.inputRef), Append(e, "input_ref")) ELSE {}
<1>1. GivenFindings(Current) = p1 \cup p2 \cup p3
  BY DEF GivenFindings, At
<1>2. Quiet(p1)
  <2>1. Plain(If(HasInput(Current) /\ Current.inputRef # Absent, "example_input_conflict")
                \cup If(~HasInput(Current) /\ Current.inputRef = Absent, "example_input_missing"))
    BY PlainParts
  <2>2. Off(e)
    BY OffExample
  <2>3. QED
    BY <2>1, <2>2, QuietFindings
<1>3. Quiet(p3)
  <2>1. IsPlace(Append(e, "input_ref")) /\ \A t : Begins(t, Append(e, "input_ref")) => Off(t)
    BY ExamplePlace, PlaceAppend, OffExample
  <2>2. Placed(Findings(FileRefCodes(Current.inputRef), Append(e, "input_ref")), Append(e, "input_ref"))
    BY <2>1, FindingsPlaced, FileRefCodesPlain
  <2>3. Quiet(Findings(FileRefCodes(Current.inputRef), Append(e, "input_ref")))
    BY <2>1, <2>2, QuietPlaced
  <2>4. QED
    BY <2>3, QuietParts
<1>4. p2 = OfInput(example)
  BY DEF OfInput, InputGiven, InputOf, InputAt, InputCode, Current
<1>5. Told(p2) = UNION {OfInput(i) : i \in {example} \cap Judged}
  <2>1. CASE example \in Judged
    <3>1. Told(p2) = OfInput(example)
      BY <1>4, <2>1, ToldOfInput
    <3>2. {example} \cap Judged = {example}
      BY <2>1
    <3>3. QED
      BY <3>1, <3>2
  <2>2. CASE example \notin Judged
    <3>1. Current.input = Absent
      BY <2>2 DEF Judged, HasInput, Current
    <3>2. p2 = {}
      BY <3>1 DEF IsRecord
    <3>3. {example} \cap Judged = {}
      BY <2>2
    <3>4. QED
      BY <3>2, <3>3, ToldParts
  <2>3. QED
    BY <2>1, <2>2
<1> HIDE DEF p1, p2, p3
<1>6. Told(p1 \cup p2 \cup p3) = Told(p2)
  <2>1. Told(p1) = {} /\ Told(p3) = {}
    BY <1>2, <1>3, ToldParts
  <2>2. Told(p1 \cup p2 \cup p3) = Told(p1) \cup Told(p2) \cup Told(p3)
    BY DEF Told
  <2>3. QED
    BY <2>1, <2>2
<1>7. QED
  BY <1>1, <1>5, <1>6 DEF Owed

(* An example that is begun has its input done.                             *)
LEMMA ExampleDone ==
  ASSUME MergeInv, JudgeExample
  PROVE  /\ InputsDone' = InputsDone \cup ({example} \cap Judged)
         /\ PatchesBegun' = PatchesBegun \cup {} /\ PatchesDone' = PatchesDone \cup {}
<1>1. /\ flow \in Flows /\ example \in 1..Len(flow.examples) /\ phase = "example" /\ Current # Other
      /\ flow' = flow /\ example' = example /\ variant' = 1
      /\ phase' = IF Current.variants = <<>> THEN "scan" ELSE "variant"
  BY DEF MergeInv, JudgeExample
<1>2. Judged' = Judged /\ Patched' = Patched
  BY <1>1, SameOwed
<1>3. InputsDone' = {i \in Judged : i < example \/ i = example}
  BY <1>1, <1>2 DEF InputsDone
<1>4. InputsDone = {i \in Judged : i < example}
  BY <1>1 DEF InputsDone
<1>5. ASSUME NEW s \in Patched PROVE (Begun(s)' <=> Begun(s)) /\ ~(phase = "merge" /\ s = <<example, variant>>)'
  <2>1. s[2] \in 1..Len(flow.examples[s[1]].variants) /\ ~(s[2] < 1)
    BY <1>1, PatchedFacts
  <2>2. s[1] = example => Current.variants # <<>>
    BY <2>1 DEF Current
  <2>3. QED
    BY <1>1, <2>1, <2>2 DEF Begun
<1>6. PatchesDone' = PatchesDone
  <2>1. PatchesDone' = {s \in Patched' : Begun(s)'}
    BY DEF PatchesDone
  <2>2. QED
    BY <1>2, <1>5, <2>1 DEF PatchesDone
<1>7. PatchesBegun' = PatchesBegun
  <2>1. PatchesBegun' = {s \in Patched' : Begun(s)' \/ (phase = "merge" /\ s = <<example, variant>>)'}
    BY DEF PatchesBegun
  <2>2. QED
    BY <1>1, <1>2, <1>5, <2>1 DEF PatchesBegun
<1>8. QED
  BY <1>3, <1>4, <1>6, <1>7

(* An example tells what its input is owed.                                 *)
LEMMA ExampleSecrets ==
  ASSUME MergeInv, SecretsInv, JudgeExample
  PROVE  SecretsInv'
<1> DEFINE p1 == AboutFindings(Current)
           p2 == GivenFindings(Current)
           p3 == ExpectedFindings(Current)
           p4 == CheckpointFindings(Current)
           p5 == Findings(If(Len(Current.variants) > MaxVariants, "example_variants_too_many"), Append(At, "variants"))
<1>1. /\ flow \in Flows /\ example \in 1..Len(flow.examples) /\ phase = "example" /\ Current # Other /\ flow' = flow
      /\ findings' = findings \cup (p1 \cup p2 \cup p3 \cup p4 \cup p5)
  BY DEF MergeInv, JudgeExample, Report
<1>2. Quiet(p1) /\ Quiet(p3) /\ Quiet(p4)
  BY <1>1, AboutQuiet, ExpectedQuiet, CheckpointQuiet
<1>3. Quiet(p5)
  <2>1. Off(Append(At, "variants"))
    BY <1>1, OffExample DEF At
  <2>2. QED
    BY <2>1, QuietFindings, PlainParts
<1>4. Told(p2) = Owed({example} \cap Judged, {}, {})
  BY <1>1, GivenTold
<1> HIDE DEF p1, p2, p3, p4, p5
<1>5. Told(p1 \cup p2 \cup p3 \cup p4 \cup p5) = Owed({example} \cap Judged, {}, {})
  <2>1. Told(p1) = {} /\ Told(p3) = {} /\ Told(p4) = {} /\ Told(p5) = {}
    BY <1>2, <1>3, ToldParts
  <2>2. Told(p1 \cup p2 \cup p3 \cup p4 \cup p5) = Told(p1) \cup Told(p2) \cup Told(p3) \cup Told(p4) \cup Told(p5)
    BY DEF Told
  <2>3. QED
    BY <1>4, <2>1, <2>2
<1>6. /\ InputsDone' = InputsDone \cup ({example} \cap Judged)
      /\ PatchesBegun' = PatchesBegun \cup {} /\ PatchesDone' = PatchesDone \cup {}
  BY ExampleDone
<1>7. QED
  BY <1>1, <1>5, <1>6, SecretsStep

(* A merge under way is that of a scenario with a patch, of an example with *)
(* an input.                                                                *)
HerePatched == phase = "merge" => <<example, variant>> \in Patched

(* On to the next scenario, or past the last.                               *)
LEMMA NextVariantDone ==
  ASSUME MergeInv, phase \in {"variant", "merge"}, NextVariant, UNCHANGED <<flow, example>>
  PROVE  /\ InputsDone' = InputsDone
         /\ PatchesDone' = PatchesDone \cup ({<<example, variant>>} \cap Patched)
         /\ PatchesBegun' = PatchesDone \cup ({<<example, variant>>} \cap Patched)
<1>1. flow \in Flows /\ example \in 1..Len(flow.examples) /\ Current # Other /\ variant \in 1..Len(Current.variants)
  BY DEF MergeInv, AtVariant
<1>2. Len(Current.variants) \in Nat
  BY <1>1, HereFacts
<1>3. Judged' = Judged /\ Patched' = Patched
  BY SameOwed
<1>4. phase' \in {"variant", "scan"}
  BY DEF NextVariant
<1>5. InputsDone' = InputsDone
  BY <1>3, <1>4 DEF InputsDone
<1>6. ASSUME NEW s \in Patched PROVE Begun(s)' <=> (Begun(s) \/ s = <<example, variant>>)
  <2>1. s = <<s[1], s[2]>> /\ s[2] \in 1..Len(flow.examples[s[1]].variants) /\ s[1] \in Judged
    BY <1>1, PatchedFacts
  <2>2. s[1] \in Nat /\ example \in Nat
    BY <1>1, <2>1, DocumentsAssumption, JudgedFacts
  <2>3. CASE s[1] = example
    <3>1. s[2] \in 1..Len(Current.variants)
      BY <2>1, <2>3 DEF Current
    <3>2. Begun(s) <=> s[2] < variant
      BY <2>2, <2>3 DEF Begun
    <3>3. s = <<example, variant>> <=> s[2] = variant
      <4>1. s[2] = variant => s = <<example, variant>>
        BY <2>1, <2>3
      <4>2. s = <<example, variant>> => s[2] = variant
        OBVIOUS
      <4>3. QED
        BY <4>1, <4>2
    <3>4. CASE variant < Len(Current.variants)
      <4>1. variant' = variant + 1 /\ phase' = "variant"
        BY <3>4 DEF NextVariant
      <4>2. Begun(s)' <=> s[2] < variant + 1
        BY <2>2, <2>3, <4>1 DEF Begun
      <4>3. s[2] < variant + 1 <=> s[2] < variant \/ s[2] = variant
        BY <1>1, <1>2, <3>1
      <4>4. QED
        BY <3>2, <3>3, <4>2, <4>3
    <3>5. CASE ~(variant < Len(Current.variants))
      <4>1. phase' = "scan"
        BY <3>5 DEF NextVariant
      <4>2. Begun(s)'
        BY <2>3, <4>1 DEF Begun
      <4>3. s[2] < variant \/ s[2] = variant
        BY <1>1, <1>2, <3>1, <3>5
      <4>4. QED
        BY <3>2, <3>3, <4>2, <4>3
    <3>6. QED
      BY <3>4, <3>5
  <2>4. CASE s[1] # example
    <3>1. s # <<example, variant>>
      BY <2>4
    <3>2. QED
      BY <1>4, <2>4, <3>1 DEF Begun
  <2>5. QED
    BY <2>3, <2>4
<1>7. PatchesDone' = {s \in Patched : Begun(s)'}
  BY <1>3 DEF PatchesDone
<1>8. PatchesBegun' = {s \in Patched : Begun(s)'}
  BY <1>3, <1>4 DEF PatchesBegun
<1>9. QED
  BY <1>5, <1>6, <1>7, <1>8 DEF PatchesDone

(* Of a scenario that is not merged nothing is owed.                        *)
LEMMA VariantTold ==
  ASSUME MergeInv, phase = "variant", Scenario # Other
  PROVE  /\ Told(VariantFindings(Scenario)) = {}
         /\ <<example, variant>> \in Patched <=> Patches(Scenario) /\ HasInput(Current)
<1>1. flow \in Flows /\ example \in 1..Len(flow.examples) /\ Current # Other /\ variant \in 1..Len(Current.variants)
  BY DEF MergeInv, AtVariant
<1>2. example \in Judged <=> HasInput(Current)
  BY <1>1 DEF Judged, Current
<1>3. <<example, variant>> \in Patched <=> Patches(Scenario) /\ HasInput(Current)
  BY <1>1, <1>2, PatchedGiven DEF Scenario, Current
<1>4. PICK found : Quiet(found) /\ VariantFindings(Scenario) = found \cup Unpatched(Scenario)
  BY VariantQuiet
<1>5. Told(Unpatched(Scenario)) = {}
  <2>1. CASE ~(Patches(Scenario) /\ ~HasInput(Current))
    BY <2>1, ToldParts DEF Unpatched
  <2>2. CASE ~HasInput(Current)
    <3> DEFINE t == PatchAt(<<example, variant>>)
    <3>1. Append(At, "input_patch") = t
      BY DEF At, PatchAt
    <3>2. example \in DOMAIN Index
      BY <1>1, DocumentsAssumption
    <3>3. IsPlace(t) /\ t[2] = Index[example] /\ t[3] = "variants"
      BY PatchPlace
    <3> HIDE DEF t
    <3>4. ASSUME NEW i \in Judged, IsPrefix(InputAt(i), t) PROVE FALSE
      <4>1. Begins(t, InputAt(i))
        BY <3>3, <3>4, InputPlace, PrefixBegins
      <4>2. t[3] = "input"
        BY <4>1, InputPlace DEF Begins
      <4>3. QED
        BY <3>3, <4>2
    <3>5. ASSUME NEW s \in Patched, IsPrefix(PatchAt(s), t) PROVE FALSE
      <4>1. Begins(t, PatchAt(s))
        BY <3>3, <3>5, PatchPlace, PrefixBegins
      <4>2. t[2] = Index[s[1]]
        BY <4>1, PatchPlace DEF Begins
      <4>3. s[1] \in Judged /\ s[1] \in DOMAIN Index
        BY <1>1, PatchedFacts
      <4>4. s[1] = example
        BY <3>2, <3>3, <4>2, <4>3, IndexAssumption
      <4>5. QED
        BY <1>2, <2>2, <4>3, <4>4
    <3>6. ~InPlace(t)
      BY <3>4, <3>5 DEF InPlace
    <3>7. \A f \in Unpatched(Scenario) : f.code = "example_variant_unchecked" /\ f.at = t
      BY <3>1 DEF Unpatched, Finding
    <3>8. QED
      BY <3>6, <3>7 DEF Told
  <2>3. QED
    BY <2>1, <2>2
<1>6. QED
  BY <1>3, <1>4, <1>5, ToldParts

(* A merge that begins owes the secrets of its patch.                       *)
LEMMA PatchSecretsOwed ==
  ASSUME phase = "variant"
  PROVE  PatchSecrets(Scenario.patch) = OwnSecrets(<<example, variant>>)
<1> DEFINE s == <<example, variant>>
           patch == Scenario.patch
<1>1. \A n : At \o <<"input_patch", n>> = Append(PatchAt(s), n)
  BY VariantPlace, SamePlaceText DEF At, PatchAt
<1>2. PatchGiven(s) = patch
  BY DEF PatchGiven, Scenario, Current
<1> HIDE DEF s, patch
<1>3. PatchSecrets(patch) = SecretFindings(PatchAt(s), SecretsPatched(patch))
  BY <1>1 DEF PatchSecrets, SecretFindings, SecretsPatched
<1>4. QED
  BY <1>2, <1>3 DEF OwnSecrets, s, patch

(* A scenario owes nothing but the secrets of its patch.                    *)
LEMMA VariantSecretsKept ==
  ASSUME MergeInv, SecretsInv, JudgeVariant
  PROVE  SecretsInv'
<1> DEFINE here == <<example, variant>>
           merges == Patches(Scenario) /\ HasInput(Current)
<1>1. phase = "variant" /\ UNCHANGED <<flow, example>>
  BY DEF JudgeVariant
<1>2. PatchesBegun = PatchesDone
  BY <1>1 DEF PatchesBegun, PatchesDone
<1>3. CASE Scenario = Other
  <2>1. NextVariant /\ findings' = findings \cup {} /\ Quiet({})
    BY <1>3, QuietParts DEF JudgeVariant
  <2>2. here \notin Patched
    BY <1>3, PatchedGiven DEF Patches, Scenario, Current
  <2>3. InputsDone' = InputsDone /\ PatchesBegun' = PatchesBegun /\ PatchesDone' = PatchesDone
    BY <1>1, <1>2, <2>1, <2>2, NextVariantDone
  <2>4. QED
    BY <1>1, <2>1, <2>3, QuietStep
<1>4. CASE Scenario # Other /\ ~merges
  <2>1. NextVariant /\ findings' = findings \cup (VariantFindings(Scenario) \cup {})
    BY <1>4 DEF JudgeVariant, Report
  <2>2. here \notin Patched /\ Told(VariantFindings(Scenario)) = {}
    BY <1>1, <1>4, VariantTold
  <2>3. /\ InputsDone' = InputsDone \cup {} /\ PatchesBegun' = PatchesBegun \cup {} /\ PatchesDone' = PatchesDone \cup {}
    BY <1>1, <1>2, <2>1, <2>2, NextVariantDone
  <2>4. Told(VariantFindings(Scenario) \cup {}) = Owed({}, {}, {})
    BY <2>2, NothingOwed
  <2>5. QED
    BY <1>1, <2>1, <2>3, <2>4, SecretsStep
<1>5. CASE Scenario # Other /\ merges
  <2>1. /\ findings' = findings \cup (VariantFindings(Scenario) \cup PatchSecrets(Scenario.patch))
        /\ phase' = "merge" /\ variant' = variant
    BY <1>5 DEF JudgeVariant, Report
  <2>2. here \in Patched /\ Told(VariantFindings(Scenario)) = {}
    BY <1>1, <1>5, VariantTold
  <2>3. Judged' = Judged /\ Patched' = Patched
    BY <1>1, SameOwed
  <2>4. InputsDone' = InputsDone \cup {}
    BY <1>1, <2>1, <2>3 DEF InputsDone
  <2>5. \A s : Begun(s)' <=> Begun(s)
    BY <1>1, <2>1 DEF Begun
  <2>6. PatchesDone' = PatchesDone \cup {}
    BY <2>3, <2>5 DEF PatchesDone
  <2>7. PatchesBegun' = PatchesBegun \cup {here}
    <3>1. PatchesBegun' = {s \in Patched : Begun(s) \/ s = here}
      BY <1>1, <2>1, <2>3, <2>5 DEF PatchesBegun
    <3>2. QED
      BY <1>2, <2>2, <3>1 DEF PatchesDone
  <2>8. Told(VariantFindings(Scenario) \cup PatchSecrets(Scenario.patch)) = Owed({}, {here}, {})
    <3>1. Told(PatchSecrets(Scenario.patch)) = OwnSecrets(here)
      BY <1>1, <2>2, PatchSecretsOwed, ToldOfPatch
    <3>2. Owed({}, {here}, {}) = OwnSecrets(here)
      BY DEF Owed
    <3>3. QED
      BY <2>2, <3>1, <3>2, ToldParts
  <2>9. QED
    BY <1>1, <2>1, <2>4, <2>6, <2>7, <2>8, SecretsStep
<1>6. QED
  BY <1>3, <1>4, <1>5

(* Judging what is merged reports what is owed of the patch.                *)
LEMMA PatchedSecrets ==
  ASSUME MergeInv, HerePatched, SecretsInv, JudgePatched
  PROVE  SecretsInv'
<1> DEFINE here == <<example, variant>>
           found == {f \in InputFindings(Read(heap, Result), Append(At, "input_patch"), "example_variant_input_invalid") :
                       f.code # "example_secret_value"}
<1>1. /\ phase = "merge" /\ frames = <<>> /\ UNCHANGED <<flow, example>> /\ NextVariant
      /\ findings' = findings \cup found
  BY DEF JudgePatched, Report
<1>2. /\ flow \in Flows /\ example \in 1..Len(flow.examples) /\ AtVariant
      /\ Scenario # Other /\ Merging(heap, frames, InputOf(Current), Scenario.patch)
  BY <1>1 DEF MergeInv
<1>3. Read(heap, Result) = MergedGiven(here)
  <2>1. Read(heap, Result) = RFC7386(InputOf(Current), Within(Scenario.patch))
    BY <1>1, <1>2, MergeEnds DEF AtVariant
  <2>2. QED
    BY <2>1 DEF MergedGiven, InputGiven, PatchGiven, Current, Scenario
<1>4. Append(At, "input_patch") = PatchAt(here)
  BY <1>1 DEF At, PatchAt
<1>5. found = OfPatch(here)
  BY <1>3, <1>4 DEF OfPatch, WithoutSecrets, PatchCode
<1> HIDE DEF found
<1>6. here \in Patched
  BY <1>1 DEF HerePatched
<1>7. PatchesBegun = PatchesDone \cup {here}
  BY <1>1, <1>6 DEF PatchesBegun, PatchesDone
<1>8. InputsDone' = InputsDone \cup {} /\ PatchesDone' = PatchesDone \cup {here} /\ PatchesBegun' = PatchesBegun \cup {}
  BY <1>1, <1>6, <1>7, NextVariantDone
<1>9. Told(found) = Owed({}, {}, {here})
  <2>1. Told(found) = OfPatch(here)
    BY <1>5, <1>6, ToldOfPatch
  <2>2. Owed({}, {}, {here}) = OfPatch(here)
    BY DEF Owed
  <2>3. QED
    BY <2>1, <2>2
<1>10. QED
  BY <1>1, <1>8, <1>9, SecretsStep

(* A step of the merge reports nothing and is done with nothing.            *)
LEMMA MergeSecrets ==
  ASSUME SecretsInv, UNCHANGED <<flow, phase, findings, example, variant>>
  PROVE  SecretsInv'
<1>1. \A i : IsDone(i)' <=> IsDone(i)
  BY DEF IsDone
<1>2. \A s : Begun(s)' <=> Begun(s)
  BY DEF Begun
<1>3. InputsDone' = InputsDone /\ PatchesBegun' = PatchesBegun /\ PatchesDone' = PatchesDone
  BY <1>1, <1>2, DoneSame
<1>4. Quiet({}) /\ findings' = findings \cup {}
  BY QuietParts
<1>5. QED
  BY <1>3, <1>4, QuietStep

(* A merge is always that of a scenario with a patch.                       *)
LEMMA HereStays ==
  ASSUME MergeInv, HerePatched, [Next]_vars
  PROVE  HerePatched'
<1>1. CASE UNCHANGED <<flow, phase, example, variant>>
  BY <1>1, SameOwed DEF HerePatched
<1>2. CASE JudgeVariant
  <2>1. CASE phase' = "merge"
    <3>1. /\ phase = "variant" /\ Scenario # Other /\ Patches(Scenario) /\ HasInput(Current)
          /\ UNCHANGED <<flow, example, variant>>
      BY <1>2, <2>1 DEF JudgeVariant, NextVariant
    <3>2. <<example, variant>> \in Patched
      BY <3>1, VariantTold
    <3>3. QED
      BY <3>1, <3>2, SameOwed DEF HerePatched
  <2>2. QED
    BY <2>1 DEF HerePatched
<1>3. CASE phase' # "merge"
  BY <1>3 DEF HerePatched
<1>4. CASE JudgeSchemas
  <2>1. phase' \in {"schema", "set"}
    BY <1>4 DEF JudgeSchemas, SchemaStep, OpenSchema, JudgeField, ResolveConditions, JudgeReserved, Leave
  <2>2. QED
    BY <1>3, <2>1
<1>5. CASE JudgeSet \/ SkipExample \/ JudgeExample \/ JudgePatched \/ ScanExample
  <2>1. phase' # "merge"
    BY <1>5 DEF JudgeSet, SkipExample, JudgeExample, JudgePatched, ScanExample, NextVariant
  <2>2. QED
    BY <1>3, <2>1
<1>6. QED
  BY <1>1, <1>2, <1>4, <1>5 DEF Next, Merge, vars, schemaVars, exampleVars

(* At every moment the walk over the examples has told of secrets, and in   *)
(* inputs and patches, what those done so far are owed and nothing else.    *)
THEOREM SecretsAreTold == Spec => [](MergeInv /\ HerePatched /\ SecretsInv)
<1>1. Init => HerePatched /\ SecretsInv
  <2> SUFFICES ASSUME Init PROVE HerePatched /\ SecretsInv
    OBVIOUS
  <2>1. flow \in Flows /\ phase = "schema" /\ example = 1 /\ findings = {}
    BY DEF Init, SchemaInit
  <2>2. \A i \in Judged : i \in Nat /\ ~(i < 1)
    BY <2>1, DocumentsAssumption, JudgedFacts
  <2>3. InputsDone = {}
    BY <2>1, <2>2 DEF InputsDone
  <2>4. PatchesBegun = {} /\ PatchesDone = {}
    BY <2>1, <2>2, PatchedFacts DEF PatchesBegun, PatchesDone, Begun
  <2>5. Told(findings) = {}
    BY <2>1, ToldParts
  <2>6. QED
    BY <2>1, <2>3, <2>4, <2>5, NothingOwed DEF HerePatched, SecretsInv
<1>2. MergeInv /\ HerePatched /\ SecretsInv /\ [Next]_vars => HerePatched' /\ SecretsInv'
  <2> SUFFICES ASSUME MergeInv, HerePatched, SecretsInv, [Next]_vars PROVE HerePatched' /\ SecretsInv'
    OBVIOUS
  <2>1. CASE JudgeSchemas \/ JudgeSet
    BY <2>1, EarlySecrets, HereStays
  <2>2. CASE SkipExample \/ ScanExample
    BY <2>2, SkipSecrets, HereStays
  <2>3. CASE JudgeExample
    BY <2>3, ExampleSecrets, HereStays
  <2>4. CASE JudgeVariant
    BY <2>4, VariantSecretsKept, HereStays
  <2>5. CASE JudgePatched
    BY <2>5, PatchedSecrets, HereStays
  <2>6. CASE Merge \/ UNCHANGED vars
    BY <2>6, MergeSecrets, HereStays DEF Merge, vars, schemaVars, exampleVars
  <2>7. QED
    BY <2>1, <2>2, <2>3, <2>4, <2>5, <2>6 DEF Next
<1>3. QED
  BY <1>1, <1>2, MergesAreGoing, PTL DEF Spec

(* What the scenario is judged on is a document.                            *)
LEMMA MergedGivenDocument ==
  ASSUME flow \in Flows, NEW s \in Patched
  PROVE  IsDocument(MergedGiven(s)) /\ IsFiniteSet(DOMAIN MergedGiven(s))
<1> DEFINE b == InputGiven(s[1])
           patch == PatchGiven(s)
           S == {q \in DOMAIN patch : Len(q) <= MaxDepth + 1}
<1>1. IsDocument(b) /\ IsFiniteSet(DOMAIN b) /\ IsDocument(patch) /\ IsFiniteSet(DOMAIN patch)
  BY PatchedFacts, JudgedFacts
<1>2. Within(patch) = Some(patch, S)
  BY DEF Within, Some
<1> HIDE DEF b, patch
<1>3. ASSUME NEW p \in S PROVE Above(p) \subseteq S
  <2>1. SUFFICES ASSUME NEW n \in 1..(Len(p) - 1) PROVE SubSeq(p, 1, n) \in S
    BY DEF Above
  <2>2. p \in Seq(Key) /\ Len(p) \in Nat
    BY <1>1, DocumentNames
  <2>3. SubSeq(p, 1, n) \in DOMAIN patch
    BY <1>1 DEF IsDocument, Above
  <2>4. Len(SubSeq(p, 1, n)) = n
    BY <2>2
  <2>5. n <= MaxDepth + 1
    BY <2>2, DepthAssumption
  <2>6. QED
    BY <2>3, <2>4, <2>5
<1>4. IsDocument(Within(patch))
  BY <1>1, <1>2, <1>3, SomeIsDocument
<1>5. IsFiniteSet(DOMAIN Within(patch))
  <2>1. DOMAIN Within(patch) \subseteq DOMAIN patch
    BY DEF Within
  <2>2. QED
    BY <1>1, <2>1, FS_Subset
<1> DEFINE m == RFC7386(b, Within(patch))
<1>6. IsDocument(m)
  BY <1>1, <1>4, MergedIsDocument
<1>7. DOMAIN m \subseteq DOMAIN b \cup DOMAIN Within(patch)
  BY MergedFacts
<1>8. IsFiniteSet(DOMAIN m)
  BY <1>1, <1>5, <1>7, FS_Union, FS_Subset
<1>9. QED
  BY <1>6, <1>8 DEF MergedGiven, b, patch

(* When the block is judged, what is told is what is owed of all of it.     *)
LEMMA AllTold ==
  ASSUME SecretsInv, phase = "done"
  PROVE  Told(findings) = Owed(Judged, Patched, Patched)
<1>1. InputsDone = Judged /\ PatchesBegun = Patched /\ PatchesDone = Patched
  BY DEF InputsDone, PatchesBegun, PatchesDone, Begun
<1>2. QED
  BY <1>1 DEF SecretsInv

(* What is told in an input is what is owed of it.                          *)
LEMMA InputTold ==
  ASSUME flow \in Flows, SecretsInv, phase = "done", NEW i \in Judged
  PROVE  {f \in findings : IsPrefix(InputAt(i), f.at) /\ f.code # "example_secret_like_value"} = OfInput(i)
<1>1. ASSUME NEW f \in findings, IsPrefix(InputAt(i), f.at), f.code # "example_secret_like_value" PROVE f \in OfInput(i)
  <2>1. f \in Owed(Judged, Patched, Patched)
    BY <1>1, AllTold DEF Told, InPlace
  <2>2. CASE \E k \in Judged : f \in OfInput(k)
    <3>1. PICK k \in Judged : f \in OfInput(k)
      BY <2>2
    <3>2. Begins(f.at, InputAt(k)) /\ IsPlace(f.at)
      BY <3>1, OfInputStands DEF Begins
    <3>3. Begins(f.at, InputAt(i))
      BY <1>1, <3>2, InputPlace, PrefixBegins
    <3>4. i = k
      BY <3>2, <3>3, JudgedFacts, InputsApart
    <3>5. QED
      BY <3>1, <3>4
  <2>3. CASE \E s \in Patched : f \in OwnSecrets(s) \/ f \in OfPatch(s)
    <3>1. PICK s \in Patched : f \in OwnSecrets(s) \/ f \in OfPatch(s)
      BY <2>3
    <3>2. Begins(f.at, PatchAt(s)) /\ IsPlace(f.at)
      BY <3>1, OwnSecretsStand, OfPatchStands DEF Begins
    <3>3. Begins(f.at, InputAt(i))
      BY <1>1, <3>2, InputPlace, PrefixBegins
    <3>4. QED
      BY <3>2, <3>3, InputIsNoPatch
  <2>4. QED
    BY <2>1, <2>2, <2>3 DEF Owed
<1>2. ASSUME NEW f \in OfInput(i)
      PROVE  f \in findings /\ IsPrefix(InputAt(i), f.at) /\ f.code # "example_secret_like_value"
  <2>1. f \in Told(findings)
    BY AllTold DEF Owed
  <2>2. QED
    BY <2>1, OfInputStands, PlaceOfInput DEF Told
<1>3. QED
  BY <1>1, <1>2

(* What is told in a patch, but for its secrets, is what is owed of it.     *)
LEMMA PatchTold ==
  ASSUME flow \in Flows, SecretsInv, phase = "done", NEW s \in Patched
  PROVE  {f \in findings : IsPrefix(PatchAt(s), f.at) /\ f.code \notin {"example_secret_value", "example_secret_like_value"}}
           = OfPatch(s)
<1>1. ASSUME NEW f \in findings, IsPrefix(PatchAt(s), f.at), f.code \notin {"example_secret_value", "example_secret_like_value"}
      PROVE  f \in OfPatch(s)
  <2>1. f \in Owed(Judged, Patched, Patched)
    BY <1>1, AllTold DEF Told, InPlace
  <2>2. CASE \E k \in Judged : f \in OfInput(k)
    <3>1. PICK k \in Judged : f \in OfInput(k)
      BY <2>2
    <3>2. Begins(f.at, InputAt(k)) /\ IsPlace(f.at)
      BY <3>1, OfInputStands DEF Begins
    <3>3. Begins(f.at, PatchAt(s))
      BY <1>1, <3>2, PatchPlace, PrefixBegins
    <3>4. QED
      BY <3>2, <3>3, InputIsNoPatch
  <2>3. CASE \E r \in Patched : f \in OfPatch(r)
    <3>1. PICK r \in Patched : f \in OfPatch(r)
      BY <2>3
    <3>2. Begins(f.at, PatchAt(r)) /\ IsPlace(f.at)
      BY <3>1, OfPatchStands DEF Begins
    <3>3. Begins(f.at, PatchAt(s))
      BY <1>1, <3>2, PatchPlace, PrefixBegins
    <3>4. r[1] = s[1] /\ r[2] = s[2] /\ r = <<r[1], r[2]>> /\ s = <<s[1], s[2]>>
      BY <3>2, <3>3, PatchedFacts, PatchesApart
    <3>5. r = s
      BY <3>4
    <3>6. QED
      BY <3>1, <3>5
  <2>4. \A r : f \notin OwnSecrets(r)
    BY <1>1, OwnSecretsStand
  <2>5. QED
    BY <2>1, <2>2, <2>3, <2>4 DEF Owed
<1>2. ASSUME NEW f \in OfPatch(s)
      PROVE  /\ f \in findings /\ IsPrefix(PatchAt(s), f.at)
             /\ f.code \notin {"example_secret_value", "example_secret_like_value"}
  <2>1. f \in Told(findings)
    BY AllTold DEF Owed
  <2>2. QED
    BY <2>1, OfPatchStands, PlaceOfPatch DEF Told
<1>3. QED
  BY <1>1, <1>2

(* An input that is too large, and one that is not.                         *)
LEMMA InputReported ==
  ASSUME flow \in Flows, SecretsInv, phase = "done", NEW i \in Judged
  PROVE  /\ IsRecord(flow.examples[i].input) =>
              TooLarge(InputAt(i)) \/ Reported(InputAt(i)) = InputFindings(Public(InputGiven(i)), InputAt(i), InputCode)
         /\ OnlySecrets(OfInput(i))
              = IF TooLarge(InputAt(i)) THEN {} ELSE SecretFindings(InputAt(i), SecretsGiven(InputGiven(i)))
<1> DEFINE at == InputAt(i)
           d == InputGiven(i)
<1>1. IsDocument(d) /\ IsFiniteSet(DOMAIN d) /\ HasKinds(d) /\ Ordinary({InputCode})
  BY JudgedFacts, CodesOrdinary
<1>2. Large(at).at = at /\ Large(at).code = "example_input_too_large" /\ IsPrefix(at, at)
  BY InputPlace, BeginsItself, PrefixBegins DEF Large, Finding
<1>3. TooLarge(at) <=> Large(at) \in OfInput(i)
  BY <1>2, InputTold DEF TooLarge, Large
<1>4. Reported(at) = WithoutSecrets(OfInput(i))
  BY InputTold DEF Reported, WithoutSecrets
<1>5. CASE ~IsRecord(flow.examples[i].input)
  <2>1. OfInput(i) = {}
    BY <1>5 DEF OfInput
  <2>2. SecretsGiven(d) = {}
    BY <1>5 DEF InputGiven, InputOf, Empty, SecretsGiven, NamesGiven
  <2>3. QED
    BY <1>5, <2>1, <2>2 DEF OnlySecrets, SecretFindings
<1>6. CASE IsRecord(flow.examples[i].input)
  <2>1. OfInput(i) = InputFindings(d, at, InputCode)
    BY <1>6 DEF OfInput
  <2>2. OfInput(i) = {Large(at)} \/ JudgedApart(d, at, InputCode)
    BY <1>1, <2>1, InputJudged
  <2> HIDE DEF at, d
  <2>3. CASE OfInput(i) = {Large(at)}
    BY <1>2, <1>3, <2>3 DEF OnlySecrets, at
  <2>4. CASE JudgedApart(d, at, InputCode)
    <3>1. /\ Large(at) \notin OfInput(i) /\ WithoutSecrets(OfInput(i)) = InputFindings(Public(d), at, InputCode)
          /\ OnlySecrets(OfInput(i)) = SecretFindings(at, SecretsGiven(d))
      BY <1>1, <2>1, <2>4 DEF JudgedApart
    <3>2. QED
      BY <1>3, <1>4, <3>1 DEF at, d
  <2>5. QED
    BY <2>2, <2>3, <2>4
<1>7. QED
  BY <1>5, <1>6

(* A patched input that is too large, and one that is not.                  *)
LEMMA PatchReported ==
  ASSUME flow \in Flows, SecretsInv, phase = "done", NEW s \in Patched
  PROVE  TooLarge(PatchAt(s)) \/ Reported(PatchAt(s)) = InputFindings(Public(MergedGiven(s)), PatchAt(s), PatchCode)
<1> DEFINE at == PatchAt(s)
           d == MergedGiven(s)
           F == InputFindings(d, at, PatchCode)
<1>1. F = {Large(at)} \/ JudgedApart(d, at, PatchCode)
  BY MergedGivenDocument, CodesOrdinary, InputJudged
<1>2. Reported(at) = WithoutSecrets(F)
  BY PatchTold DEF Reported, OfPatch
<1>3. CASE F = {Large(at)}
  <2>1. Large(at).code # "example_secret_value"
    BY DEF Large, Finding
  <2>2. Large(at) \in Reported(at)
    BY <1>2, <1>3, <2>1 DEF WithoutSecrets
  <2>3. QED
    BY <2>2 DEF Reported, TooLarge, Large
<1>4. CASE JudgedApart(d, at, PatchCode)
  BY <1>2, <1>4 DEF JudgedApart
<1>5. QED
  BY <1>1, <1>3, <1>4

(* A secret is reported where it is written, once, and decides nothing      *)
(* else.                                                                    *)
THEOREM SecretsAlwaysAlone == Spec => []SecretsReportedAlone
<1>1. MergeInv /\ SecretsInv => SecretsReportedAlone
  <2> SUFFICES ASSUME flow \in Flows, SecretsInv, phase = "done" PROVE SecretsReportedAlone
    BY DEF MergeInv, SecretsReportedAlone
  <2>1. \A i \in {k \in Judged : IsRecord(flow.examples[k].input)} :
          TooLarge(InputAt(i)) \/ Reported(InputAt(i)) = InputFindings(Public(InputGiven(i)), InputAt(i), "example_input_invalid")
    BY InputReported DEF InputCode
  <2>2. \A s \in Patched :
          TooLarge(PatchAt(s))
            \/ Reported(PatchAt(s)) = InputFindings(Public(RFC7386(InputGiven(s[1]), Within(PatchGiven(s)))), PatchAt(s),
                                                    "example_variant_input_invalid")
    BY PatchReported DEF MergedGiven, PatchCode
  <2> DEFINE secrets == {g \in findings : g.code = "example_secret_value"}
             ofInputs == UNION {{Append(InputAt(i), n) : n \in SecretsGiven(InputGiven(i))} : i \in {k \in Judged : ~TooLarge(InputAt(k))}}
             ofPatches == UNION {{Append(PatchAt(s), n) : n \in SecretsPatched(PatchGiven(s))} : s \in Patched}
  <2>3. secrets = (UNION {OnlySecrets(OfInput(i)) : i \in Judged}) \cup UNION {OwnSecrets(s) : s \in Patched}
    <3>1. secrets = {f \in Owed(Judged, Patched, Patched) : f.code = "example_secret_value"}
      BY AllTold DEF Told
    <3>2. \A s : \A f \in OfPatch(s) : f.code # "example_secret_value"
      BY OfPatchStands
    <3>3. \A s : \A f \in OwnSecrets(s) : f.code = "example_secret_value"
      BY OwnSecretsStand
    <3>4. QED
      BY <3>1, <3>2, <3>3 DEF Owed, OnlySecrets
  <2>4. \A at, n : Finding("example_secret_value", at, n).at = at
    BY DEF Finding
  <2>5. ASSUME NEW f \in secrets PROVE f.at \in ofInputs \cup ofPatches
    <3>1. CASE \E i \in Judged : f \in OnlySecrets(OfInput(i))
      <4>1. PICK i \in Judged : f \in OnlySecrets(OfInput(i))
        BY <3>1
      <4>2. ~TooLarge(InputAt(i)) /\ f \in SecretFindings(InputAt(i), SecretsGiven(InputGiven(i)))
        BY <4>1, InputReported
      <4>3. PICK n \in SecretsGiven(InputGiven(i)) : f = Finding("example_secret_value", Append(InputAt(i), n), 0)
        BY <4>2 DEF SecretFindings
      <4>4. f.at = Append(InputAt(i), n)
        BY <2>4, <4>3
      <4>5. QED
        BY <4>1, <4>2, <4>4
    <3>2. CASE \E s \in Patched : f \in OwnSecrets(s)
      <4>1. PICK s \in Patched : f \in OwnSecrets(s)
        BY <3>2
      <4>2. PICK n \in SecretsPatched(PatchGiven(s)) : f = Finding("example_secret_value", Append(PatchAt(s), n), 0)
        BY <4>1 DEF OwnSecrets, SecretFindings
      <4>3. f.at = Append(PatchAt(s), n)
        BY <2>4, <4>2
      <4>4. QED
        BY <4>1, <4>3
    <3>3. QED
      BY <2>3, <2>5, <3>1, <3>2
  <2>6. ASSUME NEW t \in ofInputs PROVE \E f \in secrets : f.at = t
    <3>1. PICK i \in Judged : ~TooLarge(InputAt(i)) /\ \E n \in SecretsGiven(InputGiven(i)) : t = Append(InputAt(i), n)
      BY <2>6
    <3>2. PICK n \in SecretsGiven(InputGiven(i)) : t = Append(InputAt(i), n)
      BY <3>1
    <3>3. Finding("example_secret_value", t, 0) \in OnlySecrets(OfInput(i))
      BY <3>1, <3>2, InputReported DEF SecretFindings
    <3>4. QED
      BY <2>3, <2>4, <3>3
  <2>7. ASSUME NEW t \in ofPatches PROVE \E f \in secrets : f.at = t
    <3>1. PICK s \in Patched : \E n \in SecretsPatched(PatchGiven(s)) : t = Append(PatchAt(s), n)
      BY <2>7
    <3>2. Finding("example_secret_value", t, 0) \in OwnSecrets(s)
      BY <3>1 DEF OwnSecrets, SecretFindings
    <3>3. QED
      BY <2>3, <2>4, <3>1, <3>2
  <2>8. {f.at : f \in secrets} = ofInputs \cup ofPatches
    BY <2>5, <2>6, <2>7
  <2>9. QED
    BY <2>1, <2>2, <2>8 DEF SecretsReportedAlone
<1>2. QED
  BY <1>1, SecretsAreTold, PTL
==============================================================================
