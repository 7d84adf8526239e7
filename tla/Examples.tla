------------------------------- MODULE Examples --------------------------------
(****************************************************************************)
(* The rules on a flow's inputs and examples: the schemas, then the block   *)
(* of examples, one example at a time and in it one scenario (variant) at a *)
(* time, whose patch is merged into the example's input before it is        *)
(* judged.  All examples work on one flow, all scenarios of an example on   *)
(* one input.  A finding's severity is a table of the spec; it is left out. *)
(****************************************************************************)
EXTENDS ExampleParts

VARIABLES
  example, variant,    \* where the walk is
  ids, variantIds      \* seen: of examples, with their index, and of scenarios

exampleVars == <<example, variant, ids, variantIds>>
vars == <<schemaVars, mergeVars, exampleVars>>

ExampleAt(i) == <<"examples", Index[i]>>
VariantAt(i, j) == ExampleAt(i) \o <<"variants", Index[j]>>

Current == flow.examples[example]
Scenario == Current.variants[variant]
At == IF phase = "example" THEN ExampleAt(example) ELSE VariantAt(example, variant)

HasInput(ex) == ex.input # Absent
InputOf(ex) == IF IsRecord(ex.input) THEN ex.input ELSE Empty

(* Examples and variants are lists, and have an index each; inputs and      *)
(* patches are documents.                                                   *)
ASSUME DocumentsAssumption ==
  \A f \in Flows :
    /\ Len(f.examples) \in Nat /\ 1..Len(f.examples) \subseteq DOMAIN Index
    /\ \A i \in 1..Len(f.examples) :
         LET ex == f.examples[i]
             documents == {InputOf(ex)} \cup {ex.variants[j].patch : j \in {k \in 1..Len(ex.variants) : ex.variants[k] # Other}} IN
         ex # Other =>
           /\ ex.variants \in Seq(Range(ex.variants)) /\ 1..Len(ex.variants) \subseteq DOMAIN Index
           /\ \A d \in documents : IsDocument(d) /\ IsFiniteSet(DOMAIN d) /\ \A p \in DOMAIN d : "kind" \in DOMAIN d[p]
ASSUME IndexAssumption == \A m, n \in DOMAIN Index : Index[m] = Index[n] => m = n
ASSUME EntriesAssumption == MaxEntries \in Nat

------------------------------------------------------------------------------
(* validateSet: what is said of the block as a whole.                       *)
JudgeSet ==
  /\ phase = "set"
  /\ LET all == flow.examples
         n == Len(all) IN
       /\ Report(IF n = 0 THEN {}
                 ELSE Findings(If(n > MaxExamples, "examples_too_many")
                                 \cup If(\A i \in 1..n : all[i] # Other /\ all[i].holdOut, "examples_all_held_out")
                                 \cup If(flow.public, "examples_published_with_public_flow"), <<"examples">>))
       /\ phase' = IF n = 0 THEN "done" ELSE "example"
  /\ UNCHANGED <<flow, site, part, field, seen, mergeVars, exampleVars>>

TextCodes(text, code) == If(text \in LongTexts, code)
WeightCodes(weight) == If(weight # Absent /\ (weight <= 0 \/ weight > MaxWeight), "example_weight_range")

IdCodes(id) ==
  IF id = "" THEN {"example_id_missing"} ELSE If(id \notin Ids, "example_id_invalid")

(* A tag is one of those before it even where that was invalid.             *)
TagFindings(tags, at) ==
  Findings(If(Len(tags) > MaxListed, "example_tag_invalid"), at)
    \cup {Finding("example_tag_invalid", Append(at, Index[n]), 0) :
            n \in {k \in 1..Len(tags) : /\ tags[k] # Other
                                        /\ tags[k] \notin Tags \/ \E e \in 1..(k - 1) : tags[e] = tags[k]}}

AboutFindings(ex) ==
  Findings(IdCodes(ex.id), Append(At, "id"))
    \cup (IF ex.id \in Ids /\ ids[ex.id] # 0 THEN {Finding("example_id_duplicate", Append(At, "id"), ids[ex.id])} ELSE {})
    \cup Findings(If(ex.title \in Blank, "example_title_missing") \cup TextCodes(ex.title, "example_title_too_long"), Append(At, "title"))
    \cup Findings(If(ex.guidance \in Blank, "example_guidance_missing")
                    \cup TextCodes(ex.guidance, "example_guidance_too_long"), Append(At, "guidance"))
    \cup Findings(TextCodes(ex.notes, "example_notes_too_long"), Append(At, "notes"))
    \cup TagFindings(ex.tags, Append(At, "tags"))
    \cup Findings(WeightCodes(ex.weight), Append(At, "weight"))
    \cup Findings(ScoreCodes(ex.score), Append(At, "min_score"))
    \cup Findings(If(ex.sideEffects \notin SideEffects \cup {""}, "example_side_effects_invalid"), Append(At, "side_effects"))
    \cup Findings(If(ex.holdOut /\ flow.public, "example_holdout_in_public_flow"), Append(At, "hold_out"))

GivenFindings(ex) ==
  Findings(If(HasInput(ex) /\ ex.inputRef # Absent, "example_input_conflict")
             \cup If(~HasInput(ex) /\ ex.inputRef = Absent, "example_input_missing"), At)
    \cup (IF IsRecord(ex.input) THEN InputFindings(ex.input, Append(At, "input"), "example_input_invalid") ELSE {})
    \cup (IF IsRecord(ex.inputRef) THEN Findings(FileRefCodes(ex.inputRef), Append(At, "input_ref")) ELSE {})

ExpectedFindings(ex) ==
  LET at == Append(At, "expected") IN
  IF ~IsRecord(ex.expected) THEN Findings(If(ex.expected = Absent, "example_expected_missing"), at)
  ELSE ExpectationFindings(ex.expected, at, flow.output, FALSE)
         \cup Findings(If(BinaryOnly(ex.expected), "examples_unreadable_by_judge"), at)

(* A checkpoint is on a plain step; an empty one expects nothing.           *)
StepsNamed(id) == {n \in 1..Len(flow.steps) : flow.steps[n] # Other /\ flow.steps[n].id = id}
CheckpointFindings(ex) ==
  UNION {LET at == At \o <<"checkpoints", id>>
             cp == ex.checkpoints[id] IN
         IF StepsNamed(id) = {} THEN {Finding("example_checkpoint_step_unknown", at, 0)}
         ELSE LET n == CHOOSE k \in StepsNamed(id) : TRUE IN
              IF flow.steps[n].composite THEN {Finding("example_checkpoint_step_composite", at, 0)}
              ELSE IF cp = Other THEN {}
              ELSE ExpectationFindings(IF cp = Absent THEN NoExpectation ELSE cp, at, OutputsOfStep(n), TRUE)
         : id \in DOMAIN ex.checkpoints}

SkipExample ==
  /\ phase = "example" /\ Current = Other
  /\ IF example < Len(flow.examples) THEN example' = example + 1 /\ UNCHANGED phase
     ELSE phase' = "done" /\ UNCHANGED example
  /\ UNCHANGED <<flow, site, part, field, seen, findings, mergeVars, variant, ids, variantIds>>

(* validateExample, up to the scenarios.                                    *)
JudgeExample ==
  /\ phase = "example" /\ Current # Other
  /\ Report(AboutFindings(Current) \cup GivenFindings(Current) \cup ExpectedFindings(Current) \cup CheckpointFindings(Current)
              \cup Findings(If(Len(Current.variants) > MaxVariants, "example_variants_too_many"), Append(At, "variants")))
  /\ ids' = IF Current.id \in Ids /\ ids[Current.id] = 0 THEN [ids EXCEPT ![Current.id] = example] ELSE ids
  /\ heap' = Stored("base", InputOf(Current)) /\ UNCHANGED frames
  /\ variant' = 1 /\ variantIds' = {}
  /\ phase' = IF Current.variants = <<>> THEN "scan" ELSE "variant"
  /\ UNCHANGED <<flow, site, part, field, seen, example>>

------------------------------------------------------------------------------
Patches(v) == v # Other /\ DOMAIN v.patch # {}

NextVariant ==
  IF variant < Len(Current.variants) THEN variant' = variant + 1 /\ phase' = "variant"
  ELSE phase' = "scan" /\ UNCHANGED variant

VariantFindings(v) ==
  Findings(IF v.id \notin Ids THEN {"example_variant_id_invalid"}
           ELSE If(v.id \in variantIds, "example_variant_id_duplicate"), Append(At, "id"))
    \cup Findings(If(v.origin \notin Origins, "example_variant_origin_invalid"), Append(At, "origin"))
    \cup Findings(TextCodes(v.title, "example_title_too_long"), Append(At, "title"))
    \cup Findings(TextCodes(v.guidance, "example_guidance_too_long"), Append(At, "guidance"))
    \cup Findings(TextCodes(v.provenance, "example_notes_too_long"), Append(At, "provenance"))
    \cup Findings(WeightCodes(v.weight), Append(At, "weight"))
    \cup Findings(If(Patches(v) /\ v.inputRef # Absent, "example_variant_input_conflict")
                    \cup If(~Patches(v) /\ v.inputRef = Absent /\ v.expected = Absent, "example_variant_empty"), At)
    \cup (IF v.inputRef # Absent THEN Findings(FileRefCodes(v.inputRef), Append(At, "input_ref")) ELSE {})
    \cup Findings(If(Patches(v) /\ ~HasInput(Current), "example_variant_unchecked"), Append(At, "input_patch"))
    \cup (IF IsRecord(v.expected) THEN ExpectationFindings(v.expected, Append(At, "expected"), flow.output, FALSE) ELSE {})

(* The secrets a patch supplies itself: of any field of that name.          *)
PatchSecrets(patch) ==
  {Finding("example_secret_value", At \o <<"input_patch", n>>, 0) :
     n \in {m \in NamesGiven(patch) : ~IsNil(patch, m) /\ \E i \in Named(m) : InputFields[i].type = "secret"}}

JudgeVariant ==
  /\ phase = "variant"
  /\ IF Scenario = Other
     THEN NextVariant /\ UNCHANGED <<findings, mergeVars, variantIds>>
     ELSE LET merges == Patches(Scenario) /\ HasInput(Current) IN
          /\ Report(VariantFindings(Scenario) \cup (IF merges THEN PatchSecrets(Scenario.patch) ELSE {}))
          /\ variantIds' = variantIds \cup {Scenario.id}
          /\ IF merges THEN Apply(Scenario.patch) /\ phase' = "merge" /\ UNCHANGED variant
             ELSE NextVariant /\ UNCHANGED mergeVars
  /\ UNCHANGED <<flow, site, part, field, seen, example, ids>>

Merge ==
  /\ phase = "merge" /\ MergeStep
  /\ UNCHANGED <<schemaVars, exampleVars>>

(* The scratch walker: what it finds counts, but for secrets.               *)
JudgePatched ==
  /\ phase = "merge" /\ frames = <<>>
  /\ Report({f \in InputFindings(Read(heap, Result), Append(At, "input_patch"), "example_variant_input_invalid") :
               f.code # "example_secret_value"})
  /\ NextVariant
  /\ UNCHANGED <<flow, site, part, field, seen, mergeVars, example, ids, variantIds>>

(* scanSecretLike, which ends the example.                                  *)
TextSecrets(m, keys, at) == UNION {Secrets(m[key], Append(at, key)) : key \in keys}
VariantSecrets(v, at) ==
  IF v = Other THEN {}
  ELSE TextSecrets(v, {"title", "guidance", "provenance"}, at) \cup DocumentSecrets(v.patch, Append(at, "input_patch"))
         \cup (IF IsRecord(v.expected) THEN ExpectationSecrets(v.expected, Append(at, "expected")) ELSE {})

ScanExample ==
  /\ phase = "scan"
  /\ LET ex == Current
         at == ExampleAt(example) IN
       Report(TextSecrets(ex, {"title", "guidance", "notes"}, at)
                \cup DocumentSecrets(InputOf(ex), Append(at, "input"))
                \cup (IF IsRecord(ex.expected) THEN ExpectationSecrets(ex.expected, Append(at, "expected")) ELSE {})
                \cup (UNION {IF IsRecord(ex.checkpoints[id]) THEN ExpectationSecrets(ex.checkpoints[id], at \o <<"checkpoints", id>>)
                             ELSE {} : id \in DOMAIN ex.checkpoints})
                \cup UNION {VariantSecrets(ex.variants[j], VariantAt(example, j)) : j \in 1..Len(ex.variants)})
  /\ IF example < Len(flow.examples) THEN example' = example + 1 /\ phase' = "example"
     ELSE phase' = "done" /\ UNCHANGED example
  /\ UNCHANGED <<flow, site, part, field, seen, mergeVars, variant, ids, variantIds>>

Init ==
  /\ SchemaInit
  /\ heap = Stored("base", Empty) /\ frames = <<>>
  /\ example = 1 /\ variant = 1
  /\ ids = [id \in Ids |-> 0] /\ variantIds = {}

JudgeSchemas == SchemaStep /\ UNCHANGED <<mergeVars, exampleVars>>

Next ==
  \/ JudgeSchemas
  \/ JudgeSet \/ SkipExample \/ JudgeExample
  \/ JudgeVariant \/ Merge \/ JudgePatched
  \/ ScanExample

Spec == Init /\ [][Next]_vars

------------------------------------------------------------------------------
(* The patched input is what RFC 7386 makes of the example's input and the  *)
(* patch, down to the bound, whatever the order of the keys and whatever    *)
(* the scenarios before did; the input and the patch are as they were       *)
(* written, and down to the bound the result shares no mapping with them.   *)
PatchIsMergePatch ==
  (phase = "merge" /\ frames = <<>>) =>
    /\ Read(heap, Result) = RFC7386(InputOf(Current), Within(Scenario.patch))
    /\ Read(heap, Base) = InputOf(Current) /\ Read(heap, Patch) = Scenario.patch
    /\ \A p \in Reached(heap, Result) : Len(p) <= MaxDepth + 1 => From(heap, Result)[p] = <<"result", p>>

(* The examples with an input, their scenarios with a patch, and where the  *)
(* two stand.                                                               *)
Judged == {i \in 1..Len(flow.examples) : flow.examples[i] # Other /\ HasInput(flow.examples[i])}
Patched ==
  UNION {{<<i, j>> : j \in {k \in 1..Len(flow.examples[i].variants) : Patches(flow.examples[i].variants[k])}} : i \in Judged}
InputGiven(i) == InputOf(flow.examples[i])
PatchGiven(s) == flow.examples[s[1]].variants[s[2]].patch
InputAt(i) == Append(ExampleAt(i), "input")
PatchAt(s) == Append(VariantAt(s[1], s[2]), "input_patch")

Secret(n) == TypeNamed(n) = "secret"
Public(d) == [p \in {q \in DOMAIN d : ~Secret(q[1])} |-> d[p]]
SecretsGiven(d) == {n \in NamesGiven(d) : Secret(n) /\ ~IsNil(d, n)}
SecretsPatched(d) == {n \in NamesGiven(d) : ~IsNil(d, n) /\ \E k \in Named(n) : InputFields[k].type = "secret"}

TooLarge(at) == Finding("example_input_too_large", at, 0) \in findings
Reported(at) == {f \in findings : IsPrefix(at, f.at) /\ f.code \notin {"example_secret_value", "example_secret_like_value"}}

(* In a block that is judged, a secret is reported where it is written, in  *)
(* an input or in a patch, never where it is inherited; and it decides      *)
(* nothing else: an input that is not too large is found to be what it      *)
(* would be without its secrets, that of a scenario as well.                *)
SecretsReportedAlone ==
  phase = "done" =>
    /\ \A i \in {k \in Judged : IsRecord(flow.examples[k].input)} :
         TooLarge(InputAt(i)) \/ Reported(InputAt(i)) = InputFindings(Public(InputGiven(i)), InputAt(i), "example_input_invalid")
    /\ \A s \in Patched :
         TooLarge(PatchAt(s))
           \/ Reported(PatchAt(s)) = InputFindings(Public(RFC7386(InputGiven(s[1]), Within(PatchGiven(s)))), PatchAt(s),
                                                   "example_variant_input_invalid")
    /\ {f.at : f \in {g \in findings : g.code = "example_secret_value"}}
         = (UNION {{Append(InputAt(i), n) : n \in SecretsGiven(InputGiven(i))} : i \in {k \in Judged : ~TooLarge(InputAt(k))}})
           \cup UNION {{Append(PatchAt(s), n) : n \in SecretsPatched(PatchGiven(s))} : s \in Patched}
==============================================================================
