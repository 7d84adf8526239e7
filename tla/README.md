# Verification of aifvalidate

`aifvalidate` (package root of this repository) judges an AIgentFlow flow
document: YAML text in, a verdict with errors and warnings out. This directory
holds TLA+ models of the parts of it whose correctness depends on more than one
place in the code, the TLC configurations that check them on small documents,
and TLAPS proofs of the results that matter most for every document.

## 1. The system

### 1.1 Parts, state, operations

`ValidateFlow` (`validate.go`) is one sequential call: no I/O, no goroutines, no
global state that changes after `init`. What it owns during a call is

| part | files | state it keeps during a call | operations |
|---|---|---|---|
| parser and key normaliser | `parse.go` | the YAML node tree, the decoded document, `scalarSources`, `positionIndex` | `ParseFlow`, `stringifyScalarKeys`, `normaliseKeys`, `collectScalarSources`, `buildPositionIndex`, `applyPositions` |
| findings | `types.go` | `issues.errors`, `issues.warnings` (append only until the demotion) | `error`, `warn`, `stringOf`, `stringAt` |
| rule pipeline and result | `validate.go` | the order of the rules; the assembled `Result` | `validateFlowObject`, `tolerateStoredBytes`, `finish` |
| connectivity rule | `validate.connectivity.go` | `queue`, `reachable`; `index`, `indices`, `low`, `stack`, `onStack`, `found` | reference checks, breadth-first walk, cycle walk |
| next / parallel rule | `validate.nextlogic.go` | none | `validateParallel` |
| error strategy rule | `validate.errorstrategy.go` | none | `validateErrorStrategy`, `validateLoopBodyErrorGoto` |
| quality gate rule | `validate.qualitygate.go` | `members`, collected before the first gate is judged | `parallelMembers`, `validateQualityGate` |
| basic structure rule | `validate.basicstructure.go` | none | identity, start, steps, reserved ids, executors |
| removed surfaces | `validate.removedsignalcampaign.go`, `validate.removedsurfaces.go`, `validate.retiredkeys.go`, `validate.savedoor.go` | none | presence tests on fixed paths |
| unknown-key rule | `validate.unknownkeys.go` | `reported`: (code, field) pairs already in the errors | `walk`, `report` |
| template rule | `template.go`, `validate.templates.go` | the growing function map of one parse; the found / error counters; the demotion flag of a walk | `parseGoTemplate`, `walk`, `check`, `checkConditions` |
| executor rule | `validate.executors.go` | the composite id of the sub-step it is at | `checkExecutor`, `checkAtlasStep`, `subStepID` |
| loop, for_each, throttle rule | `validate.loopforeachthrottle.go` | the sub-step ids of one body (`seen`) | `validateForEach`, `validateLoop`, `validateLoopSubStepNext` |
| credentials | `validate.credentialbindings.go`, `validate.credentialendpoint.go` | two counters per provider, `stepsUsing` and `stepsWithoutOwnKey` | bindings; pairing of calls, of configuration blocks, of executor families |
| residency | `validate.residency.go` | none; relies on what the pairing warned about | `residencyUnpinned`, `flowDirectsEndpoint` |
| schema rules | `validate.inputschema.go`, `validate.outputschema.go`, `validate.reservedinputs.go` | the first index of every name of one schema | two passes over the fields of every schema |
| examples rule | `validate.examples.go` | ids seen so far; the decoded input all scenarios of an example patch; the merged input of one | `validateExample`, `validateVariants`, `mergeExamplePatch`, `checkInputAgainstSchema`, `scanSecretLike` |
| per-step tables | `validate.queryschema.go` and the other single-step rules | none | one step against a table of the spec |
| spec and helpers | `spec.go`, `keys.go`, `keyhints.go`, `util.go`, `spec/aigentflow-spec.json` | constant after `init` | accessors, sorted iteration |

The parts interact in three ways only. They all read one document; they all
append to one `issues` value; and two of them read what others left there:
`validateUnknownKeys` skips a location an earlier rule reported, and
`tolerateStoredBytes` moves errors to the warnings after every rule has run.
The steps of a flow are walked in sorted order everywhere, so a verdict is a
function of the document.

### 1.2 What is hard about it

There is no concurrency, no message and no crash to model. What a unit test
hardly reaches here is

* the two graph walks of the connectivity rule, which run over cyclic graphs
  with duplicated queue entries, dangling names and names that are also markers,
  and which must agree although each keeps its own edge list and marker test;
* the joint effect of four rules that judge five kinds of route, each with
  exemptions of its own, on what an *accepted* flow can do when it runs;
* facts that depend on the order of rules and passes (the gate rule needs all
  fan-outs first, the unknown-key rule has to run late, the demotion last);
* counters that are derived from one another and clamped at zero, or read after
  a walk that must have been complete;
* bounded retries in the template parser;
* ids of two levels: a loop body has a namespace of its own, and composite ids
  join it to the flow's;
* two rules that share one question, each leaving a part of it to the other
  (residency and pairing);
* a merge into a copy, by recursion over Go maps in any order, where a mapping
  that is not yet copied is shared with every later scenario.

`PROJECT.json` lists each hazard at its line with the property that covers it.

### 1.3 What makes each part correct

* connectivity: the accused steps are exactly those no route leads to; a loop
  warning is raised exactly when reachable steps cannot be left; every finding
  is true, raised once, in step order; the rule returns.
* routing rules together: an accepted flow is never sent to an undefined step,
  never fans out to a gated step, never enters a step called unreachable.
* pipeline: the verdict counts what is left after the demotion; no location is
  reported twice as unknown; the summary agrees with the lists.
* templates: every unknown function is found or the text is refused; a finding
  is demoted exactly when it lies in a loop body; the counters bound each other.
* parsing: a path names one value, one source text, one position.
* loop bodies: an accepted body only jumps to sub-steps of its own; a reference
  may point forward; composite ids name one call site each.
* credentials and residency: the warnings are exactly those the whole flow calls
  for, and an EU-only call reaches a foreign host in silence only through the one gap
  between the two rules' readings of a provider's name (section 6, `call_sites_hosts`).
* schemas: names are resolved over all fields of a schema, in both directions.
* examples: a scenario's input is the merge patch of its example's, which stays
  as written; a secret is reported where it is written and decides nothing else.

## 2. The modules

| module | models | extends / instances |
|---|---|---|
| `FlowGraph` | the routing part of a document as the readers deliver it; marker tests; `cycleTargets`/`cycleEdges`, `reachTargets` | – |
| `FlowPaths` | reference definitions without an algorithm: reachable names, traps, mutual connection | `FlowGraph` |
| `FlowDocument` | the one document a call judges, shared by the two walks | `FlowPaths` |
| `Reachability` | the breadth-first walk | `FlowDocument` |
| `CycleDetect` | `cycleWithoutExit`, recursion as an explicit call stack | `FlowDocument` |
| `ConnectivityFindings` | the four findings of the rule and which are true of a document | `FlowPaths` |
| `ConnectivityPromise` | abstract specification: what the rule promises its caller | `ConnectivityFindings` |
| `Connectivity` | `validateConnectivity` as a whole | `ConnectivityFindings`, `Reachability`, `CycleDetect`; `ConnectivityPromise` as refinement target |
| `Routing` | the routing rules in pipeline order, the verdict, and a run of the accepted flow | `ConnectivityFindings` |
| `Pipeline` | a whole call: entry points, all rules in order, the unknown-key rule's memory, the demotion, the verdict and the step counts | – |
| `Positions` | `buildPositionIndex`, `lookup` with its fallback, `applyPositions` | – |
| `Templates` | the template walk with its counters and its demotion, and `parseGoTemplate` | – |
| `LoopRule` | `for_each`, `throttle`, and a loop body in its two passes | – |
| `CallSites` | the rules that walk every call site in order: step ids, executors and removed surfaces, Nexus queries, the loop rule, credential bindings, the pairing in its three parts, residency | `LoopRule` |
| `InputSchema` | the schema rule over every schema of a flow, and the reserved input names | – |
| `MergePatch` | `applyExamplePatch` on a heap of mappings; RFC 7386 as its reference | – |
| `ExampleParts` | what is judged of a file reference, an input, an expectation, and the credential scan | `InputSchema`, `MergePatch` |
| `Examples` | the walk over examples and scenarios, which composes the three | `ExampleParts` |
| `FlowGraphProofs`, `ConnectivityProofs` (also about `Reachability` and `CycleDetect`), `RoutingProofs`, `PipelineProofs`, `PositionsProofs`, `TemplatesProofs`, `CallSitesProofs`, `ExamplesProofs` (also about `InputSchema`) | lemmas and theorems | the module they are about |
| `MC*` | small sets of documents for TLC | the module they check |

**Documents.** A document is chosen once from the constant `Flows` (in `Routing`:
`Documents`) and never written. A target is what `stringOf` / `stringAt`
deliver: a name, or `Absent` for a missing, null, non-text or empty value. A
step id that is the empty text is left out. Paths, wording, suggestions and the
lists of available steps are left out; a finding keeps its code, its step and
the kind and number of the entry it is about.

**Correspondence.** `Reachability`: `queue`, `reachable`, `current` are the
variables of the Go code, `edges` is the rest of the slice `reachTargets`
returned. `CycleDetect`: `index`, `indices`, `low`, `stack`, `onStack`, `found`
are the captured variables of the closure `strong`; `frames` is the Go call
stack, one frame per activation with the part of its range loop still to do.
Actions are the pieces of the code between two reads of these variables; the
`map` of `PROJECT.json` gives the lines of each. `Connectivity` runs the same
actions, one walk after the other, so what is proved of a walk is proved of the walk it
uses; `todo` holds the step ids that the loop over `stepNames` under way has
still to visit, and the next one is the first of them in lexical order. `Routing` takes each rule as one action (they append and never read what
another wrote) and describes what it adds as a set; for the connectivity rule
that set is the one `Connectivity` is proved to produce. Its run (`FollowNext`,
`FanOut`, `RedirectError`, `RedirectGate`) stands for the AIgentFlow engine, which is
not in this repository: any route the rules name may be taken at any time,
conditions and failures are arbitrary.

`Pipeline` looks at the same pipeline from the other side: all 29 rules in the order
of `validateFlowObject`, what each finds being an input (any findings whatever), so
that its results hold for every set of rules. The unknown-key rule is the one
that reads what others wrote and is spelled out, one location per step; so is
`tolerateStoredBytes`, one error per step. That `templates`, the only rule after
the unknown-key rule, raises neither of its codes is part of `IsCall`.

`Positions` takes the node tree as given (`below`, `target`); a path is the sequence
of its pieces, and a key that holds a dot has several, so that two nodes can have
one path. `pending` is the recursion of `indexNode` / `indexNodeChildren`, the links
still to come by, innermost first; `length` is what `lookup` has left of the path.

`Templates` opens the places of a step one by one (`Part`), in the order of
`validateTemplates`; `agenda` holds the texts of the open place. A text is the
sequence of the function names in it, `Broken` standing for a syntax error;
`text/template` stops at the first name without a function or at the error
(`StopsAt`, external). One `Learn` is one round of the loop in `parseGoTemplate`. Its
defensive branch for a name that already has a stub is left out: `Parse` does not
name such a function. Whether a tree pipes a default or reads a human answer is
part of the text.

`CallSites` runs its rules in pipeline order and walks with two indices, `step` and
`sub` (0 is the step itself); one step of the model is one call site under one
rule, one sub-step in a pass of the loop rule. `seen`, `using` and `withoutOwnKey` are the
variables of the Go code, as they are carried from one site to the next. A
finding keeps its code, the indices of its place and its `StepID`. An executor is its parts; a
query and a block of `executor_config` map keys to scalars of a few kinds (text, number,
template, blank text, `${...}` reference), because the readers differ in which of
them they accept: the pairing's `queryNonEmptyString` accepts a blank endpoint and residency
does not. Two findings are named by the sub-step's own id and not by its index: the pairing's
(`Named`) by the text of any scalar, residency's (`NamedByString`) only by an id that is a string.
Schemes and providers are trimmed and put in lower case (`Trim`, `Lower`) where the code does that,
and read as written elsewhere: residency looks a provider up without regard to case, the
pairing does not. `Deciding` is the nested search of a family's secret and endpoint. Where
`UnpairedExact` needs what that search should find, it says so anew, by the precedence
of places (`IsFirst`), and the lemma `DecidingIsFirst` shows that the two agree. The code's table
gives a family at most one block of `executor_config`, and so do the documents of the
run; the lemma holds for any number.

`InputSchema` walks the schemas in the order of the two rules that judge them, and each
schema's fields twice. Its `site` is the step and the sub-step whose schema is judged; a step
or a sub-step that is no mapping is a site without a schema. `Examples` goes on from there, one example and one scenario at a time.
A document is a function from paths to leaves. `MergePatch` puts the two documents on a heap
of mappings that refer to one another, since the question is who shares what
with whom; one step is one key of the innermost `mergeExamplePatch` call, the keys of a mapping in any
order. The schemas do not read what the examples write, and no severity is
modelled, so `findings` is one growing set.

**Mutants.** An operator commented `Mutant:` is not part of the model. It is a
plausible bug in the definition after it; `PROJECT.json` names the property
that has to catch it.

## 3. The runs

| run | documents | shows |
|---|---|---|
| `reachability` | three steps with every pair of edge kinds, a marker, a name without a step, start present or dangling, a flow-level redirect | `NothingInvented`, `NoEdgeLost`, `ReportExact`, `WalkEnds` |
| `cycle_detect` | three steps with markers, fan-outs and missing defaults; four steps with two edges each | `StacksAgree`, `ClosesWholeComponent`, `FoundSound`, `FoundExact`, `LoopEnds` |
| `connectivity` | two steps, half of the documents with a third one named `null`; dangling names, wrong keys, both markers | `WalksAgree`, and `KeepsPromise`: the rule implements `ConnectivityPromise` |
| `routing` | three steps, every kind of route and of gate, stored bytes on and off; also flows with a step named `null` | `RoutesResolve`, `FannedNotGated`, `AccusedOnlyThroughGaps` |
| `routing_gates` | the documents of three steps | a violation: see section 6 |
| `pipeline` | text and object entry, nil document, parse errors, colliding findings of two rules, repeated unknown locations, tolerated and other codes, stored bytes on and off | `FiledBySeverity`, `VerdictExact`, `ReportedOnce`, `FindingsSurvive` |
| `pipeline_steps` | the same calls | a violation: see section 6 |
| `positions` | trees with a dotted key, a list, an alias, two nodes with one path, in both orders; findings at, below and beside what exists | `NearestAncestor`, `KeyLinePreferred` |
| `templates` | loops with two sub-steps and plain steps; texts that are known, unknown, repeated, broken before, among and after the unknown names, and exhausting; strict or not | `RoundsLearn`, `SeverityByPlace`, `ReportsExact`, `CountsExact` |
| `call_sites` | two loops in one flow with every kind of jump, id and repeat; every defect of `for_each`, `throttle` and a loop's keys; executors of every kind; calls with every combination of key, endpoint and region in the query and in `executor_config`, as a step and as a sub-step, the provider in lower case or not; families with several secrets and endpoints | `MissesExact`, `AcceptedBodyRuns`, `SitesNamed`, `UnpairedExact`, `NoSilentForeignHost` |
| `call_sites_hosts` | the same flows | a violation: see section 6 |
| `examples` | schemas of up to three fields with repeats, dangling and forward conditions; inputs and patches with mappings down to two levels below the bound; secrets, gates that rest on them, files; each defect of an example, scenario, expectation and checkpoint | `SchemaNames`, `PatchIsMergePatch`, `SecretsReportedAlone` |

**Bounds.** Nothing is cut off inside a behaviour: a document is finite and the
walks end by themselves, so a run is exhaustive for its documents. Three steps
are the least that have a cycle with an entry from outside, a cycle next to a
step outside it, and a name queued twice by two different steps; four, in
`McDense`, are the least in which two nested components are closed while a third
is open, which is where a low link can go wrong. Markers and a name without a
step stand for all of their kind. `MaxUnknown` is 2 in `templates` (64 in `keys.go`):
with three unknown names in one text the bound is met below, at and beyond it. A
tree has at most four levels in `positions`, and a finding's path goes up to three
pieces beyond the last one that exists. In `call_sites` the spec's ceilings are single
digits and every value next to one occurs; two steps and one loop of up to two sub-steps are
the least in which an id, a counter or a key of one body could leak into
another. In `examples` `MaxDepth` is 1 (32 in the code, which only moves the boundary) and
documents reach below it; the limits on entries and lists are crossed by one, and
two scenarios patch one input, the least in which one could spoil the next. No symmetry is used: the sorted order of
names and the marker names break it.

**Deadlock.** `CHECK_DEADLOCK FALSE` everywhere: the call returns and the model stops.

**Fairness.** Weak fairness of the next-state relation on the walks and on `Connectivity`. The code is one
sequential call that waits for nothing, so it takes a step whenever it has one.
`Routing` states no liveness and has no fairness: a mission may stop anywhere. The
other modules state safety only.

## 4. The proofs

All theorems hold for every set of names, markers and flows that satisfies the
named assumptions (`NamesAssumption`, `FlowsAssumption`; in `Routing` also
`OrderAssumption`, `MarkersAssumption`, `DocumentsAssumption`; in `InputSchema` only that the lists of a
document have a length; in `Examples` that inputs and patches are documents, their mappings
above what lies in them, as a decoded JSON object is, finite and with a kind for every value; that two
indices are written differently (`IndexAssumption`), that there is an index for every example and scenario, and that the entry
limit is a number; in `CallSites` that the providers with regions are in lower case and their
blocks judged, and that the lists of a family have a length; in `MergePatch` that the depth bound is above zero: the code's is 32).

* `ConnectivityProofs`, the first walk. `WalkInv` adds to the properties what ties the
  variables to the place in the code (`WalkShape`), that the seeds are never dropped
  (`SeedsKept`) and that the pending edges belong to the step being expanded
  (`PendingEdges`). Without the last one `NoEdgeLost` is not inductive: the third
  way for an edge not to be lost would not be known to end in a push.
  `WarningsExact` follows at the end of the walk: the visited set is closed and
  holds the seeds, so it contains the least such set, and `NothingInvented`
  gives the converse.
* `ConnectivityProofs`, the cycle walk. `LoopInv` adds the visit numbers (`NumbersOK`), the shape of the
  call stack (`CallsOK`) and that only steps a path leads to are visited
  (`VisitsFollowed`). `LoopWarningSound`: the popped component, when none of its
  members leaves it, *is* a trap, whatever the low links were; so soundness
  needs no argument about components. That no trap is missed does, and
  `LinksInv` carries it: Tarjan's algorithm, proved for every graph and every order of edges.
  Popped steps are closed under edges and no edge of an open step is skipped (`EdgesFollowed`);
  every open step is reached from the activations below it and leads back to one
  at or below it (`CallsConnect`); a low link is the number of an open step that can be
  reached, and no edge dealt with under an activation leads further down than its link
  (`LowLinks`). So when `low[id] = indices[id]` no edge leaves what lies above `id`
  downwards: the popped steps are closed together with what was popped before, and each leads to
  `id`, which is `ComponentsAreWhole`. `TrapsJudged` carries the verdict: no step of a trap was popped before,
  so a component with a step of a trap keeps its edges to itself and lies in the trap
  as a whole, and `IsInescapable` says so. At the end nothing is open, so
  `LoopWarningExact` follows.
* `ConnectivityProofs`, the whole rule. Its steps are steps of one walk and leave the
  other alone (`StepsOfTheWalks`), so `WalkInv`, `LoopInv` and `LinksInv` hold in it.
  `RuleInv` says which walk is where in which phase (`PhaseOK`), that a loop over the
  sorted steps has finished with the first of them (`StepsInOrder`), and which findings are
  there by the place the loops have come to: a true error exactly when its reading is done
  (`ErrorsTold`), a true warning when its loop has come by (`WarningsTold`). `TheWalksAgree`:
  what the cycle walk follows is reachable, and the first walk is over before the second
  begins. `PromiseKept` is the refinement of `ConnectivityPromise`, step by step: all of `KeepsPromise`
  but the liveness. It needs the exactness of both walks, since on return no true
  finding may be missing.
* `RoutingProofs`. `IndInv` says what each phase knows (`Kept`: what a rule found is
  still among the errors) and that a running flow passed the five rules
  (`RoutesClean`). The demotion is the crux: the codes that refuse a route are
  not among the tolerated ones. `AcceptedRoutesResolve` and `GatesStaySequential` follow
  by cases over the four kinds of step a run can take. `AccuseInv`, for `AccusationsHold`: a
  warning only names a step outside the least closed set, and a run that used neither
  of the two gaps has only entered members of it.
* `PipelineProofs`. Assumes nothing of the rules but the types of what they raise.
  `IndInv` says what each phase knows (`PhaseOK`), that every error raised so far is
  among the errors and nothing else is (`RulesRaised`, `OnlyRaised`), that a remembered
  or reported location left an error behind (`UnknownRaised`), and how far the
  demotion has split the list (`Sorted`). `VerdictIsExact` needs all of it: the
  verdict is a count of what is left, so an error must neither get lost nor be
  kept twice on the way. It rests on `ToleratedAssumption`: the spec forgives neither of
  the unknown-key rule's codes. `NothingIsLost` is an action property from the same
  invariant; the step that needs it is the end of the demotion. `AdviceIsGivenOnce` counts, with
  `CountInv`: what is at a location is what the rules up to the due one raised there, the
  walk's memory holds every location that has something, and the demotion keeps the number.
* `PositionsProofs`. For every node tree, the recursion has at every moment come by a
  node, or holds a link to it, or will reach it below one (`VisitCover`); so at
  the end the index knows the path of every node and no other path, and the
  first hit of `lookup` is the longest prefix of the finding's path that is a
  node's (`PlacedAtNearest`). That every node hangs on the root, stated as an induction
  over sets of nodes in `IsDocument`, is what makes the index complete. `KeyLineWins`
  rests on `KeyInv`: a path that some key leads to is already in the index by a key, or the key
  is among the links still to come by, or lies below one of them.
* `TemplatesProofs`. `IndInv` adds that every visit carries the flag its place asks for
  (`Placed`), and that a finding in a list may be there. `RoundsAreNotWasted`: the first
  token without a function is a name that no error precedes and that has no stub.
  `LoopBodyNeverRefuses` holds of every text, option and nesting. `SummaryCounts` and
  `ReportsAreExact` say what is there when the rule returns. The kind and the path of a visit tell its
  place (`PartPlaces`), so no visit is met twice and the set the walk is done with grows by one
  leaf at a time (`WalkInv`); the counters are cardinalities of that set (`CountInv`), and
  each leaf in it has got just what its text deserves (`ReportInv`). What a parse's
  end says of the text follows from `RoundsLearn`: the stubs are the unknown names read so far.
* `CallSitesProofs`. For every set of flows with distinct step ids, every spec table and
  every ceiling. `Shape`, `Counters` and `SeenExact` say where the walk is and what it has
  counted and collected; `SeenExact`, that `seen` holds the ids of this body up to the
  current sub-step and of no other, is what `MissesExact` needs of the first pass.
  `BodiesJudged` and `BodyUnderWay` say what a body without errors has shown so far;
  `SitesNamedAlways` combines them with `DotsRefused` (an id with a dot has left an error) and a
  lemma on composite ids: the first piece tells the step, the rest the sub-step. In
  `NoSilentForeignHostAlways`, `HostInv` says for every site the walk has passed that it is pinned,
  warned about, or counted among the calls without a key of their own; the last
  is settled when the counters are read. The theorem names the one gap it leaves, a provider written
in another case or between spaces for which the flow names an endpoint under the lower-case name: it says
that no other is left. `UnpairedExactAlways` needs more, `PairInv`: the
  pairing's warnings are, in each phase, what the sites passed so far contribute and no
  other, and a counter is above zero just if one of those sites is of its kind.
* `ExamplesProofs`. `SchemaNamesAlways` holds of every set of flows and every vocabulary. `SchemaInv`
  says where the walk over the schemas is (`SiteOK`), that `seen` holds of each name its first
  declaration among the fields passed of this schema and of no other (`SeenOK`), and that what
  is reported of names and of conditions is just what the fields passed deserve (`ReportedOK`). The places
  of two fields differ because the walk reports each at its own; that two findings might be equal
  does no harm, since both sides are sets. What is judged after the schemas reports with other
  codes (the lemmas named `...Silent`, one for each part of an example or a scenario).
* `ExamplesProofs`, the merge. `PatchAlwaysMerged` holds of all inputs and patches, of any width and
  depth, every bound and every order of the keys. `MergeInv` says that the input stays where the
  example left it, and of a merge under way (`Going`) that the heap `Holds` three documents, each
  mapping by mapping: the patch, in mappings of its own; and `Merged`, what RFC 7386 makes of the
  input and of the entries the calls have `Handled` so far, in mappings of the result at the paths it
  owns and in the input's elsewhere. It owns every path down to the bound (`Owned`); without that an
  entry would be written into a mapping the input shares. An entry that is handled is the next one:
  what lies above it is handled, what lies below it is not (`EntryTaken`), so by `OneMore` it changes
  the merged document at its path alone, or not at all. Then `EditMerges` and `NestMerges` show that
  the heap changes likewise; a copy (`CopiedHolds`) moves what is near into mappings of the result and changes no
  document. What a mapping reads as is a recursion over paths; `FromIs` shows
  that its equation has one solution, by the least path on which two would differ, and `ReadHolds` that a document that
  is held is what is read.
* `ExamplesProofs`, the secrets. `SecretsAlwaysAlone` says that an input and a patched input are judged as
  they would be without their secrets, and that each secret is reported where it is written and
  nowhere else. `SecretsInv` says that what is `Told` of secrets and in inputs and patches, whatever the
  walk has found besides, is what is `Owed` of the inputs and patches done so far; a patch under way owes
  its secrets and no more, since the block reports these before it merges. The proof has three parts. What the other
  checks find is `Off` every input and patch and of no secret (the lemmas named `...Quiet`): it stands at another key of the
  example or the scenario, or outside the examples. Two inputs, two patches, an input and a patch
  are apart, by `IndexAssumption`, so that the findings of one are not taken for those of another. And an input that is not
  too large is `JudgedApart`: without its secrets a document is `Alike` for every check, since
  the run input that conditions read (`RunInput`) leaves secrets out. `SecretsAreTold` takes
  what the merge returns from `MergeInv`.
* `FlowGraphProofs` holds the lemmas on sequences, on edges and on the least closed set
  that the others cite.

Only model-checked: `WalkEnds`, `LoopEnds` and the liveness half of `KeepsPromise`, since liveness under fairness is out of the
prover's reach. Every invariant and every action property of a passing run is a theorem. Each part of an inductive invariant that is not a property
of a run was checked by TLC on the run's instance before it was proved.

## 5. Plan

Done: the graph walks and the rule around them, the routing rules with a run, the
pipeline, positions, templates; the call sites with loop bodies, credentials and
residency; schemas and examples. What is left, in this order:

1. `normaliseKeys` and `collectScalarSources`: which value and which source text a
   path with a dotted or colliding key resolves to.
2. The per-step query rules, as far as two of them judge one key.
3. `ValidSteps` against composite ids, by running `CallSites` under `Pipeline`.

## 6. Findings

* `routing_gates`. `reachTargets` follows five kinds of edge. A quality gate with
  `on_fail: goto` is a sixth kind of route, which the gate rule accepts and
  whose target it checks. A step that only such a gate leads to is therefore
  reported as not reachable from the start step, in a flow the validator
  accepts. `AccusedOnlyThroughGaps` shows that a run reaches an accused step only by
  this or by a second gap: the walk stops at a marker's name even where a step is named so
  (`null`), while the rules of error redirects and of fan-outs let a run enter that step and go on.
* `pipeline_steps`. `ValidSteps` subtracts the number of distinct step ids among the
  errors from the number of top-level steps. An error of a loop sub-step has the
  composite id `parent.child`, so it lowers the count although it names no
  top-level step; two sub-steps of one parent lower it twice, and `max(0, …)` hides
  what goes below zero. The comment in `finish` says a step is valid when no error
  names it.
* `call_sites_hosts`. Residency puts a provider in lower case before it looks for
  `<provider>_base_url`, the pairing reads it as written. A call `ai://OpenAI/chat` with `openai_base_url`
  and no key, in a flow confined to the EU, is pinned for residency and unknown to the pairing:
  nobody warns, though the pairing's comment promises a warning for a step's
  `<provider>_base_url` with no key of the flow's own. `NamedEndpointWarned` says what the
  comment does, `NoSilentForeignHost` that this is the only gap between the two rules.

Observed while modelling, and part of the models, not of a run of their own:

* Positions: the fallback of `lookup` needs an ancestor, and a path of one piece has
  none. A finding about a missing top-level key (`start`, `steps`) keeps line 0, where the
  repository's README (line 19) says every finding resolves to a line (`NearestAncestor` describes it).
* Templates: when a syntax error follows unknown functions, the names learnt before it
  are dropped; the comment at `template.go:107` says unknown functions are always
  reported. With 64 unknown names in one text the rounds are used up, and a
  syntax error behind them is not reported (`ReportsExact` describes both).
* Merge patch: the comment at `examples.go:930` says the result shares no map with its inputs. Below
  the depth bound it does; nothing below the bound is written, so the example
  stays as it is (`PatchIsMergePatch` says both).
* Scenarios: the comment at `examples.go:1372` says the parent's own input problems are not reported
  twice. Only its secrets are filtered; an unknown field of the example's input
  is reported again at every scenario (`SecretsReportedAlone` describes what is).
* Scenarios of an example that has an `input_ref`: a secret in their patch is not
  reported as one, since the patch is not judged at all (`example_variant_unchecked`). An
  input that is too large hides the report of its secrets.
* A date in `visible_when.equals` stays a time while the input is normalised to text: the
  field is never visible.
* Of two fields of one name, the input is judged by the last and a patch by any.

## 7. Not modelled

The per-step query and configuration tables, the retired keys, the template
default and strict rules, the expression lexer and the spec loader: each judges
one value against a constant table, keeps no state and is covered by table
tests. `normaliseKeys` and `collectScalarSources`: pure walks; the models start from what
the readers deliver. In the models that exist: the size in bytes of the examples
block, the severity of an examples finding (a table of the spec), URL and
pattern syntax, what an endpoint's origin is normalised to (a table), suggestions
and wording. The parsers of `yaml.v3` and `text/template` are external. `exonsinspect` is a separate
module no rule consults any more.
