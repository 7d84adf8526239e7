------------------------------- MODULE CallSites -------------------------------
(****************************************************************************)
(* The rules that judge every call site of a flow: the steps in sorted      *)
(* order, each followed by the sub-steps of its loop.  Executors, removed   *)
(* surfaces and Nexus operations, then the loop rule, credential bindings,  *)
(* the pairing of credentials with endpoints, and residency.                *)
(*                                                                          *)
(* A scalar is a string or, where a number may stand, a member of Numbers;  *)
(* "" stands for a missing one.  A query maps keys, which are tuples, to    *)
(* scalars.  Mappings and lists among the values are left out.              *)
(****************************************************************************)
EXTENDS LoopRule, FiniteSetsExt

CONSTANTS
  Numbers, Templated, Blank,  \* scalars: no string, with a template action, only spaces
  EnvName,         \* the variable each ${...} reference names
  Lower, Trim,     \* strings.ToLower, strings.TrimSpace on schemes and providers
  IndexText,       \* the text of a sub-step's index
  NumberIds,       \* the ids that are written as numbers
  KnownSchemes, RemovedSchemes, RemovedParams, FunctionOperations,  \* of the spec
  AtlasSchemes, CapabilityRefs, RefusedKeys,                        \* AtlasExecutor
  EuCodes, RegionLanes, Truthy,                                     \* ResidencyEnforcement
  Keyless, ConfigProviders,                                         \* CredentialEndpointPairing.AI
  Families, Origin                                                  \* its family table, and origins

(* An executor as its parts, scheme://provider/resource; slash tells that   *)
(* the last separator is there, usable that the whole matches the URL shape.*)
NoExecutor == [scheme |-> "", provider |-> "", slash |-> FALSE, resource |-> "", usable |-> FALSE, templated |-> FALSE]

(* The steps of a flow are the entries of a mapping: their ids are distinct.*)
ASSUME IdsAssumption ==
  \A f \in Flows : \A n \in 1..Len(f.steps) :
    /\ f.steps[n] # Other
    /\ f.steps[n].id \in Seq(STRING) /\ Len(f.steps[n].id) > 0
    /\ \A k \in 1..Len(f.steps) : f.steps[n].id = f.steps[k].id => n = k
    /\ \A i \in 1..Len(SubsOf(f.steps[n])) :
         (SubsOf(f.steps[n])[i] # Other /\ HasId(SubsOf(f.steps[n])[i])) =>
           SubsOf(f.steps[n])[i].id \in Seq(STRING)

(* Every provider that routes on a region is one whose block is judged, and *)
(* its name is in lower case; no family reads the block of a provider.      *)
ASSUME TablesAssumption ==
  /\ RegionLanes \subseteq ConfigProviders \ Keyless /\ "" \notin ConfigProviders
  /\ \A p \in RegionLanes : Lower[p] = p
  /\ \A key \in DOMAIN Families : LET f == Families[key] IN
       /\ Len(f.secrets) \in Nat /\ Len(f.endpoints) \in Nat /\ Len(f.configKeys) \in Nat
       /\ \A b \in 1..Len(f.configKeys) : f.configKeys[b] \notin ConfigProviders

VARIABLES using, withoutOwnKey   \* stepsUsing and stepsWithoutOwnKey, of the ConfigProviders

vars == <<loopVars, using, withoutOwnKey>>

(* The site the walk is at; a sub-step that is no mapping is passed over.   *)
SiteAt(n, i) == IF i = 0 THEN flow.steps[n] ELSE SubsOf(flow.steps[n])[i]
Site == SiteAt(step, sub)
IsSite == Site # Other
IsSiteAt(n, i) == n \in 1..Len(flow.steps) /\ i \in 0..Len(SubsOf(flow.steps[n])) /\ SiteAt(n, i) # Other
Sites == UNION {{<<n, i>> : i \in {k \in 0..Len(SubsOf(flow.steps[n])) : IsSiteAt(n, k)}} : n \in 1..Len(flow.steps)}

(* The StepID of a finding at a site: the composite id "parent.child", or   *)
(* the index in place of a missing id.                                      *)
SubStepId(n, i) ==
  IF i = 0 THEN flow.steps[n].id
  ELSE flow.steps[n].id \o (IF HasId(SiteAt(n, i)) THEN SiteAt(n, i).id ELSE <<IndexText[i]>>)

(* Mutant: one sub-step too many.                                           *)
AdvancePast(following) ==
  IF sub <= Len(SubsOf(Current))
  THEN sub' = sub + 1 /\ UNCHANGED <<step, phase>>
  ELSE /\ sub' = 0
       /\ IF step < Len(flow.steps)
          THEN step' = step + 1 /\ UNCHANGED phase
          ELSE step' = 1 /\ phase' = following

(* The next site, or the next rule from the first site on.                  *)
Advance(following) ==
  IF sub < Len(SubsOf(Current))
  THEN sub' = sub + 1 /\ UNCHANGED <<step, phase>>
  ELSE /\ sub' = 0
       /\ IF step < Len(flow.steps)
          THEN step' = step + 1 /\ UNCHANGED phase
          ELSE step' = 1 /\ phase' = following

Raise(codes) == errors' = errors \cup Findings(codes, <<step, sub>>, SubStepId(step, sub))
Warn(codes) == warnings' = warnings \cup Findings(codes, <<step, sub>>, SubStepId(step, sub))

Init ==
  /\ flow \in Flows
  /\ phase = "identity" /\ step = 1 /\ sub = 0
  /\ part = "forEach" /\ seen = {}
  /\ errors = {} /\ warnings = {}
  /\ using = [p \in ConfigProviders |-> 0] /\ withoutOwnKey = [p \in ConfigProviders |-> 0]

------------------------------------------------------------------------------
(* Reading scalars: as a string, or as the text of any scalar.              *)
At(query, key) == IF key \in DOMAIN query THEN query[key] ELSE ""
StringOf(value) == IF value \in Numbers THEN "" ELSE value
StringAt(query, key) == StringOf(At(query, key))
(* A text that is more than spaces.                                        *)
IsText(value) == value \notin {""} \cup Blank
IsEnv(value) == value \in DOMAIN EnvName
ConfigAt(name) == IF name \in DOMAIN flow.config THEN flow.config[name]
                  ELSE [apiKey |-> "", baseURL |-> "", extra |-> <<>>]

(* Mutant: the last of several steps is not looked at.                      *)
StepIdentityButLast ==
  /\ phase = "identity"
  /\ errors' = errors \cup UNION {Findings(If(Len(flow.steps[n].id) > 1, "reserved_step_id_char"), <<n>>, flow.steps[n].id) :
                                    n \in 1..(Len(flow.steps) - 1)}
  /\ phase' = "executors"
  /\ UNCHANGED <<flow, step, sub, part, seen, warnings, using, withoutOwnKey>>

(* No id of a step may hold a dot.                                          *)
StepIdentity ==
  /\ phase = "identity"
  /\ errors' = errors \cup UNION {Findings(If(Len(flow.steps[n].id) > 1, "reserved_step_id_char"), <<n>>, flow.steps[n].id) :
                                    n \in 1..Len(flow.steps)}
  /\ phase' = "executors"
  /\ UNCHANGED <<flow, step, sub, part, seen, warnings, using, withoutOwnKey>>

------------------------------------------------------------------------------
(* Executors.  A removed scheme is the only finding of its site.            *)
IsRemoved(x) == ~x.templated /\ Lower[Trim[x.scheme]] \in RemovedSchemes
SurfaceCodes(x, query) ==
  IF IsRemoved(x) THEN {"executor_removed"}
  ELSE If(~x.templated /\ Lower[Trim[x.scheme]] = "ai" /\ DOMAIN query \cap RemovedParams # {}, "agentic_param_removed")

IsJudged(x) == x # NoExecutor /\ ~IsRemoved(x)
IsUsable(x) == x.templated \/ x.usable
HasUnknownScheme(x) ==
  IsJudged(x) /\ IsUsable(x) /\ x.scheme \notin {""} \cup Templated /\ Lower[x.scheme] \notin KnownSchemes
ExecutorCodes(x) ==
  If(IsJudged(x) /\ ~IsUsable(x), "invalid_executor_url")
    \cup If(/\ IsJudged(x) /\ IsUsable(x) /\ ~x.templated /\ x.scheme = "function"
            /\ Lower[x.scheme] \in KnownSchemes /\ <<x.provider, x.resource>> \notin FunctionOperations,
            "unknown_function_operation")

(* What a Nexus operation needs of its query.                               *)
AgentCodes(query) ==
  LET agent == StringAt(query, <<"agent">>) IN
  If(~IsText(agent), "atlas_agent_missing")
    \cup If(agent \in Templated, "atlas_agent_not_literal")
    \cup If(~IsText(At(query, <<"prompt">>)) /\ ~IsText(At(query, <<"prompt_template">>)), "atlas_prompt_missing")
    \cup If(IsText(At(query, <<"prompt">>)) /\ IsText(At(query, <<"prompt_template">>)), "atlas_prompt_both")
    \cup If(At(query, <<"model">>) \in Templated, "atlas_model_not_literal")
SharedCodes(query, operation) ==
  If(At(query, <<"capabilities">>) \in Templated, "atlas_capabilities_not_literal")
    \cup If(DOMAIN query \cap RefusedKeys[operation] # {}, "atlas_param_refused")
AtlasCodes(x, query) ==
  IF x.templated \/ x.scheme \notin AtlasSchemes THEN {}
  ELSE IF x.provider = "capability"
    THEN If(x.resource \notin CapabilityRefs, "atlas_capability_ref_invalid") \cup SharedCodes(query, "capability")
  ELSE IF x.provider = "agent" /\ x.resource = "run"
    THEN AgentCodes(query) \cup SharedCodes(query, "agent")
  ELSE {"atlas_operation_unknown"}

ValidateExecutors ==
  /\ phase = "executors"
  /\ IF IsSite
     THEN /\ Raise(SurfaceCodes(Site.executor, Site.query) \cup ExecutorCodes(Site.executor)
                     \cup AtlasCodes(Site.executor, Site.query))
          /\ Warn(If(HasUnknownScheme(Site.executor), "unknown_executor_scheme"))
     ELSE UNCHANGED report
  /\ Advance("loop")
  /\ UNCHANGED <<flow, part, seen, using, withoutOwnKey>>

(* The loop rule, over the steps alone.                                     *)
LoopStep == LoopNext /\ UNCHANGED <<using, withoutOwnKey>>

------------------------------------------------------------------------------
(* Credential bindings: a source is "", "prefix" (the wrong one), "format"  *)
(* or "stored"; a binding that is null is passed over.                      *)
SourceCodes(source, wrongPrefix, wrongFormat) ==
  If(source \in {"", "prefix"}, wrongPrefix) \cup If(source = "format", wrongFormat)
BindingCodes(binding) ==
  IF binding = Absent THEN {}
  ELSE IF binding = Other THEN {"invalid_type"}
  ELSE SourceCodes(binding.source, "cred_bind_invalid_source", "cred_bind_source_format")
         \cup If(~binding.injects, "cred_bind_inject_as_empty")
CredentialCodes(site) ==
  If(site.bindings # {} /\ site.shorthand # "", "cred_bind_mutual_exclusive")
    \cup (UNION {BindingCodes(b) : b \in site.bindings})
    \cup (IF site.shorthand = "" THEN {}
          ELSE SourceCodes(site.shorthand, "cred_bind_shorthand_source", "cred_bind_shorthand_format"))

ValidateCredentialBindings ==
  /\ phase = "bindings"
  /\ IF IsSite THEN Raise(CredentialCodes(Site)) ELSE UNCHANGED errors
  /\ Advance("providers")
  /\ UNCHANGED <<flow, part, seen, warnings, using, withoutOwnKey>>

------------------------------------------------------------------------------
(* The pairing of credentials with endpoints, first of the ai providers.    *)
(* Its findings, and those of residency, address a sub-step by its own id,  *)
(* so that the field names the first sub-step that has the same, or none.   *)
(* The pairing reads an id by its text, residency only an id that is a      *)
(* string: a reading leaves a set of ids unread.                            *)
OwnId(s, unread) == IF HasId(s) /\ s.id \notin unread THEN s.id ELSE <<>>
FirstOf(n, i, unread) ==
  IF i = 0 THEN 0
  ELSE Min({k \in 1..i : SiteAt(n, k) # Other /\ OwnId(SiteAt(n, k), unread) = OwnId(SiteAt(n, i), unread)})
Named(n, i) == FirstOf(n, i, {})
NamedByString(n, i) == FirstOf(n, i, NumberIds)
Unpaired(at, key) == Finding("credential_endpoint_unpaired", at, key)

AiProvider(x) == IF x.scheme = "ai" /\ x.provider \notin Keyless THEN x.provider ELSE ""
HasQueryKey(query, p) == StringAt(query, <<"api_key">>) # "" \/ StringAt(query, <<p, "api_key">>) # ""
HasConfigKey(p) == ConfigAt(p).apiKey # "" /\ ~IsEnv(ConfigAt(p).apiKey)
Counted(counter, p) == [q \in ConfigProviders |-> counter[q] + IF q = p THEN 1 ELSE 0]

(* Mutant: only the top-level steps are counted.                            *)
PairProviderStepsOnly ==
  /\ phase = "providers"
  /\ LET p == IF IsSite THEN AiProvider(Site.executor) ELSE ""
         own == HasQueryKey(Site.query, p) IN
     IF p = "" THEN UNCHANGED <<warnings, using, withoutOwnKey>>
     ELSE /\ using' = Counted(using, p)
          /\ withoutOwnKey' = IF own \/ sub > 0 THEN withoutOwnKey ELSE Counted(withoutOwnKey, p)
          /\ warnings' = IF StringAt(Site.query, <<p, "base_url">>) # "" /\ ~own /\ ~HasConfigKey(p)
                         THEN warnings \cup {Unpaired(<<step, Named(step, sub)>>, <<p, "base_url">>)} ELSE warnings
  /\ Advance("config")
  /\ UNCHANGED <<flow, part, seen, errors>>

PairProvider ==
  /\ phase = "providers"
  /\ LET p == IF IsSite THEN AiProvider(Site.executor) ELSE ""
         own == HasQueryKey(Site.query, p) IN
     IF p = "" THEN UNCHANGED <<warnings, using, withoutOwnKey>>
     ELSE /\ using' = Counted(using, p)
          /\ withoutOwnKey' = IF own THEN withoutOwnKey ELSE Counted(withoutOwnKey, p)
          /\ warnings' = IF StringAt(Site.query, <<p, "base_url">>) # "" /\ ~own /\ ~HasConfigKey(p)
                         THEN warnings \cup {Unpaired(<<step, Named(step, sub)>>, <<p, "base_url">>)} ELSE warnings
  /\ Advance("config")
  /\ UNCHANGED <<flow, part, seen, errors>>

(* Mutant: one step with a key of its own excuses the block.                *)
PairConfigSomeKey ==
  /\ phase = "config"
  /\ warnings' = warnings \cup
       {Unpaired(<<>>, <<p, "base_url">>) : p \in
         {q \in (DOMAIN flow.config \cap ConfigProviders) \ Keyless :
            /\ ConfigAt(q).baseURL # "" /\ ~IsEnv(ConfigAt(q).baseURL)
            /\ ~HasConfigKey(q)
            /\ ~(withoutOwnKey[q] < using[q])}}
  /\ phase' = "families"
  /\ UNCHANGED <<flow, step, sub, part, seen, errors, using, withoutOwnKey>>

(* The blocks of executor_config, judged by what the steps were counted to  *)
(* bring; an endpoint by a variable is the deployment's.                    *)
PairConfig ==
  /\ phase = "config"
  /\ warnings' = warnings \cup
       {Unpaired(<<>>, <<p, "base_url">>) : p \in
         {q \in (DOMAIN flow.config \cap ConfigProviders) \ Keyless :
            /\ ConfigAt(q).baseURL # "" /\ ~IsEnv(ConfigAt(q).baseURL)
            /\ ~HasConfigKey(q)
            /\ ~(using[q] > 0 /\ withoutOwnKey[q] = 0)}}
  /\ phase' = "families"
  /\ UNCHANGED <<flow, step, sub, part, seen, errors, using, withoutOwnKey>>

------------------------------------------------------------------------------
(* The other executor families.  A family reads its secret, and in the same *)
(* order its endpoint, at the first place that holds one: at <<0, j>> of the*)
(* query, then of each block of executor_config at <<b, 0>>, its own field, *)
(* which counts only if it stands for one of the parameters, and at <<b, j>>*)
(* of its extra values.                                                     *)
HasFamily(key) == key \in DOMAIN Families
FamilyKey(x) == IF x.provider # "" /\ HasFamily(<<x.scheme, x.provider>>) THEN <<x.scheme, x.provider>> ELSE <<x.scheme>>
IsListed(param, params) == \E j \in 1..Len(params) : params[j] = param

OwnField(b, f, params, own) ==
  IF IsListed(f.stands[own], params) THEN ConfigAt(f.configKeys[b])[own] ELSE ""
Extra(b, f) == ConfigAt(f.configKeys[b]).extra
ValueAt(place, query, f, params, own) ==
  IF place[1] = 0 THEN StringAt(query, params[place[2]])
  ELSE IF place[2] = 0 THEN OwnField(place[1], f, params, own)
  ELSE StringAt(Extra(place[1], f), params[place[2]])

(* The parameters a query or an extra mapping holds, and the blocks that    *)
(* hold one of them in either way.                                          *)
Held(source, params) == {j \in 1..Len(params) : StringAt(source, params[j]) # ""}
Holding(f, params, own) ==
  {b \in 1..Len(f.configKeys) : OwnField(b, f, params, own) # "" \/ Held(Extra(b, f), params) # {}}

(* Mutant: a block's extra values are read before its own field.            *)
DecidingExtraFirst(query, f, params, own) ==
  LET b == Min(Holding(f, params, own)) IN
  IF Held(query, params) # {} THEN {<<0, Min(Held(query, params))>>}
  ELSE IF Holding(f, params, own) = {} THEN {}
  ELSE IF Held(Extra(b, f), params) = {} THEN {<<b, 0>>}
  ELSE {<<b, Min(Held(Extra(b, f), params))>>}

(* The place the search returns from, or none.                              *)
Deciding(query, f, params, own) ==
  LET b == Min(Holding(f, params, own)) IN
  IF Held(query, params) # {} THEN {<<0, Min(Held(query, params))>>}
  ELSE IF Holding(f, params, own) = {} THEN {}
  ELSE IF OwnField(b, f, params, own) # "" THEN {<<b, 0>>}
  ELSE {<<b, Min(Held(Extra(b, f), params))>>}

IsServerSecret(f, value) == IsEnv(value) /\ f.expands /\ EnvName[value] \in f.serverEnv
IsAuthorLiteral(f, value) ==
  value \notin Templated /\ ~IsEnv(value) /\ Origin[value] \notin {Origin[d] : d \in f.defaults}

EndpointFinding(n, i, place, f) ==
  IF place[1] = 0 THEN Unpaired(<<n, Named(n, i)>>, f.endpoints[place[2]])
  ELSE Unpaired(<<>>, <<f.configKeys[place[1]]>> \o (IF place[2] = 0 THEN <<"base_url">> ELSE <<"extra">> \o f.endpoints[place[2]]))

PairFamily ==
  /\ phase = "families"
  /\ LET f == Families[FamilyKey(Site.executor)]
         ServerSecrets == {place \in Deciding(Site.query, f, f.secrets, "apiKey") :
                             IsServerSecret(f, ValueAt(place, Site.query, f, f.secrets, "apiKey"))}
         AuthorLiterals == {place \in Deciding(Site.query, f, f.endpoints, "baseURL") :
                              IsAuthorLiteral(f, ValueAt(place, Site.query, f, f.endpoints, "baseURL"))} IN
     warnings' = IF IsSite /\ HasFamily(FamilyKey(Site.executor)) /\ ~f.implicit /\ ServerSecrets # {}
                 THEN warnings \cup {EndpointFinding(step, sub, place, f) : place \in AuthorLiterals}
                 ELSE warnings
  /\ Advance("residency")
  /\ UNCHANGED <<flow, part, seen, errors, using, withoutOwnKey>>

------------------------------------------------------------------------------
(* Residency.  A call is pinned by its region, or by an endpoint, which the *)
(* pairing above has judged under the provider's name as it is written;     *)
(* here the name is put in lower case, and for the lanes trimmed before.    *)
IsEuOnly == flow.residency # <<>> /\ \A i \in 1..Len(flow.residency) : flow.residency[i] \in EuCodes
IsRegionLane(x) == x.scheme = "ai" /\ x.slash /\ x.provider \notin Templated /\ Lower[Trim[x.provider]] \in RegionLanes
PinsRegion(query) ==
  IsText(StringAt(query, <<"region">>)) \/ At(query, <<"enforce_region">>) \in Truthy
PinsEndpoint(query, p) ==
  IsText(StringAt(query, <<p, "base_url">>)) \/ IsText(StringOf(ConfigAt(p).baseURL))
IsUnpinned(s) ==
  /\ IsRegionLane(s.executor)
  /\ ~PinsRegion(s.query) /\ ~PinsEndpoint(s.query, Lower[s.executor.provider])

EnforceResidency ==
  /\ phase = "residency"
  /\ warnings' = IF IsEuOnly /\ IsSite /\ IsUnpinned(Site)
                 THEN warnings \cup {Finding("compliance_residency_unenforced", <<step, NamedByString(step, sub)>>, Current.id)}
                 ELSE warnings
  /\ Advance("done")
  /\ UNCHANGED <<flow, part, seen, errors, using, withoutOwnKey>>

Next == \/ StepIdentity \/ ValidateExecutors \/ LoopStep \/ ValidateCredentialBindings
        \/ PairProvider \/ PairConfig \/ PairFamily \/ EnforceResidency

Spec == Init /\ [][Next]_vars

------------------------------------------------------------------------------
Phases == {"identity", "executors", "loop", "bindings", "providers", "config", "families", "residency", "done"}

(* The walk stays at a site, and no call lacks a key that was not counted as*)
(* using the provider.                                                      *)
TypeOK ==
  /\ phase \in Phases
  /\ step \in 1..Len(flow.steps) /\ sub \in Nat
  /\ phase # "loop" => sub <= Len(SubsOf(Current))
  /\ part \in {"forEach", "head", "collect", "jump", "tail", "next"}
  /\ using \in [ConfigProviders -> Nat] /\ withoutOwnKey \in [ConfigProviders -> Nat]
  /\ \A p \in ConfigProviders : withoutOwnKey[p] <= using[p]

(* The engine addresses a sub-step by its composite id.  In a flow without  *)
(* an error no two call sites share one: three checks in three rules, on    *)
(* dots in ids, on ids that repeat and on missing ones, have to agree.      *)
SitesNamed ==
  (phase \notin {"identity", "executors", "loop"} /\ errors = {}) =>
    \A s, t \in Sites : SubStepId(s[1], s[2]) = SubStepId(t[1], t[2]) => s = t

(* What the search for a secret and for an endpoint should find, said of the*)
(* places without an order of looking: one that holds a value, while none   *)
(* that takes precedence does.                                              *)
Places(f, params) == ({0} \X (1..Len(params))) \cup ((1..Len(f.configKeys)) \X (0..Len(params)))
Precedes(a, b) == a[1] < b[1] \/ (a[1] = b[1] /\ a[2] < b[2])
IsFirst(place, query, f, params, own) ==
  /\ ValueAt(place, query, f, params, own) # ""
  /\ \A other \in Places(f, params) :
       Precedes(other, place) => ValueAt(other, query, f, params, own) = ""
HasServerSecret(query, f) ==
  \E place \in Places(f, f.secrets) :
    /\ IsFirst(place, query, f, f.secrets, "apiKey")
    /\ IsServerSecret(f, ValueAt(place, query, f, f.secrets, "apiKey"))
AuthorEndpoints(query, f) ==
  {place \in Places(f, f.endpoints) :
     /\ IsFirst(place, query, f, f.endpoints, "baseURL")
     /\ IsAuthorLiteral(f, ValueAt(place, query, f, f.endpoints, "baseURL"))}

QueryOf(s) == SiteAt(s[1], s[2]).query
ExecutorOf(s) == SiteAt(s[1], s[2]).executor
Users(p) == {s \in Sites : AiProvider(ExecutorOf(s)) = p}

(* The warnings of the pairing, said of the whole flow at once: a call whose*)
(* endpoint has no key of the flow beside it, a block whose endpoint some   *)
(* call (or no call at all) would use with a stored key, and an author's    *)
(* endpoint beside a secret of the server.  The walk decides the second by  *)
(* counters that must be complete when they are read.                       *)
UnpairedExact ==
  phase \in {"residency", "done"} =>
    {w \in warnings : w.code = "credential_endpoint_unpaired"} =
      (UNION {LET p == AiProvider(ExecutorOf(s)) IN
             IF /\ p # "" /\ StringAt(QueryOf(s), <<p, "base_url">>) # ""
                /\ ~HasQueryKey(QueryOf(s), p) /\ ~HasConfigKey(p)
             THEN {Unpaired(<<s[1], Named(s[1], s[2])>>, <<p, "base_url">>)} ELSE {} : s \in Sites})
      \cup {Unpaired(<<>>, <<p, "base_url">>) : p \in
             {q \in ConfigProviders \ Keyless :
                /\ ConfigAt(q).baseURL # "" /\ ~IsEnv(ConfigAt(q).baseURL) /\ ~HasConfigKey(q)
                /\ Users(q) = {} \/ \E s \in Users(q) : ~HasQueryKey(QueryOf(s), q)}}
      \cup (UNION {LET f == Families[FamilyKey(ExecutorOf(s))] IN
                  IF HasFamily(FamilyKey(ExecutorOf(s))) /\ ~f.implicit /\ HasServerSecret(QueryOf(s), f)
                  THEN {EndpointFinding(s[1], s[2], place, f) : place \in AuthorEndpoints(QueryOf(s), f)} ELSE {} :
                  s \in Sites})

(* Two rules share the question whose host a call dials, and they read the  *)
(* provider's name differently.  Each call at a provider with regions, in a *)
(* flow that is confined to the EU, brings a key of the flow's own, pins the*)
(* region, uses the deployment's endpoint or is warned about; or it falls   *)
(* into the one gap between the rules: its provider is not written as the   *)
(* tables have it, while an endpoint of the flow's is named under the name  *)
(* in lower case, where residency finds it and the pairing does not look.   *)
Unconfined(s) == Finding("compliance_residency_unenforced", <<s[1], NamedByString(s[1], s[2])>>, flow.steps[s[1]].id)
NoSilentForeignHost ==
  (phase = "done" /\ IsEuOnly) =>
    \A s \in Sites :
      LET p == ExecutorOf(s).provider IN
      IsRegionLane(ExecutorOf(s)) =>
        \/ HasQueryKey(QueryOf(s), p) \/ HasConfigKey(p)
        \/ PinsRegion(QueryOf(s))
        \/ IsEnv(ConfigAt(Lower[p]).baseURL)
        \/ Unconfined(s) \in warnings
        \/ Unpaired(<<s[1], Named(s[1], s[2])>>, <<p, "base_url">>) \in warnings
        \/ Unpaired(<<>>, <<Lower[p], "base_url">>) \in warnings
        \/ p \notin RegionLanes /\ PinsEndpoint(QueryOf(s), Lower[p])

(* What the comment on the pairing says of a step whose query names an      *)
(* endpoint for its provider and holds no key, with the provider's name read*)
(* without regard to case, as residency and its test read it: some warning  *)
(* is addressed to the step, in a flow confined to the EU by one rule or the*)
(* other.                                                                   *)
NamedEndpointWarned ==
  (phase = "done" /\ IsEuOnly) =>
    \A s \in Sites :
      LET p == ExecutorOf(s).provider IN
      (/\ IsRegionLane(ExecutorOf(s)) /\ IsText(StringAt(QueryOf(s), <<Lower[p], "base_url">>))
       /\ ConfigAt(Lower[p]).baseURL = ""
       /\ \A name \in {p, Lower[p]} : ~HasQueryKey(QueryOf(s), name) /\ ~HasConfigKey(name)) =>
        \E w \in warnings : w.at = <<s[1], Named(s[1], s[2])>>
==============================================================================
