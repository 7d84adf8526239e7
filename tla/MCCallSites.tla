----------------------------- MODULE MCCallSites -----------------------------
(* Flows for the call-site rules: bodies of loops with every kind of jump,  *)
(* blocks with every kind of defect, and calls with every combination of    *)
(* key, endpoint and region, in the query and in executor_config.           *)
EXTENDS CallSites, TLC

MCSentinels == {<<"null">>, <<"orchestrator">>}
MCSummaryFields == {<<"iterations">>}
MCNumbers == {"#8080", "#true"}
MCTemplated == {"{{.x}}"}
MCBlank == {" "}
MCEnvName == "${KEY}" :> "KEY" @@ "${URL}" :> "URL"
MCIndexText == <<"0", "1">>
MCNumberIds == {<<"7">>}
Schemes == {"", "ai", "agent", "function", "foo", "nexus", "storage", "deepr", "mcp", "getmd", "{{.x}}"}
Spaced == " agent" :> "agent" @@ " openai" :> "openai"
MCLower == [s \in Schemes \cup {"openai", "xai", "ollama"} \cup DOMAIN Spaced |-> s] @@ "AI" :> "ai" @@ "OpenAI" :> "openai"
MCTrim == Spaced @@ [s \in DOMAIN MCLower |-> s]
MCKnownSchemes == Schemes \ {"", "foo", "agent", "{{.x}}"}
MCRemovedSchemes == {"agent"}
MCRemovedParams == {<<"max_turns">>}
MCFunctionOperations == {<<"text", "trim">>}
MCAtlasSchemes == {"nexus"}
MCCapabilityRefs == {"good"}
MCRefusedKeys == [capability |-> {<<"tenant">>}, agent |-> {<<"tenant">>, <<"org">>}]
MCEuCodes == {"EU", "DE"}
MCRegionLanes == {"openai"}
MCTruthy == {"#true", "yes"}
MCKeyless == {"ollama"}
MCConfigProviders == {"openai", "xai", "ollama"}

Key(name) == <<name>>
Family(blocks, secrets, endpoints, apiKey, baseURL, defaults, implicit, expands) ==
  [configKeys |-> blocks, secrets |-> secrets, endpoints |-> endpoints,
   stands |-> [apiKey |-> apiKey, baseURL |-> baseURL], defaults |-> defaults,
   implicit |-> implicit, expands |-> expands, serverEnv |-> {"KEY"}]
MCFamilies ==
  <<"storage", "s3">> :> Family(<<"s3">>, <<Key("secret_access_key")>>, <<Key("endpoint"), Key("public_endpoint")>>,
                                Key("access_key_id"), Key("endpoint"), {}, FALSE, TRUE)
  @@ <<"deepr">> :> Family(<<"deepr">>, <<Key("api_key")>>, <<Key("base_url")>>,
                           Key("api_key"), Key("base_url"), {"http://own"}, FALSE, TRUE)
  @@ <<"mcp", "http">> :> Family(<<"mcp">>, <<Key("auth_token")>>, <<Key("server_url")>>,
                                 Key("auth_token"), Key("server_url"), {}, FALSE, FALSE)
  @@ <<"getmd">> :> Family(<<"getmd">>, <<>>, <<Key("base_url")>>, <<>>, Key("base_url"), {}, TRUE, FALSE)
MCOrigin == "http://own" :> "http://own:80" @@ "http://own/v1" :> "http://own:80" @@ "http://host" :> "http://host:80"
              @@ "#8080" :> "8080" @@ " " :> ""

------------------------------------------------------------------------------
Uri(scheme, provider, resource) ==
  [scheme |-> scheme, provider |-> provider, slash |-> resource # "", resource |-> resource,
   usable |-> TRUE, templated |-> FALSE]
Chat(provider) == Uri("ai", provider, "chat")

Step(id, executor, query, loop) ==
  [id |-> id, hasExecutor |-> executor # NoExecutor, parallel |-> FALSE, forEach |-> Absent, loop |-> loop,
   executor |-> executor, query |-> query, bindings |-> {}, shorthand |-> ""]
SubStep(id, executor, query, next) ==
  [id |-> id, runs |-> executor # NoExecutor, next |-> next,
   executor |-> executor, query |-> query, bindings |-> {}, shorthand |-> ""]
Body(subs) == [while |-> TRUE, maxIterations |-> 3, subs |-> subs]
Flow(steps, config, residency) == [steps |-> steps, config |-> config, residency |-> residency]
Document(steps) == Flow(steps, <<>>, <<>>)

------------------------------------------------------------------------------
(* Bodies: two loops, so that the ids of the first could leak.              *)
To(targets) == [parallel |-> FALSE, targets |-> targets]
Run(id, next) == SubStep(id, Chat("xai"), <<>>, next)
Jumps == {Absent, To(<<>>), To(<< <<"p">> >>), To(<<Absent, <<"q">> >>)}
Subs == {Run(id, next) : id \in {<<"p">>, <<"q">>}, next \in Jumps}
        \cup {Run(<<"p">>, next) : next \in {Other, [parallel |-> TRUE, targets |-> << <<"x">> >>],
                                             To(<<Other, <<>> >>), To(<< <<"null">>, <<"q">>, <<"end">> >>)}}
        \cup {Run(id, Absent) : id \in {Absent, Other, <<>>, <<"p", "x">>, <<"iterations">>}}
        \cup {Other, SubStep(<<"q">>, NoExecutor, <<>>, Absent)}
Bodies == UNION {[1..n -> Subs] : n \in 0..2}
FirstBodies == {<<Run(<<"q">>, To(<< <<"p">> >>))>>, <<Run(<<"p">>, To(<< <<"q">> >>)), Run(<<"q">>, Absent)>>}
Looping == {Document(<<Step(<<"a">>, NoExecutor, <<>>, Body(x)), Step(id, NoExecutor, <<>>, Body(y))>>) :
              x \in FirstBodies, y \in Bodies, id \in {<<"a", "p">>, <<"b">>}}

Throttle(delay, size, batchDelay) == [delay |-> delay, batchSize |-> size, batchDelay |-> batchDelay]
Throttles == {Absent, Other} \cup {Throttle(d, n, b) : d \in {Absent, Other, 10, 11}, n \in {-1, 0, 2, Other},
                                                       b \in {Absent, 5, 6}}
EachBlocks == {Absent, Other}
              \cup {[items |-> TRUE, maxParallel |-> n, resolution |-> TRUE, throttle |-> t] :
                      n \in {-1, 0, Other}, t \in Throttles}
              \cup {[items |-> FALSE, maxParallel |-> 1, resolution |-> FALSE, throttle |-> Absent]}
Heads == {[while |-> w, maxIterations |-> n, subs |-> <<Run(<<"p">>, Absent)>>] :
            w \in BOOLEAN, n \in {Other, 0, 1, 5, 6}} \cup {Absent, Other}
Blocks == {Document(<<[Step(<<"a">>, x, <<>>, h) EXCEPT !.forEach = e, !.parallel = b]>>) :
             x \in {NoExecutor, Chat("xai")}, h \in Heads, b \in BOOLEAN,
             e \in {Absent, Other, [items |-> TRUE, maxParallel |-> 1, resolution |-> TRUE, throttle |-> Absent]}}
          \cup {Document(<<[Step(<<"a">>, NoExecutor, <<>>, Absent) EXCEPT !.forEach = e]>>) : e \in EachBlocks}

------------------------------------------------------------------------------
(* Calls: executors of every kind, the keys a Nexus operation looks at, and *)
(* bindings.                                                                *)
Executors == {NoExecutor, Chat("openai"), Chat("ollama"), Uri("AI", "openai", "chat"), Uri("agent", "x", "y"), Uri(" agent", "x", "y"),
              Uri("function", "text", "trim"), Uri("function", "text", "no"), Uri("foo", "x", "y"),
              Uri("nexus", "capability", "good"), Uri("nexus", "capability", "bad"), Uri("nexus", "agent", "run"),
              Uri("nexus", "org", "x"), [Uri("", "text", "") EXCEPT !.usable = FALSE],
              [Uri("{{.x}}", "p", "y") EXCEPT !.templated = TRUE], [Uri("foo", "{{.x}}", "y") EXCEPT !.templated = TRUE]}
Queries == {<<>>, Key("max_turns") :> "#8080", Key("agent") :> "{{.x}}", Key("agent") :> "#8080",
            Key("agent") :> "it" @@ Key("prompt") :> "do", Key("prompt_template") :> "do" @@ Key("prompt") :> "#8080",
            Key("prompt") :> " " @@ Key("model") :> "{{.x}}",
            Key("capabilities") :> "{{.x}}" @@ Key("tenant") :> "t" @@ Key("org") :> "o"}
Calls == {Document(<<Step(<<"a">>, x, q, Absent)>>) : x \in Executors, q \in Queries}

Bind(source, injects) == [source |-> source, injects |-> injects]
Bindings == {{}, {Absent}, {Other}, {Bind("stored", FALSE), Bind("prefix", TRUE)}, {Bind("format", TRUE)}, {Bind("", TRUE)}}
Bound == {Document(<<[Step(<<"a">>, Chat("xai"), <<>>, Absent) EXCEPT !.bindings = b, !.shorthand = s],
                     Step(<<"b">>, NoExecutor, <<>>, Body(<<[Run(<<"p">>, Absent) EXCEPT !.bindings = b]>>))>>) :
            b \in Bindings, s \in {"", "prefix", "format", "stored"}}

------------------------------------------------------------------------------
(* Pairing: a step and a sub-step, with a block of executor_config.         *)
Block(apiKey, baseURL, extra) == [apiKey |-> apiKey, baseURL |-> baseURL, extra |-> extra]
Keys == {<<>>, Key("api_key") :> "k", <<"openai", "api_key">> :> "{{.x}}", Key("api_key") :> "#8080"}
Hosts == {<<>>, <<"openai", "base_url">> :> "http://host", <<"openai", "base_url">> :> " ",
          <<"openai", "base_url">> :> "#8080"}
Regions == {Key("region") :> "eu", Key("region") :> " ", Key("enforce_region") :> "yes", Key("enforce_region") :> "#true",
            Key("enforce_region") :> "no"}
AiQueries == {k @@ h : k \in Keys, h \in Hosts} \cup Regions
OpenAi == {<<>>} \cup {"openai" :> Block(k, u, <<>>) : k \in {"", "k", "${KEY}"}, u \in {"", "http://host", "${URL}", " ", "#8080"}}
Pair(x, q, y, r, config, residency) ==
  Flow(<<Step(<<"a">>, x, q, Absent), Step(<<"b">>, NoExecutor, <<>>, Body(<<SubStep(<<"p">>, y, r, Absent)>>))>>,
       config, residency)
Paired == {Pair(Chat("openai"), q, Chat("openai"), r, c, <<"EU", "DE">>) : q \in AiQueries, c \in OpenAi,
             r \in {<<>>, Key("api_key") :> "k", <<"openai", "base_url">> :> "http://host"}}
          \cup {Pair(x, q, Chat("xai"), <<>>, c, z) : x \in {Chat("OpenAI"), Uri("ai", "openai", ""), Chat("ollama"), Chat("{{.x}}")},
                  q \in Hosts, c \in OpenAi, z \in {<<>>, <<"EU">>, <<"DE", "US">>}}
          \cup {Pair(Chat(" openai"), q, Chat("OpenAI"), r, c, <<"EU">>) : q \in Hosts, r \in Regions \cup Hosts, c \in OpenAi}
          \cup {Flow(<<Step(<<"b">>, NoExecutor, <<>>, Body(<<SubStep(<<"7">>, Chat("openai"), q, Absent),
                                                         SubStep(id, Chat("openai"), r, Absent)>>))>>, <<>>, <<"EU">>) :
                  id \in {Absent, <<"p">>}, q \in Hosts, r \in Hosts}

(* Families: the query, the block's own fields and its extra values.        *)
Secrets(key) == {<<>>} \cup {key :> v : v \in {"k", "${KEY}", "${URL}"}}
Endpoints(keys) == {<<>>} \cup {k :> v : k \in keys, v \in {"http://host", "http://own/v1", "${URL}", "{{.x}}"}}
FamilyCalls(x, secret, endpoints, block) ==
  {Flow(<<Step(<<"a">>, x, s @@ e, Absent)>>, block :> c, <<>>) :
     s \in Secrets(secret), e \in Endpoints(endpoints),
     c \in {Block(k, u, v) : k \in {"", "k", "${KEY}"}, u \in {"", "http://host", "${URL}"},
                             v \in {<<>>, secret :> "${KEY}"} \cup {k :> "http://host" : k \in endpoints}}}
OfFamilies ==
  FamilyCalls(Uri("storage", "s3", "put"), Key("secret_access_key"), {Key("endpoint"), Key("public_endpoint")}, "s3")
    \cup FamilyCalls(Uri("deepr", "research", ""), Key("api_key"), {Key("base_url")}, "deepr")
    \cup {Flow(<<Step(<<"a">>, Uri("mcp", "http", "call"), Key("auth_token") :> "${KEY}" @@ Key("server_url") :> "http://host", Absent),
                 Step(<<"b">>, Uri("getmd", "page", ""), Key("base_url") :> "http://host", Absent)>>, <<>>, <<>>)}

MCFlows == Looping \cup Blocks \cup Calls \cup Bound \cup Paired \cup OfFamilies
==============================================================================
