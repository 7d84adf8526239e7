------------------------------ MODULE MCPipeline ------------------------------
(* Small instances of Pipeline: two steps, one of them with a loop sub-step;*)
(* five of the rules raise something in some of the calls.                  *)
EXTENDS Pipeline

McOwners == {"s", "t", "s.sub"}
McFields == {"", "key", "steps.s.key", "steps.s.loop.key", "steps.t"}
McStepOfField ==
  [f \in McFields |-> CASE f \in {"", "key"} -> "" [] f = "steps.t" -> "t" [] OTHER -> "s"]
McCodes == KeyCodes \cup {"invalid_root", "yaml_syntax_error", "executor_removed", "missing_field"}

Error(code, field, step) == [code |-> code, field |-> field, step |-> step, severity |-> "error"]
Warning(code, field, step) == [code |-> code, field |-> field, step |-> step, severity |-> "warning"]
At(code, field) == [code |-> code, field |-> field]

McRetired == {<<>>, <<Error("unknown_yaml_key", "steps.s.loop.key", "s.sub")>>}
McExecutors ==
  {<<>>, <<Error("executor_removed", "steps.s.loop.key", "s.sub")>>,
   <<Error("executor_removed", "steps.t", "t"), Error("missing_field", "steps.s.key", "s")>>}
McConnectivity ==
  {<<>>, <<Error("unknown_yaml_key", "steps.s.key", "s")>>,
   <<Error("unknown_yaml_key", "steps.s.key", "s"), Error("unknown_yaml_key", "steps.s.key", "s")>>}
McBindings == {<<>>, <<Error("invalid_type", "steps.t", "t")>>}
McTemplates == {<<>>, <<Error("missing_field", "steps.t", "t")>>}
McUnknown ==
  {<<>>, <<At("unknown_yaml_key", "key")>>,
   <<At("unknown_yaml_key", "key"), At("unknown_yaml_key", "key")>>,
   <<At("invalid_type", "steps.t"), At("unknown_yaml_key", "steps.s.key")>>,
   <<At("unknown_yaml_key", "steps.s.loop.key"), At("unknown_yaml_key", "steps.t")>>}

Silent == [rule \in Rules |-> <<>>]
Judged(entry, steps, retired, executors, connectivity, bindings, templates, warned, unknown, stored) ==
  [entry |-> entry, parseErrors |-> <<>>, isNil |-> FALSE, steps |-> steps,
   errors |-> [Silent EXCEPT !["retiredKeys"] = retired, !["executors"] = executors,
                             !["connectivity"] = connectivity, !["credentialBindings"] = bindings,
                             !["templates"] = templates],
   warnings |-> [Silent EXCEPT !["connectivity"] = warned],
   unknown |-> unknown, storedBytes |-> stored]

McRefused ==
  {[entry |-> "text", parseErrors |-> <<Error("yaml_syntax_error", "", "")>>, isNil |-> TRUE,
    steps |-> {}, errors |-> Silent, warnings |-> Silent, unknown |-> <<>>, storedBytes |-> stored] :
     stored \in BOOLEAN}
    \cup {[entry |-> "object", parseErrors |-> <<>>, isNil |-> TRUE,
           steps |-> {}, errors |-> Silent, warnings |-> Silent, unknown |-> <<>>, storedBytes |-> stored] :
            stored \in BOOLEAN}

McCalls ==
  McRefused
    \cup {Judged(entry, {"s", "t"}, retired, executors, connectivity, bindings, templates, warned, unknown, stored) :
            entry \in {"text"}, retired \in McRetired, executors \in McExecutors,
            connectivity \in McConnectivity, bindings \in McBindings, templates \in McTemplates,
            warned \in {<<>>, <<Warning("missing_field", "steps.t", "t")>>},
            unknown \in McUnknown, stored \in BOOLEAN}
    \cup {Judged("object", steps, <<>>, <<>>, <<>>, <<>>, <<>>, <<>>, <<>>, FALSE) :
            steps \in {{}, {"s"}}}
    \cup {Judged("text", {"s"}, <<>>, <<Error("executor_removed", "steps.t", "t"), Error("executor_removed", "steps.s.key", "s"),
                                     Error("unknown_yaml_key", "steps.s.key", "s")>>, <<>>, <<>>, <<>>, <<>>, unknown, stored) :
            unknown \in McUnknown, stored \in BOOLEAN}
==============================================================================
