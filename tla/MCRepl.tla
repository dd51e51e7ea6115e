-------------------------------- MODULE MCRepl --------------------------------
(* Repl for TLC: two providers, an entry without a base_url, two MCP servers    *)
(* that share a tool name.                                                      *)
EXTENDS Repl

Deep(key) == Entry("deepseek-v4-flash", "deepseek", "deepseek", key)
Claude(key) == Entry("claude-sonnet-4-6", "anthropic", "anthropic", key)
\* An entry without a base_url.
Bare(key) == Entry("claude-bare", "anthropic", NoUrl, key)

MCModels == <<Deep(NoKey), Claude(NoKey)>>
MCPresets == <<Claude(NoKey)>>
WithKeys == <<Bare(KeyFor("anthropic")), Deep(KeyFor("deepseek"))>>
MCSettings == {[models |-> WithKeys, current |-> "none"],
               [models |-> <<>>, current |-> "claude-sonnet-4-6"]}
MCEnvironments == {EnvKey}

Plain == [key |-> NoKey, model |-> "none", url |-> NoUrl, query |-> FALSE]
MCArguments == {Plain, [Plain EXCEPT !.query = TRUE, !.model = "claude-sonnet-4-6"],
                [Plain EXCEPT !.key = CliKey, !.url = CliUrl]}

MCServers == <<"web", "web__db">>
MCStartups == {[enabled |-> {"web", "web__db"}, failing |-> f] : f \in {{}, {"web"}}}
Info(full, tool) == [full |-> full, tool |-> tool]
MCToolsOf == [s \in {"web", "web__db"} |->
  IF s = "web" THEN <<Info("web__get", "get"), Info("web__db__read", "db__read")>>
  ELSE <<Info("web__db__read", "read"), Info("web__db__write", "write")>>]
MCBuiltins == <<"bash", "edit">>
===============================================================================
