-------------------------------- MODULE Config --------------------------------
(* src/config/config.c: how settings.json, the environment and the command line *)
(* become the configuration of a run, and how /model and "cgent config" change  *)
(* the file.  Of a model's entry the name, the provider, the base_url and the    *)
(* key are kept; an entry need not have a base_url, and the one it has is its    *)
(* provider's server.                                                           *)
EXTENDS Integers, Sequences, SequencesExt

CONSTANTS
  DefaultModels,  \* add_default_models: the entries without keys
  Presets,        \* PROVIDER_PRESETS, likewise
  FirstProvider   \* the provider and server used when no model is known

\* A settings file that is missing, empty or cut: json_parse finds nothing.
NoSettings == [models |-> <<>>, current |-> "unreadable"]

NoKey == [owner |-> "none"]
EnvKey == [owner |-> "environment"]              \* CGENT_API_KEY
CliKey == [owner |-> "command line"]             \* --api-key
KeyFor(provider) == [owner |-> provider]         \* cgent config <provider> <key>

NoUrl == "none"
CliUrl == "command line"

Entry(name, provider, base, key) ==
  [name |-> name, provider |-> provider, base |-> base, key |-> key]

\* The entries the code has itself: without keys, each name once.
ASSUME ConfigAssumption ==
  /\ DefaultModels \in Seq([name : STRING, provider : STRING, base : STRING, key : {NoKey}])
  /\ \A i, j \in DOMAIN DefaultModels : DefaultModels[i].name = DefaultModels[j].name => i = j
  /\ Presets \in Seq([name : STRING, provider : STRING, base : STRING, key : {NoKey}])
  /\ \A i \in DOMAIN DefaultModels : DefaultModels[i].base = DefaultModels[i].provider
  /\ \A i \in DOMAIN Presets : Presets[i].base = Presets[i].provider

config_find_model(models, name) ==
  SelectInSeq(models, LAMBDA m : m.name = name)

\* resolve_active_model: an entry without a base_url leaves none.
resolve_active_model(cfg) ==
  IF cfg.models = <<>> THEN cfg
  ELSE LET active == IF cfg.active = 0 THEN 1 ELSE cfg.active
           m == cfg.models[active]
       IN  [cfg EXCEPT !.active = active, !.provider = m.provider, !.model = m.name,
                       !.key = IF @ = NoKey THEN m.key ELSE @,
                       !.url = m.base]

defaults ==
  [models |-> <<>>, active |-> 0, provider |-> FirstProvider, model |-> "default",
   key |-> NoKey, url |-> NoUrl]

\* apply_settings_file: an unreadable file adds nothing, not even the default
\* models; a file that lists models replaces those.
apply_settings_file(cfg, settings) ==
  IF settings = NoSettings THEN cfg
  ELSE LET models == IF settings.models = <<>> THEN DefaultModels ELSE settings.models
       IN  [cfg EXCEPT !.models = models,
                       !.active = config_find_model(models, settings.current)]

\* apply_env: the key of every model that has none.
apply_env(cfg, env) ==
  LET WithEnv(m) == [m EXCEPT !.key = IF @ = NoKey THEN env ELSE @]
  IN  [cfg EXCEPT !.models = [i \in DOMAIN @ |-> WithEnv(@[i])]]

config_load(settings, env) ==
  resolve_active_model(apply_env(apply_settings_file(defaults, settings), env))

\* config_apply_cli
config_apply_cli(cfg, args) ==
  [cfg EXCEPT !.model = IF args.model = "none" THEN @ ELSE args.model,
              !.key = IF args.key = NoKey THEN @ ELSE args.key,
              !.url = IF args.url = NoUrl THEN @ ELSE args.url]

\* Slip: the key of the model before is kept.
config_switch_model_Slip(cfg, name) ==
  LET i == config_find_model(cfg.models, name)
  IN  IF i = 0 THEN cfg
      ELSE resolve_active_model([cfg EXCEPT !.active = i, !.url = NoUrl])

\* config_switch_model, and the same configuration if there is no such model.
config_switch_model(cfg, name) ==
  LET i == config_find_model(cfg.models, name)
  IN  IF i = 0 THEN cfg
      ELSE resolve_active_model([cfg EXCEPT !.active = i, !.key = NoKey, !.url = NoUrl])

\* main: the configuration a run starts with.
Configured(settings, env, args) ==
  LET cfg == config_apply_cli(config_load(settings, env), args)
  IN  IF args.model = "none" THEN cfg ELSE config_switch_model(cfg, args.model)

\* config_save_current_model, as the contents it writes.
WithCurrent(settings, name) == [settings EXCEPT !.current = name]

\* A preset of the provider that is not listed yet.
AddPreset(models, preset, provider) ==
  IF preset.provider = provider /\ config_find_model(models, preset.name) = 0
  THEN Append(models, [preset EXCEPT !.key = KeyFor(provider)]) ELSE models

\* config_set_provider_key, as the contents it writes: the key of every listed
\* model of the provider, and its presets.
WithKey(settings, provider) ==
  LET old == IF settings = NoSettings THEN <<>> ELSE settings.models
      keyed == [i \in DOMAIN old |->
                  IF old[i].provider = provider
                  THEN [old[i] EXCEPT !.key = KeyFor(provider)] ELSE old[i]]
  IN  [models |-> FoldLeft(LAMBDA ms, p : AddPreset(ms, p, provider), keyed, Presets),
       current |-> IF settings = NoSettings THEN "none" ELSE settings.current]
===============================================================================
