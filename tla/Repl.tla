--------------------------------- MODULE Repl ---------------------------------
(* src/main.c around the conversation: a run of cgent from its configuration to *)
(* its end, with the commands that change the model, the session file written   *)
(* after every turn, --resume, the MCP tools, and a crash at any moment.  Runs  *)
(* follow one another; "cgent config", from another terminal, may come in       *)
(* between any two steps.  What happens inside a turn is AgentChat's; here a    *)
(* turn makes some requests and has an answer or none.                          *)
EXTENDS Config, SessionStore, McpBridges

CONSTANTS
  Arguments,    \* the command lines: key, model and url, and query for -q
  InitSettings, \* the settings files to start with
  Environments, \* CGENT_API_KEY: set or not
  Startups,     \* bound: which servers are enabled, and which of them do not start
  MaxRuns, MaxInputs, MaxRequests, MaxSettings  \* bounds

ASSUME BoundsAssumption == MaxRuns \in Nat /\ MaxRequests \in Nat

\* The settings list a model once, as a JSON object does, and with no key or one
\* that was configured for its provider.
ASSUME InputsAssumption ==
  /\ \A s \in InitSettings :
       /\ s = [models |-> s.models, current |-> s.current]
       /\ s.models \in Seq([name : STRING, provider : STRING, base : STRING, key : [owner : STRING]])
       /\ \A i, j \in DOMAIN s.models : s.models[i].name = s.models[j].name => i = j
       /\ \A i \in DOMAIN s.models :
            /\ s.models[i].key \in {NoKey, KeyFor(s.models[i].provider)}
            /\ s.models[i].base \in {NoUrl, s.models[i].provider}
  /\ Environments \subseteq {NoKey, EnvKey}
  /\ \A args \in Arguments : args.key \in {NoKey, CliKey} /\ args.url \in {NoUrl, CliUrl}

VARIABLES
  settings, env,  \* settings.json and the environment
  disk,           \* the session files, by uuid
  pc, query,      \* where the run is, and whether it answers one query only
  cfg, agent,     \* the configuration, and the agent's copy of it
  tools,          \* the registry, the bridge table and the tools offered
  session,        \* the session in memory
  counted, last,  \* the agent's request count, and the part already tracked
  left,           \* lines not yet written, or the settings not yet written
  other, draft,   \* the other terminal's "cgent config", and what it will write
  runs, inputs, edits, \* counters of the bounds
  said,           \* history: what each session heard and answered, in order
  spent,          \* history: the requests made for each session
  dropped,        \* history: those a run made after its last turn
  kept,           \* history: what the last save of each session was to hold
  damaged         \* history: sessions that saw a crash or a failed save
vars == <<settings, env, disk, pc, query, cfg, agent, tools, session, counted, last,
          left, other, draft, runs, inputs, edits, said, spent, dropped, kept, damaged>>
run      == <<query, cfg, agent, tools>>
history  == <<said, spent, dropped, kept, damaged>>
terminal == <<other, draft, edits>>

Uuids == 1 .. MaxRuns
Me == session.uuid
NoAgent == [protocol |-> "none", key |-> NoKey, url |-> NoUrl, model |-> "none"]

Init ==
  /\ settings \in InitSettings /\ env \in Environments
  /\ disk = [u \in Uuids |-> NoFile]
  /\ pc = "off" /\ query = FALSE
  /\ cfg = defaults /\ agent = NoAgent /\ tools = Tables
  /\ session = Session(1, <<>>, 0)
  /\ counted = 0 /\ last = 0 /\ left = <<>>
  /\ other = "idle" /\ draft = NoSettings
  /\ runs = 0 /\ inputs = 0 /\ edits = 0
  /\ said = [u \in Uuids |-> <<>>] /\ kept = [u \in Uuids |-> <<>>]
  /\ spent = [u \in Uuids |-> 0] /\ dropped = [u \in Uuids |-> 0]
  /\ damaged = [u \in Uuids |-> FALSE]
-----------------------------------------------------------------------------
\* provider_config_t, copied by agent_create.
Agent(c) == [protocol |-> c.provider, key |-> c.key, model |-> c.model,
             url |-> IF c.url = NoUrl THEN c.provider ELSE c.url]

\* agent_endpoint_url: without a base_url, the server of the protocol, and that
\* is the one the run began with.
agent_endpoint_url(a) == IF a.url = NoUrl THEN a.protocol ELSE a.url

\* Without any API key the run ends at once.
StartRefused(args) ==
  /\ pc = "off" /\ runs < MaxRuns
  /\ Configured(settings, env, args).key = NoKey
  /\ runs' = runs + 1
  /\ UNCHANGED <<settings, env, disk, pc, run, session, counted, last, left,
                 terminal, inputs, history>>

\* A run begins, with the session it is to resume or, if there is no such file,
\* with a new one, and with the MCP servers that were enabled and did start.
Start(args, uuid, enabled, failing) ==
  /\ pc = "off" /\ runs < MaxRuns
  /\ runs' = runs + 1
  /\ cfg' = Configured(settings, env, args)
  /\ cfg'.key # NoKey
  /\ agent' = Agent(cfg')
  /\ query' = args.query
  /\ session' = IF disk[uuid] # NoFile THEN session_load(uuid, disk[uuid])
                ELSE Session(runs', <<>>, 0)
  /\ said' = [said EXCEPT ![session'.uuid] =
                IF damaged[session'.uuid] THEN SubSeq(@, 1, Len(session'.messages)) ELSE @]
  /\ counted' = 0 /\ last' = 0
  /\ tools' = mcp_bridges_start(enabled, failing)
  /\ pc' = "prompt"
  /\ UNCHANGED <<settings, env, disk, left, terminal, inputs, spent, dropped, kept, damaged>>

\* A message, or the query, is typed: the session has it before the agent runs.
Input ==
  /\ pc = "prompt" /\ inputs < MaxInputs
  /\ inputs' = inputs + 1
  /\ LET msg == [type |-> "user", n |-> inputs']
     IN  /\ session' = session_add_message(session, msg)
         /\ said' = [said EXCEPT ![Me] = Append(@, msg)]
  /\ pc' = "chat"
  /\ UNCHANGED <<settings, env, disk, run, counted, last, left, terminal, runs,
                 spent, dropped, kept, damaged>>

\* Slip: what was tracked is not remembered.
Tracked_Slip == last

\* session_track_usage remembers what it has folded into the totals.
Tracked == counted'

\* agent_chat or agent_chat_stream returns, without an answer when interrupted
\* or given up; the session takes over the answer and the usage.
TurnEnds(answered, requests) ==
  /\ pc = "chat"
  /\ counted' = counted + requests
  /\ spent' = [spent EXCEPT ![Me] = @ + requests]
  /\ LET msg == [type |-> "assistant", n |-> inputs]
     IN  /\ session' = session_track_usage(
                          IF answered THEN session_add_message(session, msg) ELSE session,
                          counted', last)
         /\ said' = IF answered THEN [said EXCEPT ![Me] = Append(@, msg)] ELSE said
  /\ last' = Tracked
  /\ pc' = "save"
  /\ UNCHANGED <<settings, env, disk, run, left, terminal, runs, inputs, dropped, kept, damaged>>

\* Where a run goes on after a turn.
AfterTurn == IF query THEN "end" ELSE "prompt"

\* session_save: fopen empties the file ...
SaveOpen ==
  /\ pc = "save"
  /\ disk' = [disk EXCEPT ![Me] = <<>>]
  /\ left' = SavedLines(session)
  /\ kept' = [kept EXCEPT ![Me] = said[Me]]
  /\ pc' = "saving"
  /\ UNCHANGED <<settings, env, run, session, counted, last, terminal, runs, inputs,
                 said, spent, dropped, damaged>>

\* ... or fails, which nobody notices ...
SaveFails ==
  /\ pc = "save"
  /\ damaged' = [damaged EXCEPT ![Me] = TRUE]
  /\ pc' = AfterTurn
  /\ UNCHANGED <<settings, env, disk, run, session, counted, last, left, terminal,
                 runs, inputs, said, spent, dropped, kept>>

\* ... and the lines reach the disk one after the other.
SaveLine ==
  /\ pc = "saving"
  /\ IF left = <<>>
     THEN pc' = AfterTurn /\ UNCHANGED <<disk, left>>
     ELSE /\ disk' = [disk EXCEPT ![Me] = Append(@, Head(left))]
          /\ left' = Tail(left)
          /\ UNCHANGED pc
  /\ UNCHANGED <<settings, env, run, session, counted, last, terminal, runs, inputs, history>>

\* /compact: requests that the session hears of after the next turn.
Compact(requests) ==
  /\ pc = "prompt" /\ ~query /\ session.messages # <<>>
  /\ counted' = counted + requests
  /\ counted' - last <= MaxRequests
  /\ spent' = [spent EXCEPT ![Me] = @ + requests]
  /\ UNCHANGED <<settings, env, disk, pc, run, session, last, left, terminal, runs,
                 inputs, said, dropped, kept, damaged>>

\* /model <name>: the agent takes over key, server and model, but not the
\* protocol; then the settings file is read ...
SwitchModel(name) ==
  /\ pc = "prompt" /\ ~query /\ edits < MaxSettings
  /\ config_find_model(cfg.models, name) # 0
  /\ edits' = edits + 1
  /\ cfg' = config_switch_model(cfg, name)
  /\ agent' = [agent EXCEPT !.key = cfg'.key, !.url = cfg'.url, !.model = cfg'.model]
  /\ IF settings = NoSettings THEN UNCHANGED <<pc, left>>
     ELSE pc' = "rewrite" /\ left' = <<WithCurrent(settings, name)>>
  /\ UNCHANGED <<settings, env, disk, query, tools, session, counted, last, other, draft,
                 runs, inputs, history>>

\* ... emptied, and written.
Rewrite ==
  /\ \/ /\ pc = "rewrite" /\ pc' = "rewriting"
        /\ settings' = NoSettings /\ UNCHANGED left
     \/ /\ pc = "rewriting" /\ pc' = "prompt"
        /\ settings' = left[1] /\ left' = <<>>
  /\ UNCHANGED <<env, disk, run, session, counted, last, terminal, runs, inputs, history>>

\* "cgent config" in another terminal, in the same three steps.
ConfigRead(provider) ==
  /\ other = "idle" /\ edits < MaxSettings
  /\ edits' = edits + 1
  /\ draft' = WithKey(settings, provider)
  /\ other' = "rewrite"
  /\ UNCHANGED <<settings, env, disk, pc, run, session, counted, last, left, runs, inputs, history>>

ConfigWrite ==
  /\ \/ /\ other = "rewrite" /\ other' = "rewriting"
        /\ settings' = NoSettings /\ UNCHANGED draft
     \/ /\ other = "rewriting" /\ other' = "idle"
        /\ settings' = draft /\ draft' = NoSettings
  /\ UNCHANGED <<env, disk, pc, run, session, counted, last, left, edits, runs, inputs, history>>

\* The process is gone.
Gone ==
  /\ pc' = "off" /\ query' = FALSE /\ cfg' = defaults /\ agent' = NoAgent
  /\ session' = Session(1, <<>>, 0) /\ counted' = 0 /\ last' = 0 /\ left' = <<>>
  /\ UNCHANGED <<settings, env, disk, terminal, runs, inputs, said, kept>>

\* /quit, the end of the input, or the end of a query.
Quit ==
  /\ pc \in {"prompt", "end"}
  /\ dropped' = [dropped EXCEPT ![Me] = @ + counted - last]
  /\ tools' = [mcp_bridges_stop(tools) EXCEPT !.offered = <<>>]
  /\ Gone /\ UNCHANGED <<spent, damaged>>

\* The process is killed; its memory is lost.
Crash ==
  /\ pc # "off"
  /\ damaged' = [damaged EXCEPT ![Me] = TRUE]
  /\ tools' = Tables
  /\ Gone /\ UNCHANGED <<spent, dropped>>

Next ==
  \/ \E args \in Arguments :
       \/ StartRefused(args)
       \/ \E uuid \in Uuids, s \in Startups : Start(args, uuid, s.enabled, s.failing)
  \/ Input \/ SaveOpen \/ SaveFails \/ SaveLine \/ Rewrite \/ ConfigWrite \/ Quit \/ Crash
  \/ \E requests \in 0 .. MaxRequests :
       Compact(requests) \/ \E answered \in BOOLEAN : TurnEnds(answered, requests)
  \/ \E i \in DOMAIN cfg.models : SwitchModel(cfg.models[i].name)
  \/ \E i \in DOMAIN Presets : ConfigRead(Presets[i].provider)

Spec == Init /\ [][Next]_vars
-----------------------------------------------------------------------------
(* Properties                                                                  *)

\* The session in memory is what was typed and answered since the session began,
\* over all the runs that resumed it; its file holds that as of the last turn,
\* and whatever a crash leaves of the file is a beginning of it (session_save,
\* session_load, the restoring of --resume and the order in a turn: the input
\* before the request, the answer, the file).
SessionIsTranscript ==
  /\ pc # "off" => session.messages = said[Me]
  /\ \A u \in Uuids : disk[u] # NoFile =>
       LET loaded == session_load(u, disk[u]).messages
       IN  /\ IsPrefix(loaded, kept[u])
           /\ loaded = kept[u] \/ damaged[u] \/ (pc = "saving" /\ u = Me)

\* The session's total counts every request once: those of its turns in all the
\* runs, and with the next turn those of a /compact, but not those of a /compact
\* that no turn followed.  A crash can only lose some.  (session_track_usage,
\* whose marks start at zero with each run, and the totals in the metadata.)
UsageAccounted ==
  pc # "off" =>
    LET total == session.requests + counted - last
    IN  /\ total + dropped[Me] <= spent[Me]
        /\ damaged[Me] \/ total + dropped[Me] = spent[Me]

\* A request goes to the server of the model it names, if it is a listed one, and
\* with a key that was configured for this provider or given for every one,
\* whichever models were switched to and whoever rewrote the settings meanwhile.
\* (resolve_active_model keeps a key that is set, so config_switch_model has to
\* clear it.)  There is one exception, where the code does send a key to another
\* provider: the model in use has no base_url, and the run began with a model of
\* another provider, to whose server agent_endpoint_url then falls back.
Strayed ==
  LET entry == cfg.models[cfg.active]
  IN  entry.base = NoUrl /\ entry.provider # agent.protocol
KeyFitsServer ==
  pc = "chat" /\ cfg.active # 0 /\ ~Strayed =>
    LET server == agent_endpoint_url(agent)
    IN  /\ agent.key \in {NoKey, EnvKey, CliKey} \/ server \in {agent.key.owner, CliUrl}
        /\ \A i \in DOMAIN cfg.models :
             cfg.models[i].name = agent.model => server \in {cfg.models[i].provider, CliUrl}

\* A call of an offered MCP tool reaches the server and the tool the model was
\* shown, although two servers may produce the same name; only past the limits
\* of the two tables is it refused.  After the bridges have stopped nothing of
\* them is left.  (mcp_bridges_start, mcp_tool_handler, mcp_bridges_stop.)
OfferedCallsArrive ==
  /\ \A i \in DOMAIN tools.offered :
       LET o == tools.offered[i]
           answer == CallTool(tools, o.full)
       IN  \/ answer = o
           \/ answer = NotFound /\ Len(tools.table) = MAX_MCP_TOOLS
           \/ answer = Unknown /\ Len(tools.registry) = MAX_REGISTRY
  /\ pc = "off" => tools.registry = Builtins /\ tools.table = <<>>
=============================================================================
