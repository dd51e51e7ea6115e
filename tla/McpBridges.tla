------------------------------ MODULE McpBridges ------------------------------
(* src/mcp/mcp_runtime.c over src/tools/tool_registry.c: the tools of the MCP   *)
(* servers in the registry, in the bridge table that finds the session of a     *)
(* call, and in the list the model is offered.  The servers are those the       *)
(* configuration lists; a tool is registered as "<server>__<tool>", and two     *)
(* servers may arrive at the same name.                                         *)
EXTENDS Integers, Sequences, SequencesExt

CONSTANTS
  Servers,       \* the configured servers, in order
  ToolsOf,       \* what tools/list returns: [full |-> registry name, tool |-> own name]
  Builtins,      \* the names of the built-in tools, in order
  MAX_REGISTRY,  \* 1024 in the code
  MAX_MCP_TOOLS  \* 512 in the code

\* Names are strings; the built-in tools fit the registry.
ASSUME BridgesAssumption ==
  /\ MAX_REGISTRY \in Nat /\ MAX_MCP_TOOLS \in Nat
  /\ Builtins \in Seq(STRING) /\ Len(Builtins) <= MAX_REGISTRY
  /\ Servers \in Seq(STRING)
  /\ \A i \in DOMAIN Servers : ToolsOf[Servers[i]] \in Seq([full : STRING, tool : STRING])

\* The registry of names, the table and the tools offered to the model.
Tables == [registry |-> Builtins, table |-> <<>>, offered |-> <<>>]

tool_registry_find(t, name) == Contains(t.registry, name)

tool_registry_add(registry, name) ==
  IF Len(registry) >= MAX_REGISTRY THEN registry ELSE Append(registry, name)

\* Slip: a name two servers share is registered twice.
Bridge_Slip(t, server, info) ==
  LET entry == [full |-> info.full, server |-> server, tool |-> info.tool]
  IN  [registry |-> tool_registry_add(t.registry, info.full),
       table |-> IF Len(t.table) < MAX_MCP_TOOLS THEN Append(t.table, entry) ELSE t.table,
       offered |-> Append(t.offered, entry)]

\* One tool of a server that has started; a duplicate is skipped.
Bridge(t, server, info) ==
  LET entry == [full |-> info.full, server |-> server, tool |-> info.tool]
  IN  IF tool_registry_find(t, info.full) THEN t
      ELSE [registry |-> tool_registry_add(t.registry, info.full),
            table |-> IF Len(t.table) < MAX_MCP_TOOLS THEN Append(t.table, entry) ELSE t.table,
            offered |-> Append(t.offered, entry)]

\* The tools of one server, if it has started.
BridgeServer(t, s, started) ==
  IF s \notin started THEN t
  ELSE FoldLeft(LAMBDA u, info : Bridge(u, s, info), t, ToolsOf[s])

\* mcp_bridges_start for the enabled servers; those that fail to start or list
\* no tools are passed over.
mcp_bridges_start(enabled, failing) ==
  FoldLeft(LAMBDA t, s : BridgeServer(t, s, enabled \ failing), Tables, Servers)

\* What happens to a call the model makes: the session and the tool it reaches.
Unknown == [error |-> "unknown tool"]
NotFound == [error |-> "MCP tool not found"]
CallTool(t, name) ==
  LET i == SelectInSeq(t.table, LAMBDA e : e.full = name)
  IN  IF ~tool_registry_find(t, name) THEN Unknown
      ELSE IF i = 0 THEN NotFound ELSE t.table[i]

\* Removal: the last element takes the place of the first match.
SwapOut(s, i) ==
  IF i = 0 THEN s ELSE [k \in 1 .. Len(s) - 1 |-> IF k = i THEN s[Len(s)] ELSE s[k]]

tool_registry_remove(registry, name) ==
  SwapOut(registry, SelectInSeq(registry, LAMBDA n : n = name))

\* mcp_bridges_stop, which goes through the tools offered.
Unbridge(t, o) ==
  [t EXCEPT !.registry = tool_registry_remove(@, o.full),
            !.table = SwapOut(@, SelectInSeq(@, LAMBDA e : e.full = o.full))]

mcp_bridges_stop(t) == FoldLeft(Unbridge, t, t.offered)
===============================================================================
