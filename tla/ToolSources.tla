------------------------------ MODULE ToolSources ------------------------------
(***************************************************************************)
(* Where the tools of the registry (tools/registry.ts) come from: builtin  *)
(* ones, plugins (plugins/pluginManager.ts) and MCP servers                *)
(* (mcp/mcpClientManager.ts), loaded and dropped while the server runs.    *)
(***************************************************************************)
EXTENDS Integers, FiniteSets

CONSTANTS
  Builtins,   \* names of builtin tools
  Plugins, PluginTools,  \* plugins, and the names their tools may have
  Servers, ServerTools,  \* MCP servers, and the tools they may list
  Shadows,    \* server -> the others whose tool names begin with mcp_<server>_
  MaxClients  \* bound on MCP connections made

ASSUME SourcesAssumption ==
  /\ Shadows \in [Servers -> SUBSET Servers] /\ MaxClients \in Nat
  /\ Plugins \intersect {"builtin", "none"} = {}

VARIABLES
  registry,         \* builtin or plugin tool name -> whose it is
  toolNamesByPlugin,
  row,              \* plugin -> "absent", "enabled", "disabled" in the database
  upserting, disabling,  \* plugins whose load or disable awaits the database
  claims,           \* ghost: name -> plugins that ever registered it
  clients,          \* server -> its client, 0 for none
  made,             \* clients made so far
  listing,          \* clients whose listTools is under way: [server, client]
  closing,          \* server -> the client whose close is under way
  mcpRegistry,      \* server -> tool -> the client it calls, 0 when not registered
  crossed           \* ghost: servers connected twice

pluginVars == <<registry, toolNamesByPlugin, row, upserting, disabling, claims>>
mcpVars == <<clients, made, listing, closing, mcpRegistry, crossed>>
sourceVars == <<pluginVars, mcpVars>>

SourcesTypeOK ==
  /\ registry \in [Builtins \union PluginTools -> Plugins \union {"builtin", "none"}]
  /\ toolNamesByPlugin \in [Plugins -> SUBSET PluginTools]
  /\ row \in [Plugins -> {"absent", "enabled", "disabled"}]
  /\ {upserting, disabling} \subseteq SUBSET Plugins
  /\ claims \in [PluginTools -> SUBSET Plugins]
  /\ {clients, closing} \subseteq [Servers -> 0..MaxClients] /\ made \in 0..MaxClients
  /\ listing \subseteq [server : Servers, client : 1..MaxClients]
  /\ mcpRegistry \in [Servers -> [ServerTools -> 0..MaxClients]] /\ crossed \subseteq Servers

SourcesInit ==
  /\ registry = [n \in Builtins \union PluginTools |-> IF n \in Builtins THEN "builtin" ELSE "none"]
  /\ toolNamesByPlugin = [p \in Plugins |-> {}] /\ row = [p \in Plugins |-> "absent"]
  /\ upserting = {} /\ disabling = {} /\ claims = [n \in PluginTools |-> {}]
  /\ clients = [s \in Servers |-> 0] /\ made = 0 /\ listing = {} /\ closing = [s \in Servers |-> 0]
  /\ mcpRegistry = [s \in Servers |-> [t \in ServerTools |-> 0]] /\ crossed = {}

-----------------------------------------------------------------------------
(* Plugins *)

\* unregister deletes by name, whoever registered it last.
Without(names) == [n \in DOMAIN registry |-> IF n \in names THEN "none" ELSE registry[n]]

RegisterAll_KeepStale(p, tools) ==
  [n \in DOMAIN registry |-> IF n \in tools THEN p ELSE registry[n]]

\* A reloaded plugin's earlier tools go first.
RegisterAll(p, tools) ==
  [n \in DOMAIN registry |-> IF n \in tools THEN p ELSE Without(toolNamesByPlugin[p])[n]]

\* loadPlugin once the module is imported; the row is written after.
PluginLoads(p) ==
  /\ p \notin upserting
  /\ \E tools \in SUBSET PluginTools \ {{}} :
       /\ registry' = RegisterAll(p, tools)
       /\ toolNamesByPlugin' = [toolNamesByPlugin EXCEPT ![p] = tools]
       /\ claims' = [n \in PluginTools |-> IF n \in tools THEN claims[n] \union {p} ELSE claims[n]]
  /\ upserting' = upserting \union {p}
  /\ UNCHANGED <<row, disabling, mcpVars>>

PluginStored(p) ==
  /\ p \in upserting /\ upserting' = upserting \ {p} /\ row' = [row EXCEPT ![p] = "enabled"]
  /\ UNCHANGED <<registry, toolNamesByPlugin, disabling, claims, mcpVars>>

\* disablePlugin writes the row, which must exist, and then drops the tools.
DisableStored(p) ==
  /\ row[p] # "absent" /\ p \notin disabling
  /\ row' = [row EXCEPT ![p] = "disabled"] /\ disabling' = disabling \union {p}
  /\ UNCHANGED <<registry, toolNamesByPlugin, upserting, claims, mcpVars>>

PluginDrops(p) ==
  /\ p \in disabling /\ disabling' = disabling \ {p}
  /\ registry' = Without(toolNamesByPlugin[p])
  /\ toolNamesByPlugin' = [toolNamesByPlugin EXCEPT ![p] = {}]
  /\ UNCHANGED <<row, upserting, claims, mcpVars>>

-----------------------------------------------------------------------------
(* MCP servers *)

\* client.connect comes back; a second client takes the place of the first, which nobody closes.
ServerConnects(s) ==
  /\ made < MaxClients /\ made' = made + 1
  /\ clients' = [clients EXCEPT ![s] = made + 1]
  /\ listing' = listing \union {[server |-> s, client |-> made + 1]}
  /\ crossed' = IF clients[s] # 0 \/ closing[s] # 0 THEN crossed \union {s} ELSE crossed
  /\ UNCHANGED <<pluginVars, closing, mcpRegistry>>

\* listTools comes back, or throws and the client stays without tools.
ToolsListed(l) ==
  /\ l \in listing /\ listing' = listing \ {l}
  /\ \E tools \in SUBSET ServerTools :
       mcpRegistry' = [mcpRegistry EXCEPT ![l.server] =
                         [t \in ServerTools |-> IF t \in tools THEN l.client ELSE @[t]]]
  /\ UNCHANGED <<pluginVars, clients, made, closing, crossed>>

DisconnectBegins(s) ==
  /\ clients[s] # 0 /\ closing[s] = 0 /\ closing' = [closing EXCEPT ![s] = clients[s]]
  /\ UNCHANGED <<pluginVars, clients, made, listing, mcpRegistry, crossed>>

\* The client is closed, its requests with it; the server's entry and every tool whose name
\* begins with the server's prefix go.
DisconnectEnds(s) ==
  /\ closing[s] # 0 /\ closing' = [closing EXCEPT ![s] = 0]
  /\ listing' = {l \in listing : l.client # closing[s]}
  /\ clients' = [clients EXCEPT ![s] = 0]
  /\ mcpRegistry' = [r \in Servers |-> IF r = s \/ r \in Shadows[s] THEN [t \in ServerTools |-> 0]
                                       ELSE mcpRegistry[r]]
  /\ UNCHANGED <<pluginVars, made, crossed>>

PluginsNext ==
  \E p \in Plugins : PluginLoads(p) \/ PluginStored(p) \/ DisableStored(p) \/ PluginDrops(p)

ServersNext ==
  \/ \E s \in Servers : ServerConnects(s) \/ DisconnectBegins(s) \/ DisconnectEnds(s)
  \/ \E l \in listing : ToolsListed(l)

SourcesSpec == SourcesInit /\ [][PluginsNext \/ ServersNext]_sourceVars

-----------------------------------------------------------------------------
(* Properties *)

\* "disabling one plugin can unregister exactly its own tools": a tool the model is offered
\* belongs to a plugin that has it or to a connected server, and calls that server's
\* client; a plugin has all its tools, and the builtin ones stay, while no name is shared.
ToolsBelongToTheirSource ==
  /\ \A n \in PluginTools, p \in Plugins :
       /\ registry[n] = p => n \in toolNamesByPlugin[p]
       /\ n \in toolNamesByPlugin[p] /\ claims[n] \subseteq {p} => registry[n] = p
       /\ claims[n] = {} /\ n \in Builtins => registry[n] = "builtin"
  /\ \A p \in Plugins :
       row[p] = "disabled" /\ p \notin disabling \union upserting => toolNamesByPlugin[p] = {}
  /\ \A s \in Servers \ crossed, t \in ServerTools : mcpRegistry[s][t] \in {0, clients[s]}
=============================================================================
