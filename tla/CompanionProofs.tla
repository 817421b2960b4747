-------------------------- MODULE CompanionProofs --------------------------
(***************************************************************************)
(* Theorems about companions whose state outlives a request and its        *)
(* awaits: the tools of plugins and MCP servers (ToolSources), the         *)
(* browsers (BrowserSessions) and the tool calls of a native voice         *)
(* conversation (NativeVoice), for any sets of each; about the stream of a *)
(* model's reply (ProviderStreams), for any reply; about what is heard in  *)
(* a microphone's frames (ClapDetector, UtteranceSegmenter), for any       *)
(* frames; about the parentheses of an expression (Calculator), for any    *)
(* tokens; and about the parts in one instance (MCCompanions).             *)
(***************************************************************************)
EXTENDS MCCompanions, RegistryProofs, EyesCompanionProofs

-----------------------------------------------------------------------------
(* The registry of tools *)

SourcesShape ==
  /\ registry \in [Builtins \union PluginTools -> Plugins \union {"builtin", "none"}]
  /\ toolNamesByPlugin \in [Plugins -> SUBSET PluginTools]
  /\ row \in [Plugins -> {"absent", "enabled", "disabled"}]
  /\ claims \in [PluginTools -> SUBSET Plugins]
  /\ clients \in [Servers -> Nat] /\ closing \in [Servers -> Nat] /\ made \in Nat
  /\ listing \subseteq [server : Servers, client : Nat \ {0}]
  /\ mcpRegistry \in [Servers -> [ServerTools -> Nat]]

\* A plugin's tools are claimed by it, a tool of the registry is its plugin's, and a name
\* nobody else ever claimed is still registered.
NamesAreClaimed ==
  \A n \in PluginTools :
    /\ \A p \in Plugins :
         /\ registry[n] = p => n \in toolNamesByPlugin[p]
         /\ n \in toolNamesByPlugin[p] => p \in claims[n]
         /\ n \in toolNamesByPlugin[p] /\ claims[n] \subseteq {p} => registry[n] = p
    /\ claims[n] = {} /\ n \in Builtins => registry[n] = "builtin"

DisabledHaveNone ==
  \A p \in Plugins :
    row[p] = "disabled" /\ p \notin disabling \union upserting => toolNamesByPlugin[p] = {}

\* A server that was never connected twice has one client, which lists and closes for it.
OneClient ==
  \A s \in Servers \ crossed :
    /\ \A t \in ServerTools : mcpRegistry[s][t] \in {0, clients[s]}
    /\ \A l \in listing : l.server = s => l.client = clients[s]
    /\ closing[s] \in {0, clients[s]}

Sources == SourcesShape /\ NamesAreClaimed /\ DisabledHaveNone /\ OneClient

LEMMA PluginsKeepSources == ASSUME Sources, PluginsNext PROVE Sources'
<1> USE SourcesAssumption DEF Sources, SourcesShape, mcpVars
<1>1. OneClient'
  BY DEF OneClient, PluginsNext, PluginLoads, PluginStored, DisableStored, PluginDrops
<1>2. ASSUME NEW p \in Plugins, PluginLoads(p)
      PROVE  SourcesShape' /\ NamesAreClaimed' /\ DisabledHaveNone'
  <2>1. PICK tools \in SUBSET PluginTools \ {{}} :
          /\ registry' = RegisterAll(p, tools)
          /\ toolNamesByPlugin' = [toolNamesByPlugin EXCEPT ![p] = tools]
          /\ claims' = [n \in PluginTools |-> IF n \in tools THEN claims[n] \union {p} ELSE claims[n]]
    BY <1>2 DEF PluginLoads
  <2>2. SourcesShape'
    BY <1>2, <2>1 DEF PluginLoads, RegisterAll, Without
  <2>3. NamesAreClaimed'
    BY <1>2, <2>1 DEF RegisterAll, Without, NamesAreClaimed
  <2>4. DisabledHaveNone'
    BY <1>2, <2>1 DEF PluginLoads, DisabledHaveNone
  <2> QED
    BY <2>2, <2>3, <2>4
<1>3. ASSUME NEW p \in Plugins, PluginStored(p) \/ DisableStored(p)
      PROVE  SourcesShape' /\ NamesAreClaimed' /\ DisabledHaveNone'
  BY SMTT(30), <1>3 DEF PluginStored, DisableStored, NamesAreClaimed, DisabledHaveNone
<1>4. ASSUME NEW p \in Plugins, PluginDrops(p)
      PROVE  SourcesShape' /\ NamesAreClaimed' /\ DisabledHaveNone'
  BY <1>4 DEF PluginDrops, Without, NamesAreClaimed, DisabledHaveNone
<1> QED
  BY <1>1, <1>2, <1>3, <1>4 DEF PluginsNext

LEMMA ServersKeepSources == ASSUME Sources, ServersNext PROVE Sources'
<1> USE SourcesAssumption DEF Sources, SourcesShape, pluginVars
<1>1. NamesAreClaimed' /\ DisabledHaveNone'
  BY DEF NamesAreClaimed, DisabledHaveNone, ServersNext, ServerConnects, ToolsListed, DisconnectBegins,
     DisconnectEnds
<1>2. ASSUME NEW s \in Servers, ServerConnects(s) PROVE SourcesShape' /\ OneClient'
  BY <1>2 DEF ServerConnects, OneClient
<1>3. ASSUME NEW s \in Servers, DisconnectBegins(s) PROVE SourcesShape' /\ OneClient'
  BY <1>3 DEF DisconnectBegins, OneClient
<1>4. ASSUME NEW s \in Servers, DisconnectEnds(s) PROVE SourcesShape' /\ OneClient'
  BY <1>4 DEF DisconnectEnds, OneClient
<1>5. ASSUME NEW l \in listing, ToolsListed(l) PROVE SourcesShape' /\ OneClient'
  BY <1>5 DEF ToolsListed, OneClient
<1> QED
  BY <1>1, <1>2, <1>3, <1>4, <1>5 DEF ServersNext

\* "Disabling one plugin can unregister exactly its own tools": what the registry offers
\* belongs to a plugin that has it or to a connected server, and calls that server's client.
THEOREM ToolsBelong == SourcesSpec => []ToolsBelongToTheirSource
<1>1. SourcesInit => Sources
  BY SourcesAssumption DEF SourcesInit, Sources, SourcesShape, NamesAreClaimed, DisabledHaveNone, OneClient
<1>2. Sources /\ UNCHANGED sourceVars => Sources'
  BY DEF Sources, SourcesShape, NamesAreClaimed, DisabledHaveNone, OneClient, sourceVars, pluginVars, mcpVars
<1>3. Sources => ToolsBelongToTheirSource
  BY DEF Sources, NamesAreClaimed, DisabledHaveNone, OneClient, ToolsBelongToTheirSource
<1> QED
  BY <1>1, <1>2, <1>3, PluginsKeepSources, ServersKeepSources, PTL DEF SourcesSpec

-----------------------------------------------------------------------------
(* Browsers *)

BrowserShape ==
  /\ launched \in Nat /\ browser \in Nat /\ running \subseteq Nat \ {0}
  /\ context \in [Contexts -> [state : {"unused", "open", "closed"}, page : SomePages, in : Nat]]
  /\ pages \in [Pages -> Contexts \union {NoContext}]
  /\ use \in [Users -> [step : {"idle", "launching", "opening"}, page : SomePages, in : Nat]]
  /\ \A u \in Users : use[u].step # "idle" => use[u].page \in Pages
  /\ \A c \in Contexts : context[c].state = "open" => context[c].page \in Pages

\* Calls that make a session for a page found none there, and one another when they are several.
MakersKnow ==
  \A u \in Users : use[u].step # "idle" =>
    \/ use[u].page \in contested
    \/ /\ pages[use[u].page] = NoContext
       /\ \A v \in Users : use[v].step # "idle" /\ use[v].page = use[u].page => v = u

\* A call that launches found no browser running, and no other launch.
LaunchersKnow ==
  ~doubleLaunch => \A u \in Users : use[u].step = "launching" =>
                     browser = 0 /\ \A v \in Users : use[v].step = "launching" => v = u

Findable == BrowserShape /\ MakersKnow /\ LaunchersKnow /\ NothingRunsUnfindable

LEMMA BrowserStep == ASSUME Findable, BrowserNext PROVE Findable'
<1> USE BrowserAssumption DEF Findable, BrowserShape, SomePages
<1>1. ASSUME NEW u \in Users, NEW p \in Pages, AsksForSession(u, p) PROVE Findable'
  <2>1. /\ use'[u].page = p /\ use'[u].step \in {"launching", "opening"} /\ use[u].step = "idle"
        /\ use'[u].step = "launching" <=> browser = 0
        /\ \A v \in Users : v # u => use'[v] = use[v]
        /\ pages[p] = NoContext
    BY <1>1 DEF AsksForSession, UseIs, IdleUse
  <2>2. BrowserShape'
    BY <1>1, <2>1 DEF AsksForSession, UseIs
  <2>3. MakersKnow'
    BY <1>1, <2>1 DEF AsksForSession, MakersKnow, Making
  <2>4. LaunchersKnow'
    BY <1>1, <2>1 DEF AsksForSession, LaunchersKnow
  <2>5. NothingRunsUnfindable'
    BY <1>1 DEF AsksForSession, NothingRunsUnfindable
  <2> QED
    BY <2>2, <2>3, <2>4, <2>5
<1>2. ASSUME NEW u \in Users, Launched(u) PROVE Findable'
  <2>1. /\ use'[u].page = use[u].page /\ use'[u].step = "opening" /\ use[u].step = "launching"
        /\ \A v \in Users : v # u => use'[v] = use[v]
    BY <1>2 DEF Launched, UseIs
  <2>2. BrowserShape'
    BY <1>2, <2>1 DEF Launched, UseIs
  <2>3. MakersKnow'
    BY <1>2, <2>1 DEF Launched, MakersKnow
  <2>4. LaunchersKnow'
    BY <1>2, <2>1 DEF Launched, LaunchersKnow
  <2>5. NothingRunsUnfindable'
    BY <1>2, <2>1 DEF Launched, LaunchersKnow, NothingRunsUnfindable
  <2> QED
    BY <2>2, <2>3, <2>4, <2>5
<1>3. ASSUME NEW u \in Users, Opened(u) PROVE Findable'
  <2>1. PICK c \in SomeUnused :
          /\ context' = [context EXCEPT ![c] = [state |-> "open", page |-> use[u].page, in |-> use[u].in]]
          /\ pages' = [pages EXCEPT ![use[u].page] = c]
          /\ use' = [use EXCEPT ![u] = IdleUse]
    BY <1>3 DEF Opened
  <2>2. c \in Contexts /\ context[c].state = "unused"
    BY DEF SomeUnused
  <2>3. /\ use'[u].step = "idle" /\ use[u].step = "opening" /\ use[u].page \in Pages
        /\ \A v \in Users : v # u => use'[v] = use[v]
    BY <1>3, <2>1 DEF Opened, IdleUse
  <2>4. BrowserShape'
    BY <1>3, <2>1, <2>2, <2>3 DEF Opened, IdleUse
  <2>5. MakersKnow'
    BY <1>3, <2>1, <2>2, <2>3 DEF Opened, MakersKnow
  <2>6. LaunchersKnow'
    BY <1>3, <2>3 DEF Opened, LaunchersKnow
  <2>7. NothingRunsUnfindable'
    <3>1. ASSUME NEW d \in Contexts, context'[d].state = "open"
          PROVE  context'[d].page \in contested' \/ pages'[context'[d].page] = d
      BY <1>3, <2>1, <2>2, <2>3, <3>1 DEF Opened, MakersKnow, NothingRunsUnfindable
    <3> QED
      BY <1>3, <3>1 DEF Opened, NothingRunsUnfindable
  <2> QED
    BY <2>4, <2>5, <2>6, <2>7
<1>4. ASSUME NEW u \in Users, OpeningFails(u) PROVE Findable'
  <2>1. use'[u].step = "idle" /\ \A v \in Users : v # u => use'[v] = use[v]
    BY <1>4 DEF OpeningFails, IdleUse
  <2>2. use' \in [Users -> [step : {"idle", "launching", "opening"}, page : SomePages, in : Nat]]
    BY <1>4 DEF OpeningFails, IdleUse
  <2> QED
    BY <1>4, <2>1, <2>2 DEF OpeningFails, MakersKnow, LaunchersKnow, NothingRunsUnfindable
<1>5. ASSUME NEW ps \in SUBSET Pages, CloseContexts(ps),
             UNCHANGED <<browser, launched, running, use, contested, doubleLaunch>>
      PROVE  Findable'
  <2>1. BrowserShape'
    BY <1>5 DEF CloseContexts, Forget, Closed
  <2>2. MakersKnow' /\ LaunchersKnow'
    BY <1>5 DEF CloseContexts, Forget, MakersKnow, LaunchersKnow
  <2>3. NothingRunsUnfindable'
    BY <1>5 DEF CloseContexts, Forget, Closed, NothingRunsUnfindable
  <2> QED
    BY <2>1, <2>2, <2>3
<1>6. CASE Reaps \/ \E p \in Pages : ToolCloses(p)
  BY <1>5, <1>6 DEF Reaps, ToolCloses, IdlePages
<1>7. CASE ShutsDown
  <2>1. BrowserShape'
    BY <1>7 DEF ShutsDown, Forget, Closed
  <2>2. MakersKnow' /\ LaunchersKnow'
    BY <1>7 DEF ShutsDown, Forget, MakersKnow, LaunchersKnow
  <2>3. NothingRunsUnfindable'
    BY <1>7 DEF ShutsDown, Forget, Closed, NothingRunsUnfindable
  <2> QED
    BY <2>1, <2>2, <2>3
<1>8. CASE BrowserTimePasses \/ \E p \in Pages : UsesSession(p)
  <2>1. UNCHANGED <<browser, launched, running, context, pages, use, contested, doubleLaunch>>
    BY <1>8 DEF BrowserTimePasses, UsesSession
  <2> QED
    BY <2>1 DEF MakersKnow, LaunchersKnow, NothingRunsUnfindable
<1> QED
  BY <1>1, <1>2, <1>3, <1>4, <1>6, <1>7, <1>8 DEF BrowserNext

\* What runs can be closed: an open context is the one its session id finds and the
\* browser that runs the one shutdown knows, unless two calls made theirs at once.
THEOREM NothingUnfindable == BrowserSpec => []NothingRunsUnfindable
<1>1. BrowserInit => Findable
  BY BrowserAssumption DEF BrowserInit, Findable, BrowserShape, SomePages, IdleUse, MakersKnow, LaunchersKnow,
     NothingRunsUnfindable
<1>2. Findable /\ UNCHANGED browserVars => Findable'
  BY DEF Findable, BrowserShape, MakersKnow, LaunchersKnow, NothingRunsUnfindable, browserVars
<1>3. Findable => NothingRunsUnfindable
  BY DEF Findable
<1> QED
  BY <1>1, <1>2, <1>3, BrowserStep, PTL DEF BrowserSpec
-----------------------------------------------------------------------------
(* The tool calls of a native voice conversation *)

ServiceEvents == [type : EventTypesOfService, call : Calls \union {NoCall}]
Outcomes == {"disabled", "approve", "result", "error"}
BeingHandled == {"creating", "executing", "appending"}

NativeShape ==
  /\ toolsEnabled \in BOOLEAN /\ attached \in BOOLEAN
  /\ remote \in {"none", "dialing", "open", "shut"} /\ wire \in Seq(ServiceEvents)
  /\ handler \in [Calls -> {"none", "wired", "over"} \union BeingHandled]
  /\ effect \in [Calls -> Nat] /\ answers \in [Calls -> Seq(Outcomes)]

\* A socket that is open has its session attached: what is submitted is sent.
Attached == remote = "open" => attached

\* A call is on the wire once, before anybody handles it.
IsCallOf(e, c) == e.type = "tool_call" /\ e.call = c
OnWire ==
  /\ \A i \in 1..Len(wire) : wire[i].type = "tool_call" => wire[i].call \in Calls
  /\ \A c \in Calls : \A i, j \in 1..Len(wire) :
       IsCallOf(wire[i], c) => handler[c] = "wired" /\ (IsCallOf(wire[j], c) => i = j)

\* How far a call is, what its tool has done, and what the service was told.
Handled(c) ==
  /\ handler[c] # "none" => remote \in {"open", "shut"}
  /\ handler[c] \in BeingHandled => toolsEnabled
  /\ effect[c] <= 1 /\ (~toolsEnabled => effect[c] = 0)
  /\ handler[c] \in {"none", "wired", "creating", "executing"} => effect[c] = 0
  /\ handler[c] # "over" => answers[c] = <<>>
  /\ handler[c] = "over" =>
       \/ answers[c] = <<>> /\ remote = "shut"
       \/ answers[c] = <<"result">>
       \/ answers[c] = <<"error">> /\ c \in shaken
       \/ answers[c] \in {<<"approve">>, <<"disabled">>} /\ effect[c] = 0

Answering == NativeShape /\ Attached /\ OnWire /\ \A c \in Calls : Handled(c)

\* What is submitted for a call that was not answered becomes its answer, unless the
\* conversation is over.
LEMMA SubmitAnswers ==
  ASSUME NativeShape, Attached, NEW c \in Calls, NEW what \in Outcomes, Submit(c, what),
         answers[c] = <<>>, remote \in {"open", "shut"}
  PROVE  /\ answers' \in [Calls -> Seq(Outcomes)]
         /\ answers'[c] = <<what>> \/ (answers'[c] = <<>> /\ remote = "shut")
         /\ \A d \in Calls : d # c => answers'[d] = answers[d]
<1>1. Append(<<>>, what) = <<what>> /\ <<what>> \in Seq(Outcomes)
  OBVIOUS
<1>2. CASE attached /\ remote = "open"
  <2>1. answers' = [answers EXCEPT ![c] = <<what>>]
    BY <1>1, <1>2 DEF Submit
  <2> QED
    BY <1>1, <2>1 DEF NativeShape
<1>3. CASE ~(attached /\ remote = "open")
  BY <1>3 DEF Submit, NativeShape, Attached
<1> QED
  BY <1>2, <1>3

\* A handler's step ends or goes on with its own call.
LEMMA HandlerSteps ==
  ASSUME Answering, NEW c \in Calls, handler[c] \in BeingHandled,
         RunCreated(c) \/ Executed(c) \/ Appended(c) \/ HandlerThrows(c)
  PROVE  Answering'
<1> USE DEF BeingHandled
<1>1. /\ UNCHANGED <<toolsEnabled, attached, remote, wire>>
      /\ \E to \in {"executing", "appending", "over"} : handler' = [handler EXCEPT ![c] = to]
      /\ shaken \subseteq shaken'
  BY DEF RunCreated, Executed, Appended, HandlerThrows, linkVars, Answering, NativeShape
<1>2. answers[c] = <<>> /\ remote \in {"open", "shut"} /\ toolsEnabled /\ effect[c] \in {0, 1}
  BY DEF Answering, Handled, NativeShape
<1>3. /\ effect' \in [Calls -> Nat] /\ effect'[c] \in {0, 1}
      /\ handler'[c] = "executing" => effect'[c] = 0
      /\ \A d \in Calls : d # c => effect'[d] = effect[d]
  <2>1. CASE UNCHANGED effect /\ (handler'[c] = "executing" => handler[c] = "creating")
    BY <1>2, <2>1 DEF Answering, Handled, NativeShape
  <2>2. CASE /\ handler[c] = "executing" /\ handler'[c] # "executing"
             /\ \E ran \in {0, 1} : effect' = [effect EXCEPT ![c] = @ + ran]
    BY <1>2, <2>2 DEF Answering, Handled, NativeShape
  <2>3. CASE /\ handler'[c] = "over"
             /\ \E ran \in {0, 1} : /\ ran = 1 => handler[c] = "executing"
                                    /\ effect' = [effect EXCEPT ![c] = @ + ran]
    BY <1>2, <2>3 DEF Answering, Handled, NativeShape
  <2> QED
    BY <2>1, <2>2, <2>3 DEF RunCreated, Executed, Appended, HandlerThrows, Answering, NativeShape
<1>4. /\ answers' \in [Calls -> Seq(Outcomes)]
      /\ \A d \in Calls : d # c => answers'[d] = answers[d]
      /\ \/ handler'[c] # "over" /\ answers'[c] = <<>>
         \/ /\ handler'[c] = "over"
            /\ \/ answers'[c] = <<>> /\ remote = "shut"
               \/ answers'[c] = <<"result">>
               \/ answers'[c] = <<"error">> /\ c \in shaken'
               \/ answers'[c] = <<"approve">> /\ effect'[c] = 0
  <2>1. CASE handler'[c] # "over" /\ UNCHANGED answers
    BY <1>2, <2>1 DEF Answering, NativeShape
  <2>2. CASE handler'[c] = "over" /\ handler[c] = "executing" /\ Submit(c, "approve") /\ UNCHANGED effect
    <3>1. effect'[c] = 0
      BY <2>2 DEF Answering, Handled
    <3> QED
      BY <1>2, <2>2, <3>1, SubmitAnswers DEF Answering, Outcomes
  <2>3. CASE handler'[c] = "over" /\ Submit(c, "result")
    BY <1>2, <2>3, SubmitAnswers DEF Answering, Outcomes
  <2>4. CASE handler'[c] = "over" /\ c \in shaken' /\ Submit(c, "error")
    BY <1>2, <2>4, SubmitAnswers DEF Answering, Outcomes
  <2> QED
    BY <2>1, <2>2, <2>3, <2>4 DEF RunCreated, Executed, Appended, HandlerThrows, Answering, NativeShape
<1>5. /\ handler' \in [Calls -> {"none", "wired", "over"} \union BeingHandled]
      /\ handler'[c] \in {"executing", "appending", "over"}
      /\ \A d \in Calls : d # c => handler'[d] = handler[d]
  BY <1>1 DEF Answering, NativeShape
<1>6. NativeShape' /\ Attached'
  BY <1>1, <1>3, <1>4, <1>5 DEF Answering, NativeShape, Attached
<1>7. OnWire'
  BY <1>1, <1>5 DEF Answering, OnWire, IsCallOf
<1>8. ASSUME NEW d \in Calls PROVE Handled(d)'
  <2>1. Handled(c)'
    <3>1. remote' \in {"open", "shut"} /\ toolsEnabled' /\ effect'[c] <= 1
      BY <1>1, <1>2, <1>3
    <3>2. handler'[c] \in {"none", "wired", "creating", "executing"} => effect'[c] = 0
      BY <1>3, <1>5
    <3> QED
      BY <1>1, <1>4, <3>1, <3>2 DEF Handled
  <2>2. CASE d # c
    BY <2>2, <1>1, <1>3, <1>4, <1>5 DEF Answering, Handled
  <2> QED
    BY <2>1, <2>2
<1> QED
  BY <1>6, <1>7, <1>8 DEF Answering
\* What the service says goes to the end of the wire.
LEMMA WireGrows ==
  ASSUME Answering, NEW type \in EventTypesOfService, NEW c \in Calls \union {NoCall}, Says(type, c)
  PROVE  /\ wire' \in Seq(ServiceEvents) /\ Len(wire') = Len(wire) + 1
         /\ \A i \in 1..Len(wire) : wire'[i] = wire[i]
         /\ wire'[Len(wire) + 1].type = type /\ wire'[Len(wire) + 1].call = c
<1>1. [type |-> type, call |-> c] \in ServiceEvents
  BY DEF ServiceEvents
<1> QED
  BY <1>1 DEF Says, Answering, NativeShape

\* Another event than a call changes nothing about the calls.
LEMMA OtherEvents ==
  ASSUME Answering, NEW type \in EventTypesOfService \ {"tool_call"}, Says(type, NoCall), UNCHANGED handler
  PROVE  wire' \in Seq(ServiceEvents) /\ OnWire'
<1>1. "tool_call" \in EventTypesOfService
  BY DEF EventTypesOfService
<1>2. /\ wire' \in Seq(ServiceEvents) /\ Len(wire') = Len(wire) + 1 /\ Len(wire) \in Nat
      /\ \A i \in 1..Len(wire) : wire'[i] = wire[i]
      /\ wire'[Len(wire) + 1].type # "tool_call"
  BY WireGrows DEF Answering, NativeShape
<1>3. \A i \in 1..Len(wire') : wire'[i].type = "tool_call" => i \in 1..Len(wire) /\ wire'[i] = wire[i]
  BY <1>2
<1> QED
  BY <1>2, <1>3 DEF Answering, OnWire, IsCallOf

LEMMA ServiceKeepsAnswering == ASSUME Answering, ServiceSpeaks PROVE Answering'
<1>0. /\ UNCHANGED <<toolsEnabled, attached, remote, effect, answers, shaken>> /\ remote = "open"
  BY DEF ServiceSpeaks
<1>1. CASE UNCHANGED handler /\ \E type \in EventTypesOfService \ {"tool_call"} : Says(type, NoCall)
  <2>1. wire' \in Seq(ServiceEvents) /\ OnWire'
    BY <1>1, OtherEvents
  <2> QED
    BY <1>0, <1>1, <2>1 DEF Answering, NativeShape, Attached, Handled
<1>2. ASSUME NEW c \in Calls, handler[c] = "none", handler' = [handler EXCEPT ![c] = "wired"],
             Says("tool_call", c)
      PROVE  Answering'
  <2>1. /\ handler' \in [Calls -> {"none", "wired", "over"} \union BeingHandled] /\ handler'[c] = "wired"
        /\ \A d \in Calls : d # c => handler'[d] = handler[d]
    BY <1>2 DEF Answering, NativeShape
  <2>2. /\ wire' \in Seq(ServiceEvents) /\ Len(wire') = Len(wire) + 1 /\ Len(wire) \in Nat
        /\ \A i \in 1..Len(wire) : wire'[i] = wire[i]
        /\ wire'[Len(wire) + 1].type = "tool_call" /\ wire'[Len(wire) + 1].call = c
    BY <1>2, WireGrows DEF EventTypesOfService, Answering, NativeShape
  <2>3. \A i \in 1..Len(wire) : ~IsCallOf(wire[i], c)
    BY <1>2 DEF Answering, OnWire
  <2>4. \A d \in Calls : \A i \in 1..Len(wire') :
          IsCallOf(wire'[i], d) => (i \in 1..Len(wire) /\ IsCallOf(wire[i], d)) \/ (i = Len(wire) + 1 /\ d = c)
    BY <2>2 DEF IsCallOf
  <2>5. OnWire'
    <3>1. \A i \in 1..Len(wire') : wire'[i].type = "tool_call" => wire'[i].call \in Calls
      BY <2>2 DEF Answering, OnWire
    <3>2. ASSUME NEW d \in Calls, NEW i \in 1..Len(wire'), NEW j \in 1..Len(wire'), IsCallOf(wire'[i], d)
          PROVE  handler'[d] = "wired" /\ (IsCallOf(wire'[j], d) => i = j)
      BY <2>1, <2>3, <2>4, <3>2 DEF Answering, OnWire
    <3> QED
      BY <3>1, <3>2 DEF OnWire
  <2>6. ASSUME NEW d \in Calls PROVE Handled(d)'
    BY <1>0, <1>2, <2>1 DEF Answering, Handled, BeingHandled
  <2> QED
    BY <1>0, <2>1, <2>2, <2>5, <2>6 DEF Answering, NativeShape, Attached
<1> QED
  BY <1>1, <1>2 DEF ServiceSpeaks, EventTypesOfService

LEMMA EventKeepsAnswering == ASSUME Answering, HandleEvent PROVE Answering'
<1>0. /\ UNCHANGED <<toolsEnabled, attached, remote, effect, shaken>> /\ attached
      /\ wire # <<>> /\ wire' = Tail(wire)
  BY DEF HandleEvent
<1>1. /\ wire' \in Seq(ServiceEvents) /\ Len(wire') = Len(wire) - 1 /\ Len(wire) \in Nat \ {0}
      /\ \A i \in 1..Len(wire') : wire'[i] = wire[i + 1]
      /\ Head(wire) = wire[1]
  BY <1>0 DEF Answering, NativeShape
<1>2. \A c \in Calls, i \in 1..Len(wire') : IsCallOf(wire'[i], c) => IsCallOf(wire[i + 1], c) /\ i + 1 \in 1..Len(wire)
  BY <1>1 DEF IsCallOf
<1>3. \A i \in 1..Len(wire') : wire'[i].type = "tool_call" => wire'[i].call \in Calls
  BY <1>1 DEF Answering, OnWire
<1>4. ASSUME UNCHANGED <<handler, answers>> PROVE Answering'
  <2>1. OnWire'
    <3>1. ASSUME NEW c \in Calls, NEW i \in 1..Len(wire'), NEW j \in 1..Len(wire'), IsCallOf(wire'[i], c)
          PROVE  handler'[c] = "wired" /\ (IsCallOf(wire'[j], c) => i = j)
      <4>1. i + 1 \in 1..Len(wire) /\ IsCallOf(wire[i + 1], c) /\ handler[c] = "wired"
        BY <1>2, <3>1 DEF Answering, OnWire
      <4>2. ASSUME IsCallOf(wire'[j], c) PROVE i + 1 = j + 1
        BY <1>2, <4>1, <4>2 DEF Answering, OnWire
      <4> QED
        BY <1>1, <1>4, <4>1, <4>2
    <3> QED
      BY <1>3, <3>1 DEF OnWire
  <2> QED
    BY <1>0, <1>1, <1>4, <2>1 DEF Answering, NativeShape, Attached, Handled
<1>5. ASSUME Head(wire).type = "tool_call", ToolCall(Head(wire).call) PROVE Answering'
  <2>1. PICK c \in Calls : c = Head(wire).call /\ IsCallOf(wire[1], c) /\ handler[c] = "wired"
    BY <1>1, <1>5 DEF Answering, OnWire, IsCallOf
  <2>2. \A i \in 1..Len(wire') : ~IsCallOf(wire'[i], c)
    BY <1>1, <1>2, <2>1 DEF Answering, OnWire
  <2>3. effect[c] = 0 /\ answers[c] = <<>> /\ remote \in {"open", "shut"}
    BY <2>1 DEF Answering, Handled
  <2>4. \/ /\ ~toolsEnabled /\ handler' = [handler EXCEPT ![c] = "over"] /\ Submit(c, "disabled")
        \/ /\ toolsEnabled /\ answers' = answers
           /\ handler' = [handler EXCEPT ![c] = IF agentRunId = 0 THEN "creating" ELSE "executing"]
    BY <1>5, <2>1 DEF ToolCall
  <2>5. /\ handler' \in [Calls -> {"none", "wired", "over"} \union BeingHandled]
        /\ handler'[c] \in {"over", "creating", "executing"}
        /\ \A d \in Calls : d # c => handler'[d] = handler[d]
    BY <2>1, <2>4 DEF Answering, NativeShape, BeingHandled
  <2>6. /\ answers' \in [Calls -> Seq(Outcomes)]
        /\ \A d \in Calls : d # c => answers'[d] = answers[d]
        /\ \/ toolsEnabled /\ handler'[c] \in {"creating", "executing"} /\ answers'[c] = <<>>
           \/ /\ ~toolsEnabled /\ handler'[c] = "over"
              /\ answers'[c] = <<"disabled">> \/ (answers'[c] = <<>> /\ remote = "shut")
    <3>1. CASE ~toolsEnabled /\ handler' = [handler EXCEPT ![c] = "over"] /\ Submit(c, "disabled")
      BY <2>1, <2>3, <3>1, SubmitAnswers DEF Answering, NativeShape, Outcomes
    <3>2. CASE /\ toolsEnabled /\ answers' = answers
               /\ handler' = [handler EXCEPT ![c] = IF agentRunId = 0 THEN "creating" ELSE "executing"]
      BY <2>1, <2>3, <3>2 DEF Answering, NativeShape
    <3> QED
      BY <2>4, <3>1, <3>2
  <2>7. OnWire'
    <3>1. ASSUME NEW d \in Calls, NEW i \in 1..Len(wire'), NEW j \in 1..Len(wire'), IsCallOf(wire'[i], d)
          PROVE  handler'[d] = "wired" /\ (IsCallOf(wire'[j], d) => i = j)
      <4>1. d # c /\ handler'[d] = handler[d]
        BY <2>2, <2>5, <3>1
      <4>2. IsCallOf(wire[i + 1], d) /\ (IsCallOf(wire'[j], d) => IsCallOf(wire[j + 1], d))
        BY <1>2, <3>1
      <4> QED
        BY <1>1, <1>2, <3>1, <4>1, <4>2 DEF Answering, OnWire
    <3> QED
      BY <1>3, <3>1 DEF OnWire
  <2>8. ASSUME NEW d \in Calls PROVE Handled(d)'
    <3>1. Handled(c)'
      <4>1. remote' \in {"open", "shut"} /\ toolsEnabled' = toolsEnabled /\ effect'[c] = 0
        BY <1>0, <2>3
      <4>2. effect'[c] <= 1
        BY <4>1
      <4>3. CASE toolsEnabled /\ handler'[c] \in {"creating", "executing"} /\ answers'[c] = <<>>
        BY <4>1, <4>2, <4>3 DEF Handled
      <4>4. CASE /\ ~toolsEnabled /\ handler'[c] = "over"
                 /\ answers'[c] = <<"disabled">> \/ (answers'[c] = <<>> /\ remote = "shut")
        BY <1>0, <4>1, <4>2, <4>4 DEF Handled, BeingHandled
      <4> QED
        BY <2>6, <4>3, <4>4
    <3>2. CASE d # c
      BY <3>2, <1>0, <2>5, <2>6 DEF Answering, Handled
    <3> QED
      BY <3>1, <3>2
  <2> QED
    BY <1>0, <1>1, <2>5, <2>6, <2>7, <2>8 DEF Answering, NativeShape, Attached
<1>6. Head(wire).type \in EventTypesOfService
  <2>1. Head(wire) \in ServiceEvents
    BY <1>0 DEF Answering, NativeShape
  <2> QED
    BY <2>1 DEF ServiceEvents
<1>7. CASE Head(wire).type = "tool_call"
  BY <1>5, <1>7 DEF HandleEvent
<1>8. CASE Head(wire).type # "tool_call"
  BY <1>4, <1>6, <1>8 DEF HandleEvent, EventTypesOfService
<1> QED
  BY <1>7, <1>8
LEMMA ConversationKeepsAnswering ==
  ASSUME Answering,
         \/ Dial \/ Connected \/ ConnectFails \/ LeavesEarly \/ Leaves \/ Triggered \/ MicrophoneChunk
         \/ ClientInterrupts \/ EndUtterance \/ ServiceAnswers \/ ServiceCloses
  PROVE  Answering'
<1>1. CASE Triggered \/ MicrophoneChunk \/ ClientInterrupts \/ EndUtterance \/ ServiceAnswers \/ LeavesEarly
  <2>1. UNCHANGED <<toolsEnabled, attached, remote, wire, handler, effect, answers, shaken>>
    BY <1>1 DEF Triggered, MicrophoneChunk, ClientInterrupts, EndUtterance, ServiceAnswers, LeavesEarly,
       callVars, linkVars
  <2> QED
    BY <2>1 DEF Answering, NativeShape, Attached, OnWire, Handled
<1>2. CASE ServiceCloses
  <2>1. wire' \in Seq(ServiceEvents) /\ OnWire'
    BY <1>2, OtherEvents DEF ServiceCloses, EventTypesOfService, callVars
  <2>2. /\ UNCHANGED <<toolsEnabled, attached, handler, effect, answers, shaken>>
        /\ remote' = "shut"
    BY <1>2 DEF ServiceCloses, callVars
  <2> QED
    BY <2>1, <2>2 DEF Answering, NativeShape, Attached, Handled
<1>3. CASE Dial \/ Connected \/ ConnectFails
  <2>1. \A c \in Calls : handler[c] = "none"
    BY <1>3 DEF Dial, Connected, ConnectFails, Answering, Handled
  <2>2. /\ UNCHANGED <<toolsEnabled, handler, effect, answers, shaken>>
        /\ remote' \in {"dialing", "open", "shut"} /\ attached' \in BOOLEAN
        /\ remote' = "open" => attached'
    BY <1>3 DEF Dial, Connected, ConnectFails, callVars, Answering, NativeShape
  <2>3. wire' \in Seq(ServiceEvents) /\ OnWire'
    <3>1. CASE wire' = wire
      BY <2>2, <3>1 DEF Answering, NativeShape, OnWire
    <3>2. CASE wire' = <<[type |-> "session_ready", call |-> NoCall]>>
      <4>1. /\ wire' \in Seq(ServiceEvents) /\ Len(wire') = 1 /\ wire'[1].type = "session_ready"
        BY <3>2 DEF ServiceEvents, EventTypesOfService
      <4> QED
        BY <4>1 DEF OnWire, IsCallOf
    <3> QED
      BY <1>3, <3>1, <3>2 DEF Dial, Connected, ConnectFails
  <2> QED
    BY <2>1, <2>2, <2>3 DEF Answering, NativeShape, Attached, Handled, BeingHandled
<1>4. CASE Leaves
  <2>1. /\ UNCHANGED <<toolsEnabled, handler, effect, answers, shaken>>
        /\ remote' = "shut" /\ attached' = FALSE /\ wire' = <<>>
    BY <1>4 DEF Leaves, callVars
  <2>2. wire' \in Seq(ServiceEvents) /\ Len(wire') = 0
    BY <2>1
  <2>3. OnWire'
    BY <2>2 DEF OnWire
  <2>4. ASSUME NEW c \in Calls PROVE Handled(c)'
    BY <2>1 DEF Answering, Handled
  <2> QED
    BY <2>1, <2>2, <2>3, <2>4 DEF Answering, NativeShape, Attached
<1> QED
  BY <1>1, <1>2, <1>3, <1>4

\* The service gets one answer to each call and no second, none only when the
\* conversation is over; what it is told agrees with what the tool did.
THEOREM AnsweredOnce == NativeSpec => []CallsAnsweredOnce
<1>1. NativeInit => Answering
  <2> SUFFICES ASSUME NativeInit PROVE Answering
    OBVIOUS
  <2>1. wire \in Seq(ServiceEvents) /\ Len(wire) = 0
    BY DEF NativeInit
  <2>2. answers \in [Calls -> Seq(Outcomes)]
    BY DEF NativeInit
  <2>3. OnWire
    BY <2>1 DEF OnWire
  <2>4. ASSUME NEW c \in Calls PROVE Handled(c)
    BY DEF NativeInit, Handled, BeingHandled
  <2>5. NativeShape /\ Attached
    BY <2>1, <2>2 DEF NativeInit, NativeShape, Attached
  <2> QED
    BY <2>3, <2>4, <2>5 DEF Answering
<1>2. Answering /\ UNCHANGED nativeVars => Answering'
  BY DEF Answering, NativeShape, Attached, OnWire, Handled, nativeVars, linkVars, callVars
<1>3. ASSUME Answering, NativeNext PROVE Answering'
  <2>1. ASSUME NEW c \in Calls, RunCreated(c) \/ Executed(c) \/ Appended(c) \/ HandlerThrows(c)
        PROVE  Answering'
    <3>1. handler[c] \in BeingHandled
      BY <2>1 DEF RunCreated, Executed, Appended, HandlerThrows, BeingHandled
    <3> QED
      BY <1>3, <2>1, <3>1, HandlerSteps
  <2> QED
    BY <1>3, <2>1, ConversationKeepsAnswering, ServiceKeepsAnswering, EventKeepsAnswering DEF NativeNext
<1>4. Answering => CallsAnsweredOnce
  <2> SUFFICES ASSUME Answering, NEW c \in Calls
               PROVE  /\ Len(answers[c]) <= 1 /\ effect[c] <= 1
                      /\ handler[c] = "over" /\ answers[c] = <<>> => remote = "shut"
                      /\ answers[c] # <<>> => handler[c] = "over"
                      /\ answers[c] \in {<<"approve">>, <<"disabled">>} => effect[c] = 0
                      /\ answers[c] = <<"error">> => c \in shaken
                      /\ ~toolsEnabled => effect[c] = 0
    BY DEF CallsAnsweredOnce
  <2>1. Handled(c)
    BY DEF Answering
  <2>2. CASE answers[c] = <<>>
    BY <2>1, <2>2 DEF Handled
  <2>3. CASE answers[c] = <<"result">>
    BY <2>1, <2>3 DEF Handled
  <2>4. CASE answers[c] = <<"error">>
    BY <2>1, <2>4 DEF Handled
  <2>5. CASE answers[c] \in {<<"approve">>, <<"disabled">>}
    <3>1. \A a, b : <<a>> = <<b>> => a = b
      OBVIOUS
    <3>2. answers[c] \notin {<<>>, <<"result">>, <<"error">>} /\ Len(answers[c]) = 1
      BY <2>5, <3>1
    <3>3. handler[c] = "over" /\ effect[c] = 0 /\ effect[c] <= 1
      BY <2>1, <3>2 DEF Handled
    <3> QED
      BY <3>2, <3>3
  <2> QED
    BY <2>1, <2>2, <2>3, <2>4, <2>5 DEF Handled
<1> QED
  BY <1>1, <1>2, <1>3, <1>4, PTL DEF NativeSpec

-----------------------------------------------------------------------------
(* The stream of a reply: the providers' chatStream *)

TextPlaces == {b \in Blocks : reply[b] = "text"}
CallPlaces == {b \in Blocks : reply[b] = "call"}

\* How many of the reply's texts, or calls, are among the first k blocks of the stream.
TextsIn(k) ==
  IF vendor = "openai" THEN IF k <= Len(TextBlocks) THEN k ELSE Len(TextBlocks)
  ELSE Len(FilteredTo(InOrder, TextPlaces)[k])
CallsIn(k) ==
  IF vendor = "openai" THEN IF k <= Len(TextBlocks) THEN 0 ELSE k - Len(TextBlocks)
  ELSE Len(FilteredTo(InOrder, CallPlaces)[k])

GatheredCalls == Seq([block : Blocks, args : Seq({"first", "second"})])

CallPieces == IF vendor = "anthropic" THEN 3 ELSE IF vendor = "openai" THEN 2 ELSE 1
StreamShape ==
  /\ vendor \in {"anthropic", "openai", "gemini"} /\ reply \in Seq({"text", "call"})
  /\ block \in Nat /\ piece \in 0 .. 2 /\ block <= Len(Wire)
  /\ piece > 0 => block < Len(Wire) /\ reply[Wire[block + 1]] = "call" /\ piece < CallPieces
  /\ fullText \in Seq(Blocks) /\ gathered \in GatheredCalls
  /\ Responded => phase = "over"

\* What has been read is the beginning of what chat would have returned.
Begun == IF piece > 0 THEN block + 1 ELSE block
ReadSoFar ==
  /\ shown = fullText
  /\ Len(fullText) = TextsIn(block) /\ Len(gathered) = CallsIn(Begun)
  /\ \A i \in 1 .. Len(fullText) : fullText[i] = TextBlocks[i]
  /\ \A i \in 1 .. Len(gathered) : gathered[i].block = CallBlocks[i]

\* Whose arguments have come, and how much of them.
AfterText == {b \in Blocks : \E c \in 1 .. b : reply[c] = "text"}
Arrived(c, i) ==
  CASE vendor = "anthropic" ->
         IF c.block \in AfterText THEN <<>>
         ELSE IF piece > 0 /\ c.block = block + 1 THEN IF piece = 1 THEN <<>> ELSE <<"first">>
         ELSE Halves
    [] vendor = "openai" -> IF piece > 0 /\ i = Len(gathered) THEN <<"first">> ELSE Halves
    [] OTHER -> Halves
Arguments == \A i \in 1 .. Len(gathered) : gathered[i].args = Arrived(gathered[i], i)

StreamTells == StreamShape /\ ReadSoFar /\ Arguments /\ CallsArriveWhole

\* The blocks of a reply, and its texts and calls among them.
LEMMA BlocksInOrder ==
  ASSUME reply \in Seq({"text", "call"})
  PROVE  /\ Len(reply) \in Nat /\ InOrder \in Seq(Blocks) /\ Len(InOrder) = Len(reply)
         /\ \A b \in Blocks : InOrder[b] = b
         /\ TextBlocks \in Seq(Blocks) /\ CallBlocks \in Seq(Blocks)
         /\ \A i \in 1 .. Len(TextBlocks) : TextBlocks[i] \in TextPlaces
         /\ \A i \in 1 .. Len(CallBlocks) : CallBlocks[i] \in CallPlaces
         /\ \A i, j \in 1 .. Len(CallBlocks) : CallBlocks[i] = CallBlocks[j] => i = j
<1>1. Len(reply) \in Nat /\ TextPlaces \in SUBSET (1 .. Len(reply)) /\ CallPlaces \in SUBSET (1 .. Len(reply))
  BY DEF TextPlaces, CallPlaces, Blocks
<1>2. InOrder \in Seq(Blocks) /\ Len(InOrder) = Len(reply) /\ \A b \in Blocks : InOrder[b] = b
  BY <1>1 DEF InOrder, Blocks
<1>3. TextBlocks = Filtered([i \in 1 .. Len(reply) |-> i], TextPlaces)
  BY DEF TextBlocks, InOrder, Blocks, TextPlaces
<1>4. CallBlocks = Filtered([i \in 1 .. Len(reply) |-> i], CallPlaces)
  BY DEF CallBlocks, InOrder, Blocks, CallPlaces
<1>5. TextBlocks \in Seq(1 .. Len(reply)) /\ \A i \in 1 .. Len(TextBlocks) : TextBlocks[i] \in TextPlaces
  BY <1>1, <1>3, FilteredNumbers
<1>6. /\ CallBlocks \in Seq(1 .. Len(reply)) /\ \A i \in 1 .. Len(CallBlocks) : CallBlocks[i] \in CallPlaces
      /\ \A i, j \in 1 .. Len(CallBlocks) : i < j => CallBlocks[i] < CallBlocks[j]
  BY <1>1, <1>4, FilteredNumbers
<1>7. \A i, j \in 1 .. Len(CallBlocks) : CallBlocks[i] = CallBlocks[j] => i = j
  <2> SUFFICES ASSUME NEW i \in 1 .. Len(CallBlocks), NEW j \in 1 .. Len(CallBlocks), i # j
               PROVE  CallBlocks[i] # CallBlocks[j]
    OBVIOUS
  <2>1. CallBlocks[i] \in Nat /\ CallBlocks[j] \in Nat
    BY <1>6 DEF CallPlaces, Blocks
  <2> QED
    BY <1>6, <2>1
<1> QED
  BY <1>1, <1>2, <1>5, <1>6, <1>7 DEF Blocks

\* What is kept of the blocks up to k, in particular when another block comes.
LEMMA OneMore ==
  ASSUME reply \in Seq({"text", "call"}), NEW S \in SUBSET Blocks, NEW k \in 0 .. Len(reply)
  PROVE  NextNumber(FilteredTo(InOrder, S), Filtered(InOrder, S), Len(reply), S, k)
<1>1. Len(reply) \in Nat /\ S \in SUBSET (1 .. Len(reply)) /\ InOrder = [i \in 1 .. Len(reply) |-> i]
  BY DEF Blocks, InOrder
<1> QED
  BY <1>1, NumbersOneByOne

LEMMA SameReply ==
  ASSUME vendor' = vendor, reply' = reply
  PROVE  /\ TextBlocks' = TextBlocks /\ CallBlocks' = CallBlocks /\ Wire' = Wire /\ Blocks' = Blocks
         /\ AfterText' = AfterText
         /\ \A k : TextsIn(k)' = TextsIn(k) /\ CallsIn(k)' = CallsIn(k)
<1>1. Blocks' = Blocks
  BY DEF Blocks
<1>2. InOrder' = InOrder
  BY <1>1 DEF InOrder
<1>3. TextPlaces' = TextPlaces /\ CallPlaces' = CallPlaces
  BY <1>1 DEF TextPlaces, CallPlaces
<1>4. TextBlocks' = TextBlocks /\ CallBlocks' = CallBlocks
  BY <1>1, <1>2 DEF TextBlocks, CallBlocks
<1>5. Wire' = Wire
  BY <1>2, <1>4 DEF Wire
<1>6. \A k : TextsIn(k)' = TextsIn(k) /\ CallsIn(k)' = CallsIn(k)
  BY <1>2, <1>3, <1>4 DEF TextsIn, CallsIn
<1>8. AfterText' = AfterText
  BY <1>1 DEF AfterText
<1> QED
  BY <1>1, <1>4, <1>5, <1>6, <1>8

\* Where the stream stands among the texts and the calls, and what the next block adds.
Counted ==
  /\ TextsIn(block) \in Nat /\ TextsIn(block) <= Len(TextBlocks)
  /\ CallsIn(block) \in Nat /\ CallsIn(block) <= Len(CallBlocks)
  /\ block = 0 => TextsIn(block) = 0 /\ CallsIn(block) = 0
  /\ block = Len(Wire) => TextsIn(block) = Len(TextBlocks) /\ CallsIn(block) = Len(CallBlocks)
NextBlock(b) ==
  /\ b \in Blocks /\ reply[b] \in {"text", "call"}
  /\ reply[b] = "text" =>
       /\ TextsIn(block + 1) = TextsIn(block) + 1 /\ TextsIn(block + 1) <= Len(TextBlocks)
       /\ TextBlocks[TextsIn(block) + 1] = b /\ CallsIn(block + 1) = CallsIn(block)
  /\ reply[b] = "call" =>
       /\ CallsIn(block + 1) = CallsIn(block) + 1 /\ CallsIn(block + 1) <= Len(CallBlocks)
       /\ CallBlocks[CallsIn(block) + 1] = b /\ TextsIn(block + 1) = TextsIn(block)
  /\ vendor # "openai" =>
       /\ b = block + 1
       /\ CallsIn(block + 1) <= b
       /\ CallsIn(block + 1) = b => b \notin AfterText
       /\ b \notin AfterText => CallsIn(block + 1) = b

LEMMA Counting ==
  ASSUME reply \in Seq({"text", "call"}), block \in 0 .. Len(Wire)
  PROVE  Counted /\ (block < Len(Wire) => NextBlock(Wire[block + 1]))
<1>1. /\ Len(reply) \in Nat /\ InOrder \in Seq(Blocks) /\ Len(InOrder) = Len(reply)
      /\ \A b \in Blocks : InOrder[b] = b
      /\ TextBlocks \in Seq(Blocks) /\ CallBlocks \in Seq(Blocks)
      /\ \A i \in 1 .. Len(TextBlocks) : TextBlocks[i] \in TextPlaces
      /\ \A i \in 1 .. Len(CallBlocks) : CallBlocks[i] \in CallPlaces
  BY BlocksInOrder
<1>2. /\ TextPlaces \in SUBSET Blocks /\ CallPlaces \in SUBSET Blocks /\ Blocks = 1 .. Len(reply)
      /\ \A b \in Blocks : reply[b] \in {"text", "call"}
  BY DEF TextPlaces, CallPlaces, Blocks
<1>3. TextBlocks = Filtered(InOrder, TextPlaces) /\ CallBlocks = Filtered(InOrder, CallPlaces)
  BY DEF TextBlocks, CallBlocks, TextPlaces, CallPlaces
<1>4. CASE vendor = "openai"
  <2>1. /\ Wire = TextBlocks \o CallBlocks /\ Len(Wire) = Len(TextBlocks) + Len(CallBlocks)
        /\ Len(TextBlocks) \in Nat /\ Len(CallBlocks) \in Nat /\ block \in Nat
        /\ \A i \in 1 .. Len(TextBlocks) : Wire[i] = TextBlocks[i]
        /\ \A i \in 1 .. Len(CallBlocks) : Wire[Len(TextBlocks) + i] = CallBlocks[i]
    BY <1>1, <1>4, JoinedAt DEF Wire
  <2>2. \A k \in Nat : /\ TextsIn(k) = IF k <= Len(TextBlocks) THEN k ELSE Len(TextBlocks)
                       /\ CallsIn(k) = IF k <= Len(TextBlocks) THEN 0 ELSE k - Len(TextBlocks)
    BY <1>4 DEF TextsIn, CallsIn
  <2>3. Counted
    BY <2>1, <2>2 DEF Counted
  <2>4. ASSUME block < Len(Wire)
        PROVE  NextBlock(Wire[block + 1])
    <3>1. CASE block < Len(TextBlocks)
      <4>1. Wire[block + 1] = TextBlocks[block + 1] /\ TextBlocks[block + 1] \in TextPlaces
        BY <1>1, <2>1, <3>1
      <4>2. reply[Wire[block + 1]] = "text" /\ Wire[block + 1] \in Blocks
        BY <4>1 DEF TextPlaces
      <4> QED
        BY <1>4, <2>1, <2>2, <3>1, <4>1, <4>2 DEF NextBlock
    <3>2. CASE block >= Len(TextBlocks)
      <4> DEFINE i == (block + 1) - Len(TextBlocks)
      <4>1. i \in 1 .. Len(CallBlocks) /\ Len(TextBlocks) + i = block + 1
        BY <2>1, <2>4, <3>2
      <4>2. Wire[block + 1] = CallBlocks[i] /\ CallBlocks[i] \in CallPlaces
        BY <1>1, <2>1, <4>1
      <4>3. reply[Wire[block + 1]] = "call" /\ Wire[block + 1] \in Blocks
        BY <4>2 DEF CallPlaces
      <4>4. /\ TextsIn(block) = Len(TextBlocks) /\ TextsIn(block + 1) = Len(TextBlocks)
            /\ CallsIn(block) + 1 = i /\ CallsIn(block + 1) = i
        BY <2>1, <2>2, <3>2
      <4> QED
        BY <1>4, <2>1, <4>1, <4>2, <4>3, <4>4 DEF NextBlock
    <3>3. block < Len(TextBlocks) \/ block >= Len(TextBlocks)
      BY <2>1
    <3> QED
      BY <3>1, <3>2, <3>3
  <2> QED
    BY <2>3, <2>4
<1>5. CASE vendor # "openai"
  <2>1. Wire = InOrder /\ Len(Wire) = Len(reply) /\ block \in 0 .. Len(reply)
    BY <1>1, <1>5 DEF Wire
  <2>2. \A k : /\ TextsIn(k) = Len(FilteredTo(InOrder, TextPlaces)[k])
               /\ CallsIn(k) = Len(FilteredTo(InOrder, CallPlaces)[k])
    BY <1>5 DEF TextsIn, CallsIn
  <2>3. /\ NextNumber(FilteredTo(InOrder, TextPlaces), TextBlocks, Len(reply), TextPlaces, block)
        /\ NextNumber(FilteredTo(InOrder, CallPlaces), CallBlocks, Len(reply), CallPlaces, block)
    BY <1>2, <1>3, <2>1, OneMore
  <2>4. Counted
    BY <2>1, <2>2, <2>3 DEF Counted, NextNumber
  <2>5. ASSUME block < Len(Wire)
        PROVE  NextBlock(Wire[block + 1])
    <3>1. /\ block + 1 \in Blocks /\ Wire[block + 1] = block + 1 /\ block + 1 \in 0 .. Len(reply)
          /\ block + 1 \in TextPlaces <=> reply[block + 1] = "text"
          /\ block + 1 \in CallPlaces <=> reply[block + 1] = "call"
      BY SMTT(30), <1>1, <1>2, <2>1, <2>5 DEF TextPlaces, CallPlaces
    <3>2. NextNumber(FilteredTo(InOrder, CallPlaces), CallBlocks, Len(reply), CallPlaces, block + 1)
      BY <1>2, <1>3, <3>1, OneMore
    <3>3. /\ CallsIn(block + 1) <= block + 1
          /\ CallsIn(block + 1) = block + 1 <=> \A i \in 1 .. block + 1 : i \in CallPlaces
      BY <2>2, <3>2 DEF NextNumber
    <3>4. (\A i \in 1 .. block + 1 : i \in CallPlaces) <=> block + 1 \notin AfterText
      <4>1. \A i \in 1 .. block + 1 : i \in Blocks /\ (i \in CallPlaces <=> reply[i] # "text")
        BY <1>2, <3>1 DEF CallPlaces
      <4> QED
        BY <3>1, <4>1 DEF AfterText
    <3>5. CASE reply[block + 1] = "text"
      <4>1. /\ TextsIn(block + 1) = TextsIn(block) + 1 /\ TextsIn(block + 1) <= Len(TextBlocks)
            /\ TextBlocks[TextsIn(block) + 1] = block + 1 /\ CallsIn(block + 1) = CallsIn(block)
        BY <2>1, <2>2, <2>3, <2>5, <3>1, <3>5 DEF NextNumber
      <4> QED
        BY <1>2, <3>1, <3>3, <3>4, <3>5, <4>1 DEF NextBlock
    <3>6. CASE reply[block + 1] = "call"
      <4>1. /\ CallsIn(block + 1) = CallsIn(block) + 1 /\ CallsIn(block + 1) <= Len(CallBlocks)
            /\ CallBlocks[CallsIn(block) + 1] = block + 1 /\ TextsIn(block + 1) = TextsIn(block)
        BY <2>1, <2>2, <2>3, <2>5, <3>1, <3>6 DEF NextNumber
      <4> QED
        BY <1>2, <3>1, <3>3, <3>4, <3>6, <4>1 DEF NextBlock
    <3> QED
      BY <1>2, <3>1, <3>5, <3>6
  <2> QED
    BY <2>4, <2>5
<1> QED
  BY <1>4, <1>5

\* What one piece of the stream does.
Reads(b) ==
  \/ /\ reply[b] = "text" /\ piece = 0 /\ piece' = 0 /\ block' = block + 1
     /\ fullText' = Append(fullText, b) /\ shown' = Append(shown, b) /\ gathered' = gathered
  \/ /\ reply[b] = "call" /\ UNCHANGED <<fullText, shown>>
     /\ \/ /\ vendor = "anthropic" /\ piece = 0 /\ piece' = 1 /\ block' = block
           /\ gathered' = Append(gathered, [block |-> b, args |-> <<>>])
        \/ /\ vendor = "anthropic" /\ piece = 1 /\ piece' = 2 /\ block' = block
           /\ gathered' = Extend(gathered, b, "first")
        \/ /\ vendor = "anthropic" /\ piece = 2 /\ piece' = 0 /\ block' = block + 1
           /\ gathered' = Extend(gathered, b, "second")
        \/ /\ vendor = "openai" /\ piece = 0 /\ piece' = 1 /\ block' = block
           /\ gathered' = OpenAICalls(Piece("args", b, "first"))
        \/ /\ vendor = "openai" /\ piece = 1 /\ piece' = 0 /\ block' = block + 1
           /\ gathered' = OpenAICalls(Piece("args", b, "second"))
        \/ /\ vendor = "gemini" /\ piece = 0 /\ piece' = 0 /\ block' = block + 1
           /\ gathered' = Append(gathered, [block |-> b, args |-> Halves])

LEMMA ReadsOnePiece ==
  ASSUME StreamShape, StreamRead, NEW b \in Blocks, b = Wire[block + 1], reply[b] \in {"text", "call"}
  PROVE  Reads(b)
<1> DEFINE pieces == PiecesOf(b)
           p == pieces[piece + 1]
<1>1. /\ gathered' = CASE vendor = "anthropic" -> AnthropicCalls(p)
                      [] vendor = "openai"    -> OpenAICalls(p)
                      [] OTHER                -> GeminiCalls(p)
      /\ fullText' = IF p.kind = "text" THEN Append(fullText, p.block) ELSE fullText
      /\ shown' = IF p.kind = "text" THEN Append(shown, p.block) ELSE shown
      /\ IF piece + 1 = Len(pieces) THEN block' = block + 1 /\ piece' = 0
                                    ELSE piece' = piece + 1 /\ block' = block
  BY DEF StreamRead
<1>2. /\ piece \in {0, 1, 2} /\ (piece > 0 => reply[b] = "call" /\ piece < CallPieces)
      /\ vendor \in {"anthropic", "openai", "gemini"}
  BY DEF StreamShape
<1>3. CASE reply[b] = "text"
  <2>1. pieces = <<Piece("text", b, "first")>>
    BY <1>3 DEF PiecesOf
  <2> HIDE DEF pieces
  <2>2. Len(pieces) = 1 /\ piece = 0 /\ p = Piece("text", b, "first")
    BY <1>2, <1>3, <2>1
  <2>3. p.kind = "text" /\ p.block = b
    BY <2>2 DEF Piece
  <2> HIDE DEF p
  <2> QED
    BY <1>1, <1>2, <1>3, <2>2, <2>3 DEF Reads, AnthropicCalls, OpenAICalls, GeminiCalls
<1>4. CASE reply[b] = "call" /\ vendor = "anthropic"
  <2>1. pieces = <<Piece("start", b, "first"), Piece("args", b, "first"), Piece("args", b, "second")>>
    BY <1>4 DEF PiecesOf
  <2> HIDE DEF pieces
  <2>2. /\ Len(pieces) = 3
        /\ p = IF piece = 0 THEN Piece("start", b, "first")
               ELSE IF piece = 1 THEN Piece("args", b, "first") ELSE Piece("args", b, "second")
    BY <1>2, <2>1
  <2>3. /\ p.kind = IF piece = 0 THEN "start" ELSE "args"
        /\ p.block = b /\ (piece > 0 => p.half = IF piece = 1 THEN "first" ELSE "second")
    BY <1>2, <2>2 DEF Piece
  <2> HIDE DEF p
  <2> QED
    BY SMTT(30), <1>1, <1>2, <1>4, <2>2, <2>3 DEF Reads, AnthropicCalls, IndexByBlock
<1>5. CASE reply[b] = "call" /\ vendor = "openai"
  <2>1. pieces = <<Piece("args", b, "first"), Piece("args", b, "second")>>
    BY <1>5 DEF PiecesOf
  <2> HIDE DEF pieces
  <2>2. /\ Len(pieces) = 2 /\ piece # 2
        /\ p = IF piece = 0 THEN Piece("args", b, "first") ELSE Piece("args", b, "second")
    BY <1>2, <1>5, <2>1 DEF CallPieces
  <2>3. p.kind = "args"
    BY <1>2, <2>2 DEF Piece
  <2> QED
    BY <1>1, <1>2, <1>5, <2>2, <2>3 DEF Reads
<1>6. CASE reply[b] = "call" /\ vendor = "gemini"
  <2>1. pieces = <<Piece("whole", b, "first")>>
    BY <1>6 DEF PiecesOf
  <2> HIDE DEF pieces
  <2>2. Len(pieces) = 1 /\ piece = 0 /\ p = Piece("whole", b, "first")
    BY <1>2, <1>6, <2>1 DEF CallPieces
  <2>3. p.kind = "whole" /\ p.block = b
    BY <2>2 DEF Piece
  <2> HIDE DEF p
  <2> QED
    BY <1>1, <1>2, <1>6, <2>2, <2>3 DEF Reads, GeminiCalls
<1> QED
  BY <1>2, <1>3, <1>4, <1>5, <1>6

\* No two of the tool calls gathered are of the same block.
LEMMA GatheredOnce ==
  ASSUME StreamShape, ReadSoFar, Begun \in 0 .. Len(Wire), Len(gathered) <= Len(CallBlocks)
  PROVE  \A k \in 1 .. Len(CallBlocks), i \in 1 .. Len(gathered) : gathered[i].block = CallBlocks[k] => i = k
<1>1. \A i, j \in 1 .. Len(CallBlocks) : CallBlocks[i] = CallBlocks[j] => i = j
  BY BlocksInOrder DEF StreamShape
<1>2. Len(gathered) \in Nat /\ Len(CallBlocks) \in Nat
  BY BlocksInOrder DEF StreamShape, GatheredCalls
<1> QED
  BY <1>1, <1>2 DEF ReadSoFar

\* The call that is read next, or is being read, is the last of those gathered.
Known(b) ==
  /\ StreamShape /\ ReadSoFar /\ Arguments /\ b \in Blocks /\ reply[b] = "call" /\ block < Len(Wire)
  /\ Counted /\ NextBlock(b)
  /\ Len(CallBlocks) \in Nat /\ CallBlocks \in Seq(Blocks)
  /\ \A i, j \in 1 .. Len(CallBlocks) : CallBlocks[i] = CallBlocks[j] => i = j

\* The arguments of a call come in two parts.
LEMMA TwoHalves == Append(<<>>, "first") = <<"first">> /\ Append(<<"first">>, "second") = Halves
<1> DEFINE s == <<"first">>
           t == Append(s, "second")
<1>1. s \in Seq({"first", "second"}) /\ Len(s) = 1 /\ s[1] = "first"
  OBVIOUS
<1> HIDE DEF s
<1>2. t \in Seq({"first", "second"}) /\ DOMAIN t = 1 .. 2 /\ t[1] = "first" /\ t[2] = "second"
  BY <1>1, AppendedAt
<1> HIDE DEF t
<1>3. Halves \in Seq({"first", "second"}) /\ Len(Halves) = 2 /\ Halves[1] = "first" /\ Halves[2] = "second"
  BY DEF Halves
<1> DEFINE h == Halves
<1> HIDE DEF h
<1>4. h \in Seq({"first", "second"}) /\ Len(h) = 2 /\ h[1] = "first" /\ h[2] = "second"
  BY <1>3 DEF h
<1>5. t = h
  BY <1>2, <1>4
<1> QED
  BY <1>5 DEF t, s, h

\* A tool call that begins.
LEMMA CallBegins ==
  ASSUME NEW b, Known(b), piece = 0, NEW a \in Seq({"first", "second"}),
         gathered' = Append(gathered, [block |-> b, args |-> a])
  PROVE  /\ gathered' \in GatheredCalls /\ Len(gathered') = CallsIn(block + 1)
         /\ \A i \in 1 .. Len(gathered') : gathered'[i].block = CallBlocks[i]
         /\ gathered'[Len(gathered')] = [block |-> b, args |-> a]
         /\ \A i \in 1 .. Len(gathered') :
              i # Len(gathered') => i \in 1 .. Len(gathered) /\ gathered'[i] = gathered[i] /\ gathered[i].block # b
<1> DEFINE c == [block |-> b, args |-> a]
           R == [block : Blocks, args : Seq({"first", "second"})]
<1>1. /\ gathered \in Seq(R) /\ Len(gathered) = CallsIn(block)
      /\ \A i \in 1 .. Len(gathered) : gathered[i].block = CallBlocks[i]
      /\ CallsIn(block) \in Nat /\ CallsIn(block + 1) = CallsIn(block) + 1
      /\ CallsIn(block + 1) <= Len(CallBlocks) /\ CallBlocks[CallsIn(block) + 1] = b
  BY DEF Known, StreamShape, ReadSoFar, GatheredCalls, Begun, Counted, NextBlock
<1>2. c \in R /\ c.block = b
  BY DEF Known
<1> HIDE DEF c, R
<1>3. /\ gathered' \in Seq(R) /\ DOMAIN gathered' = 1 .. Len(gathered) + 1
      /\ \A i \in 1 .. Len(gathered) : gathered'[i] = gathered[i]
      /\ gathered'[Len(gathered) + 1] = c
  BY <1>1, <1>2, AppendedAt DEF c
<1>4. Len(gathered') = CallsIn(block + 1) /\ Len(gathered) + 1 = CallsIn(block + 1)
  BY <1>1, <1>3
<1>5. \A i \in 1 .. Len(gathered') : gathered'[i].block = CallBlocks[i]
  BY <1>1, <1>2, <1>3, <1>4
<1>6. \A i \in 1 .. Len(gathered) : gathered[i].block # b
  <2> TAKE i \in 1 .. Len(gathered)
  <2>1. i \in 1 .. Len(CallBlocks) /\ CallsIn(block) + 1 \in 1 .. Len(CallBlocks) /\ i # CallsIn(block) + 1
    BY <1>1 DEF Known
  <2>2. CallBlocks[i] # CallBlocks[CallsIn(block) + 1]
    BY <2>1 DEF Known
  <2> QED
    BY <1>1, <2>2
<1>7. \A i \in 1 .. Len(gathered') : i # Len(gathered') => i \in 1 .. Len(gathered)
  BY <1>1, <1>4
<1>8. gathered' \in GatheredCalls
  BY <1>3 DEF R, GatheredCalls
<1> QED
  BY <1>1, <1>3, <1>4, <1>5, <1>6, <1>7, <1>8 DEF c

\* A tool call under way gets another part of its arguments.
LEMMA CallGoesOn ==
  ASSUME NEW b, Known(b), piece > 0
  PROVE  /\ Len(gathered) \in 1 .. Len(CallBlocks) /\ Len(gathered) = CallsIn(block + 1)
         /\ gathered[Len(gathered)].block = b
         /\ \A i \in 1 .. Len(gathered) : gathered[i].block = b => i = Len(gathered)
         /\ \A half \in {"first", "second"} : LET g == Extend(gathered, Len(gathered), half) IN
              /\ g \in GatheredCalls /\ Len(g) = Len(gathered)
              /\ \A i \in 1 .. Len(gathered) :
                   /\ g[i].block = gathered[i].block
                   /\ g[i].args = IF i = Len(gathered) THEN Append(gathered[i].args, half) ELSE gathered[i].args
<1> DEFINE R == [block : Blocks, args : Seq({"first", "second"})]
<1>1. /\ gathered \in Seq(R) /\ Len(gathered) = CallsIn(block + 1)
      /\ \A i \in 1 .. Len(gathered) : gathered[i].block = CallBlocks[i]
      /\ CallsIn(block) \in Nat /\ CallsIn(block + 1) = CallsIn(block) + 1
      /\ CallsIn(block + 1) <= Len(CallBlocks) /\ CallBlocks[CallsIn(block) + 1] = b
  BY DEF Known, StreamShape, ReadSoFar, GatheredCalls, Begun, Counted, NextBlock
<1>2. Len(gathered) \in 1 .. Len(CallBlocks) /\ gathered[Len(gathered)].block = b
  BY <1>1 DEF Known
<1>3. \A i \in 1 .. Len(gathered) : gathered[i].block = b => i = Len(gathered)
  BY SMTT(30), <1>1, <1>2 DEF Known
<1>4. ASSUME NEW half \in {"first", "second"}, NEW g, g = Extend(gathered, Len(gathered), half)
      PROVE  /\ g \in GatheredCalls /\ Len(g) = Len(gathered)
             /\ \A i \in 1 .. Len(gathered) :
                  /\ g[i].block = gathered[i].block
                  /\ g[i].args = IF i = Len(gathered) THEN Append(gathered[i].args, half) ELSE gathered[i].args
  <2> DEFINE n == Len(gathered)
             new == [gathered[n] EXCEPT !.args = Append(gathered[n].args, half)]
  <2>1. n \in Nat /\ n \in 1 .. n /\ DOMAIN gathered = 1 .. n
    BY <1>1, <1>2
  <2>2. gathered[n] \in R
    <3> HIDE DEF R
    <3> QED
      BY <1>1, <2>1
  <2>4. new \in R /\ new.block = gathered[n].block /\ new.args = Append(gathered[n].args, half)
    <3>1. \A r \in R, h \in {"first", "second"} :
            LET x == [r EXCEPT !.args = Append(r.args, h)] IN
            x \in R /\ x.block = r.block /\ x.args = Append(r.args, h)
      OBVIOUS
    <3> HIDE DEF R
    <3> QED
      BY <2>2, <3>1
  <2>5. g = [gathered EXCEPT ![n].args = Append(gathered[n].args, half)]
    BY <1>4, <2>1 DEF Extend
  <2> HIDE DEF n, R
  <2>6. g = [gathered EXCEPT ![n] = new]
    BY <2>5
  <2> HIDE DEF new
  <2>7. g \in Seq(R) /\ Len(g) = n /\ \A i \in 1 .. n : g[i] = IF i = n THEN new ELSE gathered[i]
    BY <1>1, <2>1, <2>4, <2>6 DEF n
  <2>8. g \in GatheredCalls
    BY <2>7 DEF GatheredCalls, R
  <2> QED
    BY <2>4, <2>7, <2>8 DEF n
<1> QED
  BY <1>1, <1>2, <1>3, <1>4

\* What a piece of the stream leaves of the reply and of where the stream stood.
LEMMA ReadKeeps ==
  ASSUME StreamShape, StreamRead
  PROVE  /\ vendor' = vendor /\ reply' = reply /\ outcome' = outcome /\ phase' = phase /\ ~Responded
         /\ ~Responded' /\ block \in 0 .. Len(Wire) /\ block < Len(Wire) /\ Len(Wire) \in Nat
<1>1. reply \in Seq({"text", "call"}) /\ block \in Nat /\ (Responded => phase = "over")
  BY DEF StreamShape
<1>2. Len(Wire) \in Nat
  <2>1. InOrder \in Seq(Blocks) /\ TextBlocks \in Seq(Blocks) /\ CallBlocks \in Seq(Blocks)
    BY <1>1, BlocksInOrder
  <2> QED
    BY <2>1 DEF Wire
<1> QED
  BY <1>1, <1>2 DEF StreamRead, Responded

\* A block of text is read.
LEMMA ReadsText ==
  ASSUME StreamShape, ReadSoFar, Arguments, StreamRead, NEW b \in Blocks, b = Wire[block + 1],
         Reads(b), reply[b] = "text", Counted, NextBlock(b)
  PROVE  StreamShape' /\ ReadSoFar' /\ Arguments'
<1>1. /\ piece = 0 /\ piece' = 0 /\ block' = block + 1 /\ gathered' = gathered
      /\ fullText' = Append(fullText, b) /\ shown' = Append(shown, b)
  BY DEF Reads
<1>2. /\ vendor' = vendor /\ reply' = reply /\ ~Responded' /\ block < Len(Wire) /\ Len(Wire) \in Nat
  BY ReadKeeps
<1>3. /\ TextBlocks' = TextBlocks /\ CallBlocks' = CallBlocks /\ Wire' = Wire /\ Blocks' = Blocks
      /\ AfterText' = AfterText
  BY <1>2, SameReply
<1>4. \A k : TextsIn(k)' = TextsIn(k) /\ CallsIn(k)' = CallsIn(k)
  BY <1>2, SameReply
<1>5. /\ fullText' \in Seq(Blocks) /\ Len(fullText') = Len(fullText) + 1 /\ Len(fullText) \in Nat
      /\ \A i \in 1 .. Len(fullText) : fullText'[i] = fullText[i]
      /\ fullText'[Len(fullText) + 1] = b
  <2>1. fullText \in Seq(Blocks)
    BY DEF StreamShape
  <2> QED
    BY <1>1, <2>1, AppendedAt
<1>6. StreamShape'
  BY <1>1, <1>2, <1>3, <1>5 DEF StreamShape, GatheredCalls
<1>7. ReadSoFar'
  <2>1. /\ Len(fullText) = TextsIn(block) /\ TextsIn(block + 1) = TextsIn(block) + 1
        /\ TextBlocks[TextsIn(block) + 1] = b /\ CallsIn(block + 1) = CallsIn(block)
        /\ Len(gathered) = CallsIn(block) /\ shown = fullText
        /\ \A i \in 1 .. Len(fullText) : fullText[i] = TextBlocks[i]
        /\ \A i \in 1 .. Len(gathered) : gathered[i].block = CallBlocks[i]
    BY <1>1 DEF ReadSoFar, Begun, NextBlock
  <2>2. TextsIn(block)' = TextsIn(block + 1) /\ CallsIn(Begun)' = CallsIn(block + 1)
    BY <1>1, <1>4 DEF Begun
  <2>3. shown' = fullText' /\ Len(fullText') = TextsIn(block + 1) /\ Len(gathered') = CallsIn(block + 1)
    BY <1>1, <1>5, <2>1
  <2>4. \A i \in 1 .. Len(fullText') : fullText'[i] = TextBlocks[i]
    BY <1>5, <2>1
  <2>5. \A i \in 1 .. Len(gathered') : gathered'[i].block = CallBlocks[i]
    BY <1>1, <2>1
  <2> QED
    BY <1>3, <2>2, <2>3, <2>4, <2>5 DEF ReadSoFar
<1>8. Arguments'
  BY <1>1, <1>2, <1>3 DEF Arguments, Arrived
<1> QED
  BY <1>6, <1>7, <1>8

\* A tool call begins, and for Gemini is whole.
LEMMA ReadsCallStart ==
  ASSUME Known(Wire[block + 1]), StreamRead, NEW b \in Blocks, b = Wire[block + 1], Reads(b), piece = 0
  PROVE  StreamShape' /\ ReadSoFar' /\ Arguments'
<1>0. Known(b)
  BY DEF Known
<1>1. /\ StreamShape /\ ReadSoFar /\ Arguments /\ NextBlock(b) /\ Counted
      /\ reply[b] = "call" /\ reply[b] # "text" /\ block < Len(Wire)
  BY <1>0 DEF Known
<1>2. /\ vendor' = vendor /\ reply' = reply /\ ~Responded' /\ Len(Wire) \in Nat
  BY <1>1, ReadKeeps
<1>3. /\ TextBlocks' = TextBlocks /\ CallBlocks' = CallBlocks /\ Wire' = Wire /\ Blocks' = Blocks
      /\ AfterText' = AfterText
  BY <1>2, SameReply
<1>4. \A k : TextsIn(k)' = TextsIn(k) /\ CallsIn(k)' = CallsIn(k)
  BY <1>2, SameReply
<1>5. vendor \in {"anthropic", "openai", "gemini"} /\ block \in Nat /\ fullText \in Seq(Blocks)
  BY <1>1 DEF StreamShape
<1>6. /\ fullText' = fullText /\ shown' = shown
      /\ \/ /\ vendor = "anthropic" /\ piece' = 1 /\ block' = block
            /\ gathered' = Append(gathered, [block |-> b, args |-> <<>>])
         \/ /\ vendor = "openai" /\ piece' = 1 /\ block' = block
            /\ gathered' = Append(gathered, [block |-> b, args |-> <<"first">>])
         \/ /\ vendor = "gemini" /\ piece' = 0 /\ block' = block + 1
            /\ gathered' = Append(gathered, [block |-> b, args |-> Halves])
  <2>1. CASE vendor = "openai"
    <3>1. \A i \in DOMAIN gathered : gathered[i].block # b
      <4>1. /\ CallsIn(block) \in Nat /\ CallsIn(block + 1) = CallsIn(block) + 1
            /\ CallsIn(block + 1) <= Len(CallBlocks) /\ CallBlocks[CallsIn(block) + 1] = b
            /\ Len(gathered) = CallsIn(block)
            /\ \A i \in 1 .. Len(gathered) : gathered[i].block = CallBlocks[i]
        BY <1>1 DEF ReadSoFar, Begun, Counted, NextBlock
      <4>2. Len(CallBlocks) \in Nat /\ \A i, j \in 1 .. Len(CallBlocks) : CallBlocks[i] = CallBlocks[j] => i = j
        BY <1>0 DEF Known
      <4>3. DOMAIN gathered = 1 .. Len(gathered)
        BY <1>1 DEF StreamShape, GatheredCalls
      <4>4. ASSUME NEW i \in 1 .. Len(gathered), gathered[i].block = b
            PROVE  FALSE
        <5>1. i \in 1 .. Len(CallBlocks) /\ CallsIn(block) + 1 \in 1 .. Len(CallBlocks) /\ i # CallsIn(block) + 1
          BY <4>1, <4>2
        <5>2. CallBlocks[i] = CallBlocks[CallsIn(block) + 1]
          BY <4>1, <4>4
        <5> QED
          BY <4>2, <5>1, <5>2
      <4> QED
        BY <4>3, <4>4
    <3>2. /\ piece' = 1 /\ block' = block /\ UNCHANGED <<fullText, shown>>
          /\ gathered' = OpenAICalls(Piece("args", b, "first"))
      BY <1>1, <2>1 DEF Reads
    <3>3. OpenAICalls(Piece("args", b, "first")) = Append(gathered, [block |-> b, args |-> <<"first">>])
      BY <3>1 DEF OpenAICalls, Piece
    <3> QED
      BY <2>1, <3>2, <3>3
  <2>2. CASE vendor # "openai"
    BY <1>1, <1>5, <2>2 DEF Reads
  <2> QED
    BY <2>1, <2>2
<1>7. PICK a \in Seq({"first", "second"}) :
        /\ gathered' = Append(gathered, [block |-> b, args |-> a])
        /\ a = IF vendor = "anthropic" THEN <<>> ELSE IF vendor = "openai" THEN <<"first">> ELSE Halves
  <2>1. /\ <<>> \in Seq({"first", "second"}) /\ <<"first">> \in Seq({"first", "second"})
        /\ Halves \in Seq({"first", "second"})
    BY DEF Halves
  <2> QED
    BY <1>5, <1>6, <2>1
<1>8. /\ gathered' \in GatheredCalls /\ Len(gathered') = CallsIn(block + 1)
      /\ \A i \in 1 .. Len(gathered') : gathered'[i].block = CallBlocks[i]
      /\ gathered'[Len(gathered')] = [block |-> b, args |-> a]
      /\ \A i \in 1 .. Len(gathered') :
           i # Len(gathered') => i \in 1 .. Len(gathered) /\ gathered'[i] = gathered[i] /\ gathered[i].block # b
  <2>1. gathered' = Append(gathered, [block |-> b, args |-> a])
    BY <1>7
  <2>2. /\ gathered' \in GatheredCalls /\ Len(gathered') = CallsIn(block + 1)
        /\ \A i \in 1 .. Len(gathered') : gathered'[i].block = CallBlocks[i]
    BY <1>0, <2>1, CallBegins
  <2>3. gathered'[Len(gathered')] = [block |-> b, args |-> a]
    BY <1>0, <2>1, CallBegins
  <2>4. \A i \in 1 .. Len(gathered') :
           i # Len(gathered') => i \in 1 .. Len(gathered) /\ gathered'[i] = gathered[i] /\ gathered[i].block # b
    BY <1>0, <2>1, CallBegins
  <2> QED
    BY <2>2, <2>3, <2>4
<1>9. /\ Begun' = block + 1 /\ CallsIn(Begun)' = CallsIn(block + 1) /\ TextsIn(block)' = TextsIn(block)
      /\ Len(fullText) = TextsIn(block) /\ shown = fullText
      /\ \A i \in 1 .. Len(fullText) : fullText[i] = TextBlocks[i]
  <2>1. Begun' = block + 1
    BY <1>6 DEF Begun
  <2>2. CallsIn(Begun)' = CallsIn(block + 1)
    BY <1>4, <2>1
  <2>3. TextsIn(block + 1) = TextsIn(block)
    BY <1>1 DEF NextBlock
  <2>4. TextsIn(block)' = TextsIn(block)
    BY <1>4, <1>6, <2>3
  <2> QED
    BY <1>1, <2>1, <2>2, <2>4 DEF ReadSoFar
<1>10. ReadSoFar'
  BY <1>3, <1>6, <1>8, <1>9 DEF ReadSoFar
<1>11. StreamShape'
  <2>1. block' \in Nat /\ piece' \in 0 .. 2 /\ block' <= Len(Wire) /\ (piece' > 0 => block' = block /\ piece' = 1)
    BY <1>1, <1>2, <1>5, <1>6
  <2>4. fullText' \in Seq(Blocks)' /\ (gathered \in GatheredCalls)'
    BY <1>3, <1>5, <1>6, <1>8 DEF GatheredCalls
  <2>5. (piece > 0 => block < Len(Wire) /\ reply[Wire[block + 1]] = "call" /\ piece < CallPieces)'
    BY <1>1, <1>2, <1>3, <1>5, <1>6, <2>1 DEF CallPieces
  <2> QED
    BY <1>1, <1>2, <1>3, <2>1, <2>4, <2>5 DEF StreamShape
<1>12. Arguments'
  <2> SUFFICES ASSUME NEW i \in 1 .. Len(gathered')
               PROVE  gathered'[i].args = Arrived(gathered[i], i)'
    BY DEF Arguments
  <2>1. CASE i = Len(gathered')
    <3>1. gathered'[i].args = a /\ gathered'[i].block = b
      BY <1>8, <2>1
    <3>2. vendor = "anthropic" => b = block + 1
      BY <1>1 DEF NextBlock
    <3> QED
      BY <1>2, <1>3, <1>5, <1>6, <1>7, <2>1, <3>1, <3>2 DEF Arrived
  <2>2. CASE i # Len(gathered')
    <3>1. i \in 1 .. Len(gathered) /\ gathered'[i] = gathered[i] /\ gathered[i].block # b
      BY <1>8, <2>2
    <3>2. gathered[i].args = Arrived(gathered[i], i)
      BY <1>1, <3>1 DEF Arguments
    <3>3. vendor = "anthropic" => b = block + 1
      BY <1>1 DEF NextBlock
    <3> QED
      BY <1>2, <1>3, <1>5, <1>6, <2>2, <3>1, <3>2, <3>3 DEF Arrived
  <2> QED
    BY <2>1, <2>2
<1> QED
  BY <1>10, <1>11, <1>12

\* The arguments of a tool call come on.
LEMMA ReadsCallPart ==
  ASSUME Known(Wire[block + 1]), StreamRead, NEW b \in Blocks, b = Wire[block + 1], Reads(b), piece > 0
  PROVE  StreamShape' /\ ReadSoFar' /\ Arguments'
<1>0. Known(b)
  BY DEF Known
<1>1. /\ StreamShape /\ ReadSoFar /\ Arguments /\ NextBlock(b) /\ Counted
      /\ reply[b] = "call" /\ reply[b] # "text" /\ block < Len(Wire)
  BY <1>0 DEF Known
<1>2. /\ vendor' = vendor /\ reply' = reply /\ ~Responded' /\ Len(Wire) \in Nat
  BY <1>1, ReadKeeps
<1>3. /\ TextBlocks' = TextBlocks /\ CallBlocks' = CallBlocks /\ Wire' = Wire /\ Blocks' = Blocks
      /\ AfterText' = AfterText
  BY <1>2, SameReply
<1>4. \A k : TextsIn(k)' = TextsIn(k) /\ CallsIn(k)' = CallsIn(k)
  BY <1>2, SameReply
<1>5. /\ vendor \in {"anthropic", "openai", "gemini"} /\ block \in Nat /\ fullText \in Seq(Blocks)
      /\ gathered \in GatheredCalls /\ piece \in {1, 2}
  BY <1>1 DEF StreamShape
<1>6. /\ Len(gathered) \in 1 .. Len(CallBlocks) /\ Len(gathered) = CallsIn(block + 1)
      /\ gathered[Len(gathered)].block = b
      /\ \A i \in 1 .. Len(gathered) : gathered[i].block = b => i = Len(gathered)
  BY <1>0, CallGoesOn
<1>7. /\ fullText' = fullText /\ shown' = shown
      /\ piece' = (IF vendor = "anthropic" /\ piece = 1 THEN 2 ELSE 0)
      /\ block' = (IF vendor = "anthropic" /\ piece = 1 THEN block ELSE block + 1)
      /\ vendor \in {"anthropic", "openai"} /\ (vendor = "openai" => piece = 1)
      /\ vendor = "anthropic" => gathered' = Extend(gathered, b, IF piece = 1 THEN "first" ELSE "second")
      /\ vendor = "openai" => gathered' = OpenAICalls(Piece("args", b, "second"))
  BY <1>1, <1>5 DEF Reads
<1>8. vendor = "anthropic" => /\ b = block + 1
                              /\ IF b \in AfterText THEN Len(gathered) < b ELSE Len(gathered) = b
  BY <1>1, <1>5, <1>6 DEF NextBlock
<1> DEFINE n == Len(gathered)
           half == IF vendor = "anthropic" /\ piece = 1 THEN "first" ELSE "second"
           lost == vendor = "anthropic" /\ b \in AfterText
<1>9. gathered' = IF lost THEN gathered ELSE Extend(gathered, n, half)
  <2>1. CASE vendor = "anthropic"
    <3>1. CASE b \in AfterText
      <4>1. b \notin DOMAIN gathered
        BY <1>5, <1>8, <2>1, <3>1 DEF GatheredCalls
      <4> QED
        BY <1>7, <2>1, <3>1, <4>1 DEF Extend
    <3>2. CASE b \notin AfterText
      BY <1>7, <1>8, <2>1, <3>2
    <3> QED
      BY <3>1, <3>2
  <2>2. CASE vendor = "openai"
    <3>1. n \in DOMAIN gathered /\ DOMAIN gathered = 1 .. n
      BY <1>5, <1>6 DEF GatheredCalls
    <3>2. (CHOOSE i \in DOMAIN gathered : gathered[i].block = b) = n
      BY <1>6, <3>1
    <3>3. OpenAICalls(Piece("args", b, "second")) = Extend(gathered, n, "second")
      BY <1>6, <3>1, <3>2 DEF OpenAICalls, Piece
    <3> QED
      BY <1>7, <2>2, <3>3
  <2> QED
    BY <1>7, <2>1, <2>2
<1>10. /\ gathered' \in GatheredCalls /\ Len(gathered') = n
       /\ \A i \in 1 .. n :
            /\ gathered'[i].block = gathered[i].block
            /\ gathered'[i].args = IF i = n /\ ~lost THEN Append(gathered[i].args, half) ELSE gathered[i].args
  <2>1. half \in {"first", "second"}
    OBVIOUS
  <2>2. LET g == Extend(gathered, n, half) IN
              /\ g \in GatheredCalls /\ Len(g) = n
              /\ \A i \in 1 .. n :
                   /\ g[i].block = gathered[i].block
                   /\ g[i].args = IF i = n THEN Append(gathered[i].args, half) ELSE gathered[i].args
    BY <1>0, <2>1, CallGoesOn
  <2> QED
    BY <1>5, <1>9, <2>2
<1> HIDE DEF n, half, lost
<1>11. /\ Begun' = block + 1 /\ CallsIn(Begun)' = CallsIn(block + 1) /\ TextsIn(block)' = TextsIn(block)
       /\ Len(fullText) = TextsIn(block) /\ shown = fullText
       /\ \A i \in 1 .. Len(fullText) : fullText[i] = TextBlocks[i]
       /\ \A i \in 1 .. n : gathered[i].block = CallBlocks[i]
  <2>1. Begun' = block + 1
    BY <1>7 DEF Begun
  <2>2. CallsIn(Begun)' = CallsIn(block + 1)
    BY <1>4, <2>1
  <2>3. TextsIn(block + 1) = TextsIn(block)
    BY <1>1 DEF NextBlock
  <2>4. TextsIn(block)' = TextsIn(block)
    BY <1>4, <1>7, <2>3
  <2> QED
    BY <1>1, <2>1, <2>2, <2>4 DEF ReadSoFar, n
<1>12. ReadSoFar'
  BY <1>3, <1>6, <1>7, <1>10, <1>11 DEF ReadSoFar, n
<1>13. StreamShape'
  <2>1. block' \in Nat /\ piece' \in 0 .. 2 /\ block' <= Len(Wire)
        /\ (piece' > 0 => block' = block /\ piece' = 2 /\ vendor = "anthropic")
    BY <1>1, <1>2, <1>5, <1>7
  <2>4. fullText' \in Seq(Blocks)' /\ (gathered \in GatheredCalls)'
    BY <1>3, <1>5, <1>7, <1>10 DEF GatheredCalls
  <2>5. (piece > 0 => block < Len(Wire) /\ reply[Wire[block + 1]] = "call" /\ piece < CallPieces)'
    BY <1>1, <1>2, <1>3, <1>5, <1>7, <2>1 DEF CallPieces
  <2> QED
    BY <1>1, <1>2, <1>3, <2>1, <2>4, <2>5 DEF StreamShape
<1>14. Arguments'
  <2> SUFFICES ASSUME NEW i \in 1 .. Len(gathered')
               PROVE  gathered'[i].args = Arrived(gathered[i], i)'
    BY DEF Arguments
  <2>0. i \in 1 .. n /\ gathered'[i].block = gathered[i].block /\ gathered[i].args = Arrived(gathered[i], i)
    BY <1>1, <1>10 DEF Arguments, n
  <2>1. CASE i = n
    <3>1. gathered[i].block = b
      BY <1>6, <2>1 DEF n
    <3>2. gathered[i].args = IF vendor = "anthropic" THEN IF b \in AfterText THEN <<>>
                                                          ELSE IF piece = 1 THEN <<>> ELSE <<"first">>
                             ELSE <<"first">>
      BY <1>5, <1>7, <1>8, <2>0, <2>1, <3>1 DEF Arrived, n
    <3>3. gathered'[i].args = IF lost THEN <<>> ELSE IF vendor = "anthropic" /\ piece = 1 THEN <<"first">>
                                                ELSE Halves
      <4>1. Append(<<>>, "first") = <<"first">> /\ Append(<<"first">>, "second") = Halves
        BY TwoHalves
      <4> QED
        BY <1>5, <1>7, <1>10, <2>0, <2>1, <3>2, <4>1 DEF lost, half
    <3> QED
      BY <1>2, <1>3, <1>5, <1>7, <1>8, <2>0, <3>1, <3>3 DEF Arrived, lost
  <2>2. CASE i # n
    <3>1. gathered[i].block # b /\ gathered'[i].args = gathered[i].args
      BY <1>6, <1>10, <2>0, <2>2 DEF n
    <3> QED
      BY <1>2, <1>3, <1>5, <1>7, <1>8, <1>10, <2>0, <2>2, <3>1 DEF Arrived, n
  <2> QED
    BY <2>1, <2>2
<1> QED
  BY <1>12, <1>13, <1>14

\* Two sequences with the same elements.
LEMMA SameElements ==
  ASSUME NEW S, NEW s \in Seq(S), NEW t \in Seq(S), Len(s) = Len(t), \A i \in 1 .. Len(s) : s[i] = t[i]
  PROVE  s = t
  OBVIOUS

\* The body ends.
LEMMA DoneTells ==
  ASSUME StreamShape, ReadSoFar, Arguments, StreamDone
  PROVE  CallsArriveWhole'
<1> DEFINE N == Len(gathered)
           parsedCalls == Parsed(gathered)
<1>1. /\ reply' = reply /\ vendor' = vendor /\ shown' = shown /\ shown = fullText /\ cut' = (block < Len(Wire))
      /\ response' = [text |-> fullText, calls |-> parsedCalls]
  BY DEF StreamDone, ReadSoFar
<1>2. response'.text = fullText /\ response'.calls = parsedCalls
  BY <1>1
<1>3. TextBlocks' = TextBlocks /\ CallBlocks' = CallBlocks
  BY <1>1, SameReply
<1>4. /\ vendor \in {"anthropic", "openai", "gemini"} /\ block \in Nat /\ block <= Len(Wire)
      /\ reply \in Seq({"text", "call"}) /\ (piece > 0 => block < Len(Wire)) /\ piece \in 0 .. 2
      /\ fullText \in Seq(Blocks) /\ gathered \in Seq([block : Blocks, args : Seq({"first", "second"})])
  BY DEF StreamShape, GatheredCalls
<1>5. Len(Wire) \in Nat /\ Blocks = 1 .. Len(reply) /\ TextBlocks \in Seq(Blocks) /\ CallBlocks \in Seq(Blocks)
  <2>1. InOrder \in Seq(Blocks) /\ TextBlocks \in Seq(Blocks) /\ CallBlocks \in Seq(Blocks)
    BY <1>4, BlocksInOrder
  <2> QED
    BY <2>1 DEF Wire, Blocks
<1>6. Counted /\ (block < Len(Wire) => NextBlock(Wire[block + 1]))
  <2>1. block \in 0 .. Len(Wire)
    BY <1>4, <1>5
  <2> QED
    BY <1>4, <2>1, Counting
<1>7. N \in Nat /\ DOMAIN gathered = 1 .. N /\ DOMAIN parsedCalls = 1 .. N
  BY <1>4 DEF Parsed
<1>8. \A i \in 1 .. N : /\ gathered[i].block \in Blocks /\ parsedCalls[i].block = gathered[i].block
                        /\ parsedCalls[i].args = IF gathered[i].args = Halves THEN Halves ELSE <<>>
  <2> TAKE i \in 1 .. N
  <2>1. gathered[i] \in [block : Blocks, args : Seq({"first", "second"})]
    <3> DEFINE R == [block : Blocks, args : Seq({"first", "second"})]
    <3> HIDE DEF R
    <3>1. gathered \in Seq(R) /\ i \in DOMAIN gathered
      BY <1>4, <1>7 DEF R
    <3>2. gathered[i] \in R
      BY <3>1
    <3> QED
      BY <3>2 DEF R
  <2>2. parsedCalls[i] = IF gathered[i].args = Halves THEN gathered[i] ELSE [gathered[i] EXCEPT !.args = <<>>]
    BY <1>7 DEF Parsed
  <2> QED
    BY <2>1, <2>2
<1> HIDE DEF parsedCalls, N
<1>9. ASSUME NEW i \in 1 .. N
      PROVE  /\ parsedCalls[i].block = CallBlocks[i]
             /\ \/ parsedCalls[i].args = Halves
                \/ /\ parsedCalls[i].args = <<>>
                   /\ cut' \/ (vendor = "anthropic" /\ \E b \in 1 .. parsedCalls[i].block : reply[b] = "text")
  <2>2. gathered[i].args = Arrived(gathered[i], i) /\ gathered[i].block = CallBlocks[i]
    BY DEF Arguments, ReadSoFar, N
  <2>3. CASE gathered[i].args = Halves
    BY <1>8, <2>2, <2>3
  <2>4. CASE gathered[i].args # Halves
    <3>1. piece > 0 \/ (vendor = "anthropic" /\ gathered[i].block \in AfterText)
      BY <1>4, <2>2, <2>4 DEF Arrived
    <3>2. gathered[i].block \in AfterText => \E b \in 1 .. gathered[i].block : reply[b] = "text"
      BY DEF AfterText
    <3> QED
      BY <1>1, <1>4, <1>8, <2>2, <2>4, <3>1, <3>2
  <2> QED
    BY <2>3, <2>4
<1>10. N <= Len(CallBlocks) /\ Len(CallBlocks) \in Nat /\ Len(TextBlocks) \in Nat
  <2>1. N = CallsIn(Begun) /\ Len(CallBlocks) \in Nat /\ Len(TextBlocks) \in Nat
    BY <1>5 DEF ReadSoFar, N
  <2>2. CASE piece > 0
    <3>1. block < Len(Wire) /\ Begun = block + 1 /\ reply[Wire[block + 1]] = "call"
      BY <1>4, <2>2 DEF Begun, StreamShape
    <3> QED
      BY <1>6, <2>1, <3>1 DEF NextBlock
  <2>3. CASE ~(piece > 0)
    BY <1>6, <2>1, <2>3 DEF Counted, Begun
  <2> QED
    BY <2>2, <2>3
<1>11. Len(parsedCalls) = N
  BY <1>7
<1>12. ~cut' => N = Len(CallBlocks) /\ fullText = TextBlocks
  <2> SUFFICES ASSUME ~cut' PROVE N = Len(CallBlocks) /\ fullText = TextBlocks
    OBVIOUS
  <2>0. ~(block < Len(Wire))
    BY <1>1, Zenon
  <2>1. block = Len(Wire) /\ ~(piece > 0)
    BY <1>4, <1>5, <2>0
  <2>2. Len(fullText) = Len(TextBlocks) /\ N = Len(CallBlocks)
    BY <1>6, <2>1 DEF Counted, ReadSoFar, Begun, N
  <2>3. fullText = TextBlocks
    <3>1. \A i \in 1 .. Len(fullText) : fullText[i] = TextBlocks[i]
      BY DEF ReadSoFar
    <3> QED
      BY <1>4, <1>5, <2>2, <3>1, SameElements
  <2> QED
    BY <2>2, <2>3
<1>13. ~cut' => Len(response'.calls) = Len(CallBlocks) /\ response'.text = TextBlocks
  BY <1>2, <1>11, <1>12
<1>14. Len(response'.calls) <= Len(CallBlocks) /\ DOMAIN response'.calls = 1 .. N
  BY <1>2, <1>7, <1>10, <1>11
<1> QED
  BY <1>1, <1>2, <1>3, <1>9, <1>13, <1>14 DEF CallsArriveWhole

\* chat() answers with the whole of the reply.
LEMMA ChatTells ==
  ASSUME reply \in Seq({"text", "call"}), reply' = reply, response' = ChatResponse, path' = "chat"
  PROVE  CallsArriveWhole'
<1> DEFINE parsedCalls == [i \in DOMAIN CallBlocks |-> [block |-> CallBlocks[i], args |-> Halves]]
<1>1. response'.text = TextBlocks /\ response'.calls = parsedCalls
  BY DEF ChatResponse
<1>2. TextBlocks \in Seq(Blocks) /\ CallBlocks \in Seq(Blocks)
  BY BlocksInOrder
<1>3. TextBlocks' = TextBlocks /\ CallBlocks' = CallBlocks
  <2>1. Blocks' = Blocks
    BY DEF Blocks
  <2>2. InOrder' = InOrder
    BY <2>1 DEF InOrder
  <2> QED
    BY <2>1, <2>2 DEF TextBlocks, CallBlocks
<1>4. /\ Len(parsedCalls) = Len(CallBlocks) /\ Len(CallBlocks) \in Nat
      /\ \A i \in DOMAIN parsedCalls : parsedCalls[i].block = CallBlocks[i] /\ parsedCalls[i].args = Halves
  BY <1>2
<1> HIDE DEF parsedCalls
<1>5. path' # "stream"
  OBVIOUS
<1> QED
  BY <1>1, <1>3, <1>4, <1>5 DEF CallsArriveWhole

\* A tool call of a reply comes with its own arguments, whole, or with none; the calls come
\* in their order, none missing from a reply that came whole; and the user was shown the text
\* that the response has.
THEOREM ArriveWhole == StreamsSpec => []CallsArriveWhole
<1>1. StreamsInit => StreamTells
  <2> SUFFICES ASSUME StreamsInit PROVE StreamTells
    OBVIOUS
  <2>1. /\ vendor \in {"anthropic", "openai", "gemini"} /\ reply \in Seq({"text", "call"})
        /\ block = 0 /\ piece = 0 /\ fullText = <<>> /\ gathered = <<>> /\ shown = <<>> /\ ~Responded
    BY StreamsAssumption DEF StreamsInit, Responded
  <2>2. Len(Wire) \in Nat
    <3>1. InOrder \in Seq(Blocks) /\ TextBlocks \in Seq(Blocks) /\ CallBlocks \in Seq(Blocks)
      BY <2>1, BlocksInOrder
    <3> QED
      BY <3>1 DEF Wire
  <2>3. TextsIn(block) = 0 /\ CallsIn(block) = 0
    <3>1. block \in 0 .. Len(Wire)
      BY <2>1, <2>2
    <3>2. Counted
      BY <2>1, <3>1, Counting
    <3> QED
      BY <2>1, <3>2 DEF Counted
  <2>4. StreamShape
    BY <2>1, <2>2 DEF StreamShape, GatheredCalls
  <2>5. ReadSoFar
    BY <2>1, <2>3 DEF ReadSoFar, Begun
  <2>6. Arguments
    BY <2>1 DEF Arguments
  <2>7. CallsArriveWhole
    BY <2>1 DEF CallsArriveWhole
  <2> QED
    BY <2>4, <2>5, <2>6, <2>7 DEF StreamTells
<1>2. StreamTells /\ [StreamsNext]_streamVars => StreamTells'
  <2> SUFFICES ASSUME StreamTells, [StreamsNext]_streamVars PROVE StreamTells'
    OBVIOUS
  <2>0. StreamShape /\ ReadSoFar /\ Arguments /\ CallsArriveWhole
    BY DEF StreamTells
  <2>1. CASE StreamRead
    <3>1. /\ ~Responded' /\ block \in 0 .. Len(Wire) /\ block < Len(Wire)
      BY <2>0, <2>1, ReadKeeps
    <3>2. reply \in Seq({"text", "call"})
      BY <2>0 DEF StreamShape
    <3>3. Counted /\ NextBlock(Wire[block + 1])
      BY <3>1, <3>2, Counting
    <3>4. Wire[block + 1] \in Blocks /\ reply[Wire[block + 1]] \in {"text", "call"}
      BY <3>3 DEF NextBlock
    <3>5. PICK b \in Blocks : b = Wire[block + 1]
      BY <3>4
    <3>6. Reads(b) /\ NextBlock(b) /\ reply[b] \in {"text", "call"}
      BY <2>0, <2>1, <3>3, <3>4, <3>5, ReadsOnePiece
    <3>7. CASE reply[b] = "text"
      <4>1. StreamShape' /\ ReadSoFar' /\ Arguments'
        BY <2>0, <2>1, <3>3, <3>5, <3>6, <3>7, ReadsText
      <4> QED
        BY <3>1, <4>1 DEF StreamTells, CallsArriveWhole
    <3>8. CASE reply[b] = "call"
      <4>1. Known(Wire[block + 1])
        <5>1. /\ CallBlocks \in Seq(Blocks)
              /\ \A i, j \in 1 .. Len(CallBlocks) : CallBlocks[i] = CallBlocks[j] => i = j
          BY <3>2, BlocksInOrder
        <5>2. Len(CallBlocks) \in Nat
          BY <5>1
        <5> QED
          BY <2>0, <3>1, <3>3, <3>4, <3>5, <3>8, <5>1, <5>2 DEF Known
      <4>2. piece \in 0 .. 2
        BY <2>0 DEF StreamShape
      <4>3. CASE piece = 0
        BY <2>1, <3>1, <3>5, <3>6, <4>1, <4>3, ReadsCallStart DEF StreamTells, CallsArriveWhole
      <4>4. CASE piece > 0
        BY <2>1, <3>1, <3>5, <3>6, <4>1, <4>4, ReadsCallPart DEF StreamTells, CallsArriveWhole
      <4> QED
        BY <4>2, <4>3, <4>4
    <3> QED
      BY <3>6, <3>7, <3>8
  <2>2. ASSUME vendor' = vendor, reply' = reply, block' = block, piece' = piece, fullText' = fullText,
               gathered' = gathered, shown' = shown, (Responded => phase = "over")', CallsArriveWhole'
        PROVE  StreamTells'
    <3>1. /\ TextBlocks' = TextBlocks /\ CallBlocks' = CallBlocks /\ Wire' = Wire /\ Blocks' = Blocks
          /\ AfterText' = AfterText
      BY <2>2, SameReply
    <3>2. \A k : TextsIn(k)' = TextsIn(k) /\ CallsIn(k)' = CallsIn(k)
      BY <2>2, SameReply
    <3>3. StreamShape'
      BY <2>0, <2>2, <3>1 DEF StreamShape, GatheredCalls, CallPieces
    <3>4. Begun' = Begun
      BY <2>2 DEF Begun
    <3>5. TextsIn(block)' = TextsIn(block) /\ CallsIn(Begun)' = CallsIn(Begun)
      BY <2>2, <3>2, <3>4
    <3>6. ReadSoFar'
      BY <2>0, <2>2, <3>1, <3>5 DEF ReadSoFar
    <3>7. Arguments'
      BY <2>0, <2>2, <3>1 DEF Arguments, Arrived
    <3> QED
      BY <2>2, <3>3, <3>6, <3>7 DEF StreamTells
  <2>3. CASE StreamDone
    <3>1. CallsArriveWhole'
      BY <2>0, <2>3, DoneTells
    <3> QED
      BY <2>2, <2>3, <3>1 DEF StreamDone
  <2>4. CASE Accepted
    <3>1. CASE path = "chat" /\ phase' = "over" /\ outcome' = "response" /\ response' = ChatResponse
      <4>1. reply \in Seq({"text", "call"}) /\ path' = "chat" /\ reply' = reply
        BY <2>0, <2>4, <3>1 DEF StreamShape, Accepted
      <4>2. CallsArriveWhole'
        BY <3>1, <4>1, ChatTells
      <4> QED
        BY <2>2, <2>4, <3>1, <4>2 DEF Accepted
    <3>2. CASE outcome' = outcome
      <4>1. ~Responded'
        BY <2>0, <2>4, <3>2 DEF StreamShape, Accepted, Responded
      <4> QED
        BY <2>2, <2>4, <4>1 DEF Accepted, CallsArriveWhole
    <3> QED
      BY <2>4, <3>1, <3>2 DEF Accepted
  <2>5. CASE UNCHANGED streamVars
    <3>1. CallsArriveWhole'
      <4>1. TextBlocks' = TextBlocks /\ CallBlocks' = CallBlocks /\ Responded' = Responded
        BY <2>5, SameReply DEF streamVars, Responded
      <4> QED
        BY <2>0, <2>5, <4>1 DEF CallsArriveWhole, streamVars
    <3> QED
      BY <2>0, <2>2, <2>5, <3>1 DEF StreamShape, Responded, streamVars
  <2>6. ASSUME NEW kind \in {"fatal", "recoverable"}, Fail(kind)
        PROVE  StreamTells'
    <3>1. ~Responded'
      BY <2>6 DEF Fail, Responded
    <3> QED
      BY <2>2, <2>6, <3>1 DEF Fail, CallsArriveWhole
  <2>7. ASSUME phase # "over", outcome' = outcome, vendor' = vendor, reply' = reply, block' = block,
               piece' = piece, fullText' = fullText, gathered' = gathered, shown' = shown
        PROVE  StreamTells'
    <3>1. ~Responded'
      BY <2>0, <2>7 DEF StreamShape, Responded
    <3> QED
      BY <2>2, <2>7, <3>1 DEF CallsArriveWhole
  <2>8. CASE Overloaded
    BY <2>6, <2>7, <2>8 DEF Overloaded
  <2>9. CASE Refuses
    BY <2>6, <2>9 DEF Refuses
  <2>10. CASE StreamRefused
    BY <2>6, <2>10 DEF StreamRefused
  <2>11. CASE RequestAborted
    BY <2>6, <2>11 DEF RequestAborted
  <2>12. CASE BackoffEnds
    BY <2>6, <2>7, <2>12 DEF BackoffEnds
  <2>13. CASE Aborts
    BY <2>7, <2>13 DEF Aborts
  <2> QED
    BY <2>1, <2>3, <2>4, <2>5, <2>8, <2>9, <2>10, <2>11, <2>12, <2>13 DEF StreamsNext
<1>3. StreamTells => CallsArriveWhole
  BY DEF StreamTells
<1> QED
  BY <1>1, <1>2, <1>3, PTL DEF StreamsSpec

-----------------------------------------------------------------------------
(* Claps *)

\* Claps more than MinGap apart, all before some time.
Claps(end) ==
  {s \in Seq(Nat) : /\ \A i, j \in DOMAIN s : i < j => s[j] - s[i] > MinGap
                    /\ \A i \in DOMAIN s : s[i] < end}

\* The claps remembered were heard by the end of some chunk, the longest so far.
ClapsKept ==
  /\ clapNow \in Nat /\ lastActivationAt \in Int /\ claim \in Seq(Nat)
  /\ recentTransients = <<>> \/ \E n \in ChunkSizes : recentTransients \in Claps(clapNow + n)
  /\ ClapsByDefinition

LEMMA ClapNumbers ==
  /\ Required \in Nat \ {0} /\ MinGap \in Nat \ {0} /\ PatternWindow \in Nat \ {0} /\ Cooldown \in Nat \ {0}
  /\ \A n \in ChunkSizes : n \in Nat \ {0}
  BY ClapAssumption DEF ClapAssumption

\* One clap more, if it is far enough from the last one.
LEMMA NoteKeeps ==
  ASSUME NEW end \in Nat, NEW s \in Claps(end), NEW onset \in Nat, onset < end
  PROVE  Note(s, onset) \in Claps(end)
<1>1. /\ s \in Seq(Nat) /\ \A i, j \in DOMAIN s : i < j => s[j] - s[i] > MinGap
      /\ \A i \in DOMAIN s : s[i] < end
  BY DEF Claps
<1>2. CASE s = <<>> \/ onset - s[Len(s)] > MinGap
  <2> DEFINE more == Append(s, onset)
  <2>1. /\ more \in Seq(Nat) /\ Len(s) \in Nat
        /\ DOMAIN more = 1 .. Len(s) + 1 /\ DOMAIN s = 1 .. Len(s)
        /\ \A i \in DOMAIN s : more[i] = s[i]
        /\ more[Len(s) + 1] = onset
    BY <1>1, AppendedAt
  <2> HIDE DEF more
  <2>2. ASSUME NEW i \in DOMAIN s
        PROVE  onset - s[i] > MinGap
    <3>1. Len(s) \in DOMAIN s /\ onset - s[Len(s)] > MinGap
      BY <1>2, <2>1
    <3>2. s[i] \in Nat /\ s[Len(s)] \in Nat
      BY <1>1, <3>1
    <3>3. CASE i = Len(s)
      BY <3>1, <3>3
    <3>4. CASE i # Len(s)
      <4>0. i < Len(s)
        BY <2>1, <3>4
      <4>1. s[Len(s)] - s[i] > MinGap
        BY <1>1, <3>1, <4>0
      <4>2. MinGap \in Nat \ {0}
        BY ClapNumbers
      <4> QED
        BY <3>1, <3>2, <4>1, <4>2
    <3> QED
      BY <3>3, <3>4
  <2>3. ASSUME NEW i \in DOMAIN more, NEW j \in DOMAIN more, i < j
        PROVE  more[j] - more[i] > MinGap
    <3>1. i \in DOMAIN s
      BY <2>1, <2>3
    <3>2. CASE j = Len(s) + 1
      BY <2>1, <2>2, <3>1, <3>2
    <3>3. CASE j # Len(s) + 1
      <4>1. j \in DOMAIN s
        BY <2>1, <3>3
      <4> QED
        BY <1>1, <2>1, <2>3, <3>1, <4>1
    <3> QED
      BY <3>2, <3>3
  <2>4. ASSUME NEW i \in DOMAIN more
        PROVE  more[i] < end
    <3>1. i \in DOMAIN s \/ i = Len(s) + 1
      BY <2>1
    <3> QED
      BY <1>1, <2>1, <3>1
  <2>5. Note(s, onset) = more
    BY <1>2 DEF Note, more
  <2> QED
    BY <2>1, <2>3, <2>4, <2>5 DEF Claps
<1>3. CASE ~(s = <<>> \/ onset - s[Len(s)] > MinGap)
  BY <1>3 DEF Note
<1> QED
  BY <1>2, <1>3

\* The loop over a chunk.
LEMMA ChunkNoted ==
  ASSUME NEW b \in Nat, clapNow \in Nat, recentTransients \in Claps(clapNow + b),
         NEW n \in Nat, n <= b, NEW chunk \in [1 .. n -> BOOLEAN]
  PROVE  Noted(chunk) \in Claps(clapNow + b)
<1> DEFINE S == Claps(clapNow + b)
           more(got, k) == IF IsOnset(chunk, k) THEN Note(got, clapNow + k - 1) ELSE got
           Rec(f) == [k \in 0 .. n |-> IF k = 0 THEN recentTransients ELSE more(f[k - 1], k)]
           after == CHOOSE f : f = Rec(f)
           step == [k \in Nat |-> [got \in S |-> IF k \in 1 .. n THEN more(got, k) ELSE got]]
<1>0. Len(chunk) = n
  OBVIOUS
<1>1. Noted(chunk) = after[n]
  <2>1. Noted(chunk) = (CHOOSE f : f = [i \in 0 .. Len(chunk) |->
                          IF i = 0 THEN recentTransients
                          ELSE IF IsOnset(chunk, i) THEN Note(f[i - 1], clapNow + i - 1) ELSE f[i - 1]])[Len(chunk)]
    BY Zenon DEF Noted
  <2> QED
    BY <1>0, <2>1, Zenon
<1>3. ASSUME NEW got \in S, NEW k \in 1 .. n
      PROVE  more(got, k) \in S
  <2>1. clapNow + k - 1 \in Nat /\ clapNow + k - 1 < clapNow + b /\ clapNow + b \in Nat
    OBVIOUS
  <2>2. Note(got, clapNow + k - 1) \in S
    BY <2>1, NoteKeeps
  <2> QED
    BY <2>2
<1>4. recentTransients \in S
  OBVIOUS
<1> HIDE DEF S, more
<1>5. step \in [Nat -> [S -> S]]
  BY <1>3
<1>6. PICK f : Recursion(S, f, recentTransients, step, n)
  <2> HIDE DEF step
  <2> QED
    BY <1>4, <1>5, RecursionExists
<1>7. f \in [0 .. n -> S]
  BY <1>6 DEF Recursion
<1>8. ASSUME NEW k \in 0 .. n
      PROVE  f[k] = IF k = 0 THEN recentTransients ELSE more(f[k - 1], k)
  <2>1. CASE k = 0
    BY <1>6, <2>1 DEF Recursion
  <2>2. CASE k # 0
    <3>1. k \in Nat /\ k \in 1 .. n /\ k - 1 \in 0 .. n
      BY <2>2
    <3>2. f[k - 1] \in S
      BY <1>7, <3>1
    <3>3. step[k][f[k - 1]] = more(f[k - 1], k)
      BY <3>1, <3>2
    <3>4. f[k] = step[k][f[k - 1]]
      BY <1>6, <2>2 DEF Recursion
    <3> QED
      BY <2>2, <3>3, <3>4
  <2> QED
    BY <2>1, <2>2
<1>9. f = Rec(f)
  BY <1>7, <1>8
<1>10. after = Rec(after)
  <2> HIDE DEF Rec
  <2> QED
    BY <1>9, Zenon
<1>11. \A k \in 0 .. n : after[k] = IF k = 0 THEN recentTransients ELSE more(after[k - 1], k)
  <2> HIDE DEF after
  <2> QED
    BY <1>10
<1> HIDE DEF after, step
<1> DEFINE T == {k \in Nat : k \in 0 .. n => after[k] \in S}
<1>13. 0 \in T
  <2>1. 0 \in 0 .. n
    OBVIOUS
  <2> QED
    BY <1>4, <1>11, <2>1
<1>14. ASSUME NEW k \in Nat, k \in T
       PROVE  k + 1 \in T
  <2> SUFFICES ASSUME k + 1 \in 0 .. n PROVE after[k + 1] \in S
    OBVIOUS
  <2>1. k \in 0 .. n /\ after[k] \in S /\ k + 1 # 0 /\ (k + 1) - 1 = k /\ k + 1 \in 1 .. n
    BY <1>14
  <2>2. after[k + 1] = more(after[k], k + 1)
    BY <1>11, <2>1
  <2> QED
    BY <1>3, <2>1, <2>2
<1> HIDE DEF T
<1>15. n \in T
  BY <1>13, <1>14, SetInduction
<1>16. after[n] \in S
  BY <1>15 DEF T
<1> QED
  BY <1>1, <1>16 DEF S

\* What is left of the claps in the window.
LEMMA WindowKept ==
  ASSUME NEW end \in Nat, NEW times \in Claps(end), clapNow \in Nat
  PROVE  /\ InWindow(times) \in Claps(end)
         /\ \A i \in DOMAIN InWindow(times) : InWindow(times)[i] > clapNow - PatternWindow
<1> DEFINE places == {i \in DOMAIN times : times[i] > clapNow - PatternWindow}
           rest == InWindow(times)
<1>1. /\ times \in Seq(Nat) /\ \A i, j \in DOMAIN times : i < j => times[j] - times[i] > MinGap
      /\ \A i \in DOMAIN times : times[i] < end
  BY DEF Claps
<1>2. rest \in Seq(Nat) /\ \E e : Picks(rest, e, times, places, Len(times))
  <2>1. rest = Filtered(times, places)
    BY DEF InWindow
  <2> HIDE DEF rest, places
  <2> QED
    BY <1>1, <2>1, FilterPicks
<1>3. PICK e : Picks(rest, e, times, places, Len(times))
  BY <1>2
<1> HIDE DEF rest
<1>4. /\ \A i \in DOMAIN rest : e[i] \in DOMAIN times /\ e[i] \in places /\ rest[i] = times[e[i]]
      /\ \A i, j \in DOMAIN rest : i < j => e[i] < e[j]
  <2> HIDE DEF places
  <2>1. DOMAIN rest = 1 .. Len(rest) /\ DOMAIN times = 1 .. Len(times)
    BY <1>1, <1>2
  <2>2. /\ e \in [DOMAIN rest -> DOMAIN times]
        /\ \A i \in DOMAIN rest : e[i] \in places /\ rest[i] = times[e[i]]
        /\ \A i, j \in DOMAIN rest : i < j => e[i] < e[j]
    BY <1>3, <2>1, Zenon DEF Picks
  <2> QED
    BY <2>2, Zenon
<1>5. ASSUME NEW i \in DOMAIN rest, NEW j \in DOMAIN rest, i < j
      PROVE  rest[j] - rest[i] > MinGap
  <2>1. e[i] < e[j] /\ e[i] \in DOMAIN times /\ e[j] \in DOMAIN times /\ rest[i] = times[e[i]] /\ rest[j] = times[e[j]]
    BY <1>4, <1>5
  <2> QED
    BY <1>1, <2>1
<1>6. ASSUME NEW i \in DOMAIN rest
      PROVE  rest[i] < end /\ rest[i] > clapNow - PatternWindow
  BY <1>1, <1>4
<1>7. rest \in Claps(end)
  BY <1>2, <1>5, <1>6 DEF Claps
<1> QED
  BY <1>6, <1>7 DEF rest

LEMMA ChunkKeeps == ASSUME ClapsKept, ProcessChunk PROVE ClapsKept'
<1>0. PICK n \in ChunkSizes : \E chunk \in [1 .. n -> BOOLEAN] :
        LET times == InWindow(Noted(chunk)) IN
        /\ IF Len(times) >= Required /\ clapNow - lastActivationAt > Cooldown
           THEN /\ lastActivationAt' = clapNow /\ recentTransients' = <<>>
                /\ claim' = times /\ restedFor' = clapNow - lastActivationAt
           ELSE recentTransients' = times /\ UNCHANGED <<lastActivationAt, claim, restedFor>>
        /\ clapNow' \in {clapNow, clapNow + n}
  BY DEF ProcessChunk
<1>1. PICK chunk \in [1 .. n -> BOOLEAN] :
        LET times == InWindow(Noted(chunk)) IN
        /\ IF Len(times) >= Required /\ clapNow - lastActivationAt > Cooldown
           THEN /\ lastActivationAt' = clapNow /\ recentTransients' = <<>>
                /\ claim' = times /\ restedFor' = clapNow - lastActivationAt
           ELSE recentTransients' = times /\ UNCHANGED <<lastActivationAt, claim, restedFor>>
        /\ clapNow' \in {clapNow, clapNow + n}
  BY <1>0
<1>2. PICK m \in ChunkSizes : recentTransients \in Claps(clapNow + m)
  <2>1. \A end : <<>> \in Claps(end)
    BY DEF Claps
  <2> QED
    BY <1>0, <2>1 DEF ClapsKept
<1>3. n \in Nat \ {0} /\ m \in Nat \ {0} /\ clapNow \in Nat /\ lastActivationAt \in Int
  BY ClapNumbers DEF ClapsKept
<1>4. PICK b \in ChunkSizes : b \in Nat \ {0} /\ n <= b /\ m <= b
  <2>1. CASE n <= m
    BY <1>3, <2>1
  <2>2. CASE ~(n <= m)
    BY <1>3, <2>2
  <2> QED
    BY <2>1, <2>2
<1>5. ASSUME NEW a \in Nat, NEW c \in Nat, a <= c
      PROVE  Claps(a) \subseteq Claps(c)
  BY <1>5 DEF Claps
<1>6. recentTransients \in Claps(clapNow + b)
  <2>1. clapNow + m \in Nat /\ clapNow + b \in Nat /\ clapNow + m <= clapNow + b
    BY <1>3, <1>4
  <2> QED
    BY <1>2, <1>5, <2>1
<1> DEFINE times == InWindow(Noted(chunk))
<1>7. times \in Claps(clapNow + b) /\ \A i \in DOMAIN times : times[i] > clapNow - PatternWindow
  <2>1. clapNow + b \in Nat
    BY <1>3, <1>4
  <2>2. Noted(chunk) \in Claps(clapNow + b)
    BY <1>3, <1>4, <1>6, ChunkNoted
  <2> QED
    BY <1>3, <2>1, <2>2, WindowKept
<1> HIDE DEF times
<1>8. times \in Seq(Nat) /\ Len(times) \in Nat
  BY <1>7 DEF Claps
<1>9. clapNow' \in Nat /\ clapNow <= clapNow'
  <2>1. clapNow' \in {clapNow, clapNow + n}
    BY <1>1, Zenon
  <2> QED
    BY <1>3, <2>1
<1>10. \A end \in Nat : <<>> \in Claps(end)
  <2>1. \A i \in DOMAIN <<>> : FALSE
    OBVIOUS
  <2> QED
    BY <2>1 DEF Claps
<1>11. recentTransients' \in Claps(clapNow' + b)
  <2>1. clapNow + b \in Nat /\ clapNow' + b \in Nat /\ clapNow + b <= clapNow' + b
    <3>1. \A x, y, z \in Nat : x <= y => x + z \in Nat /\ y + z \in Nat /\ x + z <= y + z
      OBVIOUS
    <3>2. clapNow \in Nat /\ b \in Nat /\ clapNow' \in Nat /\ clapNow <= clapNow'
      BY <1>3, <1>4, <1>9
    <3> QED
      BY <3>1, <3>2, Zenon
  <2>2. recentTransients' = <<>> \/ recentTransients' = times
    BY <1>1 DEF times
  <2>3. Claps(clapNow + b) \subseteq Claps(clapNow' + b)
    BY <1>5, <2>1
  <2> QED
    BY <1>7, <1>10, <2>1, <2>2, <2>3
<1>12. lastActivationAt' \in Int /\ claim' \in Seq(Nat)
  BY <1>1, <1>3, <1>8 DEF ClapsKept, times
<1>13. ClapsByDefinition'
  <2>1. CASE Len(times) >= Required /\ clapNow - lastActivationAt > Cooldown
    <3>1. claim' = times /\ restedFor' = clapNow - lastActivationAt
      BY <1>1, <2>1 DEF times
    <3>2. \A i, j \in DOMAIN times : i < j => times[j] - times[i] > MinGap
      BY <1>7 DEF Claps
    <3>3. \A i \in 2 .. Len(times) : times[i] - times[i - 1] > MinGap
      <4> SUFFICES ASSUME NEW i \in 2 .. Len(times) PROVE times[i] - times[i - 1] > MinGap
        OBVIOUS
      <4>1. i \in DOMAIN times /\ i - 1 \in DOMAIN times /\ i - 1 < i
        BY <1>8
      <4> QED
        BY <3>2, <4>1
    <3>4. times # <<>> => times[Len(times)] - times[1] < PatternWindow + b
      <4> SUFFICES ASSUME times # <<>> PROVE times[Len(times)] - times[1] < PatternWindow + b
        OBVIOUS
      <4>1. 1 \in DOMAIN times /\ Len(times) \in DOMAIN times
        BY <1>8
      <4>2. times[Len(times)] < clapNow + b /\ times[1] > clapNow - PatternWindow
        BY <1>7, <4>1 DEF Claps
      <4>3. times[Len(times)] \in Nat /\ times[1] \in Nat /\ PatternWindow \in Nat
        BY <1>8, <4>1, ClapNumbers
      <4> QED
        BY <1>3, <1>4, <4>2, <4>3
    <3> QED
      BY <2>1, <3>1, <3>3, <3>4 DEF ClapsByDefinition
  <2>2. CASE ~(Len(times) >= Required /\ clapNow - lastActivationAt > Cooldown)
    <3>1. claim' = claim /\ restedFor' = restedFor
      BY <1>1, <2>2 DEF times
    <3> QED
      BY <3>1 DEF ClapsKept, ClapsByDefinition
  <2> QED
    BY <2>1, <2>2
<1> QED
  BY <1>9, <1>11, <1>12, <1>13 DEF ClapsKept

\* ClapDetector.processChunk, for chunks of any sizes that come in any bursts: a detected
\* pattern is Required claps or more, each more than MinGap after the one before and all of
\* one PatternWindow (and the chunk), and no pattern comes within Cooldown of the last.
THEOREM ClapsAsDefined == ClapSpec => []ClapsByDefinition
<1>1. ClapInit => ClapsKept
  <2> SUFFICES ASSUME ClapInit PROVE ClapsKept
    OBVIOUS
  <2>1. clapNow = 0 /\ recentTransients = <<>> /\ lastActivationAt = LongAgo /\ claim = <<>>
    BY DEF ClapInit
  <2>2. LongAgo \in Int
    BY ClapNumbers DEF LongAgo
  <2>4. ClapsByDefinition
    BY <2>1 DEF ClapsByDefinition
  <2> QED
    BY <2>1, <2>2, <2>4 DEF ClapsKept
<1>2. ClapsKept /\ [ClapNext]_clapVars => ClapsKept'
  <2> SUFFICES ASSUME ClapsKept, [ClapNext]_clapVars PROVE ClapsKept'
    OBVIOUS
  <2>1. CASE ProcessChunk
    BY <2>1, ChunkKeeps
  <2>2. CASE ClapTimePasses
    <3>1. clapNow' = clapNow + 1 /\ UNCHANGED <<recentTransients, lastActivationAt, claim, restedFor>>
      BY <2>2 DEF ClapTimePasses
    <3>2. ASSUME NEW n \in ChunkSizes, recentTransients \in Claps(clapNow + n)
          PROVE  recentTransients \in Claps(clapNow + 1 + n)
      <4>1. clapNow \in Nat /\ n \in Nat
        BY ClapNumbers DEF ClapsKept
      <4> QED
        BY <3>2, <4>1 DEF Claps
    <3> QED
      BY <3>1, <3>2 DEF ClapsKept, ClapsByDefinition
  <2>3. CASE UNCHANGED clapVars
    BY <2>3 DEF ClapsKept, ClapsByDefinition, clapVars
  <2> QED
    BY <2>1, <2>2, <2>3 DEF ClapNext
<1>3. ClapsKept => ClapsByDefinition
  BY DEF ClapsKept
<1> QED
  BY <1>1, <1>2, <1>3, PTL DEF ClapSpec

-----------------------------------------------------------------------------
(* Voice activity *)

LEMMA SegmenterNumbers ==
  /\ StartFrames \in Nat \ {0} /\ SilenceFrames \in Nat \ {0} /\ MinFrames \in Nat \ {0}
  /\ MaxHeard \in Nat \ {0}
  BY SegmenterAssumption DEF SegmenterAssumption

\* The frames that were speech; where utterances begin, and where silence ends one that began
\* somewhere, by these.
Loud(h) == {j \in DOMAIN h : h[j]}

StartsAt(n, L) == {i \in StartFrames .. n : \A j \in (i - StartFrames + 1) .. i : j \in L}

SilencesAt(n, L, from) ==
  {i \in (from + SilenceFrames) .. n : \A j \in (i - SilenceFrames + 1) .. i : j \notin L}

LEMMA LoudFrames ==
  ASSUME NEW h \in Seq(BOOLEAN)
  PROVE  /\ Loud(h) \subseteq 1 .. Len(h)
         /\ Append(h, TRUE) \in Seq(BOOLEAN) /\ Append(h, FALSE) \in Seq(BOOLEAN)
         /\ Len(Append(h, TRUE)) = Len(h) + 1 /\ Len(Append(h, FALSE)) = Len(h) + 1
         /\ Loud(Append(h, TRUE)) = Loud(h) \union {Len(h) + 1}
         /\ Loud(Append(h, FALSE)) = Loud(h)
<1>1. ASSUME NEW b \in BOOLEAN
      PROVE  /\ Append(h, b) \in Seq(BOOLEAN) /\ Len(Append(h, b)) = Len(h) + 1
             /\ Loud(Append(h, b)) = Loud(h) \union {i \in {Len(h) + 1} : b}
  <2> DEFINE g == Append(h, b)
  <2>1. /\ g \in Seq(BOOLEAN) /\ Len(h) \in Nat /\ Len(g) = Len(h) + 1
        /\ DOMAIN g = 1 .. Len(h) + 1 /\ DOMAIN h = 1 .. Len(h)
        /\ \A i \in DOMAIN h : g[i] = h[i]
        /\ g[Len(h) + 1] = b
    BY AppendedAt
  <2> HIDE DEF g
  <2>2. DOMAIN g = DOMAIN h \union {Len(h) + 1}
    BY <2>1
  <2>3. Loud(g) = Loud(h) \union {i \in {Len(h) + 1} : b}
    BY <2>1, <2>2, Zenon DEF Loud
  <2> QED
    BY <2>1, <2>3 DEF g
<1>2. Loud(h) \subseteq 1 .. Len(h)
  BY DEF Loud
<1>3. {i \in {Len(h) + 1} : TRUE} = {Len(h) + 1} /\ {i \in {Len(h) + 1} : FALSE} = {}
  BY Zenon
<1> QED
  BY <1>1, <1>2, <1>3

\* The definitions of the property, by these.
LEMMA StartsByFrames ==
  ASSUME heard \in Seq(BOOLEAN)
  PROVE  /\ Starts = StartsAt(Len(heard), Loud(heard))
         /\ \A from \in Nat : Silences(from) = SilencesAt(Len(heard), Loud(heard), from)
<1>1. Len(heard) \in Nat /\ DOMAIN heard = 1 .. Len(heard)
  OBVIOUS
<1>2. \A j \in 1 .. Len(heard) : heard[j] <=> j \in Loud(heard)
  BY <1>1, Zenon DEF Loud
<1>3. ASSUME NEW i \in StartFrames .. Len(heard), NEW j \in (i - StartFrames + 1) .. i
      PROVE  j \in 1 .. Len(heard)
  BY <1>1, SegmenterNumbers
<1>4. ASSUME NEW from \in Nat, NEW i \in (from + SilenceFrames) .. Len(heard), NEW j \in (i - SilenceFrames + 1) .. i
      PROVE  j \in 1 .. Len(heard)
  BY <1>1, SegmenterNumbers
<1>5. Starts = StartsAt(Len(heard), Loud(heard))
  BY <1>2, <1>3, Zenon DEF Starts, StartsAt
<1>6. ASSUME NEW from \in Nat
      PROVE  Silences(from) = SilencesAt(Len(heard), Loud(heard), from)
  BY <1>2, <1>4, Zenon DEF Silences, SilencesAt
<1> QED
  BY <1>5, <1>6

\* The frame an utterance under way began with, when silence has lasted for so long.
BeganAt(s, n, L, quiet, count) ==
  /\ s \in StartsAt(n, L) /\ \A i \in StartsAt(n, L) : s <= i
  /\ count = n - s + 1
  /\ quiet <= n - s /\ quiet < SilenceFrames
  /\ \A j \in (n - quiet + 1) .. n : j \notin L
  /\ n - quiet \in L
  /\ SilencesAt(n, L, s) = {}

\* The counters, of n frames of which those in L were speech: the trailing run of speech, that
\* of silence and the frames collected while someone speaks.
CountersTell(n, L, run, quiet, on, count) ==
  /\ n \in Nat /\ L \in SUBSET (1 .. n) /\ run \in 0 .. n /\ quiet \in Nat /\ on \in BOOLEAN
  /\ \A j \in (n - run + 1) .. n : j \in L
  /\ n - run \notin L
  /\ on => \E s \in 1 .. n : BeganAt(s, n, L, quiet, count)
  /\ ~on => StartsAt(n, L) = {} /\ count = 0

LEMMA StartsGrow ==
  ASSUME NEW n \in Nat, NEW L \in SUBSET (1 .. n), NEW run \in 0 .. n,
         \A j \in (n - run + 1) .. n : j \in L, n - run \notin L
  PROVE  /\ StartsAt(n + 1, L \union {n + 1}) =
              StartsAt(n, L) \union {i \in {n + 1} : run + 1 >= StartFrames}
         /\ StartsAt(n + 1, L) = StartsAt(n, L)
<1> USE SegmenterNumbers
<1>1. ASSUME NEW i \in Int
      PROVE  i \in StartsAt(n + 1, L \union {n + 1}) <=> i \in StartsAt(n, L) \/ (i = n + 1 /\ run + 1 >= StartFrames)
  <2>1. CASE i <= n
    <3>1. \A j \in (i - StartFrames + 1) .. i : j # n + 1
      BY <2>1
    <3> QED
      BY <2>1, <3>1 DEF StartsAt
  <2>2. CASE i = n + 1
    <3>1. i \notin StartsAt(n, L)
      BY <2>2 DEF StartsAt
    <3>2. ASSUME run + 1 >= StartFrames
          PROVE  i \in StartsAt(n + 1, L \union {n + 1})
      <4>1. i \in StartFrames .. n + 1
        BY <2>2, <3>2
      <4>2. ASSUME NEW j \in (i - StartFrames + 1) .. i
            PROVE  j \in L \union {n + 1}
        <5>1. j = n + 1 \/ j \in (n - run + 1) .. n
          BY <2>2, <3>2
        <5> QED
          BY <5>1
      <4> QED
        BY <4>1, <4>2 DEF StartsAt
    <3>3. ASSUME ~(run + 1 >= StartFrames)
          PROVE  i \notin StartsAt(n + 1, L \union {n + 1})
      <4>1. n - run \in (i - StartFrames + 1) .. i /\ n - run # n + 1
        BY <2>2, <3>3
      <4> QED
        BY <4>1 DEF StartsAt
    <3> QED
      BY <2>2, <3>1, <3>2, <3>3
  <2>3. CASE i > n + 1
    BY <2>3 DEF StartsAt
  <2> QED
    BY <2>1, <2>2, <2>3
<1>2. ASSUME NEW i \in Int
      PROVE  i \in StartsAt(n + 1, L) <=> i \in StartsAt(n, L)
  <2>1. CASE i <= n
    BY <2>1 DEF StartsAt
  <2>2. CASE i = n + 1
    <3>1. i \in (i - StartFrames + 1) .. i /\ i \notin L
      BY <2>2
    <3>2. i \notin StartsAt(n + 1, L)
      BY <3>1 DEF StartsAt
    <3>3. i \notin StartsAt(n, L)
      BY <2>2 DEF StartsAt
    <3> QED
      BY <3>2, <3>3
  <2>3. CASE i > n + 1
    BY <2>3 DEF StartsAt
  <2> QED
    BY <2>1, <2>2, <2>3
<1>3. StartsAt(n + 1, L \union {n + 1}) \subseteq Int /\ StartsAt(n, L) \subseteq Int /\ StartsAt(n + 1, L) \subseteq Int
  BY DEF StartsAt
<1>4. {i \in {n + 1} : run + 1 >= StartFrames} \subseteq Int
  OBVIOUS
<1> QED
  BY <1>1, <1>2, <1>3, <1>4

LEMMA SilencesGrow ==
  ASSUME NEW n \in Nat, NEW L \in SUBSET (1 .. n), NEW quiet \in Nat, NEW s \in 1 .. n,
         n - quiet \in L, quiet <= n - s, SilencesAt(n, L, s) = {}
  PROVE  /\ SilencesAt(n + 1, L \union {n + 1}, s) = {}
         /\ quiet + 1 < SilenceFrames => SilencesAt(n + 1, L, s) = {}
<1> USE SegmenterNumbers
<1>1. ASSUME NEW i \in SilencesAt(n + 1, L \union {n + 1}, s)
      PROVE  FALSE
  <2>1. i \in (s + SilenceFrames) .. n + 1 /\ \A j \in (i - SilenceFrames + 1) .. i : j \notin L \union {n + 1}
    BY DEF SilencesAt
  <2>2. i \in (i - SilenceFrames + 1) .. i
    BY <2>1
  <2>3. i # n + 1
    BY <2>1, <2>2
  <2>4. i \in SilencesAt(n, L, s)
    BY <2>1, <2>3 DEF SilencesAt
  <2> QED
    BY <2>4
<1>2. ASSUME quiet + 1 < SilenceFrames, NEW i \in SilencesAt(n + 1, L, s)
      PROVE  FALSE
  <2>1. i \in (s + SilenceFrames) .. n + 1 /\ \A j \in (i - SilenceFrames + 1) .. i : j \notin L
    BY DEF SilencesAt
  <2>2. CASE i = n + 1
    <3>1. n - quiet \in (i - SilenceFrames + 1) .. i
      BY <1>2, <2>2
    <3> QED
      BY <2>1, <3>1
  <2>3. CASE i # n + 1
    <3>1. i \in SilencesAt(n, L, s)
      BY <2>1, <2>3 DEF SilencesAt
    <3> QED
      BY <3>1
  <2> QED
    BY <2>2, <2>3
<1> QED
  BY <1>1, <1>2

\* A frame of speech.
LEMMA SpeechTells ==
  ASSUME NEW n, NEW L, NEW run, NEW quiet, NEW on, NEW count, CountersTell(n, L, run, quiet, on, count),
         NEW now \in BOOLEAN, now <=> (on \/ run + 1 >= StartFrames)
  PROVE  CountersTell(n + 1, L \union {n + 1}, run + 1, 0, now, IF now THEN count + 1 ELSE count)
<1> DEFINE M == L \union {n + 1}
           next == IF now THEN count + 1 ELSE count
<1>1. /\ n \in Nat /\ L \in SUBSET (1 .. n) /\ run \in 0 .. n /\ quiet \in Nat /\ on \in BOOLEAN
      /\ \A j \in (n - run + 1) .. n : j \in L
      /\ n - run \notin L
  BY DEF CountersTell
<1>3. StartsAt(n + 1, M) = StartsAt(n, L) \union {i \in {n + 1} : run + 1 >= StartFrames}
  BY <1>1, StartsGrow
<1>4. /\ n + 1 \in Nat /\ M \in SUBSET (1 .. n + 1) /\ run + 1 \in 0 .. n + 1 /\ 0 \in Nat
      /\ (n + 1) - (run + 1) = n - run /\ n - run # n + 1
      /\ \A j \in (n - run + 1) .. (n + 1) : j \in M
  BY <1>1
<1>5. n - run \notin M
  BY <1>1, <1>4
<1>6. ASSUME now
      PROVE  \E s \in 1 .. n + 1 : BeganAt(s, n + 1, M, 0, next)
  <2>1. CASE on
    <3>1. PICK s \in 1 .. n : BeganAt(s, n, L, quiet, count)
      BY <2>1 DEF CountersTell
    <3>2. /\ s \in StartsAt(n, L) /\ \A i \in StartsAt(n, L) : s <= i
          /\ count = n - s + 1 /\ quiet <= n - s /\ n - quiet \in L /\ SilencesAt(n, L, s) = {}
      BY <3>1 DEF BeganAt
    <3>3. s \in StartsAt(n + 1, M) /\ \A i \in StartsAt(n + 1, M) : s <= i
      <4>1. s <= n + 1
        BY <1>1
      <4> QED
        BY <1>3, <3>2, <4>1
    <3>4. next = (n + 1) - s + 1
      BY <1>1, <1>6, <3>2
    <3>5. SilencesAt(n + 1, M, s) = {}
      BY <1>1, <3>2, SilencesGrow
    <3>6. /\ 0 <= (n + 1) - s /\ 0 < SilenceFrames /\ (n + 1) - 0 \in M
          /\ \A j \in ((n + 1) - 0 + 1) .. (n + 1) : j \notin M
      BY <1>1, SegmenterNumbers
    <3> HIDE DEF M, next
    <3> QED
      BY <1>1, <3>3, <3>4, <3>5, <3>6 DEF BeganAt
  <2>2. CASE ~on
    <3>1. StartsAt(n, L) = {} /\ count = 0 /\ run + 1 >= StartFrames
      BY <1>6, <2>2 DEF CountersTell
    <3>2. StartsAt(n + 1, M) = {n + 1}
      BY <1>3, <3>1
    <3>3. next = (n + 1) - (n + 1) + 1
      BY <1>1, <1>6, <3>1
    <3>4. SilencesAt(n + 1, M, n + 1) = {}
      BY <1>1, SegmenterNumbers DEF SilencesAt
    <3>5. /\ 0 <= (n + 1) - (n + 1) /\ 0 < SilenceFrames /\ (n + 1) - 0 \in M /\ n + 1 <= n + 1
          /\ \A j \in ((n + 1) - 0 + 1) .. (n + 1) : j \notin M
      BY <1>1, SegmenterNumbers
    <3>6. n + 1 \in 1 .. n + 1
      BY <1>1
    <3> HIDE DEF M, next
    <3>7. BeganAt(n + 1, n + 1, M, 0, next)
      BY <1>1, <3>2, <3>3, <3>4, <3>5 DEF BeganAt
    <3> QED
      BY <3>6, <3>7
  <2> QED
    BY <1>1, <2>1, <2>2
<1>7. ASSUME ~now
      PROVE  StartsAt(n + 1, M) = {} /\ next = 0
  <2>1. ~on /\ ~(run + 1 >= StartFrames)
    BY <1>7
  <2> QED
    BY <1>3, <1>7, <2>1 DEF CountersTell
<1> HIDE DEF M, next
<1>8. \A j \in ((n + 1) - (run + 1) + 1) .. (n + 1) : j \in M
  BY <1>4
<1>9. (n + 1) - (run + 1) \notin M
  BY <1>4, <1>5
<1>10. CountersTell(n + 1, M, run + 1, 0, now, next)
  BY <1>4, <1>6, <1>7, <1>8, <1>9, Zenon DEF CountersTell
<1> QED
  BY <1>10 DEF M, next

LEMMA SpeechDecides ==
  ASSUME NEW n, NEW L, NEW run, NEW quiet, NEW on, NEW count, CountersTell(n, L, run, quiet, on, count)
  PROVE  /\ (on \/ run + 1 >= StartFrames) => CountersTell(n + 1, L \union {n + 1}, run + 1, 0, TRUE, count + 1)
         /\ ~(on \/ run + 1 >= StartFrames) => CountersTell(n + 1, L \union {n + 1}, run + 1, 0, on, count)
<1>1. ASSUME NEW now \in BOOLEAN, now <=> (on \/ run + 1 >= StartFrames)
      PROVE  CountersTell(n + 1, L \union {n + 1}, run + 1, 0, now, IF now THEN count + 1 ELSE count)
  BY <1>1, SpeechTells
<1>2. ASSUME on \/ run + 1 >= StartFrames
      PROVE  CountersTell(n + 1, L \union {n + 1}, run + 1, 0, TRUE, count + 1)
  <2>1. CountersTell(n + 1, L \union {n + 1}, run + 1, 0, TRUE, IF TRUE THEN count + 1 ELSE count)
    BY <1>1, <1>2
  <2> QED
    BY <2>1, Zenon
<1>3. ASSUME ~(on \/ run + 1 >= StartFrames)
      PROVE  CountersTell(n + 1, L \union {n + 1}, run + 1, 0, on, count)
  <2>1. on \in BOOLEAN
    BY DEF CountersTell
  <2>2. on <=> (on \/ run + 1 >= StartFrames)
    BY <1>3
  <2>3. CountersTell(n + 1, L \union {n + 1}, run + 1, 0, on, IF on THEN count + 1 ELSE count)
    BY <1>1, <2>1, <2>2, Zenon
  <2> QED
    BY <1>3, <2>3, Zenon
<1> QED
  BY <1>2, <1>3

\* A silent frame that does not end an utterance.
LEMMA SilenceTells ==
  ASSUME NEW n, NEW L, NEW run, NEW quiet, NEW on, NEW count, CountersTell(n, L, run, quiet, on, count),
         NEW later \in Nat, on => later = quiet + 1 /\ later < SilenceFrames
  PROVE  CountersTell(n + 1, L, 0, later, on, IF on THEN count + 1 ELSE count)
<1> DEFINE next == IF on THEN count + 1 ELSE count
<1>1. /\ n \in Nat /\ L \in SUBSET (1 .. n) /\ run \in 0 .. n /\ quiet \in Nat /\ on \in BOOLEAN
      /\ \A j \in (n - run + 1) .. n : j \in L
      /\ n - run \notin L
  BY DEF CountersTell
<1>2. StartsAt(n + 1, L) = StartsAt(n, L)
  BY <1>1, StartsGrow
<1>3. /\ n + 1 \in Nat /\ L \in SUBSET (1 .. n + 1) /\ 0 \in 0 .. n + 1
      /\ \A j \in ((n + 1) - 0 + 1) .. (n + 1) : j \in L
      /\ (n + 1) - 0 \notin L
  BY <1>1
<1>4. ASSUME on
      PROVE  \E s \in 1 .. n + 1 : BeganAt(s, n + 1, L, later, next)
  <2>1. PICK s \in 1 .. n : BeganAt(s, n, L, quiet, count)
    BY <1>4 DEF CountersTell
  <2>2. /\ s \in StartsAt(n, L) /\ \A i \in StartsAt(n, L) : s <= i
        /\ count = n - s + 1 /\ quiet <= n - s /\ n - quiet \in L /\ SilencesAt(n, L, s) = {}
        /\ \A j \in (n - quiet + 1) .. n : j \notin L
    BY <2>1 DEF BeganAt
  <2>3. next = (n + 1) - s + 1 /\ s \in 1 .. n + 1
    BY <1>1, <1>4, <2>2
  <2>4. later <= (n + 1) - s /\ later < SilenceFrames /\ (n + 1) - later = n - quiet
    BY <1>1, <1>4, <2>2
  <2>5. \A j \in ((n + 1) - later + 1) .. (n + 1) : j \notin L
    BY <1>1, <1>3, <2>2, <2>4
  <2>6. SilencesAt(n + 1, L, s) = {}
    <3>1. quiet + 1 < SilenceFrames
      BY <1>4
    <3> QED
      BY <1>1, <2>2, <3>1, SilencesGrow
  <2> HIDE DEF next
  <2>7. BeganAt(s, n + 1, L, later, next)
    BY <1>2, <2>2, <2>3, <2>4, <2>5, <2>6 DEF BeganAt
  <2> QED
    BY <2>3, <2>7
<1>5. ~on => StartsAt(n + 1, L) = {} /\ next = 0
  BY <1>2 DEF CountersTell
<1> HIDE DEF next
<1>6. CountersTell(n + 1, L, 0, later, on, next)
  BY <1>1, <1>3, <1>4, <1>5, Zenon DEF CountersTell
<1> QED
  BY <1>6 DEF next

\* The inductive invariant of voice activity detection.
SegmentsKept ==
  /\ heard \in Seq(BOOLEAN)
  /\ CountersTell(Len(heard), Loud(heard), speechRun, silenceRun, speaking, frames)
  /\ event.kind = "discarded" /\ SilenceFrames >= MinFrames => event.forced

LEMMA NothingHeard ==
  ASSUME NEW quiet \in Nat
  PROVE  CountersTell(Len(<<>>), Loud(<<>>), 0, quiet, FALSE, 0)
<1>1. Len(<<>>) = 0 /\ Loud(<<>>) = {}
  BY DEF Loud
<1>2. StartsAt(0, {}) = {}
  BY SegmenterNumbers DEF StartsAt
<1>3. /\ 0 \in Nat /\ {} \in SUBSET (1 .. 0) /\ 0 \in 0 .. 0
      /\ \A j \in (0 - 0 + 1) .. 0 : j \in {}
      /\ 0 - 0 \notin {}
  OBVIOUS
<1> QED
  BY <1>1, <1>2, <1>3 DEF CountersTell

\* Counters that tell say what the definition says.
LEMMA CountersDefine == SegmentsKept => SegmentsByDefinition
<1> SUFFICES ASSUME SegmentsKept PROVE SegmentsByDefinition
  OBVIOUS
<1> DEFINE n == Len(heard)
           L == Loud(heard)
<1>1. heard \in Seq(BOOLEAN) /\ CountersTell(n, L, speechRun, silenceRun, speaking, frames)
  BY DEF SegmentsKept
<1>2. Starts = StartsAt(n, L) /\ \A from \in Nat : Silences(from) = SilencesAt(n, L, from)
  BY <1>1, StartsByFrames
<1> HIDE DEF n, L
<1>3. n \in Nat /\ speaking \in BOOLEAN
  BY <1>1 DEF CountersTell
<1>6. event.kind = "discarded" /\ SilenceFrames >= MinFrames => event.forced
  BY Zenon DEF SegmentsKept
<1>4. CASE speaking
  <2>1. PICK s \in 1 .. n : BeganAt(s, n, L, silenceRun, frames)
    BY <1>1, <1>4 DEF CountersTell
  <2>2. /\ s \in Starts /\ \A i \in Starts : s <= i
        /\ frames = n - s + 1 /\ SilencesAt(n, L, s) = {}
    BY <1>2, <2>1 DEF BeganAt
  <2>3. Starts \subseteq Int
    BY <1>2 DEF StartsAt
  <2>4. Min(Starts) = s
    <3>1. \A x \in Starts : (\A y \in Starts : x <= y) => x = s
      BY <2>2, <2>3
    <3>2. Min(Starts) \in Starts /\ \A y \in Starts : Min(Starts) <= y
      BY <2>2, Zenon DEF Min
    <3> QED
      BY <3>1, <3>2
  <2>5. Silences(s) = {}
    BY <1>2, <2>2
  <2>6. Starts # {} /\ Len(heard) = n
    BY <2>2 DEF n
  <2>7. speaking = (Starts # {})
    BY <1>3, <1>4, <2>6
  <2>8. frames = IF Starts = {} THEN 0 ELSE Len(heard) - Min(Starts) + 1
    BY <2>2, <2>4, <2>6
  <2>9. Starts # {} => Silences(Min(Starts)) = {}
    BY <2>4, <2>5
  <2> QED
    BY <1>6, <2>7, <2>8, <2>9 DEF SegmentsByDefinition
<1>5. CASE ~speaking
  <2>1. Starts = {} /\ frames = 0
    BY <1>1, <1>2, <1>5 DEF CountersTell
  <2>2. speaking = (Starts # {})
    BY <1>3, <1>5, <2>1
  <2>3. frames = IF Starts = {} THEN 0 ELSE Len(heard) - Min(Starts) + 1
    BY <2>1
  <2> QED
    BY <1>6, <2>1, <2>2, <2>3 DEF SegmentsByDefinition
<1> QED
  BY <1>3, <1>4, <1>5

LEMMA FrameKeeps == ASSUME SegmentsKept, ProcessFrame PROVE SegmentsKept'
<1> DEFINE n == Len(heard)
           L == Loud(heard)
<1>1. heard \in Seq(BOOLEAN) /\ CountersTell(n, L, speechRun, silenceRun, speaking, frames)
  BY DEF SegmentsKept
<1>2. speaking \in BOOLEAN /\ silenceRun \in Nat
  BY <1>1 DEF CountersTell
<1>3. SpeechFrame \/ SilentFrame
  BY DEF ProcessFrame
<1>4. CASE SpeechFrame
  <2>1. /\ heard' = Append(heard, TRUE) /\ speechRun' = speechRun + 1 /\ silenceRun' = 0
        /\ speaking' = (speaking \/ speechRun + 1 >= StartFrames)
        /\ frames' = (IF speaking' THEN frames + 1 ELSE frames) /\ event' = event
    BY <1>4 DEF SpeechFrame
  <2>2. heard' \in Seq(BOOLEAN) /\ Len(heard') = n + 1 /\ Loud(heard') = L \union {n + 1}
    BY <1>1, <2>1, LoudFrames
  <2> HIDE DEF n, L
  <2>3. CASE speaking \/ speechRun + 1 >= StartFrames
    <3>1. CountersTell(n + 1, L \union {n + 1}, speechRun + 1, 0, TRUE, frames + 1)
      BY <1>1, <2>3, SpeechDecides
    <3>2. speaking' = TRUE
      BY <2>1, <2>3, Zenon
    <3>3. frames' = frames + 1
      BY <2>1, <3>2, Zenon
    <3>4. CountersTell(Len(heard'), Loud(heard'), speechRun', silenceRun', speaking', frames')
      BY <2>1, <2>2, <3>1, <3>2, <3>3, Zenon
    <3> QED
      BY <2>1, <2>2, <3>4 DEF SegmentsKept
  <2>4. CASE ~(speaking \/ speechRun + 1 >= StartFrames)
    <3>1. CountersTell(n + 1, L \union {n + 1}, speechRun + 1, 0, speaking, frames)
      BY <1>1, <2>4, SpeechDecides
    <3>2. speaking' = FALSE
      BY <2>1, <2>4, Zenon
    <3>3. frames' = frames
      BY <2>1, <3>2, Zenon
    <3>5. speaking = FALSE
      BY <1>2, <2>4
    <3>4. CountersTell(Len(heard'), Loud(heard'), speechRun', silenceRun', speaking', frames')
      BY <2>1, <2>2, <3>1, <3>2, <3>3, <3>5, Zenon
    <3> QED
      BY <2>1, <2>2, <3>4 DEF SegmentsKept
  <2> QED
    BY <2>3, <2>4
<1>5. CASE SilentFrame
  <2>1. speechRun' = 0
    BY <1>5 DEF SilentFrame
  <2>2. CASE speaking /\ silenceRun + 1 >= SilenceFrames
    <3>1. /\ silenceRun' = silenceRun + 1 /\ speaking' = FALSE /\ frames' = 0 /\ heard' = <<>>
          /\ event' = [kind |-> IF frames + 1 >= MinFrames THEN "end" ELSE "discarded", length |-> frames + 1,
                       forced |-> FALSE]
      BY <1>5, <2>2 DEF SilentFrame, Ends
    <3>2. PICK s \in 1 .. n : BeganAt(s, n, L, silenceRun, frames)
      BY <1>1, <2>2 DEF CountersTell
    <3>3. frames = n - s + 1 /\ silenceRun <= n - s /\ n \in Nat
      BY <1>1, <3>2 DEF BeganAt
    <3>4. SilenceFrames >= MinFrames => frames + 1 >= MinFrames
      <4> HIDE DEF n
      <4> QED
        BY <1>2, <2>2, <3>3, SegmenterNumbers
    <3>5. event'.kind = "discarded" /\ SilenceFrames >= MinFrames => event'.forced
      BY <3>1, <3>4
    <3>6. silenceRun + 1 \in Nat
      BY <1>2
    <3>7. CountersTell(Len(<<>>), Loud(<<>>), 0, silenceRun + 1, FALSE, 0)
      BY <3>6, NothingHeard
    <3>8. CountersTell(Len(heard'), Loud(heard'), speechRun', silenceRun', speaking', frames')
      BY <2>1, <3>1, <3>7, Zenon
    <3>9. heard' \in Seq(BOOLEAN)
      BY <3>1
    <3> QED
      BY <3>5, <3>8, <3>9 DEF SegmentsKept
  <2>3. CASE ~(speaking /\ silenceRun + 1 >= SilenceFrames)
    <3>1. /\ heard' = Append(heard, FALSE) /\ UNCHANGED <<speaking, event>>
          /\ silenceRun' = (IF speaking THEN silenceRun + 1 ELSE silenceRun)
          /\ frames' = (IF speaking THEN frames + 1 ELSE frames)
      BY <1>5, <2>3 DEF SilentFrame
    <3>2. heard' \in Seq(BOOLEAN) /\ Len(heard') = n + 1 /\ Loud(heard') = L
      BY <1>1, <3>1, LoudFrames
    <3> HIDE DEF n, L
    <3>3. PICK later : later = IF speaking THEN silenceRun + 1 ELSE silenceRun
      OBVIOUS
    <3>4. later \in Nat /\ (speaking => later = silenceRun + 1 /\ later < SilenceFrames)
      BY <1>2, <2>3, <3>3, SegmenterNumbers
    <3>5. CountersTell(n + 1, L, 0, later, speaking, IF speaking THEN frames + 1 ELSE frames)
      BY <1>1, <3>4, SilenceTells
    <3>6. CountersTell(Len(heard'), Loud(heard'), speechRun', silenceRun', speaking', frames')
      BY <2>1, <3>1, <3>2, <3>3, <3>5, Zenon
    <3> QED
      BY <3>1, <3>2, <3>6 DEF SegmentsKept
  <2> QED
    BY <2>2, <2>3
<1> QED
  BY <1>3, <1>4, <1>5

\* voice/vad.ts, for any energies and frame counts, button releases included: an utterance
\* begins with the first frame that makes StartFrames in a row, holds every frame since, is
\* still on while no SilenceFrames in a row came, and only a released button discards one.
THEOREM SegmentsAsDefined == SegmenterSpec => []SegmentsByDefinition
<1>1. SegmenterInit => SegmentsKept
  <2> SUFFICES ASSUME SegmenterInit PROVE SegmentsKept
    OBVIOUS
  <2>1. /\ speechRun = 0 /\ silenceRun = 0 /\ speaking = FALSE /\ frames = 0 /\ heard = <<>>
        /\ event.kind = "none"
    BY DEF SegmenterInit, NoEvent
  <2>2. CountersTell(Len(<<>>), Loud(<<>>), 0, 0, FALSE, 0)
    BY NothingHeard
  <2>3. CountersTell(Len(heard), Loud(heard), speechRun, silenceRun, speaking, frames)
    BY <2>1, <2>2, Zenon
  <2>4. heard \in Seq(BOOLEAN)
    BY <2>1
  <2> QED
    BY <2>1, <2>3, <2>4 DEF SegmentsKept
<1>2. SegmentsKept /\ [SegmenterNext]_segmenterVars => SegmentsKept'
  <2> SUFFICES ASSUME SegmentsKept, [SegmenterNext]_segmenterVars PROVE SegmentsKept'
    OBVIOUS
  <2>1. CASE ForceEnd
    <3>1. /\ speechRun' = 0 /\ silenceRun' = 0 /\ speaking' = FALSE /\ frames' = 0 /\ heard' = <<>>
          /\ event'.forced = TRUE
      BY <2>1 DEF ForceEnd, Ends
    <3>2. CountersTell(Len(<<>>), Loud(<<>>), 0, 0, FALSE, 0)
      BY NothingHeard
    <3>3. CountersTell(Len(heard'), Loud(heard'), speechRun', silenceRun', speaking', frames')
      BY <3>1, <3>2, Zenon
    <3>4. heard' \in Seq(BOOLEAN)
      BY <3>1
    <3> QED
      BY <3>1, <3>3, <3>4 DEF SegmentsKept
  <2>2. CASE UNCHANGED segmenterVars
    BY <2>2 DEF segmenterVars, SegmentsKept, Loud
  <2> QED
    BY <2>1, <2>2, FrameKeeps DEF SegmenterNext
<1> QED
  BY <1>1, <1>2, CountersDefine, PTL DEF SegmenterSpec

-----------------------------------------------------------------------------
(* The calculator's parentheses *)

\* The parentheses among the first n of some tokens.
PlacesOf(s, n, c) == {i \in 1 .. n : s[i] = c}
CountOf(s, n, c) == Cardinality(PlacesOf(s, n, c))

\* One token more.
LEMMA CountGrows ==
  ASSUME NEW s, NEW n \in Nat, NEW c
  PROVE  /\ CountOf(s, n, c) \in Nat /\ IsFiniteSet(PlacesOf(s, n, c))
         /\ CountOf(s, 0, c) = 0
         /\ CountOf(s, n + 1, c) = IF s[n + 1] = c THEN CountOf(s, n, c) + 1 ELSE CountOf(s, n, c)
         /\ CountOf(s, n, c) = 0 <=> \A i \in 1 .. n : s[i] # c
<1>1. IsFiniteSet(PlacesOf(s, n, c))
  <2>1. IsFiniteSet(1 .. n) /\ PlacesOf(s, n, c) \in SUBSET (1 .. n)
    BY FS_Interval DEF PlacesOf
  <2> QED
    BY <2>1, FS_Subset
<1>2. CountOf(s, n, c) \in Nat
  BY <1>1, FS_CardinalityType DEF CountOf
<1>3. CountOf(s, 0, c) = 0
  <2>1. PlacesOf(s, 0, c) = {}
    BY DEF PlacesOf
  <2> QED
    BY <2>1, FS_EmptySet DEF CountOf
<1>4. CountOf(s, n + 1, c) = IF s[n + 1] = c THEN CountOf(s, n, c) + 1 ELSE CountOf(s, n, c)
  <2>1. CASE s[n + 1] = c
    <3>1. PlacesOf(s, n + 1, c) = PlacesOf(s, n, c) \union {n + 1} /\ n + 1 \notin PlacesOf(s, n, c)
      BY <2>1 DEF PlacesOf
    <3> QED
      BY <1>1, <2>1, <3>1, FS_AddElement DEF CountOf
  <2>2. CASE s[n + 1] # c
    <3>1. PlacesOf(s, n + 1, c) = PlacesOf(s, n, c)
      BY <2>2 DEF PlacesOf
    <3> QED
      BY <2>2, <3>1 DEF CountOf
  <2> QED
    BY <2>1, <2>2
<1>5. CountOf(s, n, c) = 0 <=> PlacesOf(s, n, c) = {}
  BY <1>1, FS_EmptySet DEF CountOf
<1>6. PlacesOf(s, n, c) = {} <=> \A i \in 1 .. n : s[i] # c
  BY DEF PlacesOf
<1> QED
  BY <1>1, <1>2, <1>3, <1>4, <1>5, <1>6

\* Sequences with the same first n elements.
LEMMA CountSame ==
  ASSUME NEW s, NEW t, NEW n \in Nat, NEW c, \A i \in 1 .. n : s[i] = t[i]
  PROVE  CountOf(s, n, c) = CountOf(t, n, c)
<1>1. PlacesOf(s, n, c) = PlacesOf(t, n, c)
  BY DEF PlacesOf
<1> QED
  BY <1>1 DEF CountOf

\* Nothing of it between two places.
LEMMA CountStays ==
  ASSUME NEW s, NEW n \in Nat, NEW m \in 0 .. n, NEW c, \A i \in (m + 1) .. n : s[i] # c
  PROVE  CountOf(s, n, c) = CountOf(s, m, c)
<1>1. PlacesOf(s, n, c) = PlacesOf(s, m, c)
  BY DEF PlacesOf
<1> QED
  BY <1>1 DEF CountOf

\* The last of some places.
LEMMA LastIsThere ==
  ASSUME NEW n \in Nat, NEW places \in SUBSET (1 .. n)
  PROVE  /\ LastPlace(places) \in 0 .. n
         /\ LastPlace(places) # 0 => LastPlace(places) \in places
         /\ \A i \in (LastPlace(places) + 1) .. n : i \notin places
<1> DEFINE T == {d \in Nat : n - d \in places \union {0}}
<1>1. n \in T
  OBVIOUS
<1>2. PICK d \in T : \A x \in T : d <= x
  <2>1. T \in SUBSET Nat /\ T # {}
    BY <1>1
  <2> HIDE DEF T
  <2> QED
    BY <2>1, LeastNatural
<1>3. n - d \in places \union {0} /\ d \in Nat
  OBVIOUS
<1>4. ASSUME NEW x \in places \union {0}
      PROVE  x <= n - d
  <2>1. x \in Int /\ n - x \in Nat /\ n - (n - x) = x
    OBVIOUS
  <2>2. n - x \in T
    BY <2>1
  <2>3. d <= n - x
    BY <1>2, <2>2
  <2> QED
    BY <1>3, <2>1, <2>3
<1>5. \E x \in places \union {0} : \A y \in places \union {0} : x >= y
  <2>1. \A y \in places \union {0} : y \in Int /\ y <= n - d
    BY <1>4
  <2> QED
    BY <1>3, <2>1
<1>6. LastPlace(places) \in places \union {0} /\ \A y \in places \union {0} : LastPlace(places) >= y
  BY <1>5, Zenon DEF LastPlace, Max
<1> HIDE DEF T
<1> DEFINE last == LastPlace(places)
<1> HIDE DEF last
<1>7. last \in places \union {0} /\ \A y \in places : last >= y
  BY <1>6 DEF last
<1>8. last \in 0 .. n
  BY <1>7
<1>9. last # 0 => last \in places
  BY <1>7
<1>10. \A i \in (last + 1) .. n : i \notin places
  BY <1>7, <1>8
<1> QED
  BY <1>8, <1>9, <1>10 DEF last

\* The tokens of a tree.
Signs == Operators \union {"n", "-", "(", ")"}

\* What is written for a tree, by what is written for the trees under it.
WrittenOver(a, u, v) ==
  LET rank  == Precedence[a[1]]
      right == a[1] \in RightAssociative
  IN IF a = Number THEN <<"n">>
     ELSE IF Len(a) = 2 THEN <<"-">> \o Enclosed(u, Tightness(a[2]) < rank)
     ELSE Enclosed(u, Tightness(a[2]) < rank \/ (right /\ Tightness(a[2]) = rank))
          \o <<a[1]>> \o
          Enclosed(v, Tightness(a[3]) < rank \/ (~right /\ Tightness(a[3]) = rank))

LEMMA WrittenIsText ==
  ASSUME NEW a \in Trees, NEW u \in Seq(Signs), NEW v \in Seq(Signs)
  PROVE  WrittenOver(a, u, v) \in Seq(Signs)
<1>0. {"(", ")", "n", "-"} \subseteq Signs
  BY DEF Signs
<1>1. ASSUME NEW s \in Seq(Signs), NEW needed
      PROVE  Enclosed(s, needed) \in Seq(Signs)
  <2>1. <<"(">> \in Seq(Signs) /\ <<")">> \in Seq(Signs)
    BY <1>0
  <2>2. <<"(">> \o s \o <<")">> \in Seq(Signs)
    BY <2>1
  <2> QED
    BY <2>2 DEF Enclosed
<1>2. a = Number \/ (\E b \in Shallow : a = <<"u-", b>>) \/ (\E op \in Operators, b \in Shallow, c \in Shallow : a = <<op, b, c>>)
  BY DEF Trees, Over
<1>3. <<"n">> \in Seq(Signs) /\ <<"-">> \in Seq(Signs)
  BY <1>0
<1>4. CASE a = Number
  BY <1>3, <1>4 DEF WrittenOver
<1>5. ASSUME NEW b \in Shallow, a = <<"u-", b>>
      PROVE  WrittenOver(a, u, v) \in Seq(Signs)
  <2>1. Len(a) = 2
    BY <1>5
  <2> DEFINE x == Enclosed(u, Tightness(a[2]) < Precedence[a[1]])
  <2>2. x \in Seq(Signs)
    BY <1>1
  <2>3. WrittenOver(a, u, v) \in {<<"n">>, <<"-">> \o x}
    BY <2>1 DEF WrittenOver
  <2> HIDE DEF x
  <2>4. <<"-">> \o x \in Seq(Signs)
    BY <1>3, <2>2
  <2> QED
    BY <1>3, <2>3, <2>4, Zenon
<1>6. ASSUME NEW op \in Operators, NEW b \in Shallow, NEW c \in Shallow, a = <<op, b, c>>
      PROVE  WrittenOver(a, u, v) \in Seq(Signs)
  <2>1. Len(a) # 2 /\ a[1] = op /\ op \in Signs
    BY <1>6 DEF Signs
  <2> DEFINE x == Enclosed(u, Tightness(a[2]) < Precedence[a[1]] \/ (a[1] \in RightAssociative /\ Tightness(a[2]) = Precedence[a[1]]))
             y == Enclosed(v, Tightness(a[3]) < Precedence[a[1]] \/ (a[1] \notin RightAssociative /\ Tightness(a[3]) = Precedence[a[1]]))
  <2>2. x \in Seq(Signs) /\ y \in Seq(Signs)
    BY <1>1
  <2>3. WrittenOver(a, u, v) \in {<<"n">>, x \o <<a[1]>> \o y}
    BY <2>1 DEF WrittenOver
  <2> HIDE DEF x, y
  <2>4. <<a[1]>> \in Seq(Signs)
    BY <2>1
  <2>5. x \o <<a[1]>> \in Seq(Signs)
    BY <2>2, <2>4
  <2>6. x \o <<a[1]>> \o y \in Seq(Signs)
    BY <2>2, <2>5
  <2> QED
    BY <1>3, <2>3, <2>6, Zenon
<1> QED
  BY <1>2, <1>4, <1>5, <1>6

\* What is written is a sequence of tokens.
LEMMA TextOfTrees == \A a \in Trees : WrittenOut[a] \in Seq(Signs)
<1> DEFINE Rec(f) == [a \in Trees |-> WrittenOver(a, f[a[2]], f[a[3]])]
           G == [a \in Shallow |-> WrittenOver(a, <<"n">>, <<"n">>)]
           F == [a \in Trees |-> WrittenOver(a, G[a[2]], G[a[3]])]
<1>1. WrittenOut = CHOOSE f : f = Rec(f)
  BY Zenon DEF WrittenOut, WrittenOver
<1>2. /\ \A a \in Trees : a = Number \/ (\E b \in Shallow : a = <<"u-", b>>)
                          \/ (\E op \in Operators, b \in Shallow, c \in Shallow : a = <<op, b, c>>)
      /\ \A a \in Shallow : a = Number \/ a = <<"u-", Number>> \/ (\E op \in Operators : a = <<op, Number, Number>>)
      /\ Number \in Shallow
  BY DEF Trees, Shallow, Over
<1>3. Shallow \subseteq Trees
  BY DEF Trees, Shallow, Over
<1>4. \A u, v : WrittenOver(Number, u, v) = <<"n">>
  BY DEF WrittenOver
<1>5. ASSUME NEW b, NEW u, NEW v, NEW w
      PROVE  WrittenOver(<<"u-", b>>, u, v) = WrittenOver(<<"u-", b>>, u, w)
  <2>1. Len(<<"u-", b>>) = 2
    OBVIOUS
  <2> QED
    BY <2>1, Zenon DEF WrittenOver
<1>6. G[Number] = <<"n">>
  BY <1>2, <1>4
<1>7. ASSUME NEW a \in Shallow
      PROVE  F[a] = G[a]
  <2>0. F[a] = WrittenOver(a, G[a[2]], G[a[3]]) /\ G[a] = WrittenOver(a, <<"n">>, <<"n">>)
    BY <1>3
  <2> HIDE DEF F, G
  <2>1. CASE a = Number
    BY <1>4, <2>0, <2>1
  <2>2. CASE a = <<"u-", Number>>
    <3>1. a[2] = Number
      BY <2>2
    <3>2. WrittenOver(a, <<"n">>, G[a[3]]) = WrittenOver(a, <<"n">>, <<"n">>)
      BY <1>5, <2>2, Zenon
    <3> QED
      BY <1>6, <2>0, <3>1, <3>2
  <2>3. ASSUME NEW op \in Operators, a = <<op, Number, Number>>
        PROVE  F[a] = G[a]
    <3>1. a[2] = Number /\ a[3] = Number
      BY <2>3
    <3> QED
      BY <1>6, <2>0, <3>1
  <2> QED
    BY <1>2, <2>1, <2>2, <2>3
<1>8. ASSUME NEW a \in Trees
      PROVE  F[a] = WrittenOver(a, F[a[2]], F[a[3]])
  <2>0. F[a] = WrittenOver(a, G[a[2]], G[a[3]])
    OBVIOUS
  <2> HIDE DEF F, G
  <2>1. CASE a = Number
    BY <1>4, <2>0, <2>1
  <2>2. ASSUME NEW b \in Shallow, a = <<"u-", b>>
        PROVE  F[a] = WrittenOver(a, F[a[2]], F[a[3]])
    <3>1. a[2] = b
      BY <2>2
    <3>2. F[a[2]] = G[a[2]]
      BY <1>7, <3>1
    <3>3. WrittenOver(a, G[a[2]], G[a[3]]) = WrittenOver(a, G[a[2]], F[a[3]])
      BY <1>5, <2>2, Zenon
    <3> QED
      BY <2>0, <3>2, <3>3
  <2>3. ASSUME NEW op \in Operators, NEW b \in Shallow, NEW c \in Shallow, a = <<op, b, c>>
        PROVE  F[a] = WrittenOver(a, F[a[2]], F[a[3]])
    <3>1. a[2] = b /\ a[3] = c
      BY <2>3
    <3> QED
      BY <1>7, <2>0, <3>1
  <2> QED
    BY <1>2, <2>1, <2>2, <2>3
<1>9. F = Rec(F)
  <2>1. F = [a \in Trees |-> F[a]]
    OBVIOUS
  <2> HIDE DEF F
  <2> QED
    BY <1>8, <2>1
<1> HIDE DEF F
<1>10. WrittenOut = Rec(WrittenOut)
  <2> DEFINE W == CHOOSE f : f = Rec(f)
  <2>1. W = Rec(W)
    <3> HIDE DEF Rec
    <3> QED
      BY <1>9, Zenon
  <2> HIDE DEF Rec
  <2> QED
    BY <1>1, <2>1, Zenon
<1>11. \A a \in Trees : WrittenOut[a] = WrittenOver(a, WrittenOut[a[2]], WrittenOut[a[3]])
  BY <1>10
<1>12. WrittenOut[Number] = <<"n">> /\ <<"n">> \in Seq(Signs)
  <2>1. "n" \in Signs
    BY DEF Signs
  <2> QED
    BY <1>2, <1>3, <1>4, <1>11, <2>1
<1>13. ASSUME NEW a \in Shallow
       PROVE  WrittenOut[a] \in Seq(Signs)
  <2>1. CASE a = Number
    BY <1>12, <2>1
  <2>2. CASE a = <<"u-", Number>>
    <3>1. a[2] = Number /\ a \in Trees
      BY <1>3, <2>2
    <3>2. WrittenOut[a] = WrittenOver(a, <<"n">>, WrittenOut[a[3]])
      BY <1>11, <1>12, <3>1
    <3>3. WrittenOut[a] = WrittenOver(a, <<"n">>, <<"n">>)
      BY <1>5, <2>2, <3>2, Zenon
    <3> QED
      BY <1>12, <3>1, <3>3, WrittenIsText
  <2>3. ASSUME NEW op \in Operators, a = <<op, Number, Number>>
        PROVE  WrittenOut[a] \in Seq(Signs)
    <3>1. a[2] = Number /\ a[3] = Number /\ a \in Trees
      BY <1>3, <2>3
    <3>2. WrittenOut[a] = WrittenOver(a, <<"n">>, <<"n">>)
      BY <1>11, <1>12, <3>1
    <3> QED
      BY <1>12, <3>1, <3>2, WrittenIsText
  <2> QED
    BY <1>2, <2>1, <2>2, <2>3
<1>14. ASSUME NEW a \in Trees
       PROVE  WrittenOut[a] \in Seq(Signs)
  <2>1. CASE a = Number
    BY <1>12, <2>1
  <2>2. ASSUME NEW b \in Shallow, a = <<"u-", b>>
        PROVE  WrittenOut[a] \in Seq(Signs)
    <3>1. a[2] = b
      BY <2>2
    <3>2. WrittenOut[a] = WrittenOver(a, WrittenOut[b], WrittenOut[a[3]])
      BY <1>11, <3>1
    <3>3. WrittenOut[a] = WrittenOver(a, WrittenOut[b], <<"n">>)
      BY <1>5, <2>2, <3>2, Zenon
    <3> QED
      BY <1>12, <1>13, <3>3, WrittenIsText
  <2>3. ASSUME NEW op \in Operators, NEW b \in Shallow, NEW c \in Shallow, a = <<op, b, c>>
        PROVE  WrittenOut[a] \in Seq(Signs)
    <3>1. a[2] = b /\ a[3] = c
      BY <2>3
    <3> QED
      BY <1>11, <1>13, <3>1, WrittenIsText
  <2> QED
    BY <1>2, <2>1, <2>2, <2>3
<1> QED
  BY <1>14

Words == Signs \union LooseTokens \union {"u-"}

\* The inductive invariant: as many parentheses wait among the operators as are open, and at
\* no token before were fewer than none.
Waiting ==
  /\ tokens \in Seq(Words) /\ ops \in Seq(Words) /\ at \in Nat \ {0}
  /\ stage = "convert" =>
       /\ at - 1 <= Len(tokens)
       /\ CountOf(ops, Len(ops), "(") = Depth(at - 1)
       /\ \A k \in 1 .. at - 1 : Depth(k) >= 0
  /\ ParenthesesTell

LEMMA DepthCounts == \A k : Depth(k) = CountOf(tokens, k, "(") - CountOf(tokens, k, ")")
  BY DEF Depth, CountOf, PlacesOf

LEMMA DepthMoves ==
  ASSUME NEW k \in Nat
  PROVE  /\ Depth(0) = 0 /\ Depth(k) \in Int
         /\ tokens[k + 1] = "(" => Depth(k + 1) = Depth(k) + 1
         /\ tokens[k + 1] = ")" => Depth(k + 1) = Depth(k) - 1
         /\ tokens[k + 1] \notin {"(", ")"} => Depth(k + 1) = Depth(k)
<1>1. /\ CountOf(tokens, k, "(") \in Nat /\ CountOf(tokens, k, ")") \in Nat
      /\ CountOf(tokens, 0, "(") = 0 /\ CountOf(tokens, 0, ")") = 0
      /\ CountOf(tokens, k + 1, "(") = IF tokens[k + 1] = "(" THEN CountOf(tokens, k, "(") + 1 ELSE CountOf(tokens, k, "(")
      /\ CountOf(tokens, k + 1, ")") = IF tokens[k + 1] = ")" THEN CountOf(tokens, k, ")") + 1 ELSE CountOf(tokens, k, ")")
  BY CountGrows
<1> QED
  BY <1>1, DepthCounts

\* What becomes of the parentheses that wait.
LEMMA OpsMove ==
  ASSUME NEW s \in Seq(Words)
  PROVE  /\ CountOf(s, Len(s), "(") \in Nat
         /\ \A x \in Words : /\ Append(s, x) \in Seq(Words)
                             /\ CountOf(Append(s, x), Len(Append(s, x)), "(") =
                                  IF x = "(" THEN CountOf(s, Len(s), "(") + 1 ELSE CountOf(s, Len(s), "(")
         /\ \A m \in 0 .. Len(s) :
              /\ SubSeq(s, 1, m) \in Seq(Words)
              /\ CountOf(SubSeq(s, 1, m), Len(SubSeq(s, 1, m)), "(") = CountOf(s, m, "(")
<1>1. Len(s) \in Nat
  OBVIOUS
<1>2. CountOf(s, Len(s), "(") \in Nat
  BY <1>1, CountGrows
<1>3. ASSUME NEW x \in Words
      PROVE  /\ Append(s, x) \in Seq(Words)
             /\ CountOf(Append(s, x), Len(Append(s, x)), "(") =
                  IF x = "(" THEN CountOf(s, Len(s), "(") + 1 ELSE CountOf(s, Len(s), "(")
  <2> DEFINE t == Append(s, x)
  <2>1. t \in Seq(Words) /\ Len(t) = Len(s) + 1 /\ t[Len(s) + 1] = x /\ \A i \in 1 .. Len(s) : t[i] = s[i]
    BY <1>1, AppendedAt
  <2> HIDE DEF t
  <2>2. CountOf(t, Len(s), "(") = CountOf(s, Len(s), "(")
    BY <1>1, <2>1, CountSame
  <2>3. CountOf(t, Len(s) + 1, "(") = IF t[Len(s) + 1] = "(" THEN CountOf(t, Len(s), "(") + 1 ELSE CountOf(t, Len(s), "(")
    BY <1>1, CountGrows
  <2> QED
    BY <2>1, <2>2, <2>3 DEF t
<1>4. ASSUME NEW m \in 0 .. Len(s)
      PROVE  /\ SubSeq(s, 1, m) \in Seq(Words)
             /\ CountOf(SubSeq(s, 1, m), Len(SubSeq(s, 1, m)), "(") = CountOf(s, m, "(")
  <2> DEFINE t == SubSeq(s, 1, m)
  <2>1. t \in Seq(Words) /\ Len(t) = m /\ \A i \in 1 .. m : t[i] = s[i]
    OBVIOUS
  <2> HIDE DEF t
  <2>2. CountOf(t, m, "(") = CountOf(s, m, "(")
    BY <2>1, CountSame
  <2> QED
    BY <2>1, <2>2 DEF t
<1> QED
  BY <1>2, <1>3, <1>4

\* The last opening parenthesis that waits.
LEMMA OpeningIsLast ==
  ASSUME ops \in Seq(Words)
  PROVE  /\ Opening \in 0 .. Len(ops)
         /\ Opening = 0 <=> CountOf(ops, Len(ops), "(") = 0
         /\ Opening # 0 => CountOf(ops, Opening - 1, "(") = CountOf(ops, Len(ops), "(") - 1
<1> DEFINE places == {k \in 1 .. Len(ops) : ops[k] = "("}
           last == LastPlace(places)
<1>1. Opening = last /\ Len(ops) \in Nat
  BY DEF Opening
<1>2. /\ last \in 0 .. Len(ops) /\ (last # 0 => last \in places)
      /\ \A i \in (last + 1) .. Len(ops) : i \notin places
  <2>1. places \in SUBSET (1 .. Len(ops))
    OBVIOUS
  <2> HIDE DEF places
  <2> QED
    BY <1>1, <2>1, LastIsThere
<1> HIDE DEF last
<1>3. \A i \in (last + 1) .. Len(ops) : ops[i] # "("
  BY <1>1, <1>2
<1>4. CountOf(ops, Len(ops), "(") = CountOf(ops, last, "(")
  BY <1>1, <1>2, <1>3, CountStays
<1>5. last = 0 => CountOf(ops, Len(ops), "(") = 0
  BY <1>4, CountGrows
<1>6. ASSUME last # 0
      PROVE  /\ CountOf(ops, Len(ops), "(") # 0
             /\ CountOf(ops, last - 1, "(") = CountOf(ops, Len(ops), "(") - 1
  <2>1. ops[last] = "(" /\ last - 1 \in Nat /\ (last - 1) + 1 = last
    BY <1>2, <1>6
  <2>2. /\ CountOf(ops, last - 1, "(") \in Nat
        /\ CountOf(ops, (last - 1) + 1, "(") =
             IF ops[(last - 1) + 1] = "(" THEN CountOf(ops, last - 1, "(") + 1 ELSE CountOf(ops, last - 1, "(")
    <3>1. \A m \in Nat : /\ CountOf(ops, m, "(") \in Nat
                         /\ CountOf(ops, m + 1, "(") =
                              IF ops[m + 1] = "(" THEN CountOf(ops, m, "(") + 1 ELSE CountOf(ops, m, "(")
      BY CountGrows
    <3> QED
      BY <2>1, <3>1, Zenon
  <2>3. CountOf(ops, last, "(") = CountOf(ops, last - 1, "(") + 1
    BY <2>1, <2>2, Zenon
  <2> HIDE DEF places
  <2> QED
    BY <1>4, <2>2, <2>3
<1> QED
  BY <1>1, <1>2, <1>5, <1>6

\* The operators an operator leaves waiting are all the parentheses there were.
LEMMA KeptIsEnough ==
  ASSUME ops \in Seq(Words), NEW op
  PROVE  KeptFor(op) \in 0 .. Len(ops) /\ CountOf(ops, KeptFor(op), "(") = CountOf(ops, Len(ops), "(")
<1> DEFINE places == {k \in 1 .. Len(ops) : ops[k] = "(" \/ ~Outranks(ops[k], op)}
           last == LastPlace(places)
<1>1. KeptFor(op) = last /\ Len(ops) \in Nat
  BY DEF KeptFor
<1>2. last \in 0 .. Len(ops) /\ \A i \in (last + 1) .. Len(ops) : i \notin places
  <2>1. places \in SUBSET (1 .. Len(ops))
    OBVIOUS
  <2> HIDE DEF places
  <2> QED
    BY <1>1, <2>1, LastIsThere
<1> HIDE DEF last
<1>3. \A i \in (last + 1) .. Len(ops) : ops[i] # "("
  BY <1>1, <1>2
<1>4. CountOf(ops, Len(ops), "(") = CountOf(ops, last, "(")
  BY <1>1, <1>2, <1>3, CountStays
<1> QED
  BY <1>1, <1>2, <1>4

LEMMA TokenKeeps == ASSUME Waiting, ReadsToken PROVE Waiting'
<1>1. /\ tokens \in Seq(Words) /\ ops \in Seq(Words) /\ at \in Nat \ {0} /\ stage = "convert" /\ at <= Len(tokens)
      /\ CountOf(ops, Len(ops), "(") = Depth(at - 1)
      /\ \A k \in 1 .. at - 1 : Depth(k) >= 0
  BY DEF Waiting, ReadsToken
<1>2. at' = at + 1 /\ tokens' = tokens
  BY DEF ReadsToken
<1>3. /\ at - 1 \in Nat /\ (at - 1) + 1 = at /\ Len(tokens) \in Nat /\ Depth(at - 1) \in Int
      /\ tokens[at] = "(" => Depth(at) = Depth(at - 1) + 1
      /\ tokens[at] = ")" => Depth(at) = Depth(at - 1) - 1
      /\ tokens[at] \notin {"(", ")"} => Depth(at) = Depth(at - 1)
      /\ tokens[at] \in Words
  <2>1. at - 1 \in Nat /\ (at - 1) + 1 = at /\ Len(tokens) \in Nat /\ tokens[at] \in Words
    BY <1>1
  <2> QED
    BY <2>1, DepthMoves
<1>4. /\ CountOf(ops, Len(ops), "(") \in Nat
      /\ \A x \in Words : /\ Append(ops, x) \in Seq(Words)
                          /\ CountOf(Append(ops, x), Len(Append(ops, x)), "(") =
                               IF x = "(" THEN CountOf(ops, Len(ops), "(") + 1 ELSE CountOf(ops, Len(ops), "(")
      /\ \A m \in 0 .. Len(ops) :
           /\ SubSeq(ops, 1, m) \in Seq(Words)
           /\ CountOf(SubSeq(ops, 1, m), Len(SubSeq(ops, 1, m)), "(") = CountOf(ops, m, "(")
  BY <1>1, OpsMove
<1>5. \A k : Depth(k)' = Depth(k)
  BY <1>2 DEF Depth
<1> HIDE DEF Depth
<1>6. ASSUME ops' \in Seq(Words), stage' = stage, CountOf(ops', Len(ops'), "(") = Depth(at), Depth(at) >= 0
      PROVE  Waiting'
  <2>1. (at + 1) - 1 = at /\ at + 1 \in Nat \ {0}
    BY <1>1
  <2>2. \A k \in 1 .. at : Depth(k) >= 0
    <3>1. \A k \in 1 .. at : k \in 1 .. at - 1 \/ k = at
      BY <1>1
    <3> QED
      BY <1>1, <1>6, <3>1
  <2>3. (CountOf(ops, Len(ops), "(") = Depth(at - 1))'
    BY <1>2, <1>5, <1>6, <2>1
  <2>4. (\A k \in 1 .. at - 1 : Depth(k) >= 0)'
    BY <1>2, <1>5, <2>1, <2>2
  <2>5. at' - 1 <= Len(tokens)
    BY <1>1, <1>2, <2>1
  <2>6. ParenthesesTell'
    BY <1>1, <1>6 DEF ParenthesesTell
  <2> QED
    BY <1>1, <1>2, <1>6, <2>1, <2>3, <2>4, <2>5, <2>6 DEF Waiting
<1>7. CASE tokens[at] = "n"
  <2>1. ops' = ops /\ stage' = stage
    BY <1>7 DEF ReadsToken
  <2>2. Depth(at) = Depth(at - 1)
    BY <1>3, <1>7
  <2> QED
    BY <1>1, <1>4, <1>6, <2>1, <2>2
<1>8. CASE tokens[at] = "("
  <2>1. ops' = Append(ops, "(") /\ stage' = stage
    BY <1>8 DEF ReadsToken
  <2>2. Depth(at) = Depth(at - 1) + 1 /\ "(" \in Words
    BY <1>3, <1>8
  <2>3. CountOf(ops', Len(ops'), "(") = CountOf(ops, Len(ops), "(") + 1 /\ ops' \in Seq(Words)
    BY <1>4, <2>1, <2>2
  <2> QED
    BY <1>1, <1>4, <1>6, <2>1, <2>2, <2>3
<1>9. CASE tokens[at] = ")"
  <2>1. ops' = SubSeq(ops, 1, Opening - 1) /\ stage' = (IF Opening = 0 THEN "mismatched" ELSE stage)
    BY <1>9 DEF ReadsToken
  <2>2. Depth(at) = Depth(at - 1) - 1
    BY <1>3, <1>9
  <2>3. /\ Opening \in 0 .. Len(ops)
        /\ Opening = 0 <=> CountOf(ops, Len(ops), "(") = 0
        /\ Opening # 0 => CountOf(ops, Opening - 1, "(") = CountOf(ops, Len(ops), "(") - 1
    BY <1>1, OpeningIsLast
  <2>4. CASE Opening = 0
    <3>1. Depth(at) = -1
      BY <1>1, <1>3, <2>2, <2>3, <2>4
    <3>2. at \in 1 .. Len(tokens)
      BY <1>1, <1>3
    <3>3. ~Balanced
      BY <3>1, <3>2 DEF Balanced
    <3>4. (~Balanced)'
      BY <1>2, <1>5, <3>3 DEF Balanced
    <3>5. stage' = "mismatched"
      BY <2>1, <2>4
    <3>6. ParenthesesTell'
      BY <3>4, <3>5 DEF ParenthesesTell
    <3>7. ops' \in Seq(Words)
      <4>1. SubSeq(ops, 1, Opening - 1) = <<>>
        BY <1>1, <2>4
      <4>2. <<>> \in Seq(Words)
        OBVIOUS
      <4> QED
        BY <2>1, <4>1, <4>2, Zenon
    <3>8. at' \in Nat \ {0}
      BY <1>1, <1>2
    <3> QED
      BY <1>1, <1>2, <3>5, <3>6, <3>7, <3>8 DEF Waiting
  <2>5. CASE Opening # 0
    <3>1. Opening - 1 \in 0 .. Len(ops)
      BY <2>3, <2>5
    <3>2. ops' \in Seq(Words) /\ CountOf(ops', Len(ops'), "(") = CountOf(ops, Len(ops), "(") - 1
      BY <1>4, <2>1, <2>3, <2>5, <3>1
    <3>3. CountOf(ops, Len(ops), "(") # 0
      BY <2>3, <2>5
    <3> QED
      BY <1>1, <1>3, <1>4, <1>6, <2>1, <2>2, <2>5, <3>2, <3>3
  <2> QED
    BY <2>4, <2>5
<1>10. CASE tokens[at] \notin {"n", "(", ")"}
  <2> DEFINE op == OperatorRead
             rest == SubSeq(ops, 1, KeptFor(op))
  <2>1. ops' = Append(rest, op) /\ stage' = stage
    BY <1>10 DEF ReadsToken
  <2>2. Depth(at) = Depth(at - 1)
    BY <1>3, <1>10
  <2>3. op \in {tokens[at], "u-"}
    BY DEF OperatorRead
  <2>4. op \in Words /\ op # "("
    BY <1>3, <1>10, <2>3 DEF Words
  <2> HIDE DEF op
  <2>5. KeptFor(op) \in 0 .. Len(ops) /\ CountOf(ops, KeptFor(op), "(") = CountOf(ops, Len(ops), "(")
    BY <1>1, KeptIsEnough
  <2>6. rest \in Seq(Words) /\ CountOf(rest, Len(rest), "(") = CountOf(ops, Len(ops), "(")
    BY <1>4, <2>5
  <2> HIDE DEF rest
  <2>7. ops' \in Seq(Words) /\ CountOf(ops', Len(ops'), "(") = CountOf(rest, Len(rest), "(")
    BY <2>1, <2>4, <2>6, OpsMove
  <2> QED
    BY <1>1, <1>4, <1>6, <2>1, <2>2, <2>6, <2>7
<1> QED
  BY <1>7, <1>8, <1>9, <1>10

LEMMA DrainKeeps == ASSUME Waiting, Drains PROVE Waiting'
<1>1. /\ tokens \in Seq(Words) /\ ops \in Seq(Words) /\ stage = "convert" /\ at = Len(tokens) + 1
      /\ CountOf(ops, Len(ops), "(") = Depth(at - 1)
      /\ \A k \in 1 .. at - 1 : Depth(k) >= 0
  BY DEF Waiting, Drains
<1>2. at' = 1 /\ tokens' = tokens /\ ops' = SubSeq(ops, 1, Opening - 1)
      /\ stage' = (IF Opening = 0 THEN "evaluate" ELSE "mismatched")
  BY DEF Drains
<1>3. at - 1 = Len(tokens)
  BY <1>1
<1>4. Opening \in 0 .. Len(ops) /\ (Opening = 0 <=> CountOf(ops, Len(ops), "(") = 0)
  BY <1>1, OpeningIsLast
<1>5. ops' \in Seq(Words)
  <2>1. CASE Opening = 0
    <3>1. SubSeq(ops, 1, Opening - 1) = <<>>
      BY <1>1, <2>1
    <3>2. <<>> \in Seq(Words)
      OBVIOUS
    <3> QED
      BY <1>2, <3>1, <3>2, Zenon
  <2>2. CASE Opening # 0
    <3>1. Opening - 1 \in 0 .. Len(ops)
      BY <1>4, <2>2
    <3> QED
      BY <1>1, <1>2, <3>1, OpsMove
  <2> QED
    BY <2>1, <2>2
<1>6. Balanced <=> Opening = 0
  BY <1>1, <1>3, <1>4 DEF Balanced
<1>7. Balanced' <=> Balanced
  BY <1>2 DEF Balanced, Depth
<1>8. ParenthesesTell'
  BY <1>2, <1>6, <1>7 DEF ParenthesesTell
<1> QED
  BY <1>1, <1>2, <1>5, <1>8 DEF Waiting

LEMMA EvaluationKeeps ==
  ASSUME Waiting, AppliesOperator \/ ValueGiven \/ UNCHANGED calculatorVars
  PROVE  Waiting'
<1>1. CASE UNCHANGED calculatorVars
  BY <1>1 DEF calculatorVars, Waiting, Depth, ParenthesesTell, Balanced
<1>2. CASE AppliesOperator \/ ValueGiven
  <2>1. tokens' = tokens /\ ops' = ops /\ stage = "evaluate" /\ stage' \in {"evaluate", "done", "invalid"}
    BY <1>2 DEF AppliesOperator, ValueGiven
  <2>2. at' \in Nat \ {0}
    BY <1>2 DEF AppliesOperator, ValueGiven, Waiting
  <2>3. Balanced
    BY <2>1 DEF Waiting, ParenthesesTell
  <2>4. Balanced'
    BY <2>1, <2>3 DEF Balanced, Depth
  <2>5. ParenthesesTell'
    BY <2>1, <2>4 DEF ParenthesesTell
  <2> QED
    BY <2>1, <2>2, <2>5 DEF Waiting
<1> QED
  BY <1>1, <1>2

\* tools/builtin/calculatorTool.ts, for any tokens of any length: toRPN refuses an
\* expression if and only if its parentheses do not match.
THEOREM ParenthesesMatch == CalculatorSpec => []ParenthesesTell
<1>1. CalculatorInit => Waiting
  <2> SUFFICES ASSUME CalculatorInit PROVE Waiting
    OBVIOUS
  <2>1. at = 1 /\ ops = <<>> /\ stage = "convert"
    BY DEF CalculatorInit
  <2>2. tokens \in Seq(Words)
    <3>1. CASE meant \in Trees /\ tokens = WrittenOut[meant]
      <4>1. tokens \in Seq(Signs)
        BY <3>1, TextOfTrees
      <4> QED
        BY <4>1 DEF Words
    <3>2. CASE tokens \in UNION {[1 .. n -> LooseTokens] : n \in 0 .. MaxLoose}
      <4>1. PICK n \in 0 .. MaxLoose : tokens \in [1 .. n -> LooseTokens]
        BY <3>2
      <4>2. n \in Nat
        BY CalculatorAssumption DEF CalculatorAssumption
      <4> QED
        BY <4>1, <4>2 DEF Words
    <3> QED
      BY <3>1, <3>2 DEF CalculatorInit
  <2>3. Depth(0) = 0 /\ CountOf(ops, 0, "(") = 0
    BY DepthMoves, CountGrows
  <2>4. Len(ops) = 0 /\ at - 1 = 0 /\ ops \in Seq(Words) /\ Len(tokens) \in Nat
    BY <2>1, <2>2
  <2> QED
    BY <2>1, <2>2, <2>3, <2>4 DEF Waiting, ParenthesesTell
<1>2. Waiting /\ [CalculatorNext]_calculatorVars => Waiting'
  BY TokenKeeps, DrainKeeps, EvaluationKeeps DEF CalculatorNext
<1>3. Waiting => ParenthesesTell
  BY DEF Waiting
<1> QED
  BY <1>1, <1>2, <1>3, PTL DEF CalculatorSpec

-----------------------------------------------------------------------------
(* The parts in one instance *)

\* The parts of the process in one instance, of which one moves: the maps that outlive a
\* request and its awaits tell what there is, for any number of everything each of them is
\* about.  Every step of the whole is a step of each part, or leaves it as it is.
THEOREM RegistriesAreConsistent == Spec => []RegistriesConsistent
<1>1. Spec => SourcesSpec
  <2>1. Init => SourcesInit
    BY DEF Init
  <2>2. [Next]_companionVars => [PluginsNext \/ ServersNext]_sourceVars
    BY DEF Next, OthersRest, companionVars
  <2> QED
    BY <2>1, <2>2, PTL DEF Spec, SourcesSpec
<1>2. Spec => FactsSpec
  <2>1. Init => FactsInit
    BY DEF Init
  <2>2. [Next]_companionVars => [FactsNext]_factVars
    BY DEF Next, OthersRest, companionVars
  <2> QED
    BY <2>1, <2>2, PTL DEF Spec, FactsSpec
<1>3. Spec => BrowserSpec
  <2>1. Init => BrowserInit
    BY DEF Init
  <2>2. [Next]_companionVars => [BrowserNext]_browserVars
    BY DEF Next, OthersRest, companionVars
  <2> QED
    BY <2>1, <2>2, PTL DEF Spec, BrowserSpec
<1>4. Spec => ConnectionsSpec
  <2>1. Init => ConnectionsInit
    BY DEF Init
  <2>2. [Next]_companionVars => [AccountsNext \/ TabsNext]_connectionVars
    BY DEF Next, OthersRest, companionVars
  <2> QED
    BY <2>1, <2>2, PTL DEF Spec, ConnectionsSpec
<1>5. Spec => LauncherSpec
  <2>1. Init => LauncherInit
    BY DEF Init
  <2>2. [Next]_companionVars => [LauncherNext]_launcherVars
    BY DEF Next, OthersRest, companionVars
  <2> QED
    BY <2>1, <2>2, PTL DEF Spec, LauncherSpec
<1>6. Spec => ActivationSpec
  <2>1. Init => ActivationInit
    BY DEF Init
  <2>2. [Next]_companionVars => [ActivationNext]_activationVars
    BY DEF Next, OthersRest, companionVars
  <2> QED
    BY <2>1, <2>2, PTL DEF Spec, ActivationSpec
<1>7. /\ ToolsBelongToTheirSource /\ OneFactPerKey /\ NothingRunsUnfindable
      /\ ConnectionsConsistent /\ OpensWhatFits /\ ActivationFollowsSettings
      => RegistriesConsistent
  BY DEF RegistriesConsistent
<1> QED
  BY <1>1, <1>2, <1>3, <1>4, <1>5, <1>6, <1>7, ToolsBelong, OneFactIsKept, NothingUnfindable,
     ConnectionsAreConsistent, OpensBest, ModeFollows, PTL

\* VisualHistory in any of the instance's behaviours: one budget of pictures and bytes for all
\* tiers together, and no query answers what is older than the windows allow.
THEOREM MemoryBounded == Spec => []MemoryStaysBounded
<1>1. Spec => MemorySpec
  <2>1. Init => MemoryInit
    BY DEF Init
  <2>2. [Next]_companionVars => [MemoryNext]_memoryVars
    BY DEF Next, OthersRest, companionVars
  <2> QED
    BY <2>1, <2>2, PTL DEF Spec, MemorySpec
<1>2. FramesWithinBudget /\ RetentionWindow => MemoryStaysBounded
  BY DEF MemoryStaysBounded
<1> QED
  BY <1>1, <1>2, BudgetHolds, NothingTooOld, PTL

\* The microphone's counters and the choice of memories, in any of the instance's behaviours,
\* answer as their definitions over the whole input do; the calculator is left to model
\* checking.
THEOREM SensesAndMemoriesAnswer == Spec => [](focus # "calculator" => AnswersByDefinition)
<1>1. Spec => SegmenterSpec
  <2>1. Init => SegmenterInit
    BY DEF Init
  <2>2. [Next]_companionVars => [SegmenterNext]_segmenterVars
    BY DEF Next, OthersRest, companionVars
  <2> QED
    BY <2>1, <2>2, PTL DEF Spec, SegmenterSpec
<1>2. Spec => ClapSpec
  <2>1. Init => ClapInit
    BY DEF Init
  <2>2. [Next]_companionVars => [ClapNext]_clapVars
    BY DEF Next, OthersRest, companionVars
  <2> QED
    BY <2>1, <2>2, PTL DEF Spec, ClapSpec
<1>3. Spec => RetrievalSpec
  <2>1. Init => RetrievalInit
    BY DEF Init
  <2>2. [Next]_companionVars => [RetrievalNext]_retrievalVars
    BY DEF Next, OthersRest, companionVars
  <2> QED
    BY <2>1, <2>2, PTL DEF Spec, RetrievalSpec
<1>4. SegmentsByDefinition /\ ClapsByDefinition /\ RelevantAreFound
      => (focus # "calculator" => AnswersByDefinition)
  BY DEF AnswersByDefinition
<1> QED
  BY <1>1, <1>2, <1>3, <1>4, SegmentsAsDefined, ClapsAsDefined, RelevantIsFound, PTL
=============================================================================
