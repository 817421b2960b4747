------------------------------ MODULE NativeVoice ------------------------------
(***************************************************************************)
(* A native speech-to-speech conversation: runNativeSpeechToSpeech         *)
(* (api/routes/realtimeVoiceRoute.ts), NativeRealtimeSession               *)
(* (voice/realtime/nativeRealtimeSession.ts) and the session of            *)
(* openAIRealtimeProvider.ts with the service behind it, whose events come *)
(* in order over one socket.                                               *)
(*                                                                         *)
(* executeToolCall is what AgentRun shows it to be, in one step here: the  *)
(* call is refused, waits for an approval, runs, or throws.                *)
(***************************************************************************)
EXTENDS Integers, Sequences, FiniteSets

CONSTANTS
  Calls,   \* tool calls the model may make
  NoCall,
  MaxWire  \* bound on the events under way

ASSUME NativeAssumption == NoCall \notin Calls /\ MaxWire \in Nat \ {0}

VARIABLES
  toolsEnabled, gated,  \* settings of the connection
  client,     \* "dialing" until the route has its handlers, "on", "gone"
  remote,     \* the provider's socket: "none", "dialing", "open", "shut"
  wire,       \* its events under way: [type, call]
  talking,    \* the service is generating
  spoken,      \* microphone audio reached the service
  state,      \* of the NativeRealtimeSession
  attached,   \* session and its subscription
  closed,
  gateOpen,
  agentRunId, runs,  \* the run of the session, and the runs created: 0 for none
  handler,    \* call -> "none", "wired", "creating", "executing", "appending", "over"
  effect,     \* call -> times its tool ran
  answers,    \* call -> what submitToolResult sent
  shaken      \* ghost: calls whose handler met a failing database

callVars == <<agentRunId, runs, handler, effect, answers, shaken>>
linkVars == <<client, remote, wire, talking, spoken>>
nativeVars == <<toolsEnabled, gated, linkVars, state, attached, closed, gateOpen, callVars>>

EventTypesOfService == {"session_ready", "speech_started", "audio_delta", "response_done", "tool_call", "closed"}

NativeTypeOK ==
  /\ {toolsEnabled, gated, talking, spoken, attached, closed, gateOpen} \subseteq BOOLEAN
  /\ client \in {"dialing", "on", "gone"} /\ remote \in {"none", "dialing", "open", "shut"}
  /\ wire \in Seq([type : EventTypesOfService, call : Calls \union {NoCall}])
  /\ Len(wire) <= MaxWire + 1 /\ state \in {"connecting", "listening", "speaking", "closed"}
  /\ {agentRunId, runs} \subseteq 0..Cardinality(Calls)
  /\ handler \in [Calls -> {"none", "wired", "creating", "executing", "appending", "over"}]
  /\ effect \in [Calls -> Nat] /\ shaken \subseteq Calls
  /\ answers \in [Calls -> Seq({"disabled", "approve", "result", "error"})]

NativeInit ==
  /\ toolsEnabled \in BOOLEAN /\ gated \in BOOLEAN /\ gateOpen = ~gated
  /\ client = "dialing" /\ remote = "none" /\ wire = <<>> /\ talking = FALSE /\ spoken = FALSE
  /\ state = "connecting" /\ attached = FALSE /\ closed = FALSE
  /\ agentRunId = 0 /\ runs = 0 /\ handler = [c \in Calls |-> "none"]
  /\ effect = [c \in Calls |-> 0] /\ answers = [c \in Calls |-> <<>>] /\ shaken = {}

\* setState; the route closes a gated connection's gate at each change to listening.
SetState(s) ==
  /\ state' = s
  /\ gateOpen' = IF s = "listening" /\ state # s THEN gateOpen /\ ~gated ELSE gateOpen

-----------------------------------------------------------------------------
(* The connection *)

Dial ==
  /\ remote = "none" /\ remote' = "dialing"
  /\ UNCHANGED <<toolsEnabled, gated, client, wire, talking, spoken, state, attached, closed,
                 gateOpen, callVars>>

\* connect() comes back and the route adds its handlers, on a socket that may be gone.
Connected ==
  /\ remote = "dialing" /\ remote' = "open" /\ attached' = TRUE
  /\ client' = IF client = "dialing" THEN "on" ELSE client
  /\ wire' = <<[type |-> "session_ready", call |-> NoCall]>>
  /\ UNCHANGED <<toolsEnabled, gated, talking, spoken, state, closed, gateOpen, callVars>>

\* The error is sent and the client's socket closed.
ConnectFails ==
  /\ remote = "dialing" /\ remote' = "shut" /\ client' = "gone"
  /\ UNCHANGED <<toolsEnabled, gated, wire, talking, spoken, state, attached, closed, gateOpen, callVars>>

\* Before the handlers are there nobody hears the client leave.
LeavesEarly ==
  /\ client = "dialing" /\ client' = "gone"
  /\ UNCHANGED <<toolsEnabled, gated, remote, wire, talking, spoken, state, attached, closed,
                 gateOpen, callVars>>

\* session.close: what the handlers of tool calls under way send from now on is lost.
Leaves ==
  /\ client = "on" /\ client' = "gone"
  /\ closed' = TRUE /\ attached' = FALSE /\ remote' = "shut" /\ wire' = <<>> /\ SetState("closed")
  /\ UNCHANGED <<toolsEnabled, gated, talking, spoken, callVars>>

\* Activation: gate.trigger.
Triggered ==
  /\ client = "on" /\ ~gateOpen /\ gateOpen' = TRUE
  /\ UNCHANGED <<toolsEnabled, gated, linkVars, state, attached, closed, callVars>>

MicrophoneChunk ==
  /\ client = "on" /\ gateOpen /\ remote = "open" /\ ~spoken /\ spoken' = TRUE
  /\ UNCHANGED <<toolsEnabled, gated, client, remote, wire, talking, state, attached, closed,
                 gateOpen, callVars>>

\* interrupt, from the client or on speech_started: response.cancel if the socket is open.
Interrupt ==
  /\ talking' = (talking /\ remote # "open")
  /\ IF closed THEN UNCHANGED <<state, gateOpen>> ELSE SetState("listening")

ClientInterrupts ==
  /\ client = "on" /\ Interrupt
  /\ UNCHANGED <<toolsEnabled, gated, client, remote, wire, spoken, attached, closed, callVars>>

\* end_utterance: commitInput asks for a response.
EndUtterance ==
  /\ client = "on" /\ remote = "open" /\ talking' = TRUE
  /\ UNCHANGED <<toolsEnabled, gated, client, remote, wire, spoken, state, attached, closed,
                 gateOpen, callVars>>

-----------------------------------------------------------------------------
(* The service *)

Says(type, c) == wire' = Append(wire, [type |-> type, call |-> c])

ServiceSpeaks ==
  /\ remote = "open" /\ Len(wire) < MaxWire
  /\ \/ spoken /\ spoken' = FALSE /\ Says("speech_started", NoCall) /\ UNCHANGED <<talking, handler>>
     \/ talking /\ Says("audio_delta", NoCall) /\ UNCHANGED <<spoken, talking, handler>>
     \/ talking /\ talking' = FALSE /\ Says("response_done", NoCall) /\ UNCHANGED <<spoken, handler>>
     \/ \E c \in Calls : /\ talking /\ handler[c] = "none" /\ handler' = [handler EXCEPT ![c] = "wired"]
                         /\ Says("tool_call", c) /\ UNCHANGED <<spoken, talking>>
  /\ UNCHANGED <<toolsEnabled, gated, client, remote, state, attached, closed, gateOpen,
                 agentRunId, runs, effect, answers, shaken>>

\* Server VAD: after speech the service answers by itself.
ServiceAnswers ==
  /\ remote = "open" /\ ~talking /\ state # "connecting" /\ talking' = TRUE
  /\ UNCHANGED <<toolsEnabled, gated, client, remote, wire, spoken, state, attached, closed,
                 gateOpen, callVars>>

\* The service closes the socket; open_ is off at once, the event follows those before it.
ServiceCloses ==
  /\ remote = "open" /\ remote' = "shut" /\ talking' = FALSE
  /\ Says("closed", NoCall)
  /\ UNCHANGED <<toolsEnabled, gated, client, spoken, state, attached, closed, gateOpen, callVars>>

-----------------------------------------------------------------------------
(* handleEvent *)

Submit(c, what) ==
  answers' = IF attached /\ remote = "open" THEN [answers EXCEPT ![c] = Append(@, what)] ELSE answers

ToolCall(c) ==
  IF ~toolsEnabled THEN handler' = [handler EXCEPT ![c] = "over"] /\ Submit(c, "disabled")
  ELSE /\ handler' = [handler EXCEPT ![c] = IF agentRunId = 0 THEN "creating" ELSE "executing"]
       /\ answers' = answers

HandleEvent ==
  /\ attached /\ wire # <<>> /\ wire' = Tail(wire)
  /\ LET event == Head(wire) IN
     /\ CASE event.type \in {"session_ready", "response_done"} ->
               /\ IF event.type = "response_done" /\ state = "closed" THEN UNCHANGED <<state, gateOpen>>
                  ELSE SetState("listening")
               /\ UNCHANGED <<talking, handler, answers>>
          [] event.type = "speech_started" -> Interrupt /\ UNCHANGED <<handler, answers>>
          [] event.type = "audio_delta" -> SetState("speaking") /\ UNCHANGED <<talking, handler, answers>>
          [] event.type = "tool_call" -> ToolCall(event.call) /\ UNCHANGED <<talking, state, gateOpen>>
          [] event.type = "closed" -> SetState("closed") /\ UNCHANGED <<talking, handler, answers>>
  /\ UNCHANGED <<toolsEnabled, gated, client, remote, spoken, attached, closed, agentRunId, runs,
                 effect, shaken>>

-----------------------------------------------------------------------------
(* handleToolCall *)

\* ensureAgentRun's create comes back: two calls at once make a run each.
RunCreated(c) ==
  /\ handler[c] = "creating"
  /\ runs' = runs + 1 /\ agentRunId' = runs + 1
  /\ handler' = [handler EXCEPT ![c] = "executing"]
  /\ UNCHANGED <<toolsEnabled, gated, linkVars, state, attached, closed, gateOpen, effect, answers, shaken>>

\* executeToolCall comes back: an outcome for the model, or an approval to wait for.
Executed(c) ==
  /\ handler[c] = "executing"
  /\ \/ /\ \E ran \in {0, 1} : effect' = [effect EXCEPT ![c] = @ + ran]
        /\ handler' = [handler EXCEPT ![c] = "appending"] /\ UNCHANGED answers
     \/ handler' = [handler EXCEPT ![c] = "over"] /\ Submit(c, "approve") /\ UNCHANGED effect
  /\ UNCHANGED <<toolsEnabled, gated, linkVars, state, attached, closed, gateOpen, agentRunId, runs, shaken>>

Appended_AfterTheAnswer(c) ==
  /\ handler[c] = "appending"
  /\ \/ answers[c] = <<>> /\ Submit(c, "result") /\ handler' = handler
     \/ answers[c] # <<>> /\ answers' = answers /\ handler' = [handler EXCEPT ![c] = "over"]
  /\ UNCHANGED <<toolsEnabled, gated, linkVars, state, attached, closed, gateOpen, agentRunId, runs, effect, shaken>>

\* The message is stored, then the answer sent.
Appended(c) ==
  /\ handler[c] = "appending" /\ handler' = [handler EXCEPT ![c] = "over"] /\ Submit(c, "result")
  /\ UNCHANGED <<toolsEnabled, gated, linkVars, state, attached, closed, gateOpen, agentRunId, runs, effect, shaken>>

\* Any of the three awaits throws; the tool may have run.
HandlerThrows(c) ==
  /\ handler[c] \in {"creating", "executing", "appending"}
  /\ \E ran \in {0, 1} : /\ ran = 1 => handler[c] = "executing"
                         /\ effect' = [effect EXCEPT ![c] = @ + ran]
  /\ handler' = [handler EXCEPT ![c] = "over"] /\ shaken' = shaken \union {c} /\ Submit(c, "error")
  /\ UNCHANGED <<toolsEnabled, gated, linkVars, state, attached, closed, gateOpen, agentRunId, runs>>

NativeNext ==
  \/ Dial \/ Connected \/ ConnectFails \/ LeavesEarly \/ Leaves \/ Triggered \/ MicrophoneChunk
  \/ ClientInterrupts \/ EndUtterance \/ ServiceSpeaks \/ ServiceAnswers \/ ServiceCloses
  \/ HandleEvent
  \/ \E c \in Calls : RunCreated(c) \/ Executed(c) \/ Appended(c) \/ HandlerThrows(c)

NativeSpec == NativeInit /\ [][NativeNext]_nativeVars

-----------------------------------------------------------------------------
(* Properties *)

\* The service waits for one answer to each call.  It gets one and no second, none only
\* when the conversation is over; a call it is told to have approved, or that tools are off
\* for, had no effect, and an effect is told as an error only when the database failed.
CallsAnsweredOnce ==
  \A c \in Calls :
    /\ Len(answers[c]) <= 1 /\ effect[c] <= 1
    /\ handler[c] = "over" /\ answers[c] = <<>> => remote = "shut"
    /\ answers[c] # <<>> => handler[c] = "over"
    /\ answers[c] \in {<<"approve">>, <<"disabled">>} => effect[c] = 0
    /\ answers[c] = <<"error">> => c \in shaken
    /\ ~toolsEnabled => effect[c] = 0
=============================================================================
