----------------------------- MODULE RelayVoice -----------------------------
(***************************************************************************)
(* One relay voice session: microphone audio or text in, spoken replies    *)
(* out (voice/realtimeSession.ts), behind the activation gate              *)
(* (voice/activationGate.ts), driven by the messages of one WebSocket      *)
(* (api/routes/realtimeVoiceRoute.ts).                                     *)
(*                                                                         *)
(* A turn is an utterance or a text and the call chain it starts:          *)
(* transcription, agent run, sentences spoken one after the other.  Turns  *)
(* overlap; what they share are the session's fields, each of which names  *)
(* one turn at most.  responseGeneration is compared only for equality     *)
(* with the value a turn took: `current' is the turn that took the present *)
(* value.  An agent run is named by the turn that asked for it.            *)
(*                                                                         *)
(* A chunk of audio appears by the VAD events in it: none, a start, an     *)
(* end, a whole utterance, or an end and the next start.                   *)
(* An operator named Op_Mistake is Op with a mistake a programmer could    *)
(* make; no formula uses it.                                               *)
(***************************************************************************)
EXTENDS Integers, FiniteSets

CONSTANTS
  Turns,         \* bound: utterances and texts of the session
  NoTurn,
  Modes,         \* kinds of session: a subset of {"relay", "stt", "tts"}
  GateModes,     \* whether the activation mode gates: a subset of BOOLEAN
  MaxSentences,  \* bound: sentences of a reply
  Disciplines    \* how the user behaves: a subset of {"patient", "any"}

ASSUME SetsAssumption ==
  /\ NoTurn \notin Turns /\ GateModes \subseteq BOOLEAN
  /\ Modes \subseteq {"relay", "stt", "tts"}
  /\ MaxSentences \in Nat /\ Disciplines \subseteq {"patient", "any"}

VARIABLES
  mode, gated, discipline,  \* of this session; they never change
  state,        \* what the client is shown
  activated,    \* the gate is open
  hearing,      \* UtteranceSegmenter.speaking
  closed,
  pc,           \* where each turn is
  current,      \* the turn whose generation is responseGeneration
  handlers,     \* turns whose onDelta is subscribed to the event bus
  unsubscribeDelta,    \* the turn whose subscription it would end
  activeAgentRunId,
  aborted,      \* runs that were aborted
  queue,        \* sentences waiting in a turn's queue
  draining,     \* turns whose drainQueue is running: one sentence is being spoken
  ttsAbortController,  \* the turn whose sentence it would stop
  silenced,     \* turns whose present sentence was stopped
  said          \* sentences a turn has begun to speak

session == <<mode, gated, discipline>>
shown == <<state, activated>>
handles == <<current, handlers, unsubscribeDelta, activeAgentRunId, aborted>>
speech == <<queue, draining, ttsAbortController, silenced, said>>
vars == <<session, shown, hearing, closed, pc, handles, speech>>

States == {"idle", "listening", "thinking", "speaking"}
PCs == {"none", "transcribing", "asking", "running", "speaking", "ended", "unheard"}

TypeOK ==
  /\ mode \in Modes /\ gated \in GateModes /\ discipline \in Disciplines
  /\ state \in States /\ activated \in BOOLEAN
  /\ hearing \in BOOLEAN /\ closed \in BOOLEAN
  /\ pc \in [Turns -> PCs]
  /\ {current, unsubscribeDelta, activeAgentRunId, ttsAbortController} \subseteq Turns \union {NoTurn}
  /\ UNION {handlers, aborted, draining, silenced} \subseteq Turns
  /\ queue \in [Turns -> Nat] /\ said \in [Turns -> Nat]

Init ==
  /\ mode \in Modes /\ gated \in GateModes /\ discipline \in Disciplines
  /\ state = "idle" /\ activated = ~gated
  /\ hearing = FALSE /\ closed = FALSE
  /\ pc = [t \in Turns |-> "none"]
  /\ current = NoTurn /\ unsubscribeDelta = NoTurn
  /\ activeAgentRunId = NoTurn /\ ttsAbortController = NoTurn
  /\ handlers = {} /\ aborted = {} /\ draining = {} /\ silenced = {}
  /\ queue = [t \in Turns |-> 0] /\ said = [t \in Turns |-> 0]

Goto(t, from, to) == pc[t] = from /\ pc' = [pc EXCEPT ![t] = to]
Busy == state \in {"speaking", "thinking"}
IsCurrent(t) == ~closed /\ current = t
\* Chunks of the turn's present sentence still reach the client.
Audible(t) == t \in draining \ silenced /\ ~closed

\* setState, and what the route does when the state becomes "listening".
SetState(s) ==
  /\ state' = s
  /\ activated' = (activated /\ ~(gated /\ s = "listening" /\ state # "listening"))

-----------------------------------------------------------------------------
(* interrupt *)

StopReply_SameGeneration ==
  /\ silenced' = silenced \union ({ttsAbortController} \ {NoTurn})
  /\ ttsAbortController' = NoTurn
  /\ aborted' = aborted \union ({activeAgentRunId} \ {NoTurn})
  /\ activeAgentRunId' = NoTurn
  /\ handlers' = handlers \ {unsubscribeDelta}
  /\ unsubscribeDelta' = NoTurn
  /\ UNCHANGED <<current, queue, draining, said>>

StopReply_VoiceKept ==
  /\ current' = NoTurn
  /\ ttsAbortController' = NoTurn
  /\ aborted' = aborted \union ({activeAgentRunId} \ {NoTurn})
  /\ activeAgentRunId' = NoTurn
  /\ handlers' = handlers \ {unsubscribeDelta}
  /\ unsubscribeDelta' = NoTurn
  /\ UNCHANGED <<queue, draining, silenced, said>>

StopReply ==
  /\ current' = NoTurn
  /\ silenced' = silenced \union ({ttsAbortController} \ {NoTurn})
  /\ ttsAbortController' = NoTurn
  /\ aborted' = aborted \union ({activeAgentRunId} \ {NoTurn})
  /\ activeAgentRunId' = NoTurn
  /\ handlers' = handlers \ {unsubscribeDelta}
  /\ unsubscribeDelta' = NoTurn
  /\ UNCHANGED <<queue, draining, said>>

\* It does nothing unless the state says that there is something to stop.
Interrupt ==
  \/ Busy /\ StopReply /\ SetState("listening")
  \/ ~Busy /\ UNCHANGED <<handles, speech, shown>>

Stop ==
  /\ ~closed /\ Busy
  /\ Interrupt
  /\ UNCHANGED <<session, hearing, closed, pc>>

Close ==
  /\ ~closed /\ closed' = TRUE
  /\ Interrupt
  /\ UNCHANGED <<session, hearing, pc>>

-----------------------------------------------------------------------------
(* feedAudio, endUtteranceNow and the gate *)

MicrophoneOpen == ~closed /\ mode # "tts" /\ activated

\* A patient user waits for the reply to end, or talks over it while the state
\* tells that there is one; not while the last utterance is being transcribed.
UnderWay(t) ==
  \/ pc[t] = "transcribing" \/ Audible(t)
  \/ pc[t] \in {"asking", "running", "speaking"} /\ IsCurrent(t)
UserMayTalk ==
  discipline = "patient" =>
    /\ \A t \in Turns : pc[t] # "transcribing"
    /\ Busy \/ \A t \in Turns : ~UnderWay(t)

\* The first chunk of a session, with no event in it.
HearNothing ==
  /\ MicrophoneOpen /\ state = "idle"
  /\ SetState("listening")
  /\ UNCHANGED <<session, hearing, closed, pc, handles, speech>>

\* speech_start: barge-in.
HearStart ==
  /\ MicrophoneOpen /\ ~hearing /\ UserMayTalk
  /\ hearing' = TRUE
  /\ IF Busy
       THEN Interrupt
       ELSE SetState("listening") /\ UNCHANGED <<handles, speech>>
  /\ UNCHANGED <<session, closed, pc>>

\* speech_end: handleUtterance runs to the await of the transcription.
HearEnd_OtherName(t) ==
  /\ MicrophoneOpen /\ hearing
  /\ Goto(t, "none", "transcribing")
  /\ hearing' = FALSE
  /\ SetState("transcribing")
  /\ UNCHANGED <<session, closed, handles, speech>>

HearEnd(t) ==
  /\ MicrophoneOpen /\ hearing
  /\ Goto(t, "none", "transcribing")
  /\ hearing' = FALSE
  /\ SetState("thinking")
  /\ UNCHANGED <<session, closed, handles, speech>>

\* A start and its end in one chunk.
HearWhole(t) ==
  /\ MicrophoneOpen /\ ~hearing /\ UserMayTalk
  /\ Goto(t, "none", "transcribing")
  /\ IF Busy
       THEN StopReply /\ state' = "thinking" /\ activated' = ~gated
       ELSE SetState("thinking") /\ UNCHANGED <<handles, speech>>
  /\ UNCHANGED <<session, hearing, closed>>

\* An end and the next start: whether it is a barge-in was read before the chunk.
HearEndAndStart(t) ==
  /\ MicrophoneOpen /\ hearing /\ discipline # "patient"
  /\ Goto(t, "none", "transcribing")
  /\ IF Busy
       THEN StopReply /\ state' = "listening" /\ activated' = ~gated
       ELSE SetState("thinking") /\ UNCHANGED <<handles, speech>>
  /\ UNCHANGED <<session, hearing, closed>>

\* Push-to-talk release, which the gate does not see; too short is discarded.
EndUtteranceNow(t) ==
  /\ ~closed /\ hearing /\ hearing' = FALSE
  /\ \/ Goto(t, "none", "transcribing") /\ SetState("thinking")
     \/ UNCHANGED <<pc, shown>>
  /\ UNCHANGED <<session, closed, handles, speech>>

Trigger ==
  /\ ~closed /\ gated /\ ~activated
  /\ activated' = TRUE
  /\ UNCHANGED <<session, state, hearing, closed, pc, handles, speech>>

-----------------------------------------------------------------------------
(* handleUtterance and respondTo *)

TranscriptionFails(t) ==
  /\ Goto(t, "transcribing", "unheard")
  /\ UNCHANGED <<session, shown, hearing, closed, handles, speech>>

NothingSaid(t) ==
  /\ Goto(t, "transcribing", "ended")
  /\ SetState("listening")
  /\ UNCHANGED <<session, hearing, closed, handles, speech>>

\* respondTo, to the awaits of runAgent: whatever was there is overwritten.
RespondTo(t, from) ==
  /\ Goto(t, from, "asking")
  /\ current' = t
  /\ handlers' = handlers \union {t}
  /\ unsubscribeDelta' = t
  /\ UNCHANGED <<session, shown, hearing, closed, activeAgentRunId, aborted, speech>>

Transcribed(t) == RespondTo(t, "transcribing")

UserText(t) ==
  /\ ~closed /\ mode = "tts"
  /\ discipline = "patient" => \A u \in Turns : ~UnderWay(u)
  /\ RespondTo(t, "none")

RunStarts(t) ==
  /\ Goto(t, "asking", "running")
  /\ activeAgentRunId' = t
  /\ UNCHANGED <<session, shown, hearing, closed, current, handlers, unsubscribeDelta, aborted, speech>>

\* speak, to its first await; the gate is closed by "listening" only.
Speak(t) ==
  /\ SetState("speaking")
  /\ ttsAbortController' = t
  /\ silenced' = silenced \ {t}
  /\ draining' = draining \union {t}
  /\ said' = [said EXCEPT ![t] = @ + 1]

\* drainQueue with n more sentences: the first is spoken if nobody is speaking
\* for the turn yet; in stt mode they are dropped.
Enqueue(t, n) ==
  IF mode = "stt" \/ n = 0
    THEN UNCHANGED <<shown, speech>>
    ELSE IF t \in draining
      THEN /\ queue' = [queue EXCEPT ![t] = @ + n]
           /\ UNCHANGED <<shown, draining, ttsAbortController, silenced, said>>
      ELSE /\ queue' = [queue EXCEPT ![t] = @ + n - 1]
           /\ Speak(t)

RoomFor(t, n) == said[t] + queue[t] + n <= MaxSentences

\* The active run completes a sentence: the current turn's handler takes it.
Delta(t) ==
  /\ pc[t] = "running" /\ activeAgentRunId = t
  /\ IsCurrent(current) /\ current \in handlers
  /\ RoomFor(current, 1) /\ Enqueue(current, 1)
  /\ UNCHANGED <<session, hearing, closed, pc, handles>>

EndSubscription ==
  /\ handlers' = handlers \ {unsubscribeDelta}
  /\ unsubscribeDelta' = NoTurn

\* The finally block, for whichever turn.
Finally_StateKept ==
  /\ activeAgentRunId' = NoTurn
  /\ UNCHANGED shown
Finally ==
  /\ activeAgentRunId' = NoTurn
  /\ SetState("listening")

RunThrows(t) ==
  /\ Goto(t, "asking", "ended")
  /\ EndSubscription /\ Finally
  /\ UNCHANGED <<session, hearing, closed, current, aborted, speech>>

\* runAgent returned, and n sentences are left: the rest of the text, or a notice.
\* A drain that is running already is not waited for.
RunReturns(t, n) ==
  /\ EndSubscription
  /\ \/ /\ Goto(t, "running", "ended")
        /\ ~IsCurrent(t) \/ mode = "stt" \/ (n = 0 /\ t \notin draining)
        /\ Finally /\ UNCHANGED speech
     \/ /\ Goto(t, "running", "ended")
        /\ IsCurrent(t) /\ t \in draining /\ RoomFor(t, n)
        /\ queue' = [queue EXCEPT ![t] = @ + n]
        /\ Finally /\ UNCHANGED <<draining, ttsAbortController, silenced, said>>
     \/ /\ Goto(t, "running", "speaking")
        /\ IsCurrent(t) /\ t \notin draining /\ mode # "stt" /\ n > 0 /\ RoomFor(t, n)
        /\ Enqueue(t, n) /\ UNCHANGED activeAgentRunId
  /\ UNCHANGED <<session, hearing, closed, current, aborted>>

-----------------------------------------------------------------------------
(* drainQueue *)

NextSentence_AnyTurn(t) ==
  /\ t \in draining /\ queue[t] > 0
  /\ queue' = [queue EXCEPT ![t] = @ - 1]
  /\ Speak(t)
  /\ UNCHANGED <<session, hearing, closed, pc, handles>>

\* The present sentence ended, failed or was stopped; on to the next one ...
NextSentence(t) ==
  /\ t \in draining /\ queue[t] > 0 /\ IsCurrent(t)
  /\ queue' = [queue EXCEPT ![t] = @ - 1]
  /\ Speak(t)
  /\ UNCHANGED <<session, hearing, closed, pc, handles>>

LastSentence_NobodyTold(t) ==
  /\ t \in draining /\ (queue[t] = 0 \/ ~IsCurrent(t))
  /\ draining' = draining \ {t}
  /\ UNCHANGED <<session, shown, hearing, closed, pc, handles, queue, ttsAbortController, silenced, said>>

\* ... or the drain is over, and so is a turn that waits for it.
LastSentence(t) ==
  /\ t \in draining /\ (queue[t] = 0 \/ ~IsCurrent(t))
  /\ draining' = draining \ {t}
  /\ IF pc[t] = "speaking"
       THEN Goto(t, "speaking", "ended") /\ Finally
       ELSE UNCHANGED <<pc, shown, activeAgentRunId>>
  /\ UNCHANGED <<session, hearing, closed, current, handlers, unsubscribeDelta, aborted,
                 queue, ttsAbortController, silenced, said>>

-----------------------------------------------------------------------------
UserStep ==
  \/ Stop \/ Close \/ Trigger \/ HearNothing \/ HearStart
  \/ \E t \in Turns :
       HearEnd(t) \/ HearWhole(t) \/ HearEndAndStart(t) \/ EndUtteranceNow(t) \/ UserText(t)

TurnStep(t) ==
  \/ TranscriptionFails(t) \/ NothingSaid(t) \/ Transcribed(t)
  \/ RunStarts(t) \/ RunThrows(t) \/ \E n \in 0..2 : RunReturns(t, n)

SpeechStep(t) == NextSentence(t) \/ LastSentence(t)

Next == UserStep \/ \E t \in Turns : TurnStep(t) \/ SpeechStep(t) \/ Delta(t)

Spec == Init /\ [][Next]_vars

\* Transcription, agent runs (module AgentRun, RequestsEnd) and speech synthesis
\* return or throw.  The user and the model do what they like.
Fairness == \A t \in Turns : WF_vars(TurnStep(t)) /\ WF_vars(SpeechStep(t))

FairSpec == Spec /\ Fairness

-----------------------------------------------------------------------------
(* What must hold *)

\* Only the turn that holds the present generation of an open session ever begins
\* a sentence: what is left of an interrupted or superseded reply stays unspoken.
SupersededStaysSilent ==
  [][\A t \in Turns : said'[t] > said[t] => IsCurrent(t)]_vars

\* With a patient user at most one reply is heard, and it is the one that
\* interrupt would stop - though turns that were interrupted are still winding down.
OneVoice ==
  discipline = "patient" => \A t \in Turns : Audible(t) => ttsAbortController = t

\* A run is aborted only when its reply is no longer wanted, although the id that
\* interrupt aborts is whichever run was created last.
AbortedRunIsSuperseded ==
  \A t \in aborted : ~IsCurrent(t)

\* The session does not go on showing "thinking" when no turn is under way, however
\* turns overlapped (a failed transcription leaves it so; see the README).
ThinkingMeansWork ==
  state = "thinking" => \E t \in Turns : pc[t] \notin {"none", "ended"}

\* Every turn comes to its end, and its speech with it.
TurnsEnd ==
  \A t \in Turns :
    pc[t] # "none" ~> (pc[t] \in {"ended", "unheard"} /\ t \notin draining)

-----------------------------------------------------------------------------
(* What the repository says and the code does not do *)

\* When the user starts talking, what is being spoken stops (VOICE.md, Barge-in).
BargeInSilences ==
  [][hearing' /\ ~hearing => \A t \in Turns : ~Audible(t)']_vars
=============================================================================
