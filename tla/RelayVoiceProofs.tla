-------------------------- MODULE RelayVoiceProofs --------------------------
(***************************************************************************)
(* Theorems about RelayVoice, for any number of turns and sentences and    *)
(* every kind of session the constants admit.                              *)
(***************************************************************************)
EXTENDS RelayVoice, TLAPS

USE SetsAssumption

-----------------------------------------------------------------------------
(* The parts of a step *)

LEMMA GotoMoves ==
  ASSUME TypeOK, NEW t \in Turns, NEW from, NEW to \in PCs, Goto(t, from, to)
  PROVE  /\ pc[t] = from /\ pc'[t] = to /\ pc' \in [Turns -> PCs]
         /\ \A u \in Turns : u # t => pc'[u] = pc[u]
  BY DEF TypeOK, Goto

LEMMA SetStateTypes ==
  ASSUME TypeOK, NEW s \in States, SetState(s)
  PROVE  state' = s /\ state' \in States /\ activated' \in BOOLEAN
  BY DEF TypeOK, SetState

LEMMA StopReplyTypes ==
  ASSUME TypeOK, StopReply
  PROVE  /\ {current', unsubscribeDelta', activeAgentRunId', ttsAbortController'} = {NoTurn}
         /\ UNION {handlers', aborted', draining', silenced'} \subseteq Turns
         /\ UNCHANGED <<queue, said, draining>>
  BY DEF TypeOK, StopReply

LEMMA SpeakTypes ==
  ASSUME TypeOK, NEW t \in Turns, Speak(t)
  PROVE  /\ state' = "speaking" /\ activated' \in BOOLEAN
         /\ ttsAbortController' = t
         /\ silenced' = silenced \ {t} /\ draining' = draining \union {t}
         /\ said' = [said EXCEPT ![t] = @ + 1] /\ said' \in [Turns -> Nat]
  BY DEF TypeOK, Speak, SetState, States

\* What enqueueing does, whether the turn is speaking already or not.
LEMMA EnqueueTypes ==
  ASSUME TypeOK, NEW t \in Turns, NEW n \in Nat, Enqueue(t, n)
  PROVE  /\ queue' \in [Turns -> Nat] /\ state' \in States
         /\ \/ UNCHANGED <<shown, draining, ttsAbortController, silenced, said>>
            \/ Speak(t)
<1>1. CASE mode = "stt" \/ n = 0
  BY <1>1 DEF Enqueue, TypeOK, shown, speech
<1>2. CASE mode # "stt" /\ n # 0 /\ t \in draining
  BY <1>2 DEF Enqueue, TypeOK, shown
<1>3. CASE mode # "stt" /\ n # 0 /\ t \notin draining
  <2>1. queue' = [queue EXCEPT ![t] = @ + n - 1] /\ Speak(t)
    BY <1>3 DEF Enqueue
  <2>2. queue' \in [Turns -> Nat]
    BY <1>3, <2>1 DEF TypeOK
  <2> QED
    BY <2>1, <2>2, SpeakTypes DEF States
<1> QED
  BY <1>1, <1>2, <1>3

LEMMA InterruptTypes ==
  ASSUME TypeOK, Interrupt
  PROVE  /\ \/ StopReply /\ Busy /\ state' = "listening"
            \/ ~Busy /\ UNCHANGED <<handles, speech, shown>>
         /\ state' \in States /\ activated' \in BOOLEAN
  BY DEF Interrupt, SetState, TypeOK, States, shown

-----------------------------------------------------------------------------
(* Type correctness *)

LEMMA TypeStep == TypeOK /\ [Next]_vars => TypeOK'
<1> SUFFICES ASSUME TypeOK, [Next]_vars PROVE TypeOK'
  OBVIOUS
<1> USE DEF session, handles, speech, shown
<1>1. CASE UNCHANGED vars
  BY <1>1 DEF vars, TypeOK
<1>2. ASSUME Interrupt, UNCHANGED <<session, hearing>>, closed' \in BOOLEAN,
             pc' \in [Turns -> PCs]
      PROVE  TypeOK'
  BY <1>2, InterruptTypes, StopReplyTypes DEF TypeOK
<1>3. CASE Stop \/ Close
  BY <1>2, <1>3 DEF Stop, Close, TypeOK
<1>4. CASE Trigger \/ HearNothing
  BY <1>4, SetStateTypes DEF Trigger, HearNothing, TypeOK, States
<1>5. CASE HearStart
  <2>1. CASE Busy
    <3>1. Interrupt
      BY <1>5, <2>1 DEF HearStart
    <3> QED
      BY <1>5, <3>1, InterruptTypes, StopReplyTypes DEF HearStart, TypeOK
  <2>2. CASE ~Busy
    BY <1>5, <2>2, SetStateTypes DEF HearStart, TypeOK, States
  <2> QED
    BY <2>1, <2>2
<1>6. ASSUME NEW t \in Turns, HearEnd(t) \/ HearWhole(t) \/ HearEndAndStart(t) PROVE TypeOK'
  <2>1. pc' \in [Turns -> PCs]
    BY <1>6, GotoMoves DEF HearEnd, HearWhole, HearEndAndStart, PCs
  <2>2. state' \in States /\ activated' \in BOOLEAN /\ hearing' \in BOOLEAN
    BY <1>6, SetStateTypes DEF HearEnd, HearWhole, HearEndAndStart, TypeOK, States
  <2>3. StopReply \/ UNCHANGED <<handles, speech>>
    BY <1>6 DEF HearEnd, HearWhole, HearEndAndStart
  <2> QED
    BY <1>6, <2>1, <2>2, <2>3, StopReplyTypes DEF HearEnd, HearWhole, HearEndAndStart, TypeOK
<1>7. ASSUME NEW t \in Turns, EndUtteranceNow(t) PROVE TypeOK'
  <2>1. pc' \in [Turns -> PCs] /\ state' \in States /\ activated' \in BOOLEAN
    BY <1>7, GotoMoves, SetStateTypes DEF EndUtteranceNow, PCs, States, TypeOK
  <2> QED
    BY <1>7, <2>1 DEF EndUtteranceNow, TypeOK
<1>8. ASSUME NEW t \in Turns, Transcribed(t) \/ UserText(t) PROVE TypeOK'
  <2>1. pc' \in [Turns -> PCs]
    BY <1>8, GotoMoves DEF Transcribed, UserText, RespondTo, PCs
  <2> QED
    BY <1>8, <2>1 DEF Transcribed, UserText, RespondTo, TypeOK
<1>9. ASSUME NEW t \in Turns, TranscriptionFails(t) \/ NothingSaid(t) \/ RunStarts(t) \/ RunThrows(t)
      PROVE  TypeOK'
  <2>1. pc' \in [Turns -> PCs]
    BY <1>9, GotoMoves DEF TranscriptionFails, NothingSaid, RunStarts, RunThrows, PCs
  <2>2. state' \in States /\ activated' \in BOOLEAN
    BY <1>9, SetStateTypes
       DEF TranscriptionFails, NothingSaid, RunStarts, RunThrows, Finally, States, TypeOK
  <2> QED
    BY <1>9, <2>1, <2>2
       DEF TranscriptionFails, NothingSaid, RunStarts, RunThrows, EndSubscription, Finally, TypeOK
<1>10. ASSUME NEW t \in Turns, NEW n \in 0..2, RunReturns(t, n) PROVE TypeOK'
  <2>1. pc' \in [Turns -> PCs]
    BY <1>10, GotoMoves DEF RunReturns, PCs
  <2>2. /\ state' \in States /\ activated' \in BOOLEAN
        /\ queue' \in [Turns -> Nat] /\ said' \in [Turns -> Nat]
        /\ activeAgentRunId' \in Turns \union {NoTurn}
        /\ ttsAbortController' \in Turns \union {NoTurn}
        /\ draining' \subseteq Turns /\ silenced' \subseteq Turns
    <3>1. CASE Finally /\ UNCHANGED speech
      BY <3>1, SetStateTypes DEF Finally, TypeOK, States
    <3>2. CASE /\ queue' = [queue EXCEPT ![t] = @ + n]
               /\ Finally /\ UNCHANGED <<draining, ttsAbortController, silenced, said>>
      BY <3>2, SetStateTypes DEF Finally, TypeOK, States
    <3>3. CASE Enqueue(t, n) /\ UNCHANGED activeAgentRunId
      BY <3>3, EnqueueTypes, SpeakTypes DEF TypeOK
    <3> QED
      BY <1>10, <3>1, <3>2, <3>3 DEF RunReturns
  <2> QED
    BY <1>10, <2>1, <2>2 DEF RunReturns, EndSubscription, TypeOK
<1>11. ASSUME NEW t \in Turns, NextSentence(t) PROVE TypeOK'
  <2>1. queue' \in [Turns -> Nat]
    BY <1>11 DEF NextSentence, TypeOK
  <2>2. Speak(t)
    BY <1>11 DEF NextSentence
  <2> QED
    BY <1>11, <2>1, <2>2, SpeakTypes DEF NextSentence, TypeOK, States
<1>12. ASSUME NEW t \in Turns, LastSentence(t) PROVE TypeOK'
  <2>1. /\ pc' \in [Turns -> PCs] /\ state' \in States /\ activated' \in BOOLEAN
        /\ activeAgentRunId' \in Turns \union {NoTurn}
    BY <1>12, GotoMoves, SetStateTypes DEF LastSentence, Finally, PCs, States, TypeOK
  <2> QED
    BY <1>12, <2>1 DEF LastSentence, TypeOK
<1>13. ASSUME NEW t \in Turns, Delta(t) PROVE TypeOK'
  <2>1. current \in Turns /\ Enqueue(current, 1)
    BY <1>13 DEF Delta, TypeOK
  <2>2. PICK u \in Turns : u = current
    BY <2>1
  <2>3. Enqueue(u, 1)
    BY <2>1, <2>2 DEF Enqueue, Speak
  <2>4. /\ queue' \in [Turns -> Nat] /\ state' \in States
        /\ \/ UNCHANGED <<shown, draining, ttsAbortController, silenced, said>>
           \/ Speak(u)
    BY <2>3, EnqueueTypes
  <2> QED
    BY <1>13, <2>4, SpeakTypes DEF Delta, TypeOK
<1> QED
  BY <1>1, <1>3, <1>4, <1>5, <1>6, <1>7, <1>8, <1>9, <1>10, <1>11, <1>12, <1>13
     DEF Next, UserStep, TurnStep, SpeechStep

\* Every variable keeps its type; the numbers of sentences never go below zero.
THEOREM TypeCorrect == Spec => []TypeOK
<1>1. Init => TypeOK
  <2> SUFFICES ASSUME Init PROVE TypeOK
    OBVIOUS
  <2>1. activated \in BOOLEAN
    BY Zenon DEF Init
  <2>2. {current, unsubscribeDelta, activeAgentRunId, ttsAbortController} = {NoTurn}
        /\ UNION {handlers, aborted, draining, silenced} = {}
    BY DEF Init
  <2>3. queue \in [Turns -> Nat] /\ said \in [Turns -> Nat] /\ pc \in [Turns -> PCs]
    BY DEF Init, PCs
  <2> QED
    BY <2>1, <2>2, <2>3 DEF Init, TypeOK, States
<1> QED
  BY <1>1, TypeStep, PTL DEF Spec

-----------------------------------------------------------------------------
(* What a step does to the speech, and to the turn of the present generation *)

\* A sentence is only begun for the turn that holds the present generation, and that
\* is being spoken, takes what an agent run says, or has just got its answer.
Begins(t) ==
  /\ IsCurrent(t) /\ Speak(t) /\ UNCHANGED <<current, closed>>
  /\ t \in draining \union handlers \/ pc[t] = "running"

LEMMA SpeechKinds ==
  ASSUME TypeOK, Next
  PROVE  \/ UNCHANGED <<ttsAbortController, silenced, said>> /\ draining' \subseteq draining
         \/ StopReply
         \/ \E t \in Turns : Begins(t)
<1> USE DEF speech, handles
<1>1. CASE Stop \/ Close \/ HearStart
  BY <1>1 DEF Stop, Close, HearStart, Interrupt
<1>2. CASE Trigger \/ HearNothing
  BY <1>2 DEF Trigger, HearNothing
<1>3. CASE \E t \in Turns : HearEnd(t) \/ HearWhole(t) \/ HearEndAndStart(t) \/ EndUtteranceNow(t)
  BY <1>3 DEF HearEnd, HearWhole, HearEndAndStart, EndUtteranceNow
<1>4. CASE \E t \in Turns : \/ Transcribed(t) \/ UserText(t) \/ TranscriptionFails(t)
                            \/ NothingSaid(t) \/ RunStarts(t) \/ RunThrows(t)
  BY <1>4 DEF Transcribed, UserText, RespondTo, TranscriptionFails, NothingSaid, RunStarts, RunThrows
<1>5. ASSUME NEW t \in Turns, NEW n \in 0..2, RunReturns(t, n)
      PROVE  \/ UNCHANGED <<ttsAbortController, silenced, said>> /\ draining' \subseteq draining
             \/ Begins(t)
  <2>1. CASE UNCHANGED <<draining, ttsAbortController, silenced, said>>
    BY <2>1
  <2>2. CASE IsCurrent(t) /\ Enqueue(t, n)
    BY <1>5, <2>2, EnqueueTypes DEF RunReturns, Begins, Goto
  <2> QED
    BY <1>5, <2>1, <2>2 DEF RunReturns
<1>6. CASE \E t \in Turns : NextSentence(t)
  BY <1>6 DEF NextSentence, Begins
<1>7. CASE \E t \in Turns : LastSentence(t)
  BY <1>7 DEF LastSentence
<1>8. CASE \E t \in Turns : Delta(t)
  <2>1. PICK u \in Turns : u = current
    BY <1>8 DEF Delta, TypeOK
  <2>2. IsCurrent(u) /\ Enqueue(u, 1) /\ UNCHANGED <<current, closed>> /\ u \in handlers
    BY <1>8, <2>1 DEF Delta, Enqueue, Speak
  <2>3. UNCHANGED <<draining, ttsAbortController, silenced, said>> \/ Speak(u)
    BY <2>2, EnqueueTypes
  <2> QED
    BY <2>2, <2>3 DEF Begins
<1> QED
  BY <1>1, <1>2, <1>3, <1>4, <1>5, <1>6, <1>7, <1>8 DEF Next, UserStep, TurnStep, SpeechStep

LEMMA CurrentKinds ==
  ASSUME TypeOK, Next
  PROVE  \/ UNCHANGED current
         \/ StopReply
         \/ \E t \in Turns : Transcribed(t) \/ UserText(t)
<1> USE DEF handles
<1>1. CASE Stop \/ Close \/ HearStart \/ Trigger \/ HearNothing
  BY <1>1 DEF Stop, Close, HearStart, Trigger, HearNothing, Interrupt
<1>2. CASE \E t \in Turns : HearEnd(t) \/ HearWhole(t) \/ HearEndAndStart(t) \/ EndUtteranceNow(t)
  BY <1>2 DEF HearEnd, HearWhole, HearEndAndStart, EndUtteranceNow
<1>3. CASE \E t \in Turns :
             \/ TranscriptionFails(t) \/ NothingSaid(t) \/ RunStarts(t) \/ RunThrows(t)
             \/ \E n \in 0..2 : RunReturns(t, n)
             \/ NextSentence(t) \/ LastSentence(t) \/ Delta(t)
  BY <1>3 DEF TranscriptionFails, NothingSaid, RunStarts, RunThrows, RunReturns, NextSentence,
     LastSentence, Delta
<1> QED
  BY <1>1, <1>2, <1>3 DEF Next, UserStep, TurnStep, SpeechStep

\* Only the turn that holds the present generation of an open session begins a
\* sentence, whatever overlaps: the check before a sentence and the beginning of it
\* are one step of the event loop.
THEOREM OnlyCurrentSpeaks == Spec => SupersededStaysSilent
<1>1. TypeOK /\ [Next]_vars
        => [\A t \in Turns : said'[t] > said[t] => IsCurrent(t)]_vars
  <2> SUFFICES ASSUME TypeOK, Next, NEW t \in Turns, said'[t] > said[t] PROVE IsCurrent(t)
    OBVIOUS
  <2>1. said'[t] # said[t] /\ said \in [Turns -> Nat]
    BY DEF TypeOK
  <2>2. ~StopReply
    BY <2>1 DEF StopReply
  <2>3. PICK u \in Turns : Begins(u)
    BY <2>1, <2>2, SpeechKinds
  <2>4. said' = [said EXCEPT ![u] = @ + 1]
    BY <2>3, SpeakTypes DEF Begins
  <2> QED
    BY <2>1, <2>3, <2>4 DEF Begins
<1> QED
  BY <1>1, TypeCorrect, PTL DEF Spec, SupersededStaysSilent

-----------------------------------------------------------------------------
(* The session shows what it does *)

LEMMA ThinkingStep == TypeOK /\ ThinkingMeansWork /\ [Next]_vars => ThinkingMeansWork'
<1> DEFINE Works(t) == pc[t] \notin {"none", "ended"}
<1> SUFFICES ASSUME TypeOK, ThinkingMeansWork, [Next]_vars, state' = "thinking"
             PROVE  \E t \in Turns : Works(t)'
  BY DEF ThinkingMeansWork
<1>0. ASSUME UNCHANGED <<pc, state>> PROVE \E t \in Turns : Works(t)'
  BY <1>0 DEF ThinkingMeansWork
<1>1. ASSUME NEW t \in Turns, NEW from, NEW to \in PCs \ {"none", "ended"}, Goto(t, from, to)
      PROVE  \E u \in Turns : Works(u)'
  BY <1>1, GotoMoves
<1>2. CASE UNCHANGED vars
  BY <1>0, <1>2 DEF vars, shown
<1>3. CASE Stop \/ Close \/ Trigger \/ HearNothing \/ HearStart
  <2>1. state' = "listening" \/ UNCHANGED <<pc, state>>
    BY <1>3, InterruptTypes DEF Stop, Close, Trigger, HearNothing, HearStart, SetState, shown
  <2> QED
    BY <1>0, <2>1
<1>4. ASSUME NEW t \in Turns, \/ HearEnd(t) \/ HearWhole(t) \/ HearEndAndStart(t)
                              \/ EndUtteranceNow(t) \/ UserText(t) \/ Transcribed(t)
                              \/ TranscriptionFails(t) \/ RunStarts(t)
      PROVE  \E u \in Turns : Works(u)'
  <2>1. \/ \E from \in PCs, to \in PCs \ {"none", "ended"} : Goto(t, from, to)
        \/ UNCHANGED <<pc, state>>
    BY <1>4 DEF HearEnd, HearWhole, HearEndAndStart, EndUtteranceNow, UserText, Transcribed,
       RespondTo, TranscriptionFails, RunStarts, PCs, shown
  <2> QED
    BY <1>0, <1>1, <2>1
<1>5. ASSUME NEW t \in Turns, \/ NothingSaid(t) \/ RunThrows(t) \/ LastSentence(t)
                              \/ \E n \in 0..2 : RunReturns(t, n)
                              \/ NextSentence(t) \/ Delta(t)
      PROVE  \E u \in Turns : Works(u)'
  <2>1. CASE Goto(t, "running", "speaking")
    BY <1>1, <2>1 DEF PCs
  <2>2. CASE NextSentence(t)
    BY <2>2 DEF NextSentence, Speak, SetState
  <2>3. CASE Delta(t)
    BY <1>0, <2>3 DEF Delta, Enqueue, Speak, SetState, shown
  <2>4. CASE LastSentence(t)
    BY <1>0, <2>4 DEF LastSentence, Finally, SetState, shown
  <2>5. CASE NothingSaid(t) \/ RunThrows(t)
    BY <2>5 DEF NothingSaid, RunThrows, Finally, SetState
  <2>6. CASE \E n \in 0..2 : RunReturns(t, n)
    BY <2>1, <2>6 DEF RunReturns, Finally, SetState
  <2> QED
    BY <1>5, <2>2, <2>3, <2>4, <2>5, <2>6
<1> QED
  BY <1>2, <1>3, <1>4, <1>5 DEF Next, UserStep, TurnStep, SpeechStep

\* "thinking" is only shown while some turn has not come to its end.
THEOREM ThinkingIsWork == Spec => []ThinkingMeansWork
<1>1. Init => ThinkingMeansWork
  BY DEF Init, ThinkingMeansWork
<1> QED
  BY <1>1, ThinkingStep, TypeCorrect, PTL DEF Spec

-----------------------------------------------------------------------------
(* The turns the fields name have begun *)

Begun(t) == pc[t] \notin {"none", "transcribing"}

\* Every turn a field of the session names, or something was done to.
Named ==
  aborted \union silenced \union draining \union handlers
    \union {current, ttsAbortController, unsubscribeDelta, activeAgentRunId}

NamedHaveBegun == \A t \in Turns : t \in Named => Begun(t)

LEMMA BegunStays ==
  ASSUME TypeOK, Next, NEW t \in Turns, Begun(t)
  PROVE  Begun(t)'
<1>0. ASSUME NEW u \in Turns, NEW from \in PCs, NEW to \in PCs, Goto(u, from, to),
             to \in {"none", "transcribing"} => from \in {"none", "transcribing"}
      PROVE  Begun(t)'
  BY <1>0, GotoMoves DEF Begun
<1>1. CASE UNCHANGED pc
  BY <1>1 DEF Begun
<1>2. ASSUME NEW u \in Turns, \/ HearEnd(u) \/ HearWhole(u) \/ HearEndAndStart(u)
                              \/ EndUtteranceNow(u)
      PROVE  Begun(t)'
  BY <1>0, <1>1, <1>2 DEF HearEnd, HearWhole, HearEndAndStart, EndUtteranceNow, PCs
<1>3. ASSUME NEW u \in Turns, UserText(u) \/ Transcribed(u) \/ TranscriptionFails(u) \/ NothingSaid(u)
      PROVE  Begun(t)'
  BY <1>0, <1>3 DEF UserText, Transcribed, RespondTo, TranscriptionFails, NothingSaid, PCs
<1>4. ASSUME NEW u \in Turns, \/ RunStarts(u) \/ RunThrows(u)
                              \/ LastSentence(u) \/ \E n \in 0..2 : RunReturns(u, n)
      PROVE  Begun(t)'
  BY <1>0, <1>1, <1>4 DEF RunStarts, RunThrows, LastSentence, RunReturns, PCs
<1>5. CASE \/ Stop \/ Close \/ Trigger \/ HearNothing \/ HearStart
           \/ \E u \in Turns : NextSentence(u) \/ Delta(u)
  BY <1>1, <1>5 DEF Stop, Close, Trigger, HearNothing, HearStart, NextSentence, Delta
<1> QED
  BY <1>2, <1>3, <1>4, <1>5 DEF Next, UserStep, TurnStep, SpeechStep

\* Where the fields get their names from: a turn begins to ask, or its run has been
\* created; all else passes on a name there is already.
LEMMA NamesPassedOn ==
  ASSUME TypeOK, Next
  PROVE  \/ Named' \subseteq Named \union {NoTurn}
         \/ \E t \in Turns : /\ Transcribed(t) \/ UserText(t) \/ RunStarts(t)
                             /\ Named' \subseteq Named \union {t}
<1> USE DEF handles, speech
<1>1. ASSUME StopReply PROVE Named' \subseteq Named \union {NoTurn}
  BY <1>1 DEF StopReply, Named
<1>2. ASSUME UNCHANGED <<handles, speech>> PROVE Named' \subseteq Named \union {NoTurn}
  BY <1>2 DEF Named
<1>3. CASE Stop \/ Close \/ Trigger \/ HearNothing \/ HearStart
  <2>1. StopReply \/ UNCHANGED <<handles, speech>>
    BY <1>3 DEF Stop, Close, Trigger, HearNothing, HearStart, Interrupt
  <2> QED
    BY <1>1, <1>2, <2>1
<1>4. ASSUME NEW t \in Turns, \/ HearEnd(t) \/ HearWhole(t) \/ HearEndAndStart(t)
                              \/ EndUtteranceNow(t) \/ TranscriptionFails(t) \/ NothingSaid(t)
      PROVE  Named' \subseteq Named \union {NoTurn}
  <2>1. StopReply \/ UNCHANGED <<handles, speech>>
    BY <1>4 DEF HearEnd, HearWhole, HearEndAndStart, EndUtteranceNow, TranscriptionFails, NothingSaid
  <2> QED
    BY <1>1, <1>2, <2>1
<1>5. ASSUME NEW t \in Turns, Transcribed(t) \/ UserText(t) \/ RunStarts(t)
      PROVE  Named' \subseteq Named \union {t}
  BY <1>5 DEF Transcribed, UserText, RespondTo, RunStarts, Named
<1>6. ASSUME NEW t \in Turns, RunThrows(t) PROVE Named' \subseteq Named \union {NoTurn}
  BY <1>6 DEF RunThrows, EndSubscription, Finally, Named
<1>7. ASSUME NEW t \in Turns, \/ \E n \in 0..2 : RunReturns(t, n)
                              \/ NextSentence(t) \/ LastSentence(t) \/ Delta(t)
      PROVE  Named' \subseteq Named \union {NoTurn}
  <2>1. /\ handlers' \subseteq handlers /\ UNCHANGED <<current, aborted>>
        /\ unsubscribeDelta' \in {unsubscribeDelta, NoTurn}
        /\ activeAgentRunId' \in {activeAgentRunId, NoTurn}
    <3>1. CASE NextSentence(t) \/ LastSentence(t) \/ Delta(t)
      BY <3>1 DEF NextSentence, LastSentence, Delta, Finally
    <3>2. CASE \E n \in 0..2 : RunReturns(t, n)
      <4>1. /\ EndSubscription /\ UNCHANGED <<current, aborted>>
            /\ activeAgentRunId' \in {activeAgentRunId, NoTurn}
        BY <3>2 DEF RunReturns, Finally
      <4> QED
        BY <4>1 DEF EndSubscription
    <3> QED
      BY <1>7, <3>1, <3>2
  <2>3. CASE UNCHANGED <<ttsAbortController, silenced, said>> /\ draining' \subseteq draining
    <3>1. /\ aborted' \union silenced' \union draining' \union handlers' \subseteq Named
          /\ {current', ttsAbortController', unsubscribeDelta', activeAgentRunId'}
               \subseteq Named \union {NoTurn}
      BY <2>1, <2>3 DEF Named
    <3> QED
      BY <3>1 DEF Named
  <2>4. ASSUME NEW u \in Turns, Begins(u) PROVE Named' \subseteq Named \union {NoTurn}
    <3>1. u \in Named /\ u = current
      BY <2>4 DEF Begins, IsCurrent, Named
    <3>2. ttsAbortController' = u /\ silenced' \subseteq silenced /\ draining' = draining \union {u}
      BY <2>4, SpeakTypes DEF Begins
    <3>3. draining' \subseteq Named /\ silenced' \subseteq Named
      BY <3>1, <3>2 DEF Named
    <3>4. handlers' \subseteq Named /\ aborted' \subseteq Named
          /\ {current', ttsAbortController', unsubscribeDelta', activeAgentRunId'}
               \subseteq Named \union {NoTurn}
      BY <2>1, <3>1, <3>2 DEF Named
    <3> QED
      BY <3>3, <3>4 DEF Named
  <2> QED
    BY <1>1, <2>3, <2>4, SpeechKinds
<1> QED
  BY <1>3, <1>4, <1>5, <1>6, <1>7 DEF Next, UserStep, TurnStep, SpeechStep

LEMMA NamedStep == TypeOK /\ NamedHaveBegun /\ [Next]_vars => NamedHaveBegun'
<1> SUFFICES ASSUME TypeOK, NamedHaveBegun, [Next]_vars, NEW t \in Turns, t \in Named'
             PROVE  Begun(t)'
  BY DEF NamedHaveBegun
<1>1. CASE UNCHANGED vars
  BY <1>1 DEF vars, handles, speech, NamedHaveBegun, Named, Begun
<1>2. CASE Next
  <2>1. CASE t \in Named
    BY <1>2, <2>1, BegunStays DEF NamedHaveBegun
  <2>2. CASE t \notin Named
    <3>1. Transcribed(t) \/ UserText(t) \/ RunStarts(t)
      BY <1>2, <2>2, NamesPassedOn
    <3>2. pc'[t] \in {"asking", "running"}
      BY <3>1, GotoMoves DEF Transcribed, UserText, RespondTo, RunStarts, PCs
    <3> QED
      BY <3>2 DEF Begun
  <2> QED
    BY <2>1, <2>2
<1> QED
  BY <1>1, <1>2

LEMMA NamedHold == Spec => []NamedHaveBegun
<1>1. Init => NamedHaveBegun
  BY DEF Init, NamedHaveBegun, Named
<1> QED
  BY <1>1, NamedStep, TypeCorrect, PTL DEF Spec

-----------------------------------------------------------------------------
(* What was stopped is not current *)

Superseded == \A t \in aborted \union silenced : ~IsCurrent(t)

LEMMA ClosedStays == TypeOK /\ Next /\ closed => closed'
  BY DEF Next, UserStep, Stop, Close, Trigger, HearNothing, HearStart, HearEnd, HearWhole,
     HearEndAndStart, EndUtteranceNow, UserText, TurnStep, TranscriptionFails, NothingSaid,
     Transcribed, RespondTo, RunStarts, RunThrows, RunReturns, SpeechStep, NextSentence,
     LastSentence, Delta, session

\* A turn gets the present generation when it begins to ask, and at no other time.
LEMMA NotCurrentAgain ==
  ASSUME TypeOK, Next, NEW t \in Turns, Begun(t), ~IsCurrent(t)
  PROVE  ~IsCurrent(t)'
<1>1. closed => closed'
  BY ClosedStays
<1>2. CASE UNCHANGED current
  BY <1>1, <1>2 DEF IsCurrent
<1>3. CASE StopReply
  BY <1>3 DEF StopReply, IsCurrent
<1>4. ASSUME NEW u \in Turns, Transcribed(u) \/ UserText(u) PROVE ~IsCurrent(t)'
  <2>1. current' = u /\ pc[u] \in {"none", "transcribing"}
    BY <1>4 DEF Transcribed, UserText, RespondTo, Goto
  <2> QED
    BY <2>1 DEF IsCurrent, Begun
<1> QED
  BY <1>2, <1>3, <1>4, CurrentKinds

LEMMA SupersededStep ==
  TypeOK /\ NamedHaveBegun /\ Superseded /\ [Next]_vars => Superseded'
<1> SUFFICES ASSUME TypeOK, NamedHaveBegun, Superseded, [Next]_vars PROVE Superseded'
  OBVIOUS
<1>1. CASE UNCHANGED vars
  BY <1>1 DEF vars, handles, speech, Superseded, IsCurrent
<1>2. CASE Next /\ StopReply
  <2>1. current' = NoTurn /\ aborted' \subseteq Turns /\ silenced' \subseteq Turns
    BY <1>2, StopReplyTypes DEF StopReply
  <2> QED
    BY <2>1 DEF Superseded, IsCurrent
<1>3. CASE Next /\ ~StopReply
  <2>1. aborted' = aborted
    BY <1>3 DEF Next, UserStep, Stop, Close, Trigger, HearNothing, HearStart, HearEnd, HearWhole,
       HearEndAndStart, EndUtteranceNow, UserText, TurnStep, TranscriptionFails, NothingSaid,
       Transcribed, RespondTo, RunStarts, RunThrows, RunReturns, SpeechStep, NextSentence,
       LastSentence, Delta, Interrupt, handles
  <2>2. silenced' \subseteq silenced
    BY <1>3, SpeechKinds, SpeakTypes DEF Begins
  <2>3. ASSUME NEW t \in aborted' \union silenced' PROVE ~IsCurrent(t)'
    <3>1. t \in aborted \union silenced /\ t \in Turns
      BY <2>1, <2>2 DEF TypeOK
    <3>2. Begun(t)
      BY <3>1 DEF NamedHaveBegun, Named
    <3> QED
      BY <1>3, <3>1, <3>2, NotCurrentAgain DEF Superseded
  <2> QED
    BY <2>3 DEF Superseded
<1> QED
  BY <1>1, <1>2, <1>3

LEMMA SupersededHold == Spec => []Superseded
<1>1. Init => Superseded
  BY DEF Init, Superseded
<1> QED
  BY <1>1, SupersededStep, NamedHold, TypeCorrect, PTL DEF Spec

\* interrupt aborts whichever run was created last; still no aborted run is ever the
\* one whose reply the session wants.
THEOREM AbortedIsSuperseded == Spec => []AbortedRunIsSuperseded
<1>1. Superseded => AbortedRunIsSuperseded
  BY DEF Superseded, AbortedRunIsSuperseded
<1> QED
  BY <1>1, SupersededHold, PTL

-----------------------------------------------------------------------------
(* A patient user *)

Transcribing(t) == pc[t] = "transcribing"
Answering(t) == pc[t] \in {"asking", "running", "speaking"}
Heard == hearing \/ \E t \in Turns : Transcribing(t)
Quiet == \A t \in Turns : ~Audible(t) /\ ~(IsCurrent(t) /\ Answering(t))

\* One thing at a time: an utterance is being heard, or it is transcribed, or a reply
\* to it is made and spoken.  What still winds down of older turns is not current,
\* takes no deltas and is not heard.
OneEar ==
  \A t \in Turns : Transcribing(t) => ~hearing /\ \A u \in Turns : Transcribing(u) => u = t
EarMeansQuiet == Heard => Quiet /\ mode # "tts"
OneHandler ==
  ~closed => \A t \in handlers :
    t = current /\ t = unsubscribeDelta /\ pc[t] \in {"asking", "running"}
VoiceIsCurrent == \A t \in Turns : Audible(t) => t = current /\ t = ttsAbortController
InTurn == OneEar /\ EarMeansQuiet /\ OneHandler /\ VoiceIsCurrent

LEMMA AudibleKinds ==
  ASSUME TypeOK, Next, NEW t \in Turns, Audible(t)'
  PROVE  Audible(t) \/ Begins(t)
<1>1. ~closed
  BY ClosedStays DEF Audible
<1>2. CASE UNCHANGED <<ttsAbortController, silenced, said>> /\ draining' \subseteq draining
  BY <1>1, <1>2 DEF Audible
<1>3. CASE StopReply
  BY <1>1, <1>3 DEF StopReply, Audible
<1>4. ASSUME NEW u \in Turns, Begins(u) PROVE Audible(t) \/ Begins(t)
  BY <1>1, <1>4, SpeakTypes DEF Begins, Audible
<1> QED
  BY <1>2, <1>3, <1>4, SpeechKinds

\* interrupt leaves nothing to be heard, and nothing current.
LEMMA Hush ==
  ASSUME TypeOK, Next, VoiceIsCurrent, StopReply
  PROVE  Quiet' /\ current' = NoTurn
<1>1. ASSUME NEW t \in Turns, Audible(t)' PROVE FALSE
  <2>1. t \in draining /\ t \notin silenced \union {ttsAbortController} /\ ~closed
    BY <1>1, ClosedStays DEF StopReply, Audible
  <2> QED
    BY <2>1 DEF VoiceIsCurrent, Audible
<1>2. current' = NoTurn
  BY DEF StopReply
<1> QED
  BY <1>1, <1>2 DEF Quiet, IsCurrent

\* While an utterance is heard or transcribed nobody begins to speak.
LEMMA NoSentence ==
  ASSUME TypeOK, Superseded, OneHandler, Quiet, NEW t \in Turns
  PROVE  ~Begins(t)
<1> SUFFICES ASSUME Begins(t) PROVE FALSE
  OBVIOUS
<1>1. IsCurrent(t) /\ ~Audible(t) /\ ~Answering(t)
  BY DEF Begins, Quiet
<1>2. t \notin draining
  BY <1>1 DEF Audible, IsCurrent, Superseded
<1>3. t \notin handlers
  BY <1>1 DEF OneHandler, IsCurrent, Answering
<1> QED
  BY <1>1, <1>2, <1>3 DEF Begins, Answering

-----------------------------------------------------------------------------
(* What a step does to the turns and their handlers *)

Asks(t) == Transcribed(t) \/ UserText(t)

LEMMA AskingBegins ==
  ASSUME TypeOK, NEW t \in Turns, Asks(t)
  PROVE  /\ pc[t] \in {"none", "transcribing"} /\ pc'[t] = "asking"
         /\ \A u \in Turns : u # t => pc'[u] = pc[u]
         /\ current' = t /\ unsubscribeDelta' = t /\ handlers' = handlers \union {t}
         /\ UNCHANGED <<session, hearing, closed, speech>>
  BY GotoMoves DEF Asks, Transcribed, UserText, RespondTo, PCs

LEMMA SessionStays ==
  ASSUME Next
  PROVE  mode' = mode /\ discipline' = discipline
  BY DEF Next, UserStep, Stop, Close, Trigger, HearNothing, HearStart, HearEnd, HearWhole,
     HearEndAndStart, EndUtteranceNow, UserText, TurnStep, TranscriptionFails, NothingSaid,
     Transcribed, RespondTo, RunStarts, RunThrows, RunReturns, SpeechStep, NextSentence,
     LastSentence, Delta, session

LEMMA TurnKinds ==
  ASSUME TypeOK, Next
  PROVE  \/ \E t \in Turns : Asks(t)
         \/ \E t \in Turns : HearEnd(t) \/ HearWhole(t) \/ HearEndAndStart(t) \/ EndUtteranceNow(t)
         \/ HearStart
         \/ /\ hearing' = hearing
            /\ \A t \in Turns : Transcribing(t)' => Transcribing(t)
            /\ \A t \in Turns : Answering(t)' => Answering(t)
<1> DEFINE Winds == /\ hearing' = hearing
                    /\ \A t \in Turns : Transcribing(t)' => Transcribing(t)
                    /\ \A t \in Turns : Answering(t)' => Answering(t)
<1>1. ASSUME UNCHANGED <<pc, hearing>> PROVE Winds
  BY <1>1 DEF Transcribing, Answering
<1>2. ASSUME NEW u \in Turns, NEW from \in PCs, NEW to \in PCs, Goto(u, from, to), hearing' = hearing,
             to # "transcribing",
             to \in {"asking", "running", "speaking"} => from \in {"asking", "running", "speaking"}
      PROVE  Winds
  BY <1>2, GotoMoves DEF Transcribing, Answering
<1>3. CASE \/ Stop \/ Close \/ Trigger \/ HearNothing
           \/ \E u \in Turns : NextSentence(u) \/ Delta(u)
  BY <1>1, <1>3 DEF Stop, Close, Trigger, HearNothing, NextSentence, Delta
<1>4. ASSUME NEW u \in Turns, \/ TranscriptionFails(u) \/ NothingSaid(u) \/ RunStarts(u) \/ RunThrows(u)
                              \/ LastSentence(u) \/ \E n \in 0..2 : RunReturns(u, n)
      PROVE  Winds
  <2> HIDE DEF Winds
  <2> QED
    BY <1>1, <1>2, <1>4 DEF TranscriptionFails, NothingSaid, RunStarts, RunThrows, LastSentence,
       RunReturns, PCs
<1> QED
  BY <1>3, <1>4 DEF Next, UserStep, TurnStep, SpeechStep, Asks

LEMMA HandlerKinds ==
  ASSUME TypeOK, Next
  PROVE  \/ StopReply \/ EndSubscription
         \/ \E t \in Turns : Asks(t)
         \/ /\ UNCHANGED <<handlers, unsubscribeDelta, current>>
            /\ \A t \in Turns : pc[t] \in {"asking", "running"} => pc'[t] \in {"asking", "running"}
<1> USE DEF handles
<1>1. CASE Stop \/ Close \/ HearStart \/ Trigger \/ HearNothing
  BY <1>1 DEF Stop, Close, HearStart, Trigger, HearNothing, Interrupt
<1>2. ASSUME NEW t \in Turns, \/ HearEnd(t) \/ HearWhole(t) \/ HearEndAndStart(t)
                              \/ EndUtteranceNow(t)
      PROVE  StopReply
             \/ (/\ UNCHANGED <<handlers, unsubscribeDelta, current>>
                 /\ \A u \in Turns : pc[u] \in {"asking", "running"} => pc'[u] \in {"asking", "running"})
  <2>1. \A u \in Turns : pc[u] \in {"asking", "running"} => pc'[u] \in {"asking", "running"}
    BY <1>2, GotoMoves DEF HearEnd, HearWhole, HearEndAndStart, EndUtteranceNow, PCs
  <2> QED
    BY <1>2, <2>1 DEF HearEnd, HearWhole, HearEndAndStart, EndUtteranceNow
<1>3. ASSUME NEW t \in Turns, \/ TranscriptionFails(t) \/ NothingSaid(t) \/ RunStarts(t)
                              \/ LastSentence(t)
      PROVE  /\ UNCHANGED <<handlers, unsubscribeDelta, current>>
             /\ \A u \in Turns : pc[u] \in {"asking", "running"} => pc'[u] \in {"asking", "running"}
  BY <1>3, GotoMoves DEF TranscriptionFails, NothingSaid, RunStarts, LastSentence, PCs
<1>4. ASSUME NEW t \in Turns, RunThrows(t) \/ \E n \in 0..2 : RunReturns(t, n)
      PROVE  EndSubscription
  BY <1>4 DEF RunThrows, RunReturns
<1>5. ASSUME NEW t \in Turns, NextSentence(t) \/ Delta(t)
      PROVE  UNCHANGED <<handlers, unsubscribeDelta, current, pc>>
  BY <1>5 DEF NextSentence, Delta
<1> QED
  BY <1>1, <1>2, <1>3, <1>4, <1>5 DEF Next, UserStep, TurnStep, SpeechStep, Asks

-----------------------------------------------------------------------------
(* One voice *)

\* Whoever asks finds nothing under way.
LEMMA AskersFindQuiet ==
  ASSUME TypeOK, InTurn, discipline = "patient", NEW t \in Turns, Asks(t)
  PROVE  Quiet /\ ~Heard' /\ (~closed => handlers = {})
<1>1. CASE Transcribed(t)
  <2>1. Transcribing(t) /\ ~hearing /\ \A u \in Turns : Transcribing(u) => u = t
    BY <1>1 DEF Transcribed, RespondTo, Goto, Transcribing, InTurn, OneEar
  <2>2. Quiet
    BY <2>1 DEF InTurn, EarMeansQuiet, Heard
  <2>3. ~Heard'
    BY <2>1, AskingBegins DEF Heard, Transcribing
  <2> QED
    BY <2>2, <2>3 DEF InTurn, OneHandler, Quiet, IsCurrent, Answering, TypeOK
<1>2. CASE UserText(t)
  <2>1. mode = "tts" /\ \A u \in Turns : ~UnderWay(u)
    BY <1>2 DEF UserText
  <2>2. Quiet
    BY <2>1 DEF UnderWay, Quiet, Answering
  <2>3. ~Heard
    BY <2>1 DEF InTurn, EarMeansQuiet
  <2>4. ~Heard'
    BY <2>3, AskingBegins DEF Heard, Transcribing
  <2> QED
    BY <2>2, <2>4 DEF InTurn, OneHandler, Quiet, IsCurrent, Answering, TypeOK
<1> QED
  BY <1>1, <1>2 DEF Asks

LEMMA VoiceStep ==
  ASSUME TypeOK, InTurn, discipline = "patient", Next
  PROVE  VoiceIsCurrent'
<1> SUFFICES ASSUME NEW t \in Turns, Audible(t)'
             PROVE  t = current' /\ t = ttsAbortController'
  BY DEF VoiceIsCurrent
<1>1. CASE Begins(t)
  BY <1>1, SpeakTypes DEF Begins, IsCurrent
<1>2. CASE ~Begins(t)
  <2>1. Audible(t) /\ t = current /\ t = ttsAbortController
    BY <1>2, AudibleKinds DEF InTurn, VoiceIsCurrent
  <2>2. ~StopReply
    BY <2>1, Hush DEF InTurn, Quiet
  <2>3. current' = current
    BY <2>1, <2>2, AskersFindQuiet, CurrentKinds DEF Quiet, Asks
  <2>4. ttsAbortController' = ttsAbortController
    BY <1>2, <2>1, <2>2, SpeechKinds DEF Begins, IsCurrent
  <2> QED
    BY <2>1, <2>3, <2>4
<1> QED
  BY <1>1, <1>2

LEMMA HandlerStep ==
  ASSUME TypeOK, InTurn, discipline = "patient", Next
  PROVE  OneHandler'
<1> SUFFICES ASSUME ~closed', NEW t \in handlers'
             PROVE  t = current' /\ t = unsubscribeDelta' /\ pc'[t] \in {"asking", "running"}
  BY DEF OneHandler
<1>0. ~closed
  BY ClosedStays
<1>1. ASSUME NEW u \in Turns, Asks(u)
      PROVE  t = current' /\ t = unsubscribeDelta' /\ pc'[t] \in {"asking", "running"}
  BY <1>0, <1>1, AskersFindQuiet, AskingBegins
<1>2. CASE StopReply \/ EndSubscription
  BY <1>0, <1>2 DEF StopReply, EndSubscription, InTurn, OneHandler
<1>3. CASE /\ UNCHANGED <<handlers, unsubscribeDelta, current>>
           /\ \A u \in Turns : pc[u] \in {"asking", "running"} => pc'[u] \in {"asking", "running"}
  BY <1>0, <1>3 DEF InTurn, OneHandler, TypeOK
<1> QED
  BY <1>1, <1>2, <1>3, HandlerKinds

LEMMA QuietStays ==
  ASSUME TypeOK, Superseded, InTurn, Quiet, Next,
         ~\E t \in Turns : Asks(t), \A t \in Turns : Answering(t)' => Answering(t)
  PROVE  Quiet'
<1>1. CASE StopReply
  BY <1>1, Hush DEF InTurn
<1>2. CASE ~StopReply
  <2>1. current' = current
    BY <1>2, CurrentKinds DEF Asks
  <2>2. ASSUME NEW t \in Turns PROVE ~Audible(t)' /\ ~(IsCurrent(t) /\ Answering(t))'
    <3>1. ~Audible(t)'
      BY AudibleKinds, NoSentence DEF Quiet, InTurn
    <3>2. ~(IsCurrent(t) /\ Answering(t))'
      BY <2>1, ClosedStays DEF Quiet, IsCurrent
    <3> QED
      BY <3>1, <3>2
  <2> QED
    BY <2>2 DEF Quiet
<1> QED
  BY <1>1, <1>2

\* A patient user who begins to talk finds quiet, or makes it.
LEMMA TalkingMakesQuiet ==
  ASSUME TypeOK, Superseded, InTurn, discipline = "patient", Next,
         HearStart \/ \E t \in Turns : HearWhole(t)
  PROVE  /\ Quiet' /\ mode' # "tts"
         /\ \A t \in Turns : ~Transcribing(t)
<1>1. UserMayTalk /\ mode' = mode /\ mode # "tts"
  BY DEF HearStart, HearWhole, MicrophoneOpen, session
<1>2. \A t \in Turns : ~Transcribing(t)
  BY <1>1 DEF UserMayTalk, Transcribing
<1>3. \A t \in Turns : Answering(t)' => Answering(t)
  <2>1. CASE HearStart
    BY <2>1 DEF HearStart, Answering
  <2>2. ASSUME NEW t \in Turns, HearWhole(t)
        PROVE  \A u \in Turns : Answering(u)' => Answering(u)
    BY <2>2, GotoMoves DEF HearWhole, Answering, PCs
  <2> QED
    BY <2>1, <2>2
<1>4. CASE Busy
  <2>1. StopReply
    BY <1>4 DEF HearStart, HearWhole, Interrupt
  <2> QED
    BY <1>1, <1>2, <2>1, Hush DEF InTurn
<1>5. CASE ~Busy
  <2>1. Quiet
    BY <1>1, <1>5 DEF UserMayTalk, UnderWay, Quiet, Answering
  <2>2. UNCHANGED <<current, closed, draining, silenced>>
    BY <1>5 DEF HearStart, HearWhole, handles, speech
  <2>3. Quiet'
    BY <1>3, <2>1, <2>2 DEF Quiet, Audible, IsCurrent
  <2> QED
    BY <1>1, <1>2, <2>3
<1> QED
  BY <1>4, <1>5

LEMMA EarStep ==
  ASSUME TypeOK, Superseded, InTurn, discipline = "patient", Next
  PROVE  OneEar' /\ EarMeansQuiet'
<1>1. ASSUME NEW t \in Turns, Asks(t) PROVE OneEar' /\ EarMeansQuiet'
  <2>1. ~Heard'
    BY <1>1, AskersFindQuiet
  <2> QED
    BY <2>1 DEF OneEar, EarMeansQuiet, Heard
<1>2. ASSUME NEW t \in Turns, HearEnd(t) \/ EndUtteranceNow(t) PROVE OneEar' /\ EarMeansQuiet'
  <2>1. /\ hearing /\ ~hearing' /\ mode' = mode
        /\ UNCHANGED <<current, closed, draining, silenced>>
    BY <1>2 DEF HearEnd, EndUtteranceNow, session, handles, speech
  <2>2. Quiet /\ mode # "tts" /\ \A u \in Turns : ~Transcribing(u)
    BY <2>1 DEF InTurn, OneEar, EarMeansQuiet, Heard
  <2>3. \A u \in Turns : (Answering(u)' => Answering(u)) /\ (Transcribing(u)' => u = t)
    BY <1>2, <2>2, GotoMoves DEF HearEnd, EndUtteranceNow, Answering, Transcribing, PCs
  <2>4. Quiet'
    BY <2>1, <2>2, <2>3 DEF Quiet, Audible, IsCurrent
  <2> QED
    BY <2>1, <2>2, <2>3, <2>4 DEF OneEar, EarMeansQuiet
<1>3. ASSUME NEW t \in Turns, HearWhole(t) PROVE OneEar' /\ EarMeansQuiet'
  <2>1. Quiet' /\ mode' # "tts" /\ \A u \in Turns : ~Transcribing(u)
    BY <1>3, TalkingMakesQuiet
  <2>2. ~hearing' /\ \A u \in Turns : Transcribing(u)' => u = t
    BY <1>3, <2>1, GotoMoves DEF HearWhole, Transcribing, PCs
  <2> QED
    BY <2>1, <2>2 DEF OneEar, EarMeansQuiet
<1>4. CASE HearStart
  <2>1. Quiet' /\ mode' # "tts" /\ \A u \in Turns : ~Transcribing(u)
    BY <1>4, TalkingMakesQuiet
  <2>2. \A u \in Turns : ~Transcribing(u)'
    BY <1>4, <2>1 DEF HearStart, Transcribing
  <2> QED
    BY <2>1, <2>2 DEF OneEar, EarMeansQuiet
<1>5. CASE /\ hearing' = hearing
           /\ \A t \in Turns : Transcribing(t)' => Transcribing(t)
           /\ \A t \in Turns : Answering(t)' => Answering(t)
           /\ ~\E t \in Turns : Asks(t)
  <2>1. OneEar'
    BY <1>5 DEF InTurn, OneEar
  <2>2. Heard' => Heard
    BY <1>5 DEF Heard
  <2>3. ASSUME Heard PROVE Quiet' /\ mode' # "tts"
    <3>1. Quiet /\ mode # "tts"
      BY <2>3 DEF InTurn, EarMeansQuiet
    <3>2. mode' = mode
      BY SessionStays
    <3> QED
      BY <1>5, <3>1, <3>2, QuietStays
  <2> QED
    BY <2>1, <2>2, <2>3 DEF EarMeansQuiet
<1>6. ASSUME NEW t \in Turns, HearEndAndStart(t) PROVE FALSE
  BY <1>6 DEF HearEndAndStart
<1> QED
  BY <1>1, <1>2, <1>3, <1>4, <1>5, <1>6, TurnKinds

LEMMA InTurnStep ==
  /\ TypeOK /\ Superseded /\ (discipline = "patient" => InTurn) /\ [Next]_vars
  => (discipline = "patient" => InTurn)'
<1> SUFFICES ASSUME TypeOK, Superseded, discipline = "patient" => InTurn, [Next]_vars,
                    discipline' = "patient"
             PROVE  InTurn'
  OBVIOUS
<1>1. CASE UNCHANGED vars
  BY <1>1 DEF vars, session, shown, handles, speech, InTurn, OneEar, EarMeansQuiet, OneHandler,
     VoiceIsCurrent, Transcribing, Heard, Quiet, Answering, Audible, IsCurrent
<1>2. CASE Next
  <2>1. discipline = "patient" /\ InTurn
    BY <1>2, SessionStays
  <2> QED
    BY <1>2, <2>1, EarStep, HandlerStep, VoiceStep DEF InTurn
<1> QED
  BY <1>1, <1>2

\* With a patient user at most one reply is heard at any time, and it is the one that
\* an interruption stops.
THEOREM OneVoiceHeard == Spec => []OneVoice
<1>1. Init => (discipline = "patient" => InTurn)
  BY DEF Init, InTurn, OneEar, EarMeansQuiet, OneHandler, VoiceIsCurrent, Transcribing, Heard,
     Audible
<1>2. (discipline = "patient" => InTurn) => OneVoice
  BY DEF OneVoice, InTurn, VoiceIsCurrent
<1> QED
  BY <1>1, <1>2, InTurnStep, SupersededHold, TypeCorrect, PTL DEF Spec
=============================================================================
