-------------------------- MODULE UtteranceSegmenter --------------------------
(***************************************************************************)
(* Voice activity detection: voice/vad.ts, as the relay session feeds it.  *)
(* One step is one frame of FrameMs; a frame is its RMS energy.  The noise *)
(* floor creeps toward quieter frames by a fiftieth of the way: here it    *)
(* stays or arrives.                                                       *)
(***************************************************************************)
EXTENDS Integers, Sequences, FiniteSetsExt

CONSTANTS
  Energies, FirstFloor,
  StartFrames,    \* minSpeechFramesToStart
  SilenceFrames,  \* silenceMsToEnd, in frames
  MinFrames,      \* minUtteranceMs, in frames
  MaxHeard        \* bound on the frames between two ends

ASSUME SegmenterAssumption ==
  /\ {FirstFloor, StartFrames, SilenceFrames, MinFrames, MaxHeard} \subseteq Nat \ {0}
  /\ Energies \subseteq Nat

VARIABLES
  floor, speechRun, silenceRun, speaking,
  frames,  \* collected, their number
  heard,   \* ghost: speech (TRUE) or not, each frame since the last end
  event    \* the last utterance: [kind, length, forced]

segmenterVars == <<floor, speechRun, silenceRun, speaking, frames, heard, event>>

NoEvent == [kind |-> "none", length |-> 0, forced |-> FALSE]

SegmenterTypeOK ==
  /\ floor \in Energies \union {FirstFloor} /\ speechRun \in 0..MaxHeard
  /\ silenceRun \in 0..SilenceFrames /\ speaking \in BOOLEAN /\ frames \in 0..MaxHeard
  /\ heard \in Seq(BOOLEAN)
  /\ event \in [kind : {"none", "end", "discarded"}, length : 0..MaxHeard, forced : BOOLEAN]

SegmenterInit ==
  /\ floor = FirstFloor /\ speechRun = 0 /\ silenceRun = 0 /\ speaking = FALSE
  /\ frames = 0 /\ heard = <<>> /\ event = NoEvent

-----------------------------------------------------------------------------
\* energy < noiseFloor * 1.2: the floor follows.
FloorAfter(energy) == IF 5 * energy < 6 * floor THEN {floor, energy} ELSE {floor}

\* energy > noiseFloor * 2.2
IsSpeech(energy, level) == 5 * energy > 11 * level

\* An utterance of n frames is over; the frames heard since the last one are done with.
Ends(n, forced) ==
  /\ event' = [kind |-> IF n >= MinFrames THEN "end" ELSE "discarded", length |-> n,
               forced |-> forced]
  /\ speaking' = FALSE /\ frames' = 0 /\ heard' = <<>>

SpeechFrame ==
  /\ heard' = Append(heard, TRUE)
  /\ speechRun' = speechRun + 1 /\ silenceRun' = 0
  /\ speaking' = (speaking \/ speechRun + 1 >= StartFrames)
  /\ frames' = IF speaking' THEN frames + 1 ELSE frames
  /\ event' = event

SilentFrame_KeepsTheRun ==
  /\ speechRun' = speechRun
  /\ IF speaking THEN
       /\ silenceRun' = silenceRun + 1
       /\ IF silenceRun + 1 >= SilenceFrames THEN Ends(frames + 1, FALSE)
          ELSE frames' = frames + 1 /\ heard' = Append(heard, FALSE) /\ UNCHANGED <<speaking, event>>
     ELSE heard' = Append(heard, FALSE) /\ UNCHANGED <<silenceRun, speaking, frames, event>>

SilentFrame ==
  /\ speechRun' = 0
  /\ IF speaking THEN
       /\ silenceRun' = silenceRun + 1
       /\ IF silenceRun + 1 >= SilenceFrames THEN Ends(frames + 1, FALSE)
          ELSE frames' = frames + 1 /\ heard' = Append(heard, FALSE) /\ UNCHANGED <<speaking, event>>
     ELSE heard' = Append(heard, FALSE) /\ UNCHANGED <<silenceRun, speaking, frames, event>>

ProcessFrame ==
  /\ Len(heard) < MaxHeard
  /\ \E energy \in Energies : \E level \in FloorAfter(energy) :
       /\ floor' = level
       /\ IF IsSpeech(energy, level) THEN SpeechFrame ELSE SilentFrame

\* forceEnd, when push-to-talk is released.
ForceEnd ==
  /\ speaking /\ Ends(frames, TRUE)
  /\ speechRun' = 0 /\ silenceRun' = 0 /\ UNCHANGED floor

SegmenterNext == ProcessFrame \/ ForceEnd

SegmenterSpec == SegmenterInit /\ [][SegmenterNext]_segmenterVars

-----------------------------------------------------------------------------
(* Properties *)

Starts == {i \in StartFrames..Len(heard) : \A j \in (i - StartFrames + 1)..i : heard[j]}

Silences(from) ==
  {i \in (from + SilenceFrames)..Len(heard) : \A j \in (i - SilenceFrames + 1)..i : ~heard[j]}

\* Where an utterance begins and ends, by the words of vad.ts: it begins with the frame
\* that makes StartFrames in a row and holds every frame since, pauses included; only
\* SilenceFrames in a row end it; and only a released button discards one as too short,
\* the trailing silence alone being longer than MinFrames.
SegmentsByDefinition ==
  /\ speaking = (Starts # {})
  /\ frames = IF Starts = {} THEN 0 ELSE Len(heard) - Min(Starts) + 1
  /\ Starts # {} => Silences(Min(Starts)) = {}
  /\ event.kind = "discarded" /\ SilenceFrames >= MinFrames => event.forced
=============================================================================
