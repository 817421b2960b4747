----------------------------- MODULE ClapDetector -----------------------------
(***************************************************************************)
(* Clap detection: activation/clapDetector.ts.  Time is counted in frames  *)
(* of FRAME_MS; a frame is loud, above both thresholds, or not.            *)
(***************************************************************************)
EXTENDS Integers, Sequences, Selections

CONSTANTS
  ChunkSizes,  \* frames in a chunk
  Required,    \* claps of the pattern
  MinGap, PatternWindow, Cooldown,
  MaxClapTime  \* bound

ASSUME ClapAssumption ==
  {Required, MinGap, PatternWindow, Cooldown, MaxClapTime} \union ChunkSizes \subseteq Nat \ {0}

VARIABLES
  clapNow,           \* Date.now()
  recentTransients,
  lastActivationAt,
  claim,             \* ghost: the transients of the last detection
  restedFor          \* ghost: time between the last two detections

clapVars == <<clapNow, recentTransients, lastActivationAt, claim, restedFor>>

LongAgo == -(Cooldown + 1)

ClapTypeOK ==
  /\ clapNow \in 0..MaxClapTime /\ {recentTransients, claim} \subseteq Seq(Nat)
  /\ lastActivationAt \in {LongAgo} \union 0..MaxClapTime /\ restedFor \in Nat

ClapInit ==
  /\ clapNow = 0 /\ recentTransients = <<>> /\ lastActivationAt = LongAgo
  /\ claim = <<>> /\ restedFor = Cooldown + 1

-----------------------------------------------------------------------------
\* A loud frame after one that was not.  The frame before a chunk's first counts as the
\* noise floor, whatever the chunk before ended with.
IsOnset(chunk, i) == chunk[i] /\ (i = 1 \/ ~chunk[i - 1])

Note_EveryOnset(times, at) == Append(times, at)

\* One clap per MIN_GAP_MS.
Note(times, at) ==
  IF times = <<>> \/ at - times[Len(times)] > MinGap THEN Append(times, at) ELSE times

\* The loop of processChunk: a frame's time is its place in the chunk after now.
Noted(chunk) ==
  LET after[i \in 0..Len(chunk)] ==
        IF i = 0 THEN recentTransients
        ELSE IF IsOnset(chunk, i) THEN Note(after[i - 1], clapNow + i - 1) ELSE after[i - 1]
  IN  after[Len(chunk)]

InWindow(times) == Filtered(times, {i \in DOMAIN times : times[i] > clapNow - PatternWindow})

ProcessChunk ==
  \E n \in ChunkSizes : \E chunk \in [1..n -> BOOLEAN] :
    LET times == InWindow(Noted(chunk)) IN
    /\ IF Len(times) >= Required /\ clapNow - lastActivationAt > Cooldown
       THEN /\ lastActivationAt' = clapNow /\ recentTransients' = <<>>
            /\ claim' = times /\ restedFor' = clapNow - lastActivationAt
       ELSE recentTransients' = times /\ UNCHANGED <<lastActivationAt, claim, restedFor>>
    /\ clapNow' \in {clapNow, clapNow + n}  \* chunks may come in a burst
    /\ clapNow' <= MaxClapTime

ClapTimePasses ==
  clapNow < MaxClapTime /\ clapNow' = clapNow + 1
  /\ UNCHANGED <<recentTransients, lastActivationAt, claim, restedFor>>

ClapNext == ProcessChunk \/ ClapTimePasses

ClapSpec == ClapInit /\ [][ClapNext]_clapVars

-----------------------------------------------------------------------------
(* Properties *)

\* A detected pattern is Required claps or more, each more than MinGap after the one
\* before and all of one PatternWindow (and the chunk), not within Cooldown of the last.
ClapsByDefinition ==
  claim # <<>> =>
    /\ Len(claim) >= Required /\ restedFor > Cooldown
    /\ \A i \in 2..Len(claim) : claim[i] - claim[i - 1] > MinGap
    /\ \E n \in ChunkSizes : claim[Len(claim)] - claim[1] < PatternWindow + n
=============================================================================
