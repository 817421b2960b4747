-------------------------- MODULE CaptureCapability --------------------------
(***************************************************************************)
(* The closed loop that looks for the capture rate a machine sustains:     *)
(* eyes/captureCapability.ts judges one measurement window at a time,      *)
(* accumulateCapability of the engine closes the windows and restarts the  *)
(* capture source at a rate that moved.  The rest of such a restart is in  *)
(* EyesCapture.                                                            *)
(*                                                                         *)
(* Rates are tenths of a frame per second.                                 *)
(***************************************************************************)
EXTENDS Integers

CONSTANTS
  Capacities,   \* what machines can capture
  SlowRates,    \* what a machine does in a bad window
  Overrides,    \* rates a user asks for; 0 for auto
  RestartCosts, \* how much of a window, in percent, a restart may take
  MinRate, MaxRate, StartRate, WindowsBeforeRaise,
  MaxWindows    \* bound

ASSUME CapabilityAssumption ==
  /\ Capacities \union SlowRates \union Overrides \subseteq Nat /\ RestartCosts \subseteq 0..100
  /\ {MinRate, MaxRate, StartRate, WindowsBeforeRaise, MaxWindows} \subseteq Nat \ {0}
  /\ MinRate <= StartRate /\ StartRate <= MaxRate
  \* The estimate needs a start above the floor, and steps that are no rounding errors.
  /\ MinRate >= 10 /\ StartRate >= 50 /\ StartRate >= 2 * MinRate /\ MaxRate >= 100

VARIABLES
  target,
  sustained,    \* 0: not measured
  streak,       \* consecutiveSustained
  raised,       \* raisedSinceLastBackoff
  ceilingFound,
  override,     \* policy.captureFps
  requested,    \* the rate the source runs at
  restarted,    \* the open window began with a restart of the source
  windowsSeen,
  capacity,     \* the machine's
  best,         \* history: the best rate of a window
  steady        \* history: no bad window, no restart that cost time

capabilityVars == <<target, sustained, streak, raised, ceilingFound, override, requested, restarted,
                    windowsSeen, capacity, best, steady>>

Low(a, b) == IF a < b THEN a ELSE b
High(a, b) == IF a > b THEN a ELSE b
Clamp(v) == Low(MaxRate, High(MinRate, v))

CapabilityTypeOK ==
  /\ target \in MinRate..MaxRate /\ {sustained, best} \subseteq Nat
  /\ streak \in 0..MaxWindows
  /\ {raised, ceilingFound, restarted, steady} \subseteq BOOLEAN
  /\ override \in Overrides /\ requested \in Nat /\ windowsSeen \in 0..MaxWindows
  /\ capacity \in Capacities

CapabilityInit ==
  /\ target = Clamp(StartRate) /\ sustained = 0 /\ streak = 0
  /\ raised = FALSE /\ ceilingFound = FALSE
  /\ override \in Overrides
  /\ requested = IF override = 0 THEN target ELSE override
  /\ restarted = FALSE /\ windowsSeen = 0
  /\ capacity \in Capacities /\ best = 0 /\ steady = TRUE

-----------------------------------------------------------------------------
(* CaptureCapabilityEstimator *)

Classify(achieved, idle, dropping) ==
  IF dropping THEN "overloaded"
  ELSE IF achieved * 100 >= target * 85 THEN "sustained"
  ELSE IF idle THEN "inconclusive" ELSE "overloaded"

RecordInconclusive == UNCHANGED <<target, sustained, streak, raised, ceilingFound>>

RecordSustained_WhatWasAsked(achieved) ==
  LET due == streak + 1 >= WindowsBeforeRaise /\ ~ceilingFound
      up == Clamp((target * 5) \div 4)
  IN  /\ sustained' = High(sustained, target)
      /\ streak' = IF due THEN 0 ELSE streak + 1
      /\ target' = IF due THEN up ELSE target
      /\ raised' = (raised \/ (due /\ up > target))
      /\ UNCHANGED ceilingFound

RecordSustained(achieved) ==
  LET due == streak + 1 >= WindowsBeforeRaise /\ ~ceilingFound
      up == Clamp((target * 5) \div 4)
  IN  /\ sustained' = High(sustained, achieved)
      /\ streak' = IF due THEN 0 ELSE streak + 1
      /\ target' = IF due THEN up ELSE target
      /\ raised' = (raised \/ (due /\ up > target))
      /\ UNCHANGED ceilingFound

RecordOverloaded(achieved) ==
  LET down == Clamp((High(achieved, MinRate) * 9) \div 10)
  IN  /\ streak' = 0
      /\ target' = Low(target, down)
      /\ ceilingFound' = (ceilingFound \/ raised) /\ raised' = FALSE
      /\ sustained' = IF sustained = 0 \/ target' < sustained THEN target' ELSE sustained

-----------------------------------------------------------------------------
(* accumulateCapability *)

\* In auto mode a target that moved enough is asked of the source, which restarts.
Retune ==
  LET moved == High(target' - target, target - target') IN
  IF override = 0 /\ moved >= High(10, target \div 10)
  THEN requested' = target' /\ restarted' = TRUE
  ELSE requested' = requested /\ restarted' = FALSE

\* A window of the machine at work closes.  What is asked for is only how long the source
\* waits for a frame: a display that changes all the time gives what the machine can, one
\* that changes as often as that what is asked, an idle one less, with timeouts; and a
\* restart takes its part.
CloseWindow ==
  /\ windowsSeen < MaxWindows
  /\ \E rate \in {capacity} \union SlowRates,
        cost \in IF restarted THEN RestartCosts ELSE {0},
        idle \in BOOLEAN :
       LET able  == (rate * (100 - cost)) \div 100
           asked == (Low(requested, rate) * (100 - cost)) \div 100
       IN  \E achieved \in {able, asked} \union (IF idle THEN {asked \div 2} ELSE {}) :
             LET verdict == Classify(achieved, idle, FALSE) IN  \* no provider counts drops
             /\ rate <= capacity
             /\ \/ verdict = "inconclusive" /\ RecordInconclusive
                \/ verdict = "sustained" /\ RecordSustained(achieved)
                \/ verdict = "overloaded" /\ RecordOverloaded(achieved)
             /\ best' = High(best, achieved)
             /\ steady' = (steady /\ rate = capacity /\ cost = 0)
  /\ Retune
  /\ windowsSeen' = windowsSeen + 1
  /\ UNCHANGED <<override, capacity>>

CapabilityNext == CloseWindow

CapabilitySpec == CapabilityInit /\ [][CapabilityNext]_capabilityVars

-----------------------------------------------------------------------------
(* Properties *)

\* CaptureCapabilityReport: sustainedFps is "reported as null rather than guessed", so
\* it is no more than a window showed (or the floor); and in auto mode, on a machine
\* that is never disturbed, an estimate that stopped moving stopped just below what the
\* machine can do (two steps back are rounded down here), wherever it started.
EstimateIsHonest ==
  /\ sustained <= High(best, MinRate)
  /\ steady /\ ceilingFound /\ override = 0 =>
       target <= High(capacity, MinRate) /\ 100 * target >= 80 * Low(capacity, MaxRate) - 200
=============================================================================
