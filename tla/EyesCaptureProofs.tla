-------------------------- MODULE EyesCaptureProofs --------------------------
(***************************************************************************)
(* Theorems about EyesCapture, for any number of requests, engines, faults *)
(* and restarts.                                                           *)
(***************************************************************************)
EXTENDS EyesCapture, SelectionProofs, TLAPS

USE SetsAssumption

-----------------------------------------------------------------------------
(* Where an actor is, and which engine it works on *)

Making == {"launching", "snapshot", "beginning"}
Ending == {"halting", "exiting"}
Adapting == {"restopping", "restarting", "unstopping"}
Works == [body : Bodies, on : Engines \union {None}]

\* The types of what requests share.
Shape ==
  /\ discipline \in Disciplines
  /\ settings \in [enabled : BOOLEAN, visual : BOOLEAN]
  /\ pc \in [Actors -> PCs] /\ wk \in [Requests -> Works]
  /\ engine \in Engines \union {None}
  /\ running \in [Engines -> BOOLEAN] /\ alive \in [Engines -> BOOLEAN]

\* A request that works on an engine knows which; one that rests knows none.
Role(r) ==
  /\ pc[r] \in {"idle", "patched", "applying"} \union Making \union Ending \union Adapting
  /\ pc[r] = "idle" => wk[r] = NoWork
  /\ pc[r] = "patched" => wk[r].on = None
  /\ pc[r] \in Making \union Ending \union Adapting => wk[r].on \in Engines
  /\ wk[r].body.restore => wk[r].body.enabled = "on"
Roles ==
  /\ \A r \in Requests : Role(r)
  /\ \A e \in Engines : pc[e] \in {"idle", "retuneStop", "retuneStart"}

\* The work of a request that has none, and of the restore at startup, is work.
LEMMA NoWorkIsWork ==
  /\ NoWork \in Works /\ NoWork.on = None /\ NoWork.body = NoBody /\ ~NoWork.body.restore
  /\ NoBody \in Bodies
  /\ [NoWork EXCEPT !.body.enabled = "on", !.body.restore = TRUE] \in Works
  /\ [NoWork EXCEPT !.body.enabled = "on", !.body.restore = TRUE].on = None
  /\ [NoWork EXCEPT !.body.enabled = "on", !.body.restore = TRUE].body.enabled = "on"
  /\ [NoWork EXCEPT !.body.enabled = "on", !.body.restore = TRUE].body.restore
  BY DEF NoWork, NoBody, Works, Bodies, Choice

\* The row after one of its columns is written.
LEMMA SettingsFields ==
  ASSUME Shape, NEW b \in BOOLEAN
  PROVE  /\ settings.enabled \in BOOLEAN /\ settings.visual \in BOOLEAN
         /\ [settings EXCEPT !.enabled = b] \in [enabled : BOOLEAN, visual : BOOLEAN]
         /\ [settings EXCEPT !.enabled = b].enabled = b
  BY DEF Shape

\* Goto moves one actor.
LEMMA GotoMoves ==
  ASSUME Shape, NEW a \in Actors, NEW to \in PCs, Goto(a, to)
  PROVE  /\ pc'[a] = to /\ pc' \in [Actors -> PCs]
         /\ \A b \in Actors : b # a => pc'[b] = pc[b]
  BY DEF Shape, Goto

\* A request that works on e from now on.
LEMMA TakesOn ==
  ASSUME Shape, NEW r \in Requests, NEW e \in Engines, wk' = [wk EXCEPT ![r].on = e]
  PROVE  /\ wk' \in [Requests -> Works] /\ wk'[r].on = e /\ wk'[r].body = wk[r].body
         /\ \A q \in Requests : q # r => wk'[q] = wk[q]
<1>1. wk[r] \in Works
  BY DEF Shape
<1>2. /\ [wk[r] EXCEPT !.on = e] \in Works
      /\ [wk[r] EXCEPT !.on = e].on = e /\ [wk[r] EXCEPT !.on = e].body = wk[r].body
  BY <1>1 DEF Works
<1>3. wk' = [wk EXCEPT ![r] = [wk[r] EXCEPT !.on = e]]
  OBVIOUS
<1> QED
  BY <1>2, <1>3 DEF Shape

\* End leaves a request with no work.
LEMMA EndMoves ==
  ASSUME Shape, NEW r \in Requests, End(r)
  PROVE  /\ pc'[r] = "idle" /\ pc' \in [Actors -> PCs]
         /\ \A b \in Actors : b # r => pc'[b] = pc[b]
         /\ wk'[r] = NoWork /\ wk' \in [Requests -> Works]
         /\ \A q \in Requests : q # r => wk'[q] = wk[q]
  BY NoWorkIsWork, GotoMoves DEF End, Shape, Actors, PCs

\* GoOn moves one request and keeps its work.
LEMMA GoOnMoves ==
  ASSUME Shape, NEW r \in Requests, NEW to \in PCs, GoOn(r, to)
  PROVE  /\ pc'[r] = to /\ pc' \in [Actors -> PCs] /\ wk' = wk
         /\ \A b \in Actors : b # r => pc'[b] = pc[b]
  BY GotoMoves DEF GoOn, Shape, Actors

-----------------------------------------------------------------------------
(* The steps that are not a request's *)

\* What the watcher, the pipes, the deadlines and a retune do: no request moves, no
\* engine is made or given up; a process may die.
Behind ==
  /\ UNCHANGED <<wk, service, running>>
  /\ pc' \in [Actors -> PCs]
  /\ \A r \in Requests : pc'[r] = pc[r]
  /\ \A e \in Engines : pc'[e] \in {"idle", "retuneStop", "retuneStart"}
  /\ alive' \in [Engines -> BOOLEAN] /\ \A e \in Engines : alive'[e] => alive[e]
  /\ upsets \subseteq upsets'

\* What an engine or its watcher does by itself happens behind the requests.
LEMMA BehindSteps ==
  ASSUME Shape, Roles, NEW e \in Engines,
         RetuneStep(e) \/ WatcherStep(e) \/ ReadLine(e)
  PROVE  Behind
<1> USE DEF service, state, provider, watcher, actors, counters, bounds
<1>0. /\ pc \in [Actors -> PCs] /\ \A x \in Engines : pc[x] \in {"idle", "retuneStop", "retuneStart"}
      /\ e \in Actors /\ \A r \in Requests : r # e /\ r \in Actors
  BY DEF Shape, Roles, Actors
<1>1. ASSUME UNCHANGED pc
      PROVE  /\ pc' \in [Actors -> PCs] /\ \A r \in Requests : pc'[r] = pc[r]
             /\ \A x \in Engines : pc'[x] \in {"idle", "retuneStop", "retuneStart"}
  BY <1>0, <1>1
<1>2. ASSUME NEW to \in {"idle", "retuneStop", "retuneStart"}, Goto(e, to)
      PROVE  /\ pc' \in [Actors -> PCs] /\ \A r \in Requests : pc'[r] = pc[r]
             /\ \A x \in Engines : pc'[x] \in {"idle", "retuneStop", "retuneStart"}
  BY <1>0, <1>2 DEF Goto, PCs
<1>3. CASE RetuneStep(e)
  <2>1. /\ UNCHANGED <<wk, service, running, alive, upsets>>
        /\ Goto(e, "retuneStart") \/ Goto(e, "idle")
    BY <1>3 DEF RetuneStep, RetuneStopped, RetuneStarted, StartContinuousCapture, Send
  <2> QED
    BY <1>2, <2>1 DEF Behind, Shape
<1>4. CASE WatcherStep(e)
  <2>1. CASE WatcherStarts(e) \/ WatcherStops(e) \/ CaptureFails(e) \/ Frame(e)
    <3>1. UNCHANGED <<pc, wk, service, running, alive>> /\ upsets \subseteq upsets'
      BY <2>1 DEF WatcherStarts, WatcherStops, CaptureFails, Frame
    <3> QED
      BY <1>1, <3>1 DEF Behind, Shape
  <2>2. CASE WatcherExits(e)
    <3>1. UNCHANGED <<pc, wk, service, running>> /\ upsets \subseteq upsets'
          /\ alive' = [alive EXCEPT ![e] = FALSE]
      BY <2>2 DEF WatcherExits, Kill
    <3> QED
      BY <1>1, <3>1 DEF Behind, Shape
  <2> QED
    BY <1>4, <2>1, <2>2 DEF WatcherStep
<1>5. CASE ReadLine(e)
  <2>1. UNCHANGED <<wk, service, running, alive>> /\ upsets \subseteq upsets'
    BY <1>5 DEF ReadLine
  <2>2. UNCHANGED pc \/ Goto(e, "retuneStop")
    BY <1>5 DEF ReadLine, HearFrame, HearStatus, HearResponse, Retune
  <2> QED
    BY <1>1, <1>2, <2>1, <2>2 DEF Behind, Shape
<1> QED
  BY <1>3, <1>4, <1>5

\* So does a time-out: the request goes where its failed command sends it.
LEMMA TimesOutBehind ==
  ASSUME Shape, Roles, NEW a \in Actors, CommandTimesOut(a)
  PROVE  Behind
<1>1. UNCHANGED <<pc, wk, service, running, alive>> /\ upsets \subseteq upsets'
  BY DEF CommandTimesOut, state
<1> QED
  BY <1>1 DEF Behind, Shape, Roles

-----------------------------------------------------------------------------
(* The steps of a request, by what they do to the engines *)

Others(r) ==
  /\ pc' \in [Actors -> PCs] /\ \A b \in Actors : b # r => pc'[b] = pc[b]
  /\ wk' \in [Requests -> Works] /\ \A q \in Requests : q # r => wk'[q] = wk[q]
Ended(r) == Others(r) /\ pc'[r] = "idle" /\ wk'[r] = NoWork
GoesTo(r, to, e) ==
  Others(r) /\ pc'[r] = to /\ wk'[r].on = e /\ wk'[r].body = wk[r].body
Alike == UNCHANGED <<discipline, settings, engine, running, alive, upsets>>

Wants(r, choice) == wk[r].body.enabled = choice

Finishes(r) ==
  /\ Ended(r) /\ Alike
  /\ \/ pc[r] \in {"applying"} \union Adapting
     \/ pc[r] = "patched" /\ Wants(r, "on") /\ IsRunning
Proceeds(r) ==
  /\ Alike
  /\ \/ /\ pc[r] = "patched" /\ (Wants(r, "keep") \/ (Wants(r, "on") /\ IsRunning))
        /\ GoesTo(r, "applying", wk[r].on)
     \/ pc[r] = "snapshot" /\ GoesTo(r, "beginning", wk[r].on)
     \/ pc[r] = "halting" /\ GoesTo(r, "exiting", wk[r].on)
     \/ pc[r] = "restopping" /\ GoesTo(r, "restarting", wk[r].on)
     \/ /\ engine # None /\ pc[r] = "patched" /\ Wants(r, "off")
        /\ \E to \in Ending : GoesTo(r, to, engine)
     \/ engine # None /\ pc[r] = "applying" /\ \E to \in Adapting : GoesTo(r, to, engine)
Launches(r) ==
  /\ pc[r] = "patched" /\ Wants(r, "on") /\ ~IsRunning /\ settings.enabled
  /\ \E e \in Engines :
       /\ Free(e) /\ GoesTo(r, "launching", e)
       /\ alive' = [alive EXCEPT ![e] = TRUE] /\ running' = [running EXCEPT ![e] = FALSE]
  /\ UNCHANGED <<discipline, settings, engine, upsets>>
Undone(r) ==
  \/ /\ wk[r].body.restore
     /\ upsets' = upsets \union {"unrestored"} /\ UNCHANGED settings
  \/ ~wk[r].body.restore /\ settings' = [settings EXCEPT !.enabled = FALSE] /\ UNCHANGED upsets
Fails(r) ==
  /\ pc[r] = "launching" /\ Ended(r) /\ Undone(r)
  /\ alive' = [alive EXCEPT ![wk[r].on] = FALSE]
  /\ UNCHANGED <<discipline, engine, running>>
GivesUp(r) ==
  /\ pc[r] = "patched" /\ Wants(r, "on") /\ ~IsRunning /\ ~settings.enabled
  /\ Ended(r) /\ Undone(r)
  /\ UNCHANGED <<discipline, engine, running, alive>>
Ready(r) ==
  /\ pc[r] = "launching" /\ GoesTo(r, "snapshot", wk[r].on)
  /\ running' = [running EXCEPT ![wk[r].on] = TRUE]
  /\ UNCHANGED <<discipline, settings, engine, alive, upsets>>
Installs(r) ==
  /\ pc[r] \in {"snapshot", "beginning"} /\ engine' = wk[r].on
  /\ Ended(r) \/ GoesTo(r, "applying", wk[r].on)
  /\ UNCHANGED <<discipline, settings, running, alive, upsets>>
StopsNothing(r) ==
  /\ pc[r] = "patched" /\ Wants(r, "off") /\ ~IsRunning /\ engine' = None
  /\ GoesTo(r, "applying", wk[r].on)
  /\ UNCHANGED <<discipline, settings, running, alive, upsets>>
Exits(r) ==
  /\ pc[r] = "exiting" /\ engine' = None /\ GoesTo(r, "applying", wk[r].on)
  /\ alive' = [alive EXCEPT ![wk[r].on] = FALSE]
  /\ running' = [running EXCEPT ![wk[r].on] = FALSE]
  /\ UNCHANGED <<discipline, settings, upsets>>

\* A request that moves and keeps its work goes on with the same engine.
LEMMA GotoGoes ==
  ASSUME Shape, NEW r \in Requests, NEW to \in PCs, Goto(r, to), wk' = wk
  PROVE  GoesTo(r, to, wk[r].on)
  BY GotoMoves DEF GoesTo, Others, Shape, Actors

\* A request that ends lets go of its engine.
LEMMA EndEnds ==
  ASSUME Shape, NEW r \in Requests, End(r)
  PROVE  Ended(r)
  BY EndMoves DEF Ended, Others

\* A request that moves with a new engine goes on with that one.
LEMMA TakesGoes ==
  ASSUME Shape, NEW r \in Requests, NEW e \in Engines, NEW to \in PCs,
         Goto(r, to), wk' = [wk EXCEPT ![r].on = e]
  PROVE  GoesTo(r, to, e)
  BY GotoMoves, TakesOn DEF GoesTo, Others, Actors

\* Every step of a request is of one of nine kinds; the proofs below need no more of it.
LEMMA RequestKinds ==
  ASSUME Shape, Roles, NEW r \in Requests, RequestStep(r)
  PROVE  \/ Finishes(r) \/ Proceeds(r) \/ Launches(r) \/ Fails(r) \/ GivesUp(r) \/ Ready(r)
         \/ Installs(r) \/ StopsNothing(r) \/ Exits(r)
<1> USE DEF service, state, provider, watcher, actors, counters, bounds
<1>0. Role(r) /\ wk[r].on \in Engines \union {None}
  BY DEF Roles, Shape, Works
<1>1. CASE NothingToStart(r)
  <2>1. Alike /\ pc[r] = "patched" /\ (Wants(r, "keep") \/ (Wants(r, "on") /\ IsRunning))
    BY <1>1 DEF NothingToStart, Alike, Wants
  <2>2. CASE wk[r].body.restore
    BY <1>0, <1>1, <2>1, <2>2, EndEnds DEF NothingToStart, Finishes, Role, Wants
  <2>3. CASE ~wk[r].body.restore
    BY <1>1, <2>1, <2>3, GotoGoes DEF NothingToStart, GoOn, Proceeds, PCs
  <2> QED
    BY <2>2, <2>3
<1>2. CASE Refused(r)
  BY <1>2, EndEnds DEF Refused, GiveUp, GivesUp, Undone, Wants
<1>3. CASE Launch(r)
  <2> DEFINE e == CHOOSE x \in Engines : Free(x)
  <2>1. e \in Engines /\ Free(e)
    BY <1>3 DEF Launch
  <2>2. /\ wk' = [wk EXCEPT ![r].on = e] /\ Goto(r, "launching")
        /\ alive' = [alive EXCEPT ![e] = TRUE] /\ running' = [running EXCEPT ![e] = FALSE]
        /\ UNCHANGED <<discipline, settings, engine, upsets>>
        /\ pc[r] = "patched" /\ Wants(r, "on") /\ ~IsRunning /\ settings.enabled
    BY <1>3 DEF Launch, Wants
  <2> HIDE DEF e
  <2>3. PICK x \in Engines : x = e
    BY <2>1
  <2>4. GoesTo(r, "launching", x)
    BY <2>2, <2>3, TakesGoes DEF PCs
  <2>5. Free(x)
    BY <2>1, <2>3
  <2> QED
    BY <2>2, <2>3, <2>4, <2>5 DEF Launches
<1>4. CASE LaunchFails(r)
  BY <1>4, EndEnds DEF LaunchFails, GiveUp, Kill, Fails, Undone
<1>5. CASE LaunchReady(r)
  BY <1>5, GotoGoes DEF LaunchReady, Ready, PCs
<1>6. CASE Snapshot(r)
  <2>1. UNCHANGED <<discipline, settings, running, alive, upsets>> /\ pc[r] = "snapshot"
    BY <1>6 DEF Snapshot, StartContinuousCapture, Send
  <2>2. \/ GoOn(r, "beginning") /\ UNCHANGED engine
        \/ Install(r)
    BY <1>6 DEF Snapshot
  <2> QED
    BY <2>1, <2>2, GotoGoes, EndEnds
       DEF Install, Installs, GoOn, Proceeds, Alike, PCs
<1>7. CASE Begun(r)
  <2>1. UNCHANGED <<discipline, settings, running, alive, upsets>> /\ pc[r] = "beginning"
    BY <1>7 DEF Begun
  <2>2. Install(r)
    BY <1>7 DEF Begun
  <2> QED
    BY <2>1, <2>2, GotoGoes, EndEnds DEF Install, Installs, GoOn, PCs
<1>8. CASE NothingToStop(r)
  BY <1>8, GotoGoes DEF NothingToStop, StopsNothing, Wants, PCs
<1>9. CASE Halt(r)
  <2>1. /\ pc[r] = "patched" /\ Wants(r, "off") /\ engine # None /\ engine \in Engines
        /\ wk' = [wk EXCEPT ![r].on = engine] /\ Alike
        /\ Goto(r, "halting") \/ Goto(r, "exiting")
    BY <1>9 DEF Halt, StopCapture, StopContinuousCapture, Send, IsRunning, Alike, Shape, Wants
  <2>2. PICK e \in Engines : e = engine
    BY <2>1
  <2>3. GoesTo(r, "halting", e) \/ GoesTo(r, "exiting", e)
    BY <2>1, <2>2, TakesGoes DEF PCs
  <2> QED
    BY <2>1, <2>2, <2>3 DEF Proceeds, Ending
<1>10. CASE Halted(r)
  BY <1>10, GotoGoes DEF Halted, Send, Proceeds, Alike, PCs
<1>11. CASE Exited(r)
  BY <1>11, GotoGoes DEF Exited, Kill, Exits, PCs
<1>12. CASE NothingToApply(r)
  BY <1>12, EndEnds DEF NothingToApply, Finishes, Alike
<1>13. CASE Apply(r)
  <2>1. pc[r] = "applying" /\ engine # None /\ engine \in Engines /\ Alike
    BY <1>13 DEF Apply, StartIfEnabled, StopCapture, StartContinuousCapture,
       StopContinuousCapture, Send, Alike, Shape
  <2>2. \/ End(r)
        \/ /\ wk' = [wk EXCEPT ![r].on = engine]
           /\ Goto(r, "restarting") \/ Goto(r, "restopping") \/ Goto(r, "unstopping")
    BY <1>13 DEF Apply, StartIfEnabled
  <2>3. PICK e \in Engines : e = engine
    BY <2>1
  <2>4. CASE End(r)
    BY <2>1, <2>4, EndEnds DEF Finishes
  <2>5. CASE /\ wk' = [wk EXCEPT ![r].on = engine]
             /\ Goto(r, "restarting") \/ Goto(r, "restopping") \/ Goto(r, "unstopping")
    <3>1. \E to \in Adapting : GoesTo(r, to, e)
      BY <2>3, <2>5, TakesGoes DEF PCs, Adapting
    <3> QED
      BY <2>1, <2>3, <3>1 DEF Proceeds
  <2> QED
    BY <2>2, <2>4, <2>5
<1>14. CASE Restopped(r)
  <2>1. pc[r] = "restopping" /\ Alike
    BY <1>14 DEF Restopped, StartIfEnabled, StartContinuousCapture, Send, Alike
  <2>2. End(r) \/ (Goto(r, "restarting") /\ wk' = [wk EXCEPT ![r].on = wk[r].on])
    BY <1>14 DEF Restopped, StartIfEnabled
  <2>3. PICK e \in Engines : e = wk[r].on
    BY <1>0, <2>1 DEF Role, Adapting
  <2>4. CASE End(r)
    BY <2>1, <2>4, EndEnds DEF Finishes, Adapting
  <2>5. CASE Goto(r, "restarting") /\ wk' = [wk EXCEPT ![r].on = wk[r].on]
    BY <2>1, <2>3, <2>5, TakesGoes DEF Proceeds, PCs
  <2> QED
    BY <2>2, <2>4, <2>5
<1>15. CASE Restarted(r) \/ Unstopped(r)
  BY <1>15, EndEnds DEF Restarted, Unstopped, Finishes, Alike, Adapting
<1> QED
  BY <1>1, <1>2, <1>3, <1>4, <1>5, <1>6, <1>7, <1>8, <1>9, <1>10, <1>11, <1>12, <1>13, <1>14, <1>15
     DEF RequestStep

-----------------------------------------------------------------------------
(* Type and place of every request: Shape and Roles are invariant *)

\* What a new request does to the row.
LEMMA PatchMoves ==
  ASSUME Shape, Roles, NEW r \in Requests, NEW body \in Bodies, Patch(r, body)
  PROVE  /\ Others(r) /\ pc[r] = "idle" /\ pc'[r] = "patched"
         /\ wk'[r].body = body /\ wk'[r].on = None /\ ~body.restore
         /\ settings' = [enabled |-> Chosen(body.enabled, settings.enabled),
                         visual |-> Chosen(body.visual, settings.visual)]
         /\ settings' \in [enabled : BOOLEAN, visual : BOOLEAN]
         /\ settings'.enabled = Chosen(body.enabled, settings.enabled)
         /\ UNCHANGED <<discipline, engine, running, alive, upsets>>
<1> DEFINE w == [body |-> body, on |-> None]
<1>1. w \in Works /\ w.body = body /\ w.on = None
  BY DEF Works
<1>2. wk' = [wk EXCEPT ![r] = w] /\ Goto(r, "patched") /\ pc[r] = "idle" /\ ~body.restore
  BY DEF Patch
<1> HIDE DEF w
<1>3. Others(r) /\ pc'[r] = "patched" /\ wk'[r] = w
  BY <1>1, <1>2, GotoMoves DEF Others, Shape, Actors, PCs
<1>4. /\ Chosen(body.enabled, settings.enabled) \in BOOLEAN
      /\ Chosen(body.visual, settings.visual) \in BOOLEAN
  <2>1. settings.enabled \in BOOLEAN /\ settings.visual \in BOOLEAN
    BY DEF Shape
  <2> QED
    BY <2>1 DEF Chosen
<1>5. /\ settings' = [enabled |-> Chosen(body.enabled, settings.enabled),
                      visual |-> Chosen(body.visual, settings.visual)]
      /\ UNCHANGED <<discipline, engine, running, alive, upsets>>
  BY DEF Patch, state, provider, watcher
<1> QED
  BY <1>1, <1>2, <1>3, <1>4, <1>5

\* What a restart of the server leaves: the row, and a restore if it says so.
LEMMA RestartMoves ==
  ASSUME Shape, NEW r \in Requests, Restart(r)
  PROVE  /\ pc' \in [Actors -> PCs] /\ wk' \in [Requests -> Works]
         /\ \A a \in Actors : a # r => pc'[a] = "idle"
         /\ \A q \in Requests : q # r => wk'[q] = NoWork
         /\ settings.enabled => /\ pc'[r] = "patched" /\ wk'[r].on = None
                                /\ wk'[r].body.enabled = "on" /\ wk'[r].body.restore
         /\ ~settings.enabled => pc'[r] = "idle" /\ wk'[r] = NoWork
         /\ engine' = None /\ running' = Off /\ alive' = Off
         /\ UNCHANGED <<discipline, settings, upsets>>
<1> DEFINE again == [NoWork EXCEPT !.body.enabled = "on", !.body.restore = TRUE]
<1>1. /\ pc' = [a \in Actors |-> IF a = r /\ settings.enabled THEN "patched" ELSE "idle"]
      /\ wk' = [a \in Requests |-> IF a = r /\ settings.enabled THEN again ELSE NoWork]
      /\ engine' = None /\ running' = Off /\ alive' = Off
      /\ UNCHANGED <<discipline, settings, upsets>>
  BY DEF Restart
<1>2. /\ again \in Works /\ NoWork \in Works
      /\ again.on = None /\ again.body.enabled = "on" /\ again.body.restore
  BY NoWorkIsWork
<1> HIDE DEF again
<1> QED
  BY <1>1, <1>2 DEF Actors, PCs

\* What every step of a request leaves in place.
LEMMA ShapeByKind ==
  ASSUME Shape, Roles, NEW r \in Requests,
         \/ Finishes(r) \/ Proceeds(r) \/ Launches(r) \/ Fails(r) \/ GivesUp(r) \/ Ready(r)
         \/ Installs(r) \/ StopsNothing(r) \/ Exits(r)
  PROVE  Shape' /\ Roles' /\ Others(r) /\ discipline' = discipline
<1> USE DEF Making, Ending, Adapting
<1>0. Role(r) /\ NoWork.on = None /\ ~NoWork.body.restore
  BY NoWorkIsWork DEF Roles
<1>1. Others(r) /\ Role(r)'
  <2>1. ASSUME Ended(r)
        PROVE  Others(r) /\ Role(r)'
    BY <1>0, <2>1 DEF Ended, Role
  <2>2. ASSUME NEW to \in Making \union Ending \union Adapting, NEW e \in Engines, GoesTo(r, to, e)
        PROVE  Others(r) /\ Role(r)'
    BY <1>0, <2>2 DEF GoesTo, Role
  <2>3. ASSUME NEW e, GoesTo(r, "applying", e)
        PROVE  Others(r) /\ Role(r)'
    BY <1>0, <2>3 DEF GoesTo, Role
  <2>4. CASE Finishes(r) \/ Fails(r) \/ GivesUp(r)
    BY <2>1, <2>4 DEF Finishes, Fails, GivesUp
  <2>5. CASE Proceeds(r)
    <3>1. wk[r].on \in Engines \/ pc[r] \notin Making \union Ending \union Adapting
      BY <1>0 DEF Role
    <3>2. engine \in Engines \union {None}
      BY DEF Shape
    <3>3. CASE GoesTo(r, "applying", wk[r].on)
      BY <2>3, <3>3
    <3>4. CASE pc[r] = "snapshot" /\ GoesTo(r, "beginning", wk[r].on)
      BY <2>2, <3>1, <3>4
    <3>5. CASE pc[r] = "halting" /\ GoesTo(r, "exiting", wk[r].on)
      BY <2>2, <3>1, <3>5
    <3>6. CASE pc[r] = "restopping" /\ GoesTo(r, "restarting", wk[r].on)
      BY <2>2, <3>1, <3>6
    <3>7. CASE engine # None /\ \E to \in Ending \union Adapting : GoesTo(r, to, engine)
      <4>1. PICK e \in Engines : e = engine
        BY <3>2, <3>7
      <4>2. \E to \in Ending \union Adapting : GoesTo(r, to, e)
        BY <3>7, <4>1
      <4> QED
        BY <2>2, <4>2
    <3> QED
      BY <2>5, <3>3, <3>4, <3>5, <3>6, <3>7 DEF Proceeds
  <2>6. CASE Launches(r)
    BY <2>2, <2>6 DEF Launches
  <2>7. CASE Ready(r)
    BY <1>0, <2>2, <2>7 DEF Ready, Role
  <2>8. CASE Installs(r) \/ StopsNothing(r) \/ Exits(r)
    BY <2>1, <2>3, <2>8 DEF Installs, StopsNothing, Exits
  <2> QED
    BY <2>4, <2>5, <2>6, <2>7, <2>8
<1>2. /\ discipline' \in Disciplines /\ discipline' = discipline
      /\ settings' \in [enabled : BOOLEAN, visual : BOOLEAN]
  BY SettingsFields
     DEF Shape, Finishes, Proceeds, Launches, Fails, GivesUp, Ready, Installs, StopsNothing,
         Exits, Alike, Undone
<1>3. engine' \in Engines \union {None}
  BY <1>0 DEF Shape, Role, Finishes, Proceeds, Launches, Fails, GivesUp, Ready, Installs,
              StopsNothing, Exits, Alike
<1>4. running' \in [Engines -> BOOLEAN] /\ alive' \in [Engines -> BOOLEAN]
  BY DEF Shape, Finishes, Proceeds, Launches, Fails, GivesUp, Ready, Installs, StopsNothing,
         Exits, Alike
<1>5. /\ pc' \in [Actors -> PCs] /\ wk' \in [Requests -> Works]
      /\ \A q \in Requests : q # r => pc'[q] = pc[q] /\ wk'[q] = wk[q]
      /\ \A e \in Engines : pc'[e] = pc[e]
  <2>1. \A e \in Engines : e # r /\ e \in Actors
    BY DEF Actors
  <2> QED
    BY <1>1, <2>1 DEF Others, Actors
<1>6. \A q \in Requests : Role(q)'
  <2>1. ASSUME NEW q \in Requests, q # r
        PROVE  Role(q)'
    BY <1>5, <2>1 DEF Roles, Role
  <2> QED
    BY <1>1, <2>1
<1>7. Roles'
  BY <1>5, <1>6 DEF Roles
<1> QED
  BY <1>1, <1>2, <1>3, <1>4, <1>5, <1>7 DEF Shape

\* The types, and who may be where, are kept by every step.
LEMMA ShapeStep ==
  ASSUME Shape, Roles, [Next]_vars
  PROVE  Shape' /\ Roles'
<1>1. ASSUME Behind
      PROVE  Shape' /\ Roles'
  <2>1. Shape'
    BY <1>1 DEF Behind, Shape, service
  <2>2. ASSUME NEW r \in Requests
        PROVE  Role(r)'
    BY <1>1, <2>2 DEF Behind, Roles, Role, service
  <2> QED
    BY <1>1, <2>1, <2>2 DEF Behind, Roles
<1>2. ASSUME NEW r \in Requests, RequestStep(r)
      PROVE  Shape' /\ Roles'
  BY <1>2, RequestKinds, ShapeByKind
<1>3. ASSUME NEW r \in Requests, NEW body \in Bodies, Patch(r, body)
      PROVE  Shape' /\ Roles'
  <2> USE DEF Making, Ending, Adapting
  <2>1. Shape'
    BY <1>3, PatchMoves DEF Shape, Others
  <2>2. ASSUME NEW q \in Requests
        PROVE  Role(q)'
    <3>1. CASE q = r
      BY <1>3, <3>1, PatchMoves DEF Role
    <3>2. CASE q # r
      BY <1>3, <3>2, PatchMoves DEF Others, Actors, Roles, Role
    <3> QED
      BY <3>1, <3>2
  <2>3. \A e \in Engines : pc'[e] = pc[e]
    <3>1. \A e \in Engines : e # r /\ e \in Actors
      BY DEF Actors
    <3> QED
      BY <1>3, <3>1, PatchMoves DEF Others
  <2> QED
    BY <2>1, <2>2, <2>3 DEF Roles
<1>4. ASSUME NEW r \in Requests, Restart(r)
      PROVE  Shape' /\ Roles'
  <2> USE DEF Making, Ending, Adapting
  <2>1. Shape'
    <3>1. pc' \in [Actors -> PCs] /\ wk' \in [Requests -> Works]
      BY <1>4, RestartMoves
    <3>2. /\ engine' = None /\ running' = Off /\ alive' = Off
          /\ UNCHANGED <<discipline, settings>>
      BY <1>4, RestartMoves
    <3> QED
      BY <3>1, <3>2 DEF Shape, Off
  <2>2. ASSUME NEW q \in Requests
        PROVE  Role(q)'
    <3>1. (pc'[q] = "idle" /\ wk'[q] = NoWork) \/ (q = r /\ settings.enabled)
      BY <1>4, RestartMoves DEF Actors
    <3>2. CASE pc'[q] = "idle" /\ wk'[q] = NoWork
      BY <3>2, NoWorkIsWork DEF Role
    <3>3. CASE q = r /\ settings.enabled
      BY <1>4, <3>3, RestartMoves DEF Role
    <3> QED
      BY <3>1, <3>2, <3>3
  <2>3. \A e \in Engines : pc'[e] = "idle"
    <3>1. \A e \in Engines : e # r /\ e \in Actors
      BY DEF Actors
    <3> QED
      BY <1>4, <3>1, RestartMoves
  <2> QED
    BY <2>1, <2>2, <2>3 DEF Roles
<1>5. CASE UNCHANGED vars
  <2>1. Behind
    BY <1>5 DEF vars, service, state, provider, watcher, actors, counters, bounds, Behind, Shape, Roles
  <2> QED
    BY <1>1, <2>1
<1>6. CASE \E a \in Actors : CommandTimesOut(a)
  <2>1. Behind
    BY <1>6, TimesOutBehind
  <2> QED
    BY <1>1, <2>1
<1> QED
  BY <1>1, <1>2, <1>3, <1>4, <1>5, <1>6, BehindSteps DEF Next

-----------------------------------------------------------------------------
(* A client that waits for its answers: one request owns the engine *)

InStep ==
  /\ IsRunning => settings.enabled
  /\ settings.enabled => IsRunning \/ "unrestored" \in upsets

\* What holds of the request at work: while it makes an engine nobody holds one and the
\* row asks for one; while it ends one, that is the engine and the row asks for none;
\* after either, engine and row agree, and its own engine, if it lives, is the engine.
Owned(r) ==
  /\ pc[r] \in Making => engine = None /\ settings.enabled
  /\ pc[r] \in {"snapshot", "beginning"} => running[wk[r].on]
  /\ pc[r] \in Ending => wk[r].on = engine /\ ~settings.enabled
  /\ pc[r] \in {"applying"} \union Adapting =>
       /\ InStep
       /\ wk[r].on \in Engines /\ alive[wk[r].on] => wk[r].on = engine
  /\ pc[r] = "patched" => /\ Wants(r, "on") => settings.enabled
                          /\ Wants(r, "off") => ~settings.enabled
                          /\ Wants(r, "keep") => InStep
HeldRuns == engine # None => running[engine]
OneAtATime == \A r, q \in Requests : Resting(r) \/ Resting(q) \/ r = q
Serial ==
  discipline = "serial" =>
    OneAtATime /\ HeldRuns /\ (\A r \in Requests : Owned(r)) /\ (Quiet => InStep)

\* The same of request r, when all others rest.
Lone(r) ==
  /\ HeldRuns /\ Owned(r) /\ (Resting(r) => InStep)
  /\ \A e \in Engines : alive[e] => e = engine \/ (~Resting(r) /\ wk[r].on = e)

\* One request at a time: the only one that is open owns what there is to own.
LEMMA SerialIsLone ==
  ASSUME Roles, Serial, NoStrayWatcher, discipline = "serial", NEW r \in Requests,
         \/ ~Resting(r)
         \/ Quiet
  PROVE  Lone(r) /\ \A q \in Requests : q # r => Resting(q)
<1>1. \A q \in Requests : q # r => Resting(q)
  BY DEF Serial, OneAtATime, Quiet
<1>2. HeldRuns /\ Owned(r) /\ (Resting(r) => InStep)
  BY <1>1 DEF Serial, Quiet
<1>3. ASSUME NEW e \in Engines, alive[e]
      PROVE  e = engine \/ (~Resting(r) /\ wk[r].on = e)
  BY <1>1, <1>3 DEF NoStrayWatcher
<1> QED
  BY <1>1, <1>2, <1>3 DEF Lone

\* What one open request owns is nobody else's.
LEMMA LoneIsSerial ==
  ASSUME NEW r \in Requests, Lone(r)', \A q \in Requests : q # r => pc'[q] = "idle"
  PROVE  Serial' /\ NoStrayWatcher'
<1> USE DEF Making, Ending, Adapting
<1>1. OneAtATime' /\ HeldRuns' /\ (Quiet => InStep)'
  BY DEF OneAtATime, Lone, Quiet, Resting
<1>2. ASSUME NEW q \in Requests
      PROVE  Owned(q)'
  <2>1. CASE q = r
    BY <2>1 DEF Lone
  <2>2. CASE q # r
    <3>1. pc'[q] = "idle"
      BY <2>2
    <3> QED
      BY <3>1 DEF Owned
  <2> QED
    BY <2>1, <2>2
<1>3. NoStrayWatcher'
  BY DEF Lone, NoStrayWatcher
<1> QED
  BY <1>1, <1>2, <1>3 DEF Serial

\* The open request goes on owning what it needs.
LEMMA LoneStep ==
  ASSUME Shape, Roles, NEW r \in Requests, RequestStep(r), Lone(r)
  PROVE  Lone(r)'
<1> USE DEF Making, Ending, Adapting
<1>0. /\ Role(r) /\ NoWork.on = None /\ None \notin Engines
      /\ engine \in Engines \union {None} /\ alive \in [Engines -> BOOLEAN]
      /\ running \in [Engines -> BOOLEAN] /\ settings.enabled \in BOOLEAN
  BY NoWorkIsWork, SettingsFields DEF Roles, Shape
<1>1. \A e \in Engines : alive[e] => e = engine \/ (~Resting(r) /\ wk[r].on = e)
  BY DEF Lone
<1>2. CASE Finishes(r)
  <2>1. /\ pc'[r] = "idle" /\ UNCHANGED <<settings, engine, running, alive, upsets>>
        /\ HeldRuns'
    BY <1>2 DEF Finishes, Ended, Alike, Lone, HeldRuns
  <2>2. InStep
    BY <1>2, <1>0 DEF Finishes, Lone, Owned, InStep
  <2>3. InStep'
    BY <2>1, <2>2 DEF InStep, IsRunning
  <2>4. ASSUME NEW e \in Engines, alive[e]
        PROVE  e = engine
    BY <1>0, <1>1, <1>2, <2>4 DEF Finishes, Lone, Owned, Role
  <2> QED
    BY <2>1, <2>3, <2>4 DEF Lone, Owned, Resting
<1>3. CASE Proceeds(r)
  <2>1. /\ UNCHANGED <<settings, engine, running, alive, upsets>> /\ HeldRuns'
        /\ InStep' = InStep
    BY <1>3 DEF Proceeds, Alike, Lone, HeldRuns, InStep, IsRunning
  <2>2. ASSUME NEW to \in {"applying"} \union Making \union Ending \union Adapting, NEW e,
               GoesTo(r, to, e), Owned(r)', \A x \in Engines : alive[x] => x = engine \/ x = e
        PROVE  Lone(r)'
    BY <2>1, <2>2 DEF Lone, GoesTo, Resting
  <2>3. CASE /\ pc[r] = "patched" /\ (Wants(r, "keep") \/ (Wants(r, "on") /\ IsRunning))
             /\ GoesTo(r, "applying", wk[r].on)
    <3>1. InStep /\ wk[r].on = None
      BY <1>0, <2>3 DEF Lone, Owned, InStep, Role
    <3>2. Owned(r)'
      BY <1>0, <2>1, <2>3, <3>1 DEF Owned, GoesTo
    <3> QED
      BY <1>1, <2>2, <2>3, <3>2
  <2>4. CASE pc[r] = "snapshot" /\ GoesTo(r, "beginning", wk[r].on)
    <3>1. Owned(r)'
      BY <2>1, <2>4 DEF Owned, GoesTo, Lone
    <3> QED
      BY <1>1, <2>2, <2>4, <3>1
  <2>5. CASE pc[r] = "halting" /\ GoesTo(r, "exiting", wk[r].on)
    <3>1. Owned(r)'
      BY <2>1, <2>5 DEF Owned, GoesTo, Lone
    <3> QED
      BY <1>1, <2>2, <2>5, <3>1
  <2>6. CASE pc[r] = "restopping" /\ GoesTo(r, "restarting", wk[r].on)
    <3>1. Owned(r)'
      BY <2>1, <2>6 DEF Owned, GoesTo, Lone
    <3> QED
      BY <1>1, <2>2, <2>6, <3>1
  <2>7. CASE /\ engine # None /\ pc[r] = "patched" /\ Wants(r, "off")
             /\ \E to \in Ending : GoesTo(r, to, engine)
    <3>1. PICK to \in Ending : GoesTo(r, to, engine)
      BY <2>7
    <3>2. wk[r].on = None /\ ~settings.enabled
      BY <1>0, <2>7 DEF Role, Lone, Owned
    <3>3. Owned(r)'
      BY <2>1, <3>1, <3>2 DEF Owned, GoesTo
    <3>4. \A x \in Engines : alive[x] => x = engine
      BY <1>0, <1>1, <3>2
    <3>5. pc'[r] # "idle" /\ UNCHANGED <<engine, alive>>
      BY <2>1, <3>1 DEF GoesTo
    <3> QED
      BY <2>1, <3>3, <3>4, <3>5 DEF Lone, Resting
  <2>8. CASE /\ engine # None /\ pc[r] = "applying"
             /\ \E to \in Adapting : GoesTo(r, to, engine)
    <3>1. PICK to \in Adapting : GoesTo(r, to, engine)
      BY <2>8
    <3>2. InStep /\ (wk[r].on \in Engines /\ alive[wk[r].on] => wk[r].on = engine)
      BY <2>8 DEF Lone, Owned
    <3>3. Owned(r)'
      BY <2>1, <3>1, <3>2 DEF Owned, GoesTo
    <3>4. \A x \in Engines : alive[x] => x = engine
      BY <1>0, <1>1, <3>2
    <3>5. pc'[r] # "idle" /\ UNCHANGED <<engine, alive>>
      BY <2>1, <3>1 DEF GoesTo
    <3> QED
      BY <2>1, <3>3, <3>4, <3>5 DEF Lone, Resting
  <2> QED
    BY <1>3, <2>3, <2>4, <2>5, <2>6, <2>7, <2>8 DEF Proceeds
<1>4. CASE Launches(r)
  <2>1. PICK e \in Engines : /\ Free(e) /\ GoesTo(r, "launching", e)
                             /\ alive' = [alive EXCEPT ![e] = TRUE]
                             /\ running' = [running EXCEPT ![e] = FALSE]
    BY <1>4 DEF Launches
  <2>2. engine = None /\ engine' = None /\ settings' = settings /\ settings.enabled
    BY <1>4 DEF Launches, Lone, HeldRuns, IsRunning
  <2>3. wk[r].on = None
    BY <1>0, <1>4 DEF Launches, Role
  <2>4. HeldRuns' /\ Owned(r)' /\ ~Resting(r)'
    BY <2>1, <2>2 DEF HeldRuns, Owned, GoesTo, Resting
  <2>5. \A x \in Engines : alive'[x] => x = e
    BY <1>0, <1>1, <2>1, <2>2, <2>3
  <2> QED
    BY <2>1, <2>4, <2>5 DEF Lone, GoesTo
<1>5. CASE Fails(r)
  <2>1. /\ pc'[r] = "idle" /\ engine' = None /\ wk[r].on \in Engines
        /\ alive' = [alive EXCEPT ![wk[r].on] = FALSE] /\ Undone(r)
    BY <1>0, <1>5 DEF Fails, Ended, Lone, Owned, Role
  <2>2. InStep'
    <3>1. ~IsRunning'
      BY <2>1 DEF IsRunning
    <3>2. settings'.enabled => "unrestored" \in upsets'
      BY <2>1, SettingsFields DEF Undone
    <3> QED
      BY <3>1, <3>2 DEF InStep
  <2>3. \A x \in Engines : ~alive'[x]
    BY <1>0, <1>1, <1>5, <2>1 DEF Fails, Lone, Owned
  <2> QED
    BY <2>1, <2>2, <2>3 DEF Lone, HeldRuns, Owned
<1>6. CASE GivesUp(r)
  BY <1>6 DEF GivesUp, Lone, Owned
<1>7. CASE Ready(r)
  <2>1. /\ engine = None /\ settings.enabled /\ wk[r].on \in Engines /\ pc'[r] = "snapshot"
        /\ wk'[r].on = wk[r].on /\ running' = [running EXCEPT ![wk[r].on] = TRUE]
        /\ UNCHANGED <<settings, engine, alive>>
    BY <1>0, <1>7 DEF Ready, Lone, Owned, GoesTo, Role
  <2>2. HeldRuns' /\ Owned(r)' /\ ~Resting(r)'
    BY <1>0, <2>1 DEF HeldRuns, Owned, Resting
  <2>3. \A x \in Engines : alive'[x] => x = wk'[r].on
    BY <1>0, <1>1, <2>1
  <2> QED
    BY <2>2, <2>3 DEF Lone
<1>8. CASE Installs(r)
  <2>1. /\ engine = None /\ settings.enabled /\ wk[r].on \in Engines /\ engine' = wk[r].on
        /\ running[wk[r].on] /\ UNCHANGED <<settings, running, alive>>
    BY <1>0, <1>8 DEF Installs, Lone, Owned, Role
  <2>2. HeldRuns' /\ InStep'
    BY <1>0, <2>1 DEF HeldRuns, InStep, IsRunning
  <2>3. \A x \in Engines : alive'[x] => x = engine'
    BY <1>0, <1>1, <2>1
  <2>4. Owned(r)'
    <3>1. pc'[r] \in {"idle", "applying"} /\ (pc'[r] = "applying" => wk'[r].on = engine')
      BY <1>8, <2>1 DEF Installs, Ended, GoesTo
    <3> QED
      BY <2>2, <3>1 DEF Owned
  <2> QED
    BY <2>2, <2>3, <2>4 DEF Lone
<1>9. CASE StopsNothing(r)
  <2>1. /\ engine = None /\ engine' = None /\ wk[r].on = None /\ wk'[r].on = None
        /\ ~settings.enabled /\ UNCHANGED <<settings, alive>> /\ pc'[r] = "applying"
    BY <1>0, <1>9 DEF StopsNothing, Lone, Owned, HeldRuns, IsRunning, GoesTo, Role
  <2>2. HeldRuns' /\ InStep' /\ Owned(r)' /\ ~Resting(r)'
    BY <2>1, <1>0 DEF HeldRuns, InStep, IsRunning, Owned, Resting
  <2>3. \A x \in Engines : ~alive'[x]
    BY <1>0, <1>1, <2>1
  <2> QED
    BY <2>2, <2>3 DEF Lone
<1>10. CASE Exits(r)
  <2>1. /\ wk[r].on = engine /\ wk[r].on \in Engines /\ ~settings.enabled /\ engine' = None
        /\ wk'[r].on = wk[r].on /\ pc'[r] = "applying" /\ settings' = settings
        /\ alive' = [alive EXCEPT ![wk[r].on] = FALSE]
    BY <1>0, <1>10 DEF Exits, Lone, Owned, GoesTo, Role
  <2>2. \A x \in Engines : ~alive'[x]
    BY <1>0, <1>1, <2>1
  <2>3. HeldRuns' /\ InStep' /\ ~Resting(r)'
    BY <2>1 DEF HeldRuns, InStep, IsRunning, Resting
  <2>4. Owned(r)'
    BY <2>1, <2>2, <2>3 DEF Owned
  <2> QED
    BY <2>2, <2>3, <2>4 DEF Lone
<1> QED
  BY <1>2, <1>3, <1>4, <1>5, <1>6, <1>7, <1>8, <1>9, <1>10, RequestKinds

\* The invariant of the serial client, and its watchers, step by step.
LEMMA SerialStep ==
  ASSUME Shape, Roles, Serial, NoStrayWatcher, [Next]_vars
  PROVE  Serial' /\ NoStrayWatcher'
<1> USE DEF Making, Ending, Adapting
<1>1. ASSUME Behind
      PROVE  Serial' /\ NoStrayWatcher'
  <2>1. /\ UNCHANGED <<wk, discipline, settings, engine, running>> /\ upsets \subseteq upsets'
        /\ \A r \in Requests : pc'[r] = pc[r]
        /\ \A e \in Engines : alive'[e] => alive[e]
    BY <1>1 DEF Behind, service
  <2>2. InStep => InStep'
    BY <2>1 DEF InStep, IsRunning
  <2>3. ASSUME NEW r \in Requests, Owned(r)
        PROVE  Owned(r)'
    BY <2>1, <2>2, <2>3 DEF Owned, Wants
  <2>4. Serial'
    BY <2>1, <2>2, <2>3 DEF Serial, OneAtATime, HeldRuns, Quiet, Resting
  <2>5. NoStrayWatcher'
    BY <2>1 DEF NoStrayWatcher, Resting
  <2> QED
    BY <2>4, <2>5
<1>2. ASSUME NEW r \in Requests, RequestStep(r)
      PROVE  Serial' /\ NoStrayWatcher'
  <2>1. Others(r) /\ discipline' = discipline
    BY <1>2, RequestKinds, ShapeByKind
  <2>2. CASE discipline = "serial"
    <3>1. ~Resting(r)
      BY <1>2, RequestKinds
         DEF Resting, Finishes, Proceeds, Launches, Fails, GivesUp, Ready, Installs,
             StopsNothing, Exits
    <3>2. Lone(r) /\ \A q \in Requests : q # r => Resting(q)
      BY <2>2, <3>1, SerialIsLone
    <3>3. \A q \in Requests : q # r => pc'[q] = "idle"
      BY <2>1, <3>2 DEF Others, Resting, Actors
    <3> QED
      BY <1>2, <3>2, <3>3, LoneStep, LoneIsSerial
  <2>3. CASE discipline # "serial"
    BY <2>1, <2>3 DEF Serial, NoStrayWatcher
  <2> QED
    BY <2>2, <2>3
<1>3. ASSUME NEW r \in Requests, NEW body \in Bodies, Patch(r, body)
      PROVE  Serial' /\ NoStrayWatcher'
  <2>1. CASE discipline = "serial"
    <3>1. Quiet /\ pc[r] = "idle"
      BY <1>3, <2>1 DEF Patch
    <3>2. Lone(r) /\ \A q \in Requests : q # r => Resting(q)
      BY <2>1, <3>1, SerialIsLone
    <3>3. \A q \in Requests : q # r => pc'[q] = "idle"
      BY <1>3, <3>2, PatchMoves DEF Others, Resting, Actors
    <3>4. /\ pc'[r] = "patched" /\ wk'[r].body.enabled = body.enabled
          /\ settings'.enabled = Chosen(body.enabled, settings.enabled)
          /\ UNCHANGED <<engine, running, alive, upsets>>
      BY <1>3, PatchMoves
    <3>5. InStep /\ HeldRuns /\ \A e \in Engines : alive[e] => e = engine
      BY <3>1, <3>2 DEF Lone, Resting
    <3>6. HeldRuns' /\ ~Resting(r)' /\ \A e \in Engines : alive'[e] => e = engine'
      BY <3>4, <3>5 DEF HeldRuns, Resting
    <3>7. Owned(r)'
      <4>1. CASE body.enabled = "keep"
        <5>1. InStep'
          BY <3>4, <3>5, <4>1 DEF InStep, IsRunning, Chosen
        <5> QED
          BY <3>4, <4>1, <5>1 DEF Owned, Wants
      <4>2. CASE body.enabled # "keep"
        <5>1. settings'.enabled = (body.enabled = "on")
          BY <3>4, <4>2 DEF Chosen
        <5> QED
          BY <3>4, <4>2, <5>1 DEF Owned, Wants
      <4> QED
        BY <4>1, <4>2
    <3> QED
      BY <3>3, <3>6, <3>7, LoneIsSerial DEF Lone
  <2>2. CASE discipline # "serial"
    BY <1>3, <2>2, PatchMoves DEF Serial, NoStrayWatcher
  <2> QED
    BY <2>1, <2>2
<1>4. ASSUME NEW r \in Requests, Restart(r)
      PROVE  Serial' /\ NoStrayWatcher'
  <2>1. /\ engine' = None /\ alive' = Off /\ settings' = settings
        /\ \A q \in Requests : q # r => pc'[q] = "idle"
    BY <1>4, RestartMoves DEF Actors
  <2>2. HeldRuns' /\ \A e \in Engines : ~alive'[e]
    BY <2>1 DEF HeldRuns, Off
  <2>3. CASE settings.enabled
    <3>1. pc'[r] = "patched" /\ wk'[r].body.enabled = "on"
      BY <1>4, <2>3, RestartMoves
    <3>2. Owned(r)' /\ ~Resting(r)'
      BY <2>1, <2>3, <3>1 DEF Owned, Wants, Resting
    <3> QED
      BY <2>1, <2>2, <3>2, LoneIsSerial DEF Lone
  <2>4. CASE ~settings.enabled
    <3>1. pc'[r] = "idle"
      BY <1>4, <2>4, RestartMoves
    <3>2. Owned(r)' /\ InStep'
      BY <2>1, <2>4, <3>1 DEF Owned, InStep, IsRunning
    <3> QED
      BY <2>1, <2>2, <3>2, LoneIsSerial DEF Lone
  <2> QED
    BY <2>3, <2>4
<1>5. CASE UNCHANGED vars
  <2>1. Behind
    BY <1>5 DEF vars, service, state, provider, watcher, actors, counters, bounds, Behind, Shape, Roles
  <2> QED
    BY <1>1, <2>1
<1>6. CASE \E a \in Actors : CommandTimesOut(a)
  <2>1. Behind
    BY <1>6, TimesOutBehind
  <2> QED
    BY <1>1, <2>1
<1> QED
  BY <1>1, <1>2, <1>3, <1>4, <1>5, <1>6, BehindSteps DEF Next

\* It holds at first.
LEMMA EyesInit ==
  ASSUME Init
  PROVE  Shape /\ Roles /\ Serial /\ NoStrayWatcher
<1> USE DEF Making, Ending, Adapting
<1>1. /\ \A a \in Actors : pc[a] = "idle"
      /\ \A r \in Requests : wk[r] = NoWork /\ r \in Actors
      /\ \A e \in Engines : e \in Actors /\ ~alive[e]
      /\ engine = None /\ ~settings.enabled
  BY DEF Init, Actors, Off
<1>2. Shape
  BY NoWorkIsWork DEF Init, Shape, Off, PCs
<1>3. ASSUME NEW r \in Requests
      PROVE  Role(r) /\ Owned(r)
  BY <1>1, NoWorkIsWork DEF Role, Owned
<1>4. Roles
  BY <1>1, <1>3 DEF Roles
<1>5. InStep /\ HeldRuns /\ OneAtATime
  BY <1>1 DEF InStep, IsRunning, HeldRuns, OneAtATime, Resting
<1> QED
  BY <1>1, <1>2, <1>3, <1>4, <1>5 DEF Serial, NoStrayWatcher

\* Together they are inductive.
Owners == Shape /\ Roles /\ Serial /\ NoStrayWatcher

\* It holds always.
LEMMA OwnersKept == Spec => []Owners
<1>1. Init => Owners
  BY EyesInit DEF Owners
<1>2. Owners /\ [Next]_vars => Owners'
  BY ShapeStep, SerialStep DEF Owners
<1> QED
  BY <1>1, <1>2, PTL DEF Spec

\* EyesService: engines run in lockstep with eyesEnabled for a client that waits for its
\* answers, through any launches that fail, watchers that die, answers that never come
\* and restarts: when no request is open an engine runs exactly if the row says so, or
\* the restore at startup had failed.
THEOREM InLockstep == Spec => []LockstepWithSettings
<1>1. Owners => LockstepWithSettings
  BY DEF Owners, Serial, InStep, LockstepWithSettings
<1> QED
  BY <1>1, OwnersKept, PTL

\* No watcher process outlives the launch, the engine or the server it was made for.
THEOREM NobodyStrays == Spec => []NoStrayWatcher
<1>1. Owners => NoStrayWatcher
  BY DEF Owners
<1> QED
  BY <1>1, OwnersKept, PTL

-----------------------------------------------------------------------------
(* The watcher's pipe *)

\* WithoutAnswers leaves lines of the sequence, and none that answers one of those named.
LEMMA KeptLines ==
  ASSUME NEW seq \in Seq(Lines), NEW to
  PROVE  /\ WithoutAnswers(seq, to) \in Seq(Lines)
         /\ \A i \in DOMAIN WithoutAnswers(seq, to) : \E j \in DOMAIN seq :
              /\ WithoutAnswers(seq, to)[i] = seq[j]
              /\ ~(seq[j].line = "response" /\ seq[j].by \in to)
<1> DEFINE places == {i \in DOMAIN seq : ~(seq[i].line = "response" /\ seq[i].by \in to)}
           left == Filtered(seq, places)
<1>1. left \in Seq(Lines) /\ \E e : Picks(left, e, seq, places, Len(seq))
  BY FilterPicks
<1>2. PICK e : Picks(left, e, seq, places, Len(seq))
  BY <1>1
<1>3. \A i \in 1 .. Len(left) : e[i] \in places /\ left[i] = seq[e[i]]
  BY <1>2 DEF Picks
<1>4. DOMAIN left = 1 .. Len(left)
  BY <1>1
<1> HIDE DEF left
<1>5. \A i \in DOMAIN left : \E j \in DOMAIN seq :
        left[i] = seq[j] /\ ~(seq[j].line = "response" /\ seq[j].by \in to)
  BY <1>3, <1>4
<1> QED
  BY <1>1, <1>5 DEF WithoutAnswers, left

-----------------------------------------------------------------------------
(* Who waits for whom: the digest of a step *)

\* The types of what Shape leaves out.
Answers == {"none", "waiting", "ok", "failed"}
Typed ==
  /\ answer \in [Actors -> Answers]
  /\ policy \in [Engines -> BOOLEAN] /\ active \in [Engines -> BOOLEAN]
  /\ remembers \in [Engines -> BOOLEAN] /\ sink \in [Engines -> BOOLEAN]
  /\ listening \in [Engines -> BOOLEAN] /\ thread \in [Engines -> BOOLEAN]
  /\ child \in [Engines -> {"none", "launching", "up"}]
  /\ commands \in [Engines -> Seq(Commands)] /\ lines \in [Engines -> Seq(Lines)]
  /\ upsets \subseteq Upsets /\ patches \in Nat /\ retunes \in Nat /\ restarts \in Nat

Waiting(a) == answer[a] = "waiting"
Awaiting == Starting \union Stopping \union {"exiting"}

\* Who waits has sent a command to an engine whose process is up.
Waits ==
  \A a \in Actors : Waiting(a) =>
    pc[a] \in Awaiting /\ Target(a) \in Engines /\ child[Target(a)] = "up"

\* Node knows whether there is a process; without one nothing runs and nothing is asked.
Process(e) ==
  /\ alive[e] <=> child[e] # "none"
  /\ ~alive[e] => ~thread[e] /\ commands[e] = <<>>
  /\ running[e] /\ "exit" \notin upsets => child[e] = "up"
  /\ child[e] = "up" => running[e]

\* An engine whose process starts is as good as new, and one request's alone.
Untouched(e) ==
  /\ ~running[e] /\ ~active[e] /\ ~sink[e] /\ ~listening[e] /\ ~remembers[e] /\ ~thread[e]
  /\ commands[e] = <<>> /\ lines[e] = <<>> /\ engine # e
LaunchedBy(r, e) ==
  /\ pc[r] = "launching" /\ Target(r) = e
  /\ \A a \in Actors : Target(a) = e /\ ~Resting(a) => a = r
Launching ==
  /\ \A r \in Requests : pc[r] = "launching" => child[Target(r)] = "launching"
  /\ \A e \in Engines : child[e] = "launching" =>
       Untouched(e) /\ \E r \in Requests : LaunchedBy(r, e)

\* Capture is believed to run only where its end is heard.
Attends == \A e \in Engines : active[e] => listening[e]

Crew == Typed /\ Waits /\ Launching /\ Attends /\ \A e \in Engines : Process(e)

\* Everybody but a is where he was, and waits for what he waited for.
Alone(a) ==
  /\ answer' \in [Actors -> Answers]
  /\ \A b \in Actors : b # a =>
       pc'[b] = pc[b] /\ answer'[b] = answer[b] /\ Target(b)' = Target(b)

\* What may change meanwhile without any further notice.
Ticks ==
  /\ policy' \in [Engines -> BOOLEAN] /\ patches' \in Nat /\ retunes' \in Nat /\ restarts' \in Nat
  /\ upsets' \subseteq Upsets /\ upsets \subseteq upsets'
  /\ "exit" \in upsets' => "exit" \in upsets

\* The end of a start is noted.
Notes(a) ==
  \/ UNCHANGED <<active, listening>>
  \/ /\ pc[a] \in {"beginning", "restarting"}
     /\ active' = [active EXCEPT ![Target(a)] = @ \/ answer[a] = "ok"]
     /\ listening' = [listening EXCEPT ![Target(a)] = @ \/ answer[a] = "ok"]

\* Actor a goes on and asks nothing of the watcher.
Thinks(a) ==
  /\ Alone(a) /\ Ticks /\ Notes(a)
  /\ answer[a] # "waiting" /\ answer'[a] \in {"none", answer[a]}
  /\ pc[a] \notin {"launching", "exiting"} /\ pc'[a] \notin Awaiting \union {"launching"}
  /\ Target(a)' = None \/ (Target(a)' = Target(a) /\ ~Resting(a))
  /\ \/ engine' \in {engine, None}
     \/ pc[a] \in {"snapshot", "beginning"} /\ engine' = Target(a)
  /\ UNCHANGED <<running, remembers, child, sink, watcher>>

Asks(cmd) ==
  IF cmd = "start" THEN Starting ELSE IF cmd = "stop" THEN Stopping ELSE {"exiting"}

\* Actor a asks something of the watcher of engine e.
Sends(a, e, cmd) ==
  /\ Alone(a) /\ Ticks /\ Send(e, a, cmd)
  /\ answer[a] # "waiting" /\ pc[a] \notin {"idle", "launching", "exiting"}
  /\ e = engine \/ (Target(a) = e /\ pc[a] # "applying")
  /\ Target(a)' = e /\ pc'[a] \in Asks(cmd)
  /\ pc[a] \in Awaiting => Target(a) = e
  /\ sink' = IF cmd = "exit" THEN sink ELSE [sink EXCEPT ![e] = (cmd = "start")]
  /\ active' = active \/ (cmd = "stop" /\ active' = [active EXCEPT ![e] = FALSE])
  /\ UNCHANGED <<engine, running, remembers, child, listening>>

\* Who changes only his own answer leaves everybody else alone.
LEMMA OthersAlone ==
  ASSUME NEW r \in Requests, Others(r), answer' \in [Actors -> Answers],
         \A b \in Actors : b # r => answer'[b] = answer[b]
  PROVE  Alone(r)
<1> SUFFICES ASSUME NEW b \in Actors, b # r
             PROVE  pc'[b] = pc[b] /\ answer'[b] = answer[b] /\ Target(b)' = Target(b)
  BY DEF Alone
<1>1. CASE b \in Requests
  BY <1>1 DEF Others, Target
<1>2. CASE b \notin Requests
  BY <1>2 DEF Others, Target
<1> QED
  BY <1>1, <1>2

\* writeCommand: who sends waits, or has failed when there is no process to write to.
LEMMA SendAnswers ==
  ASSUME Typed, NEW a \in Actors, NEW e \in Engines, NEW cmd, Send(e, a, cmd)
  PROVE  /\ \A b \in Actors : b # a => answer'[b] = answer[b]
         /\ answer'[a] \in {"waiting", "failed"} /\ answer' \in [Actors -> Answers]
  BY DEF Typed, Send, Answers

\* A step that counts nothing.
LEMMA TicksAlike ==
  ASSUME Typed, policy' \in [Engines -> BOOLEAN], UNCHANGED counters
  PROVE  Ticks
  BY DEF Typed, Ticks, counters, bounds

\* What a request does, seen from the pipes.
LEMMA RequestDigest ==
  ASSUME Shape, Roles, Typed, Waits, NEW r \in Requests, RequestStep(r)
  PROVE  \/ Thinks(r)
         \/ \E e \in Engines, cmd \in {"start", "stop", "exit"} : Sends(r, e, cmd)
         \/ Launch(r) \/ LaunchFails(r) \/ LaunchReady(r) \/ Exited(r)
<1> USE DEF service, state, provider, watcher, actors, counters, bounds
<1>0. /\ Role(r) /\ Others(r) /\ wk[r].on \in Engines \union {None} /\ Target(r) = wk[r].on
      /\ (Target(r))' = wk'[r].on /\ r \in Actors /\ NoWork.on = None
  BY RequestKinds, ShapeByKind, NoWorkIsWork DEF Roles, Shape, Works, Target, Actors
<1>1. /\ pc[r] \notin Awaiting => answer[r] # "waiting"
      /\ Answered(r) => answer[r] # "waiting"
  BY <1>0 DEF Waits, Waiting, Answered
<1>2. /\ \A a \in Actors : a # r => pc'[a] = pc[a]
      /\ pc' \in [Actors -> PCs] /\ wk' \in [Requests -> Works]
      /\ engine \in Engines \union {None} /\ settings.visual \in BOOLEAN
  BY <1>0, SettingsFields DEF Others, Shape
<1> USE DEF Awaiting, Starting, Stopping
<1>3. ASSUME NEW to \in PCs, Goto(r, to)
      PROVE  pc'[r] = to
  BY <1>3, <1>0 DEF Goto, Shape
<1>4. ASSUME End(r)
      PROVE  pc'[r] = "idle" /\ (Target(r))' = None
  BY <1>0, <1>4, EndMoves
<1>5. ASSUME \A b \in Actors : b # r => answer'[b] = answer[b], answer' \in [Actors -> Answers]
      PROVE  Alone(r)
  BY <1>0, <1>5, OthersAlone
<1>6. ASSUME UNCHANGED answer \/ answer' = [answer EXCEPT ![r] = "none"]
      PROVE  Alone(r) /\ answer'[r] \in {"none", answer[r]}
  <2>1. \A b \in Actors : b # r => answer'[b] = answer[b]
    BY <1>0, <1>6 DEF Typed
  <2>2. answer'[r] \in {"none", answer[r]} /\ answer' \in [Actors -> Answers]
    BY <1>0, <1>6 DEF Typed, Answers
  <2> QED
    BY <1>5, <2>1, <2>2
<1>7. ASSUME NEW e \in Engines, NEW cmd, Send(e, r, cmd)
      PROVE  Alone(r)
  BY <1>0, <1>5, <1>7, SendAnswers
<1>8. ASSUME policy' \in [Engines -> BOOLEAN], UNCHANGED <<patches, retunes, restarts>>,
             upsets' = upsets \/ upsets' = upsets \union {"unrestored"}
      PROVE  Ticks
  BY <1>8 DEF Typed, Ticks, Upsets
<1>9. policy \in [Engines -> BOOLEAN]
  BY DEF Typed
\* Steps that ask nothing.
<1>10. CASE NothingToStart(r) \/ Refused(r) \/ NothingToStop(r) \/ NothingToApply(r) \/ Unstopped(r)
  <2>1. /\ UNCHANGED <<running, policy, active, remembers, child, sink, listening, watcher,
                       patches, retunes, restarts>>
        /\ upsets' = upsets \/ upsets' = upsets \union {"unrestored"}
        /\ engine' \in {engine, None} /\ pc[r] \in {"patched", "applying", "unstopping"}
        /\ UNCHANGED answer \/ answer' = [answer EXCEPT ![r] = "none"]
        /\ pc[r] = "unstopping" => Answered(r)
    BY <1>10 DEF NothingToStart, Refused, GiveUp, NothingToStop, NothingToApply, Unstopped
  <2>2. \/ End(r) \/ (Goto(r, "applying") /\ wk' = wk)
    BY <1>10 DEF NothingToStart, Refused, GiveUp, GoOn, NothingToStop, NothingToApply, Unstopped
  <2>3. pc'[r] \in {"idle", "applying"} /\ (Target(r))' \in {Target(r), None} /\ ~Resting(r)
    BY <1>0, <1>3, <1>4, <2>1, <2>2 DEF PCs, Resting
  <2>4. Alone(r) /\ Ticks /\ answer'[r] \in {"none", answer[r]} /\ answer[r] # "waiting"
    BY <1>1, <1>6, <1>8, <1>9, <2>1
  <2> QED
    BY <2>1, <2>3, <2>4 DEF Thinks, Notes
<1>11. CASE Snapshot(r)
  <2>1. /\ pc[r] = "snapshot" /\ wk[r].on \in Engines /\ answer[r] # "waiting"
        /\ UNCHANGED <<running, policy, active, remembers, child, listening, counters>> /\ Ticks
    BY <1>0, <1>1, <1>9, <1>11, TicksAlike DEF Snapshot, Role, Making
  <2>2. CASE /\ StartContinuousCapture(wk[r].on, r) /\ GoOn(r, "beginning") /\ UNCHANGED engine
    <3>1. Send(wk[r].on, r, "start") /\ sink' = [sink EXCEPT ![wk[r].on] = TRUE]
      BY <2>2 DEF StartContinuousCapture
    <3>2. pc'[r] = "beginning" /\ (Target(r))' = wk[r].on
      BY <1>0, <1>3, <2>2 DEF GoOn, PCs
    <3>3. Alone(r)
      BY <1>7, <2>1, <3>1
    <3>4. Sends(r, wk[r].on, "start")
      BY <1>0, <2>1, <2>2, <3>1, <3>2, <3>3 DEF Sends, Resting, Asks
    <3> QED
      BY <2>1, <3>4
  <2>3. CASE Install(r) /\ UNCHANGED <<answer, sink, watcher>>
    <3>1. pc'[r] \in {"idle", "applying"} /\ (Target(r))' \in {Target(r), None} /\ ~Resting(r)
      BY <1>0, <1>3, <1>4, <2>1, <2>3 DEF Install, GoOn, PCs, Resting
    <3>2. Alone(r) /\ answer'[r] \in {"none", answer[r]} /\ engine' = Target(r)
      BY <1>0, <1>6, <2>3 DEF Install
    <3> QED
      BY <2>1, <2>3, <3>1, <3>2 DEF Thinks, Notes
  <2> QED
    BY <1>11, <2>2, <2>3 DEF Snapshot
<1>12. CASE Begun(r) \/ Restarted(r)
  <2>1. /\ pc[r] \in {"beginning", "restarting"} /\ answer[r] # "waiting"
        /\ UNCHANGED <<running, policy, remembers, child, sink, watcher, counters>> /\ Ticks
        /\ answer' = [answer EXCEPT ![r] = "none"]
    BY <1>1, <1>9, <1>12, TicksAlike DEF Begun, Restarted, Started
  <2>2. Notes(r)
    BY <1>0, <1>12 DEF Begun, Restarted, Started, Notes
  <2>3. /\ pc'[r] \in {"idle", "applying"} /\ (Target(r))' \in {Target(r), None} /\ ~Resting(r)
        /\ engine' = engine \/ (pc[r] = "beginning" /\ engine' = Target(r))
    BY <1>0, <1>3, <1>4, <1>12, <2>1 DEF Begun, Restarted, Install, GoOn, PCs, Resting
  <2>4. Alone(r) /\ answer'[r] \in {"none", answer[r]}
    BY <1>6, <2>1
  <2> QED
    BY <2>1, <2>2, <2>3, <2>4 DEF Thinks
<1>13. CASE Halt(r)
  <2>1. /\ pc[r] = "patched" /\ engine \in Engines /\ answer[r] # "waiting" /\ wk[r] \in Works
        /\ wk' = [wk EXCEPT ![r].on = engine]
        /\ UNCHANGED <<engine, running, remembers, child, listening, counters, policy>> /\ Ticks
    BY <1>1, <1>2, <1>9, <1>13, TicksAlike DEF Halt, IsRunning, Shape
  <2>2. (Target(r))' = engine
    BY <1>0, <2>1, TakesOn
  <2>3. CASE StopCapture(engine, r) /\ Goto(r, "halting")
    <3>1. Send(engine, r, "stop") /\ pc'[r] = "halting" /\ Alone(r)
      BY <1>3, <1>7, <2>1, <2>3 DEF StopCapture, StopContinuousCapture, PCs
    <3>2. Sends(r, engine, "stop")
      BY <2>1, <2>2, <2>3, <3>1 DEF Sends, StopCapture, StopContinuousCapture, Asks
    <3> QED
      BY <2>1, <3>2
  <2>4. CASE ~active[engine] /\ Send(engine, r, "exit") /\ Goto(r, "exiting") /\ UNCHANGED <<active, sink>>
    <3>1. pc'[r] = "exiting" /\ Alone(r)
      BY <1>3, <1>7, <2>1, <2>4 DEF PCs
    <3>2. Sends(r, engine, "exit")
      BY <2>1, <2>2, <2>4, <3>1 DEF Sends, Asks
    <3> QED
      BY <2>1, <3>2
  <2> QED
    BY <1>13, <2>3, <2>4 DEF Halt
<1>14. CASE Halted(r)
  <2>1. /\ pc[r] = "halting" /\ wk[r].on \in Engines /\ answer[r] # "waiting" /\ wk' = wk
        /\ UNCHANGED <<engine, running, policy, active, remembers, child, sink, listening, counters>>
        /\ Ticks /\ Send(wk[r].on, r, "exit") /\ Goto(r, "exiting")
    BY <1>0, <1>1, <1>9, <1>14, TicksAlike DEF Halted, Role, Ending
  <2>2. pc'[r] = "exiting" /\ Alone(r)
    BY <1>3, <1>7, <2>1 DEF PCs
  <2>3. Sends(r, wk[r].on, "exit")
    BY <1>0, <2>1, <2>2 DEF Sends, Asks, Resting
  <2> QED
    BY <2>1, <2>3
<1>15. CASE Apply(r)
  <2>1. /\ pc[r] = "applying" /\ engine \in Engines /\ answer[r] # "waiting"
        /\ policy' = [policy EXCEPT ![engine] = settings.visual]
        /\ UNCHANGED <<engine, running, remembers, child, listening, counters>> /\ Ticks
    BY <1>1, <1>2, <1>9, <1>15, TicksAlike DEF Apply
  <2>2. ASSUME wk' = [wk EXCEPT ![r].on = engine]
        PROVE  (Target(r))' = engine
    BY <1>0, <2>1, <2>2, TakesOn
  <2>3. ASSUME End(r), UNCHANGED answer \/ answer' = [answer EXCEPT ![r] = "none"],
               UNCHANGED <<active, sink, watcher>>
        PROVE  Thinks(r)
    BY <1>4, <1>6, <2>1, <2>3 DEF Thinks, Notes
  <2>4. CASE End(r) /\ UNCHANGED <<answer, active, sink, watcher>>
    BY <2>3, <2>4
  <2>5. CASE StartIfEnabled(engine, r, TRUE) /\ UNCHANGED active
    <3>1. CASE /\ StartContinuousCapture(engine, r) /\ Goto(r, "restarting")
               /\ wk' = [wk EXCEPT ![r].on = engine]
      <4>1. Send(engine, r, "start") /\ pc'[r] = "restarting" /\ Alone(r)
        BY <1>3, <1>7, <2>1, <3>1 DEF StartContinuousCapture, PCs
      <4>2. Sends(r, engine, "start")
        BY <2>1, <2>2, <2>5, <3>1, <4>1 DEF Sends, StartContinuousCapture, Asks
      <4> QED
        BY <2>1, <4>2
    <3> QED
      BY <2>3, <2>5, <3>1 DEF StartIfEnabled
  <2>6. CASE /\ StopCapture(engine, r) /\ wk' = [wk EXCEPT ![r].on = engine]
             /\ Goto(r, IF settings.visual THEN "restopping" ELSE "unstopping")
    <3>1. Send(engine, r, "stop") /\ pc'[r] \in {"restopping", "unstopping"} /\ Alone(r)
      BY <1>3, <1>7, <2>1, <2>6 DEF StopCapture, StopContinuousCapture, PCs
    <3>2. Sends(r, engine, "stop")
      BY <2>1, <2>2, <2>6, <3>1 DEF Sends, StopCapture, StopContinuousCapture, Asks
    <3> QED
      BY <2>1, <3>2
  <2> QED
    BY <1>15, <2>4, <2>5, <2>6 DEF Apply
<1>16. CASE Restopped(r)
  <2>1. /\ pc[r] = "restopping" /\ wk[r].on \in Engines /\ answer[r] # "waiting"
        /\ UNCHANGED <<engine, running, policy, active, remembers, child, listening, counters>>
        /\ Ticks
    BY <1>0, <1>1, <1>9, <1>16, TicksAlike DEF Restopped, Role, Adapting
  <2>2. CASE /\ StartContinuousCapture(wk[r].on, r) /\ Goto(r, "restarting")
             /\ wk' = [wk EXCEPT ![r].on = wk[r].on]
    <3>1. Send(wk[r].on, r, "start") /\ pc'[r] = "restarting" /\ Alone(r)
      BY <1>3, <1>7, <2>1, <2>2 DEF StartContinuousCapture, PCs
    <3>2. (Target(r))' = wk[r].on
      BY <1>0, <2>1, <2>2, TakesOn
    <3>3. Sends(r, wk[r].on, "start")
      BY <1>0, <2>1, <2>2, <3>1, <3>2 DEF Sends, StartContinuousCapture, Asks, Resting
    <3> QED
      BY <2>1, <3>3
  <2>3. CASE End(r) /\ answer' = [answer EXCEPT ![r] = "none"] /\ UNCHANGED <<sink, watcher>>
    BY <1>4, <1>6, <2>1, <2>3 DEF Thinks, Notes
  <2> QED
    BY <1>16, <2>2, <2>3 DEF Restopped, StartIfEnabled
<1> QED
  BY <1>10, <1>11, <1>12, <1>13, <1>14, <1>15, <1>16 DEF RequestStep

\* A step of a retune under way only thinks, or asks for the new start.
LEMMA RetuneDigest ==
  ASSUME Shape, Roles, Typed, Waits, NEW e \in Engines, RetuneStep(e)
  PROVE  Thinks(e) \/ (Sends(e, e, "start") /\ pc[e] = "retuneStop")
<1> USE DEF service, state, provider, watcher, actors, counters, bounds, Awaiting, Starting, Stopping
<1>0. e \in Actors /\ e \notin Requests /\ Target(e) = e /\ (Target(e))' = e /\ e # None
  BY DEF Actors, Target
<1>1. UNCHANGED wk /\ UNCHANGED counters /\ UNCHANGED policy /\ Answered(e) /\ Ticks
  BY TicksAlike DEF RetuneStep, RetuneStopped, RetuneStarted, Typed
<1>2. ASSUME NEW to \in PCs, Goto(e, to)
      PROVE  pc'[e] = to /\ \A b \in Actors : b # e => pc'[b] = pc[b]
  BY <1>0, <1>2 DEF Goto, Shape
<1>3. ASSUME NEW to \in PCs, Goto(e, to), answer' \in [Actors -> Answers],
             \A b \in Actors : b # e => answer'[b] = answer[b]
      PROVE  Alone(e)
  BY <1>1, <1>2, <1>3 DEF Alone, Target
<1>4. CASE RetuneStopped(e)
  <2>1. pc'[e] = "retuneStart" /\ Alone(e)
    BY <1>0, <1>2, <1>3, <1>4, SendAnswers DEF RetuneStopped, StartContinuousCapture, PCs
  <2> QED
    BY <1>0, <1>1, <1>4, <2>1
       DEF RetuneStopped, StartContinuousCapture, Sends, Asks, Resting, Answered
<1>5. CASE RetuneStarted(e)
  <2>1. pc'[e] = "idle" /\ Alone(e) /\ answer'[e] = "none"
    BY <1>0, <1>2, <1>3, <1>5 DEF RetuneStarted, PCs, Typed, Answers
  <2> QED
    BY <1>0, <1>1, <1>5, <2>1 DEF RetuneStarted, Thinks, Notes, Answered, Resting
<1> QED
  BY <1>4, <1>5 DEF RetuneStep

\* A new request has asked nothing yet.
LEMMA PatchDigest ==
  ASSUME Shape, Roles, Typed, Waits, NEW r \in Requests, NEW body \in Bodies, Patch(r, body)
  PROVE  Thinks(r)
<1> USE DEF service, state, provider, watcher, actors, counters, bounds, Awaiting, Starting, Stopping
<1>1. /\ Others(r) /\ pc[r] = "idle" /\ pc'[r] = "patched" /\ wk'[r].on = None /\ r \in Actors
      /\ UNCHANGED <<engine, running, alive, upsets>>
  BY PatchMoves DEF Actors
<1>2. /\ UNCHANGED <<answer, state, provider, watcher, upsets, retunes, restarts>>
      /\ patches' = patches + 1
  BY DEF Patch
<1>3. Alone(r) /\ Ticks
  BY <1>1, <1>2, OthersAlone DEF Ticks, Typed, Answers
<1>4. answer[r] # "waiting" /\ (Target(r))' = None
  BY <1>1 DEF Waits, Waiting, Target
<1> QED
  BY <1>1, <1>2, <1>3, <1>4 DEF Thinks, Notes

-----------------------------------------------------------------------------
(* The crew of every engine is invariant *)

\* What a command sent does to the pipe it is written to.
LEMMA CommandsTyped ==
  ASSUME Typed, NEW e \in Engines, NEW a \in Actors, NEW cmd \in {"start", "stop", "exit"},
         Send(e, a, cmd)
  PROVE  /\ commands' \in [Engines -> Seq(Commands)]
         /\ answer' \in [Actors -> Answers]
         /\ \A x \in Engines : x # e => commands'[x] = commands[x]
         /\ answer'[a] = IF child[e] = "none" THEN "failed" ELSE "waiting"
         /\ child[e] = "none" => commands' = commands
         /\ child[e] # "none" => commands'[e] = Append(commands[e], [cmd |-> cmd, by |-> a])
<1>1. [cmd |-> cmd, by |-> a] \in Commands
  BY DEF Commands
<1>2. Append(commands[e], [cmd |-> cmd, by |-> a]) \in Seq(Commands)
  BY <1>1, AppendedAt DEF Typed
<1> QED
  BY <1>2 DEF Send, Typed, Answers

\* Crew is kept by who only thinks,
LEMMA ThinkingCrew ==
  ASSUME Crew, Shape, NEW a \in Actors, Thinks(a)
  PROVE  Crew'
<1> USE DEF watcher
<1>1. Typed'
  <2>1. active' \in [Engines -> BOOLEAN] /\ listening' \in [Engines -> BOOLEAN]
    BY DEF Thinks, Notes, Crew, Typed
  <2>2. answer' \in [Actors -> Answers]
    BY DEF Thinks, Crew, Typed, Alone
  <2> QED
    BY <2>1, <2>2 DEF Thinks, Ticks, Crew, Typed
<1>2. Waits'
  <2> SUFFICES ASSUME NEW b \in Actors, Waiting(b)'
               PROVE  pc'[b] \in Awaiting /\ (Target(b))' \in Engines /\ child'[(Target(b))'] = "up"
    BY DEF Waits
  <2>1. b # a
    BY DEF Thinks, Waiting
  <2> QED
    BY <2>1 DEF Crew, Waits, Waiting, Thinks, Alone
<1>3. Launching'
  <2>1. ASSUME NEW r \in Requests, pc'[r] = "launching"
        PROVE  child'[(Target(r))'] = "launching"
    BY <2>1 DEF Thinks, Crew, Launching, Alone, Actors
  <2>2. ASSUME NEW x \in Engines, child'[x] = "launching"
        PROVE  Untouched(x)' /\ \E r \in Requests : LaunchedBy(r, x)'
    <3>1. PICK r \in Requests : LaunchedBy(r, x)
      BY <2>2 DEF Thinks, Crew, Launching
    <3>2. Untouched(x)
      BY <2>2 DEF Thinks, Crew, Launching
    <3>3. r # a /\ (Target(a) = x => Resting(a)) /\ r \in Actors /\ None # x
      BY <3>1 DEF LaunchedBy, Thinks, Actors
    <3>4. active'[x] = active[x] /\ listening'[x] = listening[x] /\ engine' # x
      BY <3>2, <3>3 DEF Thinks, Notes, Resting, Crew, Typed, Untouched
    <3>5. Untouched(x)'
      BY <3>2, <3>4 DEF Thinks, Untouched
    <3>6. pc'[r] = "launching" /\ (Target(r))' = x
      BY <3>1, <3>3 DEF LaunchedBy, Thinks, Alone
    <3>7. ASSUME NEW b \in Actors, (Target(b))' = x, ~Resting(b)'
          PROVE  b = r
      <4>1. CASE b = a
        BY <3>3, <3>7, <4>1 DEF Thinks
      <4>2. CASE b # a
        BY <3>1, <3>7, <4>2 DEF LaunchedBy, Thinks, Alone, Resting
      <4> QED
        BY <4>1, <4>2
    <3> QED
      BY <3>5, <3>6, <3>7 DEF LaunchedBy
  <2> QED
    BY <2>1, <2>2 DEF Launching
<1>4. Attends'
  <2> SUFFICES ASSUME NEW x \in Engines, active'[x]
               PROVE  listening'[x]
    BY DEF Attends
  <2>1. active[x] => listening[x]
    BY DEF Crew, Attends
  <2>2. CASE UNCHANGED <<active, listening>>
    BY <2>1, <2>2
  <2>3. CASE /\ active' = [active EXCEPT ![Target(a)] = @ \/ answer[a] = "ok"]
             /\ listening' = [listening EXCEPT ![Target(a)] = @ \/ answer[a] = "ok"]
    BY <2>1, <2>3 DEF Crew, Typed
  <2> QED
    BY <2>2, <2>3 DEF Thinks, Notes
<1>5. ASSUME NEW e \in Engines
      PROVE  Process(e)'
  BY DEF Crew, Process, Thinks, Ticks
<1> QED
  BY <1>1, <1>2, <1>3, <1>4, <1>5 DEF Crew

\* A command goes to an engine that is not being made.
LEMMA SendsToReady ==
  ASSUME Crew, NEW a \in Actors, NEW e \in Engines, NEW cmd, Sends(a, e, cmd)
  PROVE  child[e] # "launching"
<1> SUFFICES ASSUME child[e] = "launching" PROVE FALSE
  OBVIOUS
<1>1. PICK r \in Requests : LaunchedBy(r, e)
  BY DEF Crew, Launching
<1>2. engine # e
  BY DEF Crew, Launching, Untouched
<1> QED
  BY <1>1, <1>2 DEF Sends, LaunchedBy, Resting

\* by who sends a command,
LEMMA SendingCrew ==
  ASSUME Crew, Shape, NEW a \in Actors, NEW e \in Engines, NEW cmd \in {"start", "stop", "exit"},
         Sends(a, e, cmd)
  PROVE  Crew'
<1>0. child[e] # "launching" /\ child' = child
  BY SendsToReady DEF Sends
<1>s. /\ commands' \in [Engines -> Seq(Commands)]
      /\ answer' \in [Actors -> Answers]
      /\ \A x \in Engines : x # e => commands'[x] = commands[x]
      /\ answer'[a] = IF child[e] = "none" THEN "failed" ELSE "waiting"
      /\ child[e] = "none" => commands' = commands
      /\ UNCHANGED <<alive, thread, lines>>
  BY CommandsTyped DEF Crew, Sends, Send
<1>1. Typed'
  <2>1. active' \in [Engines -> BOOLEAN] /\ sink' \in [Engines -> BOOLEAN]
    BY DEF Sends, Crew, Typed
  <2> QED
    BY <1>s, <2>1 DEF Sends, Ticks, Crew, Typed
<1>2. Waits'
  <2> SUFFICES ASSUME NEW b \in Actors, Waiting(b)'
               PROVE  pc'[b] \in Awaiting /\ (Target(b))' \in Engines /\ child'[(Target(b))'] = "up"
    BY DEF Waits
  <2>1. CASE b # a
    BY <1>0, <2>1 DEF Crew, Waits, Waiting, Sends, Alone
  <2>2. CASE b = a
    <3>1. child[e] = "up"
      BY <1>0, <1>s, <2>2 DEF Waiting, Crew, Typed, Answers
    <3> QED
      BY <1>0, <2>2, <3>1 DEF Sends, Asks, Awaiting
  <2> QED
    BY <2>1, <2>2
<1>3. Launching'
  <2>1. ASSUME NEW r \in Requests, pc'[r] = "launching"
        PROVE  child'[(Target(r))'] = "launching"
    <3>1. r # a
      BY <2>1 DEF Sends, Asks, Starting, Stopping
    <3> QED
      BY <1>0, <2>1, <3>1 DEF Sends, Crew, Launching, Alone, Actors
  <2>2. ASSUME NEW x \in Engines, child'[x] = "launching"
        PROVE  Untouched(x)' /\ \E r \in Requests : LaunchedBy(r, x)'
    <3>1. PICK r \in Requests : LaunchedBy(r, x)
      BY <1>0, <2>2 DEF Crew, Launching
    <3>2. Untouched(x) /\ x # e
      BY <1>0, <2>2 DEF Crew, Launching
    <3>3. r # a /\ r \in Actors
      BY <3>1 DEF LaunchedBy, Sends, Actors
    <3>4. active'[x] = active[x] /\ sink'[x] = sink[x] /\ commands'[x] = commands[x]
      BY <1>s, <3>2 DEF Sends, Crew, Typed
    <3>5. Untouched(x)'
      BY <1>s, <3>2, <3>4 DEF Sends, Untouched
    <3>6. pc'[r] = "launching" /\ (Target(r))' = x
      BY <3>1, <3>3 DEF LaunchedBy, Sends, Alone
    <3>7. ASSUME NEW b \in Actors, (Target(b))' = x, ~Resting(b)'
          PROVE  b = r
      BY <3>1, <3>2, <3>7 DEF LaunchedBy, Sends, Alone, Resting
    <3> QED
      BY <3>5, <3>6, <3>7 DEF LaunchedBy
  <2> QED
    BY <2>1, <2>2 DEF Launching
<1>4. Attends'
  <2>1. listening' = listening
    BY DEF Sends
  <2>2. \A x \in Engines : active'[x] => active[x]
    BY DEF Crew, Sends, Typed
  <2> QED
    BY <2>1, <2>2 DEF Crew, Attends
<1>5. ASSUME NEW x \in Engines
      PROVE  Process(x)'
  <2>1. ~alive[x] => commands'[x] = <<>>
    BY <1>s DEF Crew, Process
  <2> QED
    BY <1>s, <1>0, <2>1 DEF Crew, Process, Sends, Ticks
<1> QED
  BY <1>1, <1>2, <1>3, <1>4, <1>5 DEF Crew

\* A step that touches only engine e, which is not being made, and leaves everybody
\* but a where he is; a does not get to work on another engine.
Touches(e, a) ==
  /\ child[e] # "launching" /\ child'[e] # "launching"
  /\ \A x \in Engines : x # e =>
       /\ child'[x] = child[x] /\ alive'[x] = alive[x] /\ running'[x] = running[x]
       /\ active'[x] = active[x] /\ listening'[x] = listening[x] /\ sink'[x] = sink[x]
       /\ remembers'[x] = remembers[x] /\ thread'[x] = thread[x]
       /\ commands'[x] = commands[x] /\ lines'[x] = lines[x]
  /\ engine' \in {engine, None}
  /\ "exit" \in upsets => "exit" \in upsets'
  /\ \A b \in Actors : b # a => pc'[b] = pc[b] /\ Target(b)' = Target(b)
  /\ pc[a] # "launching" /\ pc'[a] # "launching" /\ Target(a)' \in {e, None}

\* and by a step on one engine that leaves nobody waiting for nothing.
LEMMA TouchingCrew ==
  ASSUME Crew, Roles, NEW e \in Engines, NEW a \in Actors, Touches(e, a),
         Typed', Process(e)', active'[e] => listening'[e],
         \A b \in Actors : Waiting(b)' =>
           pc'[b] \in Awaiting /\ (Waiting(b) \/ Target(b) = e) /\ Target(b)' = Target(b)
             /\ (Target(b) = e => child'[e] = "up")
  PROVE  Crew'
<1>1. Waits'
  <2> SUFFICES ASSUME NEW b \in Actors, Waiting(b)'
               PROVE  pc'[b] \in Awaiting /\ (Target(b))' \in Engines /\ child'[(Target(b))'] = "up"
    BY DEF Waits
  <2>1. pc'[b] \in Awaiting /\ (Waiting(b) \/ Target(b) = e) /\ Target(b)' = Target(b)
        /\ (Target(b) = e => child'[e] = "up")
    OBVIOUS
  <2>2. CASE Target(b) = e
    BY <2>1, <2>2
  <2>3. CASE Target(b) # e
    BY <2>1, <2>3 DEF Crew, Waits, Touches
  <2> QED
    BY <2>2, <2>3
<1>2. Launching'
  <2>1. ASSUME NEW r \in Requests, pc'[r] = "launching"
        PROVE  child'[(Target(r))'] = "launching"
    <3>1. r # a /\ r \in Actors
      BY <2>1 DEF Touches, Actors
    <3>2. pc[r] = "launching" /\ (Target(r))' = Target(r)
      BY <2>1, <3>1 DEF Touches
    <3>3. child[Target(r)] = "launching"
      BY <3>2 DEF Crew, Launching
    <3>4. Target(r) \in Engines
      BY <3>2 DEF Roles, Role, Target, Making
    <3> QED
      BY <3>2, <3>3, <3>4 DEF Touches
  <2>2. ASSUME NEW x \in Engines, child'[x] = "launching"
        PROVE  Untouched(x)' /\ \E r \in Requests : LaunchedBy(r, x)'
    <3>1. x # e /\ child[x] = "launching" /\ x # None
      BY <2>2 DEF Touches
    <3>2. PICK r \in Requests : LaunchedBy(r, x)
      BY <3>1 DEF Crew, Launching
    <3>3. Untouched(x)'
      BY <3>1 DEF Crew, Launching, Untouched, Touches
    <3>4. r # a /\ r \in Actors
      BY <3>2 DEF Touches, LaunchedBy, Actors
    <3>5. pc'[r] = "launching" /\ (Target(r))' = x
      BY <3>2, <3>4 DEF LaunchedBy, Touches
    <3>6. ASSUME NEW b \in Actors, (Target(b))' = x, ~Resting(b)'
          PROVE  b = r
      BY <3>1, <3>2, <3>6 DEF LaunchedBy, Touches, Resting
    <3> QED
      BY <3>3, <3>5, <3>6 DEF LaunchedBy
  <2> QED
    BY <2>1, <2>2 DEF Launching
<1>3. Attends'
  BY DEF Attends, Crew, Touches
<1>4. ASSUME NEW x \in Engines
      PROVE  Process(x)'
  <2>1. CASE x = e
    BY <2>1
  <2>2. CASE x # e
    BY <2>2 DEF Crew, Process, Touches
  <2> QED
    BY <2>1, <2>2
<1> QED
  BY <1>1, <1>2, <1>3, <1>4 DEF Crew

\* What is left of a process that is killed.
LEMMA KillTyped ==
  ASSUME Crew, Shape, NEW e \in Engines, Kill(e)
  PROVE  /\ thread' \in [Engines -> BOOLEAN] /\ child' \in [Engines -> {"none", "launching", "up"}]
         /\ commands' \in [Engines -> Seq(Commands)] /\ lines' \in [Engines -> Seq(Lines)]
         /\ alive'[e] <=> FALSE
         /\ ~thread'[e] /\ commands'[e] = <<>> /\ child'[e] = "none"
         /\ \A x \in Engines : x # e =>
              /\ alive'[x] = alive[x] /\ thread'[x] = thread[x] /\ commands'[x] = commands[x]
              /\ child'[x] = child[x] /\ lines'[x] = lines[x]
         /\ \A i \in DOMAIN lines'[e] :
              /\ \E j \in DOMAIN lines[e] : lines'[e][i] = lines[e][j]
              /\ ~(lines'[e][i].line = "response" /\ lines'[e][i].by \in Actors)
<1> DEFINE left == WithoutAnswers(lines[e], Actors)
<1>1. lines[e] \in Seq(Lines)
  BY DEF Crew, Typed
<1>2. /\ left \in Seq(Lines)
      /\ \A i \in DOMAIN left : \E j \in DOMAIN lines[e] :
           /\ left[i] = lines[e][j]
           /\ ~(lines[e][j].line = "response" /\ lines[e][j].by \in Actors)
  BY <1>1, KeptLines
<1>3. /\ alive' = [alive EXCEPT ![e] = FALSE] /\ thread' = [thread EXCEPT ![e] = FALSE]
      /\ commands' = [commands EXCEPT ![e] = <<>>] /\ child' = [child EXCEPT ![e] = "none"]
      /\ lines' = [lines EXCEPT ![e] = left]
  BY DEF Kill
<1> HIDE DEF left
<1>4. lines'[e] = left /\ lines' \in [Engines -> Seq(Lines)]
  BY <1>2, <1>3 DEF Crew, Typed
<1>5. \A i \in DOMAIN lines'[e] :
        /\ \E j \in DOMAIN lines[e] : lines'[e][i] = lines[e][j]
        /\ ~(lines'[e][i].line = "response" /\ lines'[e][i].by \in Actors)
  BY <1>2, <1>4
<1>6. <<>> \in Seq(Commands)
  OBVIOUS
<1> QED
  BY <1>3, <1>4, <1>5, <1>6 DEF Crew, Typed, Shape

\* Crew is kept by launches and by exits that are over,
LEMMA RequestCrew ==
  ASSUME Crew, Shape, Roles, NEW r \in Requests,
         Launch(r) \/ LaunchFails(r) \/ LaunchReady(r) \/ Exited(r)
  PROVE  Crew'
<1> USE DEF service, state, provider, watcher, actors, counters, bounds
<1>0. /\ RequestStep(r) /\ Role(r) /\ Others(r) /\ Target(r) = wk[r].on
      /\ (Target(r))' = wk'[r].on /\ r \in Actors /\ NoWork.on = None /\ None \notin Engines
  BY RequestKinds, ShapeByKind, NoWorkIsWork DEF RequestStep, Roles, Target, Actors
<1>1. \A b \in Actors : b # r => pc'[b] = pc[b] /\ (Target(b))' = Target(b)
  <2> SUFFICES ASSUME NEW b \in Actors, b # r
               PROVE  pc'[b] = pc[b] /\ (Target(b))' = Target(b)
    OBVIOUS
  <2>1. b \in Requests => wk'[b] = wk[b]
    BY <1>0 DEF Others
  <2> QED
    BY <1>0, <2>1 DEF Others, Target
<1>2. Typed /\ Waits /\ Launching /\ Attends /\ \A x \in Engines : Process(x)
  BY DEF Crew
<1>3. CASE Launch(r)
  <2>1. PICK e \in Engines :
          /\ Free(e) /\ wk' = [wk EXCEPT ![r].on = e] /\ Goto(r, "launching")
          /\ child' = [child EXCEPT ![e] = "launching"] /\ alive' = [alive EXCEPT ![e] = TRUE]
          /\ policy' = [policy EXCEPT ![e] = settings.visual]
          /\ running' = [running EXCEPT ![e] = FALSE] /\ active' = [active EXCEPT ![e] = FALSE]
          /\ sink' = [sink EXCEPT ![e] = FALSE] /\ listening' = [listening EXCEPT ![e] = FALSE]
          /\ remembers' = [remembers EXCEPT ![e] = FALSE]
    <3> DEFINE e == CHOOSE x \in Engines : Free(x)
    <3>1. e \in Engines /\ Free(e)
      BY <1>3 DEF Launch
    <3> QED
      BY <1>3, <3>1 DEF Launch
  <2>2. /\ pc[r] = "patched" /\ UNCHANGED <<answer, service, thread, commands, lines, counters>>
        /\ settings.visual \in BOOLEAN
    BY <1>3, SettingsFields DEF Launch
  <2>3. pc'[r] = "launching" /\ (Target(r))' = e
    BY <1>0, <2>1, GotoMoves, TakesOn DEF PCs
  <2>4. /\ e # engine /\ ~alive[e] /\ lines[e] = <<>> /\ child[e] = "none"
        /\ \A a \in Actors : Target(a) = e => Resting(a)
    BY <1>2, <2>1 DEF Free, Process
  <2>5. Typed'
    BY <1>2, <2>1, <2>2 DEF Typed
  <2>6. Waits'
    <3> SUFFICES ASSUME NEW b \in Actors, Waiting(b)'
                 PROVE  pc'[b] \in Awaiting /\ (Target(b))' \in Engines /\ child'[(Target(b))'] = "up"
      BY DEF Waits
    <3>1. Waiting(b) /\ pc[b] \in Awaiting /\ Target(b) \in Engines /\ child[Target(b)] = "up"
      BY <1>2, <2>2 DEF Waiting, Waits
    <3>2. b # r
      BY <2>2, <3>1 DEF Awaiting, Starting, Stopping
    <3>3. Target(b) # e
      BY <2>4, <3>1
    <3> QED
      BY <1>1, <1>2, <2>1, <3>1, <3>2, <3>3 DEF Typed
  <2>7. Launching'
    <3>1. ASSUME NEW q \in Requests, pc'[q] = "launching"
          PROVE  child'[(Target(q))'] = "launching"
      <4>1. CASE q = r
        BY <1>2, <2>1, <2>3, <4>1 DEF Typed
      <4>2. CASE q # r
        <5>1. pc[q] = "launching" /\ (Target(q))' = Target(q) /\ q \in Actors
          BY <1>1, <3>1, <4>2 DEF Actors
        <5>2. child[Target(q)] = "launching"
          BY <1>2, <5>1 DEF Launching
        <5>3. Target(q) \in Engines
          BY <5>1 DEF Roles, Role, Target, Making
        <5> QED
          BY <1>2, <2>1, <5>1, <5>2, <5>3 DEF Typed
      <4> QED
        BY <4>1, <4>2
    <3>2. ASSUME NEW x \in Engines, child'[x] = "launching", x # e
          PROVE  Untouched(x)' /\ \E q \in Requests : LaunchedBy(q, x)'
      <4>1. child[x] = "launching" /\ Untouched(x)
        BY <1>2, <2>1, <3>2 DEF Typed, Launching
      <4>2. PICK q \in Requests : LaunchedBy(q, x)
        BY <1>2, <4>1 DEF Launching
      <4>3. Untouched(x)'
        BY <1>2, <2>1, <2>2, <3>2, <4>1 DEF Untouched, Typed, Shape
      <4>4. q # r /\ q \in Actors
        BY <2>2, <4>2 DEF LaunchedBy, Actors
      <4>5. pc'[q] = "launching" /\ (Target(q))' = x
        BY <1>1, <4>2, <4>4 DEF LaunchedBy
      <4>6. ASSUME NEW b \in Actors, (Target(b))' = x, ~Resting(b)'
            PROVE  b = q
        BY <1>1, <2>3, <3>2, <4>2, <4>6 DEF LaunchedBy, Resting
      <4> QED
        BY <4>3, <4>5, <4>6 DEF LaunchedBy
    <3>3. Untouched(e)' /\ LaunchedBy(r, e)'
      <4>1. ~thread[e] /\ commands[e] = <<>>
        BY <1>2, <2>4 DEF Process
      <4>2. Untouched(e)'
        BY <1>2, <2>1, <2>2, <2>4, <4>1 DEF Untouched, Typed, Shape
      <4>3. ASSUME NEW b \in Actors, (Target(b))' = e, ~Resting(b)'
            PROVE  b = r
        BY <1>1, <2>4, <4>3 DEF Resting
      <4> QED
        BY <2>3, <4>2, <4>3 DEF LaunchedBy
    <3> QED
      BY <3>1, <3>2, <3>3 DEF Launching
  <2>8. Attends'
    BY <1>2, <2>1 DEF Attends, Typed
  <2>9. ASSUME NEW x \in Engines
        PROVE  Process(x)'
    BY <1>2, <2>1, <2>2 DEF Process, Typed, Shape
  <2> QED
    BY <2>5, <2>6, <2>7, <2>8, <2>9 DEF Crew
<1> DEFINE e == wk[r].on
<1>4. ASSUME pc[r] \in {"launching", "exiting"}
      PROVE  /\ e \in Engines
             /\ pc[r] = "launching" =>
                  /\ child[e] = "launching" /\ Untouched(e)
                  /\ \A b \in Actors : Target(b) = e /\ ~Resting(b) => b = r
             /\ pc[r] = "exiting" => child[e] # "launching"
  <2>1. e \in Engines
    BY <1>0, <1>4 DEF Role, Making, Ending
  <2>2. ASSUME child[e] = "launching"
        PROVE  /\ Untouched(e) /\ pc[r] = "launching"
               /\ \A b \in Actors : Target(b) = e /\ ~Resting(b) => b = r
    <3>1. PICK q \in Requests : LaunchedBy(q, e)
      BY <1>2, <2>1, <2>2 DEF Launching
    <3>2. q = r
      BY <1>0, <1>4, <3>1 DEF LaunchedBy, Resting
    <3> QED
      BY <1>2, <2>1, <2>2, <3>1, <3>2 DEF Launching, LaunchedBy
  <2>3. pc[r] = "launching" => child[e] = "launching"
    BY <1>0, <1>2 DEF Launching
  <2> QED
    BY <2>1, <2>2, <2>3
<1>8. ASSUME pc[r] = "launching", pc'[r] # "launching", (Target(r))' \in {e, None},
             child' \in [Engines -> {"none", "launching", "up"}], child'[e] # "launching",
             UNCHANGED <<answer, engine, active, sink, listening, remembers>>,
             \A x \in Engines : x # e =>
               /\ child'[x] = child[x] /\ running'[x] = running[x] /\ thread'[x] = thread[x]
               /\ commands'[x] = commands[x] /\ lines'[x] = lines[x]
      PROVE  Waits' /\ Launching'
  <2>1. /\ e \in Engines /\ child[e] = "launching"
        /\ \A b \in Actors : Target(b) = e /\ ~Resting(b) => b = r
    BY <1>4, <1>8
  <2>2. Waits'
    <3> SUFFICES ASSUME NEW b \in Actors, Waiting(b)'
                 PROVE  pc'[b] \in Awaiting /\ (Target(b))' \in Engines /\ child'[(Target(b))'] = "up"
      BY DEF Waits
    <3>1. Waiting(b) /\ pc[b] \in Awaiting /\ Target(b) \in Engines /\ child[Target(b)] = "up"
      BY <1>2, <1>8 DEF Waiting, Waits
    <3>2. b # r
      BY <1>8, <3>1 DEF Awaiting, Starting, Stopping
    <3>3. Target(b) # e
      BY <2>1, <3>1
    <3> QED
      BY <1>1, <1>8, <3>1, <3>2, <3>3
  <2>3. ASSUME NEW q \in Requests, pc'[q] = "launching"
        PROVE  child'[(Target(q))'] = "launching"
    <3>1. q # r /\ pc[q] = "launching" /\ (Target(q))' = Target(q) /\ q \in Actors
      BY <1>1, <1>8, <2>3 DEF Actors
    <3>2. child[Target(q)] = "launching" /\ Target(q) \in Engines
      BY <1>2, <3>1 DEF Launching, Roles, Role, Target, Making
    <3>3. Target(q) # e
      BY <2>1, <3>1 DEF Resting
    <3> QED
      BY <1>8, <3>1, <3>2, <3>3
  <2>4. ASSUME NEW x \in Engines, child'[x] = "launching"
        PROVE  Untouched(x)' /\ \E q \in Requests : LaunchedBy(q, x)'
    <3>1. x # e /\ child[x] = "launching" /\ x # None
      BY <1>0, <1>8, <2>4
    <3>2. PICK q \in Requests : LaunchedBy(q, x)
      BY <1>2, <3>1 DEF Launching
    <3>3. Untouched(x)'
      BY <1>2, <1>8, <3>1 DEF Launching, Untouched
    <3>4. q # r /\ q \in Actors
      BY <1>0, <3>1, <3>2 DEF LaunchedBy, Actors
    <3>5. pc'[q] = "launching" /\ (Target(q))' = x
      BY <1>1, <3>2, <3>4 DEF LaunchedBy
    <3>6. ASSUME NEW b \in Actors, (Target(b))' = x, ~Resting(b)'
          PROVE  b = q
      BY <1>1, <1>8, <3>1, <3>2, <3>6 DEF LaunchedBy, Resting
    <3> QED
      BY <3>3, <3>5, <3>6 DEF LaunchedBy
  <2> QED
    BY <2>2, <2>3, <2>4 DEF Launching
<1>5. CASE LaunchFails(r)
  <2>1. /\ pc[r] = "launching" /\ Kill(e) /\ End(r)
        /\ upsets' = upsets \/ upsets' = upsets \union {"unrestored"}
        /\ UNCHANGED <<answer, engine, running, policy, active, remembers, sink, listening,
                      patches, retunes, restarts>>
    BY <1>5 DEF LaunchFails, GiveUp
  <2>2. e \in Engines /\ child[e] = "launching" /\ Untouched(e)
    BY <1>4, <2>1
  <2>3. pc'[r] = "idle" /\ (Target(r))' = None
    BY <1>0, <2>1, EndMoves
  <2>4. /\ thread' \in [Engines -> BOOLEAN] /\ child' \in [Engines -> {"none", "launching", "up"}]
        /\ commands' \in [Engines -> Seq(Commands)] /\ lines' \in [Engines -> Seq(Lines)]
        /\ ~alive'[e] /\ ~thread'[e] /\ commands'[e] = <<>> /\ child'[e] = "none"
        /\ \A x \in Engines : x # e =>
             /\ alive'[x] = alive[x] /\ thread'[x] = thread[x] /\ commands'[x] = commands[x]
             /\ child'[x] = child[x] /\ lines'[x] = lines[x]
    BY <2>1, <2>2, KillTyped
  <2>5. Typed'
    BY <1>2, <2>1, <2>4 DEF Typed, Upsets
  <2>6. Waits' /\ Launching'
    BY <1>8, <2>1, <2>3, <2>4
  <2>7. Attends'
    BY <1>2, <2>1 DEF Attends
  <2>8. ASSUME NEW x \in Engines
        PROVE  Process(x)'
    <3>1. CASE x = e
      BY <2>1, <2>2, <2>4, <3>1 DEF Process, Untouched
    <3>2. CASE x # e
      <4>1. "exit" \in upsets' <=> "exit" \in upsets
        BY <2>1
      <4>2. Process(x)
        BY <1>2
      <4>3. running'[x] = running[x]
        BY <2>1
      <4> QED
        BY <2>4, <3>2, <4>1, <4>2, <4>3 DEF Process
    <3> QED
      BY <3>1, <3>2
  <2> QED
    BY <2>5, <2>6, <2>7, <2>8 DEF Crew
<1>6. CASE LaunchReady(r)
  <2>1. /\ pc[r] = "launching" /\ Goto(r, "snapshot") /\ alive[e]
        /\ child' = [child EXCEPT ![e] = "up"] /\ running' = [running EXCEPT ![e] = TRUE]
        /\ UNCHANGED <<wk, answer, engine, policy, active, remembers, sink, listening, watcher, counters>>
    BY <1>6 DEF LaunchReady
  <2>2. e \in Engines
    BY <1>4, <2>1
  <2>3. pc'[r] = "snapshot" /\ (Target(r))' = e
    BY <1>0, <2>1, GotoMoves DEF PCs
  <2>4. Typed'
    BY <1>2, <2>1 DEF Typed
  <2>5. Waits' /\ Launching'
    <3>1. child' \in [Engines -> {"none", "launching", "up"}] /\ child'[e] # "launching"
      BY <1>2, <2>1, <2>2 DEF Typed
    <3>2. \A x \in Engines : x # e =>
            /\ child'[x] = child[x] /\ running'[x] = running[x] /\ thread'[x] = thread[x]
            /\ commands'[x] = commands[x] /\ lines'[x] = lines[x]
      BY <2>1
    <3> QED
      BY <1>8, <2>1, <2>3, <3>1, <3>2
  <2>6. Attends'
    BY <1>2, <2>1 DEF Attends
  <2>7. ASSUME NEW x \in Engines
        PROVE  Process(x)'
    <3>1. CASE x = e
      BY <1>2, <2>1, <2>2, <3>1 DEF Process, Typed, Shape
    <3>2. CASE x # e
      BY <1>2, <2>1, <3>2 DEF Process
    <3> QED
      BY <3>1, <3>2
  <2> QED
    BY <2>4, <2>5, <2>6, <2>7 DEF Crew
<1>7. CASE Exited(r)
  <2>1. /\ pc[r] = "exiting" /\ Kill(e) /\ Goto(r, "applying") /\ engine' = None /\ wk' = wk
        /\ sink' = [sink EXCEPT ![e] = @ /\ child[e] = "none"]
        /\ answer' = [a \in Actors |->
             IF a = r THEN "none"
             ELSE IF Target(a) = e /\ answer[a] = "waiting" THEN "failed" ELSE answer[a]]
        /\ running' = [running EXCEPT ![e] = FALSE]
        /\ remembers' = [remembers EXCEPT ![e] = FALSE]
        /\ UNCHANGED <<policy, active, listening, upsets, patches, retunes, restarts>>
    BY <1>7 DEF Exited
  <2>2. PICK k \in Engines : k = e /\ child[k] # "launching"
    BY <1>4, <2>1
  <2> HIDE DEF e
  <2>3. pc'[r] = "applying" /\ (Target(r))' = k
    BY <1>0, <2>1, <2>2, GotoMoves DEF PCs, e
  <2>4. /\ thread' \in [Engines -> BOOLEAN] /\ child' \in [Engines -> {"none", "launching", "up"}]
        /\ commands' \in [Engines -> Seq(Commands)] /\ lines' \in [Engines -> Seq(Lines)]
        /\ ~alive'[k] /\ ~thread'[k] /\ commands'[k] = <<>> /\ child'[k] = "none"
        /\ \A x \in Engines : x # k =>
             /\ alive'[x] = alive[x] /\ thread'[x] = thread[x] /\ commands'[x] = commands[x]
             /\ child'[x] = child[x] /\ lines'[x] = lines[x]
    BY <2>1, <2>2, KillTyped
  <2>5. Typed'
    <3>1. answer' \in [Actors -> Answers]
      BY <1>2, <2>1 DEF Typed, Answers
    <3>2. /\ sink' \in [Engines -> BOOLEAN] /\ remembers' \in [Engines -> BOOLEAN]
      BY <1>2, <2>1 DEF Typed
    <3> QED
      BY <1>2, <2>1, <2>4, <3>1, <3>2 DEF Typed
  <2>6. Touches(k, r)
    <3>1. \A x \in Engines : x # k =>
            running'[x] = running[x] /\ remembers'[x] = remembers[x] /\ sink'[x] = sink[x]
      BY <2>1, <2>2
    <3> QED
      BY <1>1, <2>1, <2>2, <2>3, <2>4, <3>1 DEF Touches
  <2>7. Process(k)'
    BY <2>1, <2>2, <2>4 DEF Process, Shape
  <2>8. ASSUME NEW b \in Actors, Waiting(b)'
        PROVE  pc'[b] \in Awaiting /\ (Waiting(b) \/ Target(b) = k) /\ Target(b)' = Target(b)
                 /\ (Target(b) = k => child'[k] = "up")
    <3>1. b # r /\ Waiting(b) /\ Target(b) # k
      BY <2>1, <2>2, <2>8 DEF Waiting
    <3> QED
      BY <1>1, <1>2, <3>1 DEF Waits
  <2>9. active'[k] => listening'[k]
    BY <1>2, <2>1, <2>2 DEF Attends
  <2> QED
    BY <1>0, <2>2, <2>5, <2>6, <2>7, <2>8, <2>9, TouchingCrew
<1> QED
  BY <1>3, <1>5, <1>6, <1>7

\* The lines a watcher writes.
LEMMA Spoken ==
  ASSUME NEW s \in {"capturing", "failed", "stopped", "frame"}, NEW c \in Commands, NEW ok \in BOOLEAN
  PROVE  /\ Line(s) \in Lines /\ Line(s).line = s /\ <<Line(s)>> \in Seq(Lines)
         /\ Response(c, ok) \in Seq(Lines)
         /\ c.by # None => /\ Response(c, ok) = <<[line |-> "response", by |-> c.by, ok |-> ok]>>
                           /\ [line |-> "response", by |-> c.by, ok |-> ok] \in Lines
<1>1. Line(s) \in Lines /\ Line(s).line = s
  BY DEF Line, Lines
<1>2. c.by # None => [line |-> "response", by |-> c.by, ok |-> ok] \in Lines
  BY DEF Commands, Lines
<1> QED
  BY <1>1, <1>2 DEF Response

\* Say puts its lines at the end of the pipe of one engine.
LEMMA SaidTyped ==
  ASSUME Typed, NEW e \in Engines, NEW what \in Seq(Lines), Say(e, what)
  PROVE  /\ lines' \in [Engines -> Seq(Lines)] /\ lines'[e] = lines[e] \o what
         /\ \A x \in Engines : x # e => lines'[x] = lines[x]
<1>1. lines[e] \o what \in Seq(Lines)
  BY JoinedAt DEF Typed
<1> QED
  BY <1>1 DEF Say, Typed

\* What the watcher of e says and does concerns e alone, and nobody's waiting.
LEMMA WatcherCrew ==
  ASSUME Crew, Shape, Roles, NEW e \in Engines,
         WatcherStarts(e) \/ WatcherStops(e) \/ CaptureFails(e) \/ Frame(e)
  PROVE  /\ Crew' /\ alive[e]
         /\ UNCHANGED <<pc, wk, answer, service, state, child, sink, listening, alive, bounds>>
         /\ \A x \in Engines : x # e =>
              thread'[x] = thread[x] /\ commands'[x] = commands[x] /\ lines'[x] = lines[x]
         /\ upsets \subseteq upsets'
<1> USE DEF service, state, provider, watcher, actors, counters, bounds
<1> DEFINE c == Head(commands[e])
<1>0. /\ e \in Actors /\ Target(e) = e /\ (Target(e))' = e /\ pc[e] # "launching"
      /\ Typed /\ Waits /\ Launching /\ Attends /\ \A x \in Engines : Process(x)
      /\ "start" # "exit"
  BY DEF Actors, Target, Roles, Crew
<1>1. /\ UNCHANGED <<pc, wk, answer, service, state, child, sink, listening, alive, bounds>>
      /\ alive[e] /\ upsets \subseteq upsets' /\ upsets' \subseteq upsets \union {"lastWord", "failure"}
  <2>1. thread[e] => alive[e]
    BY <1>0 DEF Process
  <2> QED
    BY <2>1 DEF WatcherStarts, WatcherStops, CaptureFails, Frame
<1>2. commands[e] # <<>> => c \in Commands /\ Tail(commands[e]) \in Seq(Commands)
  BY <1>0, TailAt DEF Typed
<1>3. thread[e] \/ commands[e] # <<>>
  BY DEF WatcherStarts, WatcherStops, CaptureFails, Frame
<1>4. \E what \in Seq(Lines) : Say(e, what)
  <2>1. CASE WatcherStarts(e)
    <3>1. c \in Commands
      BY <1>2, <2>1 DEF WatcherStarts
    <3> HIDE DEF c
    <3>2. /\ Response(c, TRUE) \in Seq(Lines) /\ Response(c, FALSE) \in Seq(Lines)
          /\ <<Line("capturing")>> \in Seq(Lines) /\ <<Line("stopped")>> \in Seq(Lines)
      BY <3>1, Spoken
    <3>3. /\ <<Line("capturing")>> \o Response(c, TRUE) \in Seq(Lines)
          /\ Response(c, TRUE) \o <<Line("capturing")>> \in Seq(Lines)
          /\ <<Line("stopped")>> \o Response(c, FALSE) \in Seq(Lines)
          /\ Response(c, FALSE) \o <<Line("stopped")>> \in Seq(Lines)
      BY <3>2, JoinedAt
    <3> QED
      BY <2>1, <3>2, <3>3 DEF WatcherStarts, c
  <2>2. CASE WatcherStops(e)
    <3>1. c \in Commands
      BY <1>2, <2>2 DEF WatcherStops
    <3> HIDE DEF c
    <3>2. Response(c, TRUE) \in Seq(Lines) /\ <<Line("stopped")>> \in Seq(Lines)
      BY <3>1, Spoken
    <3>4. <<>> \in Seq(Lines)
      OBVIOUS
    <3>3. (IF thread[e] THEN <<Line("stopped")>> ELSE <<>>) \o Response(c, TRUE) \in Seq(Lines)
      BY <3>2, <3>4, JoinedAt
    <3> QED
      BY <2>2, <3>3 DEF WatcherStops, c
  <2>3. CASE CaptureFails(e) \/ Frame(e)
    <3>1. <<Line("failed")>> \in Seq(Lines) /\ <<Line("frame")>> \in Seq(Lines)
      BY DEF Line, Lines
    <3> QED
      BY <2>3, <3>1 DEF CaptureFails, Frame
  <2> QED
    BY <2>1, <2>2, <2>3
<1>5. /\ lines' \in [Engines -> Seq(Lines)] /\ \A x \in Engines : x # e => lines'[x] = lines[x]
  BY <1>0, <1>4, SaidTyped
<1>6. /\ commands' = commands \/ (commands[e] # <<>> /\ commands' = [commands EXCEPT ![e] = Tail(@)])
      /\ thread' = thread \/ \E b \in BOOLEAN : thread' = [thread EXCEPT ![e] = b]
  BY DEF WatcherStarts, WatcherStops, CaptureFails, Frame
<1>7. /\ commands' \in [Engines -> Seq(Commands)] /\ thread' \in [Engines -> BOOLEAN]
      /\ \A x \in Engines : x # e => thread'[x] = thread[x] /\ commands'[x] = commands[x]
  <2> HIDE DEF c
  <2>1. /\ commands' \in [Engines -> Seq(Commands)]
        /\ \A x \in Engines : x # e => commands'[x] = commands[x]
    <3>1. commands \in [Engines -> Seq(Commands)]
      BY <1>0 DEF Typed
    <3>2. CASE commands' = commands
      BY <3>1, <3>2
    <3>3. CASE commands[e] # <<>> /\ commands' = [commands EXCEPT ![e] = Tail(@)]
      BY <1>2, <3>1, <3>3
    <3> QED
      BY <1>6, <3>2, <3>3
  <2>2. /\ thread' \in [Engines -> BOOLEAN]
        /\ \A x \in Engines : x # e => thread'[x] = thread[x]
    <3>1. thread \in [Engines -> BOOLEAN]
      BY <1>0 DEF Typed
    <3>2. CASE thread' = thread
      BY <3>1, <3>2
    <3>3. ASSUME NEW b \in BOOLEAN, thread' = [thread EXCEPT ![e] = b]
          PROVE  /\ thread' \in [Engines -> BOOLEAN]
                 /\ \A x \in Engines : x # e => thread'[x] = thread[x]
      BY <3>1, <3>3
    <3> QED
      BY <1>6, <3>2, <3>3
  <2> QED
    BY <2>1, <2>2
<1>8. child[e] # "launching"
  BY <1>0, <1>3 DEF Launching, Untouched
<1>9. Typed'
  BY <1>0, <1>1, <1>5, <1>7 DEF Typed, Upsets
<1>10. Touches(e, e)
  BY <1>0, <1>1, <1>5, <1>7, <1>8 DEF Touches, Target
<1>11. Process(e)'
  BY <1>0, <1>1 DEF Process
<1>12. ASSUME NEW b \in Actors, Waiting(b)'
       PROVE  pc'[b] \in Awaiting /\ (Waiting(b) \/ Target(b) = e) /\ Target(b)' = Target(b)
                /\ (Target(b) = e => child'[e] = "up")
  BY <1>0, <1>1, <1>12 DEF Waiting, Waits, Target
<1>13. active'[e] => listening'[e]
  BY <1>0, <1>1 DEF Attends
<1>14. Crew'
  BY <1>0, <1>9, <1>10, <1>11, <1>12, <1>13, TouchingCrew
<1> QED
  BY <1>1, <1>5, <1>7, <1>14

\* by a watcher that goes,
LEMMA ExitCrew ==
  ASSUME Crew, Shape, Roles, NEW e \in Engines, WatcherExits(e)
  PROVE  Crew'
<1> USE DEF service, state, provider, watcher, actors, counters, bounds
<1>0. /\ e \in Actors /\ Target(e) = e /\ (Target(e))' = e /\ pc[e] # "launching"
      /\ Typed /\ Waits /\ Launching /\ Attends /\ \A x \in Engines : Process(x)
  BY DEF Actors, Target, Roles, Crew
<1>1. /\ Kill(e) /\ Reject(e) /\ child[e] = "up" /\ upsets' = upsets \union {"exit"}
      /\ UNCHANGED <<pc, wk, service, state, sink, listening, bounds>>
  BY DEF WatcherExits
<1>2. /\ thread' \in [Engines -> BOOLEAN] /\ child' \in [Engines -> {"none", "launching", "up"}]
      /\ commands' \in [Engines -> Seq(Commands)] /\ lines' \in [Engines -> Seq(Lines)]
      /\ ~alive'[e] /\ ~thread'[e] /\ commands'[e] = <<>> /\ child'[e] = "none"
      /\ \A x \in Engines : x # e =>
           /\ alive'[x] = alive[x] /\ thread'[x] = thread[x] /\ commands'[x] = commands[x]
           /\ child'[x] = child[x] /\ lines'[x] = lines[x]
  BY <1>1, KillTyped
<1>3. answer' \in [Actors -> Answers]
  BY <1>0, <1>1 DEF Reject, Typed, Answers
<1>4. Typed'
  BY <1>0, <1>1, <1>2, <1>3 DEF Typed, Upsets
<1>5. Touches(e, e)
  BY <1>0, <1>1, <1>2 DEF Touches, Target
<1>6. Process(e)'
  BY <1>0, <1>1, <1>2 DEF Process
<1>7. ASSUME NEW b \in Actors, Waiting(b)'
      PROVE  pc'[b] \in Awaiting /\ (Waiting(b) \/ Target(b) = e) /\ Target(b)' = Target(b)
               /\ (Target(b) = e => child'[e] = "up")
  <2>1. Waiting(b) /\ Target(b) # e
    BY <1>1, <1>7 DEF Waiting, Reject
  <2> QED
    BY <1>0, <1>1, <2>1 DEF Waits, Target
<1>8. active'[e] => listening'[e]
  BY <1>0, <1>1 DEF Attends
<1> QED
  BY <1>0, <1>4, <1>5, <1>6, <1>7, <1>8, TouchingCrew

\* by a command that times out,
LEMMA TimeoutCrew ==
  ASSUME Crew, Shape, Roles, NEW a \in Actors, CommandTimesOut(a)
  PROVE  Crew' /\ "timeout" \in upsets'
<1> USE DEF service, state, provider, watcher, actors, counters, bounds
<1>0. /\ Typed /\ Waits /\ Launching /\ Attends /\ \A x \in Engines : Process(x)
      /\ answer[a] = "waiting"
  BY DEF Crew, CommandTimesOut
<1>1. PICK e \in Engines : e = Target(a) /\ child[e] = "up"
  BY <1>0 DEF Waits, Waiting
<1> DEFINE anon == [i \in DOMAIN commands[e] |->
               IF commands[e][i].by = a THEN [commands[e][i] EXCEPT !.by = None] ELSE commands[e][i]]
           left == WithoutAnswers(lines[e], {a})
<1>2. /\ answer' = [answer EXCEPT ![a] = "failed"]
      /\ commands' = [commands EXCEPT ![e] = anon] /\ lines' = [lines EXCEPT ![e] = left]
      /\ upsets' = upsets \union {"timeout"}
      /\ UNCHANGED <<pc, wk, service, state, provider, alive, thread, bounds>>
  BY <1>1 DEF CommandTimesOut
<1>3. left \in Seq(Lines)
  BY <1>0, KeptLines DEF Typed
<1>4. anon \in Seq(Commands) /\ (commands[e] = <<>> => anon = <<>>)
  <2>1. commands[e] \in Seq(Commands)
    BY <1>0 DEF Typed
  <2>2. ASSUME NEW c \in Commands
        PROVE  [c EXCEPT !.by = None] \in Commands
    BY DEF Commands
  <2>3. \A i \in DOMAIN commands[e] : commands[e][i] \in Commands
    BY <2>1
  <2>4. \A i \in DOMAIN commands[e] : anon[i] \in Commands
    BY <2>2, <2>3
  <2>5. DOMAIN commands[e] = 1 .. Len(commands[e]) /\ Len(commands[e]) \in Nat
    BY <2>1
  <2>6. anon \in [1 .. Len(commands[e]) -> Commands]
    BY <2>4, <2>5
  <2>7. anon \in Seq(Commands)
    <3> HIDE DEF anon
    <3> QED
      BY <2>5, <2>6
  <2>8. commands[e] = <<>> => anon = <<>>
    BY <2>5
  <2> QED
    BY <2>7, <2>8
<1> HIDE DEF anon, left
<1>5. Typed'
  BY <1>0, <1>2, <1>3, <1>4 DEF Typed, Upsets, Answers
<1>6. (Target(a))' = e /\ pc[a] # "launching" /\ \A b \in Actors : (Target(b))' = Target(b)
  BY <1>0, <1>1, <1>2 DEF Target, Waits, Waiting, Awaiting, Starting, Stopping
<1>7. Touches(e, a)
  <2>1. \A x \in Engines : x # e => commands'[x] = commands[x] /\ lines'[x] = lines[x]
    BY <1>2
  <2> QED
    BY <1>1, <1>2, <1>6, <2>1 DEF Touches
<1>8. Process(e)'
  BY <1>0, <1>2, <1>4 DEF Process, Typed
<1>9. ASSUME NEW b \in Actors, Waiting(b)'
      PROVE  pc'[b] \in Awaiting /\ (Waiting(b) \/ Target(b) = e) /\ Target(b)' = Target(b)
               /\ (Target(b) = e => child'[e] = "up")
  <2>1. Waiting(b)
    BY <1>0, <1>2, <1>9 DEF Waiting, Typed
  <2> QED
    BY <1>0, <1>1, <1>2, <1>6, <2>1 DEF Waits
<1>10. active'[e] => listening'[e]
  BY <1>0, <1>2 DEF Attends
<1> QED
  BY <1>0, <1>2, <1>5, <1>7, <1>8, <1>9, <1>10, TouchingCrew

\* What a retune does at once: its stop is written and its sink is gone.
LEMMA RetuneSends ==
  ASSUME Crew, Shape, Roles, NEW e \in Engines, Retune(e), UNCHANGED wk
  PROVE  /\ pc[e] = "idle" /\ pc'[e] = "retuneStop" /\ \A b \in Actors : b # e => pc'[b] = pc[b]
         /\ sink' = [sink EXCEPT ![e] = FALSE]
         /\ commands' \in [Engines -> Seq(Commands)]
         /\ \A x \in Engines : x # e => commands'[x] = commands[x]
         /\ child[e] = "none" => commands' = commands
         /\ child[e] # "none" => commands'[e] = Append(commands[e], [cmd |-> "stop", by |-> e])
         /\ answer' = [answer EXCEPT ![e] = IF child[e] = "none" THEN "failed" ELSE "waiting"]
         /\ retunes' = retunes + 1 /\ answer[e] # "waiting"
         /\ \A r \in Requests : ~(wk[r].on = e /\ pc[r] = "exiting")
<1>1. e \in Actors /\ [cmd |-> "stop", by |-> e] \in Commands
  BY DEF Actors, Commands
<1>2. Append(commands[e], [cmd |-> "stop", by |-> e]) \in Seq(Commands)
  BY <1>1, AppendedAt DEF Crew, Typed
<1>3. pc[e] = "idle" /\ answer[e] # "waiting"
  BY <1>1 DEF Retune, Crew, Waits, Waiting, Awaiting, Starting, Stopping
<1> QED
  BY <1>1, <1>2, <1>3 DEF Retune, Goto, Shape, Crew, Typed

\* by a line that is read,
LEMMA ReadCrew ==
  ASSUME Crew, Shape, Roles, NEW e \in Engines, ReadLine(e)
  PROVE  Crew'
<1> USE DEF service, bounds
<1> DEFINE l == Head(lines[e])
<1>0. /\ e \in Actors /\ Target(e) = e /\ (Target(e))' = e /\ pc[e] # "launching"
      /\ Typed /\ Waits /\ Launching /\ Attends /\ \A x \in Engines : Process(x)
      /\ pc \in [Actors -> PCs]
  BY DEF Actors, Target, Roles, Crew, Shape
<1>1. /\ lines[e] # <<>> /\ l \in Lines /\ Tail(lines[e]) \in Seq(Lines)
      /\ lines' = [lines EXCEPT ![e] = Tail(@)]
      /\ UNCHANGED <<wk, service, running, policy, child, listening, alive, thread, patches, restarts>>
      /\ upsets' = upsets \/ upsets' = upsets \union {"overtaken"}
  BY <1>0, TailAt DEF ReadLine, Typed
<1>2. lines' \in [Engines -> Seq(Lines)] /\ \A x \in Engines : x # e => lines'[x] = lines[x]
  BY <1>0, <1>1 DEF Typed
<1>3. child[e] # "launching"
  BY <1>0, <1>1 DEF Launching, Untouched
<1>4. upsets' \subseteq Upsets /\ ("exit" \in upsets' <=> "exit" \in upsets) /\ patches' \in Nat /\ restarts' \in Nat
  BY <1>0, <1>1 DEF Typed, Upsets
<1>5. ASSUME UNCHANGED <<pc, commands, retunes>>, answer' \in [Actors -> Answers],
             active' \in [Engines -> BOOLEAN], sink' \in [Engines -> BOOLEAN],
             remembers' \in [Engines -> BOOLEAN],
             \A x \in Engines : x # e =>
               active'[x] = active[x] /\ sink'[x] = sink[x] /\ remembers'[x] = remembers[x],
             active'[e] => active[e] \/ listening[e],
             \A b \in Actors : Waiting(b)' => Waiting(b)
      PROVE  Crew'
  <2>1. Typed'
    BY <1>0, <1>1, <1>2, <1>4, <1>5 DEF Typed
  <2>2. Touches(e, e)
    BY <1>0, <1>1, <1>2, <1>3, <1>4, <1>5 DEF Touches, Target
  <2>3. Process(e)'
    BY <1>0, <1>1, <1>4, <1>5 DEF Process
  <2>4. active'[e] => listening'[e]
    BY <1>0, <1>1, <1>5 DEF Attends
  <2>5. ASSUME NEW b \in Actors, Waiting(b)'
        PROVE  pc'[b] \in Awaiting /\ (Waiting(b) \/ Target(b) = e) /\ Target(b)' = Target(b)
                 /\ (Target(b) = e => child'[e] = "up")
    BY <1>0, <1>1, <1>5, <2>5 DEF Waits, Target
  <2> QED
    BY <1>0, <2>1, <2>2, <2>3, <2>4, <2>5, TouchingCrew
<1>6. CASE HearStatus(e, l.line)
  <2>1. /\ sink' = [sink EXCEPT ![e] = @ /\ l.line = "capturing"]
        /\ active' = [active EXCEPT ![e] = IF listening[e] THEN l.line = "capturing" ELSE @]
        /\ UNCHANGED <<pc, answer, remembers, commands, retunes>>
    BY <1>6 DEF HearStatus
  <2> HIDE DEF l
  <2> QED
    BY <1>0, <1>5, <2>1 DEF Typed, Waiting
<1>7. CASE HearResponse(e, l)
  <2>1. /\ answer' = [a \in Actors |-> IF a = l.by THEN (IF l.ok THEN "ok" ELSE "failed") ELSE answer[a]]
        /\ UNCHANGED <<pc, active, remembers, sink, commands, retunes>>
    BY <1>7 DEF HearResponse
  <2> HIDE DEF l
  <2>2. answer' \in [Actors -> Answers] /\ \A b \in Actors : Waiting(b)' => Waiting(b)
    BY <1>0, <2>1 DEF Typed, Answers, Waiting
  <2> QED
    BY <1>0, <1>5, <2>1, <2>2 DEF Typed
<1>8. CASE HearFrame(e)
  <2>1. /\ remembers' = [remembers EXCEPT ![e] = @ \/ (sink[e] /\ active[e])] /\ UNCHANGED active
        /\ remembers' \in [Engines -> BOOLEAN]
        /\ \A x \in Engines : x # e => remembers'[x] = remembers[x]
    BY <1>0, <1>8 DEF HearFrame, Typed
  <2>2. CASE UNCHANGED <<pc, answer, sink, commands, retunes>>
    BY <1>0, <1>5, <2>1, <2>2 DEF Typed, Waiting
  <2>3. CASE Retune(e)
    <3>1. /\ pc'[e] = "retuneStop" /\ \A b \in Actors : b # e => pc'[b] = pc[b]
          /\ sink' = [sink EXCEPT ![e] = FALSE]
          /\ commands' \in [Engines -> Seq(Commands)]
          /\ \A x \in Engines : x # e => commands'[x] = commands[x]
          /\ child[e] = "none" => commands' = commands
          /\ answer' = [answer EXCEPT ![e] = IF child[e] = "none" THEN "failed" ELSE "waiting"]
          /\ retunes' = retunes + 1
      BY <1>1, <2>3, RetuneSends
    <3>2. Typed'
      <4>1. answer' \in [Actors -> Answers] /\ sink' \in [Engines -> BOOLEAN] /\ retunes' \in Nat
        BY <1>0, <3>1 DEF Typed, Answers
      <4> QED
        BY <1>0, <1>1, <1>2, <1>4, <2>1, <3>1, <4>1 DEF Typed
    <3>3. Touches(e, e)
      <4>1. \A x \in Engines : x # e => sink'[x] = sink[x]
        BY <3>1
      <4> QED
        BY <1>0, <1>1, <1>2, <1>3, <1>4, <2>1, <3>1, <4>1 DEF Touches, Target
    <3>4. Process(e)'
      <4>1. ~alive[e] => commands'[e] = <<>>
        BY <1>0, <3>1 DEF Process
      <4> QED
        BY <1>0, <1>1, <1>4, <4>1 DEF Process
    <3>5. active'[e] => listening'[e]
      BY <1>0, <1>1, <2>1 DEF Attends
    <3>6. ASSUME NEW b \in Actors, Waiting(b)'
          PROVE  pc'[b] \in Awaiting /\ (Waiting(b) \/ Target(b) = e) /\ Target(b)' = Target(b)
                   /\ (Target(b) = e => child'[e] = "up")
      <4>1. CASE b = e
        <5>1. child[e] = "up"
          BY <1>0, <1>3, <3>1, <3>6, <4>1 DEF Waiting, Typed
        <5> QED
          BY <1>0, <1>1, <3>1, <4>1, <5>1 DEF Awaiting, Stopping
      <4>2. CASE b # e
        BY <1>0, <1>1, <3>1, <3>6, <4>2 DEF Waiting, Waits, Target
      <4> QED
        BY <4>1, <4>2
    <3> QED
      BY <1>0, <3>2, <3>3, <3>4, <3>5, <3>6, TouchingCrew
  <2> QED
    BY <1>8, <2>2, <2>3 DEF HearFrame
<1> QED
  BY <1>6, <1>7, <1>8 DEF ReadLine

\* and by a restart of the server.
LEMMA RestartCrew ==
  ASSUME Crew, Shape, NEW r \in Requests, Restart(r)
  PROVE  Crew'
<1>1. /\ answer' = [a \in Actors |-> "none"] /\ running' = Off /\ active' = Off /\ remembers' = Off
      /\ child' = [e \in Engines |-> "none"] /\ sink' = Off /\ listening' = Off
      /\ alive' = Off /\ thread' = Off /\ commands' = Empty /\ lines' = Empty
      /\ restarts' = restarts + 1 /\ UNCHANGED <<policy, upsets, patches, retunes>>
      /\ \A q \in Requests : pc'[q] \in {"patched", "idle"}
  BY DEF Restart, Actors
<1>2. Typed'
  <2>1. <<>> \in Seq(Commands) /\ <<>> \in Seq(Lines)
    OBVIOUS
  <2> QED
    BY <1>1, <2>1 DEF Crew, Typed, Off, Empty, Answers
<1>3. Waits' /\ Launching' /\ Attends'
  BY <1>1 DEF Waits, Waiting, Launching, Attends, Off
<1>4. \A e \in Engines : Process(e)'
  BY <1>1 DEF Process, Off, Empty
<1> QED
  BY <1>2, <1>3, <1>4 DEF Crew

\* Crew at first,
LEMMA InitCrew ==
  ASSUME Init
  PROVE  Crew
<1>1. Typed
  <2>1. <<>> \in Seq(Commands) /\ <<>> \in Seq(Lines)
    OBVIOUS
  <2> QED
    BY <2>1 DEF Init, Typed, Off, Empty, Answers
<1>2. Waits /\ Launching /\ Attends
  BY DEF Init, Waits, Waiting, Launching, Attends, Off, Actors
<1>3. \A e \in Engines : Process(e)
  BY DEF Init, Process, Off, Empty
<1> QED
  BY <1>1, <1>2, <1>3 DEF Crew

\* after every step,
LEMMA CrewStep ==
  ASSUME Crew, Shape, Roles, [Next]_vars
  PROVE  Crew'
<1>0. Typed /\ Waits /\ \A q \in Requests : q \in Actors
  BY DEF Crew, Actors
<1>1. ASSUME NEW r \in Requests, RequestStep(r)
      PROVE  Crew'
  BY <1>0, <1>1, RequestDigest, ThinkingCrew, SendingCrew, RequestCrew
<1>2. ASSUME NEW r \in Requests, NEW body \in Bodies, Patch(r, body)
      PROVE  Crew'
  BY <1>0, <1>2, PatchDigest, ThinkingCrew
<1>3. ASSUME NEW e \in Engines, RetuneStep(e)
      PROVE  Crew'
  BY <1>0, <1>3, RetuneDigest, ThinkingCrew, SendingCrew DEF Actors
<1>4. ASSUME NEW e \in Engines, WatcherStep(e) \/ ReadLine(e)
      PROVE  Crew'
  BY <1>4, WatcherCrew, ExitCrew, ReadCrew DEF WatcherStep
<1>5. CASE UNCHANGED vars
  <2>1. UNCHANGED <<pc, wk, answer, engine, running, policy, active, remembers, child, sink,
                    listening, alive, thread, commands, lines, upsets, patches, retunes, restarts>>
    BY <1>5 DEF vars, service, state, provider, watcher, actors, counters, bounds
  <2>2. Typed' /\ Waits' /\ Attends' /\ \A e \in Engines : Process(e)'
    BY <2>1 DEF Crew, Typed, Waits, Waiting, Target, Attends, Process
  <2>3. Launching'
    BY <2>1 DEF Crew, Launching, Untouched, LaunchedBy, Target, Resting
  <2> QED
    BY <2>2, <2>3 DEF Crew
<1> QED
  BY <1>1, <1>2, <1>3, <1>4, <1>5, RestartCrew, TimeoutCrew DEF Next

\* and always.
LEMMA CrewKept == Spec => [](Crew /\ Shape /\ Roles)
<1>1. Init => Crew /\ Shape /\ Roles
  BY InitCrew, EyesInit
<1>2. Crew /\ Shape /\ Roles /\ [Next]_vars => (Crew /\ Shape /\ Roles)'
  BY CrewStep, ShapeStep
<1> QED
  BY <1>1, <1>2, PTL DEF Spec

\* Every variable stays in its range, and whoever waits for an answer waits for a watcher
\* whose process is up: no request is left waiting for one that is gone.
THEOREM WellTyped == Spec => []TypeOK
<1>1. Crew /\ Shape => TypeOK
  <2> SUFFICES ASSUME Crew, Shape
               PROVE  TypeOK
    OBVIOUS
  <2>1. /\ {running, policy, active, remembers, sink, listening, alive, thread} \subseteq [Engines -> BOOLEAN]
        /\ {patches, retunes, restarts} \subseteq Nat
    BY DEF Crew, Typed, Shape
  <2>2. \A a \in Actors : answer[a] = "waiting" =>
          (IF a \in Requests THEN wk[a].on ELSE a) \in {e \in Engines : child[e] = "up"}
    BY DEF Crew, Waits, Waiting, Target
  <2> QED
    BY <2>1, <2>2 DEF Crew, Typed, Answers, Shape, TypeOK, Works
<1> QED
  BY <1>1, CrewKept, PTL

-----------------------------------------------------------------------------
(* The pipes, as long as nothing timed out: each command and each answer is of an
   actor that waits for it, and nobody's twice *)

IsAnswer(l) == l.line = "response"
Asked(e, c) ==
  c.by \in Actors /\ Target(c.by) = e /\ Waiting(c.by) /\ pc[c.by] \in Asks(c.cmd)
Owed(e, l) ==
  /\ l.by \in Actors /\ Target(l.by) = e /\ Waiting(l.by)
  /\ \A j \in DOMAIN commands[e] : commands[e][j].by # l.by
Pipe(e) ==
  /\ \A i \in DOMAIN commands[e] : Asked(e, commands[e][i])
  /\ \A i, j \in DOMAIN commands[e] : i # j => commands[e][i].by # commands[e][j].by
  /\ \A i \in DOMAIN lines[e] : IsAnswer(lines[e][i]) => Owed(e, lines[e][i])
  /\ \A i, j \in DOMAIN lines[e] :
       IsAnswer(lines[e][i]) /\ IsAnswer(lines[e][j]) /\ i # j => lines[e][i].by # lines[e][j].by
Pipes == "timeout" \notin upsets => \A e \in Engines : Pipe(e)

\* Whoever waits for e stays where he is.
Patient(e) ==
  \A b \in Actors : Waiting(b) /\ Target(b) = e =>
    pc'[b] = pc[b] /\ Target(b)' = e /\ Waiting(b)'

\* A pipe nobody writes to or reads stays whole while those it is for wait.
LEMMA PatientPipe ==
  ASSUME NEW e \in Engines, Pipe(e), Patient(e), commands'[e] = commands[e], lines'[e] = lines[e]
  PROVE  Pipe(e)'
  BY DEF Pipe, Asked, Owed, Patient, IsAnswer

\* A pipe with nothing to answer is whole.
LEMMA EmptyPipe ==
  ASSUME NEW e \in Engines, commands'[e] = <<>>,
         \A i \in DOMAIN lines'[e] : ~IsAnswer(lines'[e][i])
  PROVE  Pipe(e)'
  BY DEF Pipe

\* A command of somebody who did not wait is put at the end.
LEMMA SentPipe ==
  ASSUME Typed, NEW e \in Engines, Pipe(e), NEW a \in Actors, ~Waiting(a), NEW cmd \in {"start", "stop", "exit"},
         \A b \in Actors : b # a => pc'[b] = pc[b] /\ answer'[b] = answer[b] /\ Target(b)' = Target(b),
         Target(a)' = e, pc'[a] \in Asks(cmd), answer'[a] = "waiting",
         commands'[e] = Append(commands[e], [cmd |-> cmd, by |-> a]),
         lines'[e] = lines[e] \/ (lines[e] # <<>> /\ ~IsAnswer(Head(lines[e])) /\ lines'[e] = Tail(lines[e]))
  PROVE  Pipe(e)'
<1> DEFINE c == [cmd |-> cmd, by |-> a]
<1>1. /\ c \in Commands /\ c.cmd = cmd /\ c.by = a
      /\ commands[e] \in Seq(Commands) /\ lines[e] \in Seq(Lines)
  BY DEF Commands, Typed
<1> HIDE DEF c
<1>2. /\ DOMAIN commands'[e] = 1 .. Len(commands[e]) + 1 /\ DOMAIN commands[e] = 1 .. Len(commands[e])
      /\ Len(commands[e]) \in Nat /\ commands'[e][Len(commands[e]) + 1] = c
      /\ \A i \in DOMAIN commands[e] : commands'[e][i] = commands[e][i]
  BY <1>1, AppendedAt DEF c
<1>3. \A i \in DOMAIN commands'[e] : i \in DOMAIN commands[e] \/ commands'[e][i] = c
  BY <1>2
<1>4. ASSUME NEW x, NEW i \in DOMAIN commands[e], x = commands[e][i]
      PROVE  Asked(e, x)' /\ x.by # a
  BY <1>4 DEF Pipe, Asked, Waiting
<1>5. ASSUME NEW x, x = c
      PROVE  Asked(e, x)'
  BY <1>1, <1>5 DEF Asked, Waiting
<1>6. \A i \in DOMAIN commands'[e] : Asked(e, commands[e][i])'
  <2> SUFFICES ASSUME NEW i \in DOMAIN commands'[e], NEW x, x = commands'[e][i]
               PROVE  Asked(e, x)'
    BY DEF Asked
  <2> QED
    BY <1>2, <1>3, <1>4, <1>5
<1>7. ASSUME NEW i \in DOMAIN commands'[e], NEW j \in DOMAIN commands'[e], i # j
      PROVE  commands'[e][i].by # commands'[e][j].by
  <2>1. CASE i \in DOMAIN commands[e] /\ j \in DOMAIN commands[e]
    BY <1>2, <1>7, <2>1 DEF Pipe
  <2>2. CASE i \notin DOMAIN commands[e]
    <3>1. commands'[e][i] = c /\ j \in DOMAIN commands[e]
      BY <1>2, <1>7, <2>2
    <3> QED
      BY <1>1, <1>2, <1>4, <3>1
  <2>3. CASE j \notin DOMAIN commands[e]
    <3>1. commands'[e][j] = c /\ i \in DOMAIN commands[e]
      BY <1>2, <1>7, <2>3
    <3> QED
      BY <1>1, <1>2, <1>4, <3>1
  <2> QED
    BY <2>1, <2>2, <2>3
<1>8. ASSUME NEW i \in DOMAIN lines'[e]
      PROVE  \E k \in DOMAIN lines[e] : lines'[e][i] = lines[e][k]
  <2>1. CASE lines'[e] = lines[e]
    BY <2>1
  <2>2. CASE lines[e] # <<>> /\ lines'[e] = Tail(lines[e])
    BY <1>1, <2>2, TailAt
  <2> QED
    BY <2>1, <2>2
<1>9. ASSUME NEW x, NEW k \in DOMAIN lines[e], x = lines[e][k], IsAnswer(x)
      PROVE  Owed(e, x)'
  <2>1. Owed(e, x) /\ x.by # a
    BY <1>9 DEF Pipe, Owed
  <2>2. \A j \in DOMAIN commands'[e] : commands'[e][j].by # x.by
    BY <1>1, <1>2, <1>3, <2>1 DEF Owed
  <2> QED
    BY <2>1, <2>2 DEF Owed, Waiting
<1>10. \A i \in DOMAIN lines'[e] : IsAnswer(lines'[e][i]) => Owed(e, lines[e][i])'
  <2> SUFFICES ASSUME NEW i \in DOMAIN lines'[e], NEW x, x = lines'[e][i], IsAnswer(x)
               PROVE  Owed(e, x)'
    BY DEF Owed
  <2> QED
    BY <1>8, <1>9
<1>11. ASSUME NEW i \in DOMAIN lines'[e], NEW j \in DOMAIN lines'[e],
              IsAnswer(lines'[e][i]), IsAnswer(lines'[e][j]), i # j
       PROVE  lines'[e][i].by # lines'[e][j].by
  <2>1. CASE lines'[e] = lines[e]
    BY <1>11, <2>1 DEF Pipe
  <2>2. CASE lines[e] # <<>> /\ lines'[e] = Tail(lines[e])
    <3>1. /\ i \in Int /\ j \in Int /\ i + 1 \in DOMAIN lines[e] /\ j + 1 \in DOMAIN lines[e]
          /\ lines'[e][i] = lines[e][i + 1] /\ lines'[e][j] = lines[e][j + 1]
      BY SMTT(30), <1>1, <2>2, TailAt
    <3> QED
      BY <1>11, <3>1 DEF Pipe
  <2> QED
    BY <2>1, <2>2
<1> QED
  BY SMTT(30), <1>6, <1>7, <1>10, <1>11 DEF Pipe

\* At most one of the words said is an answer, and it is to `by'.
Answers1(what, by) ==
  \A i \in DOMAIN what : IsAnswer(what[i]) =>
    what[i].by = by /\ \A j \in DOMAIN what : IsAnswer(what[j]) => i = j

\* The watcher takes the first command and answers it, among other words.
LEMMA AnsweredPipe ==
  ASSUME Typed, NEW e \in Engines, Pipe(e), Patient(e), commands[e] # <<>>,
         NEW c \in Commands, c = Head(commands[e]), NEW what \in Seq(Lines), Answers1(what, c.by),
         commands'[e] = Tail(commands[e]), lines'[e] = lines[e] \o what
  PROVE  Pipe(e)'
<1>1. commands[e] \in Seq(Commands) /\ lines[e] \in Seq(Lines)
  BY DEF Typed
<1>2. /\ c = commands[e][1] /\ 1 \in DOMAIN commands[e]
      /\ \A i \in DOMAIN commands'[e] : /\ i \in Int /\ i + 1 \in DOMAIN commands[e] /\ i + 1 # 1
                                        /\ commands'[e][i] = commands[e][i + 1]
  BY SMTT(30), <1>1, TailAt
<1>3. /\ Len(lines[e]) \in Nat /\ DOMAIN lines[e] = 1 .. Len(lines[e])
      /\ \A i \in DOMAIN lines'[e] :
           \/ i \in DOMAIN lines[e] /\ lines'[e][i] = lines[e][i]
           \/ /\ i \notin DOMAIN lines[e] /\ i \in Int /\ i - Len(lines[e]) \in DOMAIN what
              /\ lines'[e][i] = what[i - Len(lines[e])]
  BY SMTT(30), <1>1, JoinedAt
<1>4. ASSUME NEW x, NEW i \in DOMAIN commands[e], x = commands[e][i]
      PROVE  Asked(e, x)'
  BY <1>4 DEF Pipe, Asked, Patient
<1>5. \A i \in DOMAIN commands'[e] : Asked(e, commands[e][i])'
  <2> SUFFICES ASSUME NEW i \in DOMAIN commands'[e], NEW x, x = commands'[e][i]
               PROVE  Asked(e, x)'
    BY DEF Asked
  <2> QED
    BY <1>2, <1>4
<1>6. \A i, j \in DOMAIN commands'[e] : i # j => commands'[e][i].by # commands'[e][j].by
  <2> SUFFICES ASSUME NEW i \in DOMAIN commands'[e], NEW j \in DOMAIN commands'[e], i # j
               PROVE  commands'[e][i].by # commands'[e][j].by
    OBVIOUS
  <2>1. i + 1 # j + 1
    BY <1>2
  <2> QED
    BY <1>2, <2>1 DEF Pipe
<1>7. ASSUME NEW x, NEW i \in DOMAIN lines[e], x = lines[e][i], IsAnswer(x)
      PROVE  Owed(e, x)' /\ x.by # c.by
  <2>1. Owed(e, x)
    BY <1>7 DEF Pipe
  <2>2. \A j \in DOMAIN commands'[e] : commands'[e][j].by # x.by
    BY <1>2, <2>1 DEF Owed
  <2> QED
    BY <1>2, <2>1, <2>2 DEF Owed, Patient
<1>8. ASSUME NEW x, IsAnswer(x), x.by = c.by
      PROVE  Owed(e, x)'
  <2>1. Asked(e, c)
    BY <1>2 DEF Pipe
  <2>2. \A j \in DOMAIN commands'[e] : commands'[e][j].by # c.by
    BY <1>2 DEF Pipe
  <2> QED
    BY <1>8, <2>1, <2>2 DEF Asked, Owed, Patient
<1>9. \A i \in DOMAIN lines'[e] : IsAnswer(lines'[e][i]) => Owed(e, lines[e][i])'
  <2> SUFFICES ASSUME NEW i \in DOMAIN lines'[e], NEW x, x = lines'[e][i], IsAnswer(x)
               PROVE  Owed(e, x)'
    BY DEF Owed
  <2> QED
    BY <1>3, <1>7, <1>8 DEF Answers1
<1>10. ASSUME NEW i \in DOMAIN lines'[e], NEW j \in DOMAIN lines'[e],
              IsAnswer(lines'[e][i]), IsAnswer(lines'[e][j]), i # j
       PROVE  lines'[e][i].by # lines'[e][j].by
  <2>1. CASE i \in DOMAIN lines[e] /\ j \in DOMAIN lines[e]
    BY <1>3, <1>10, <2>1 DEF Pipe
  <2>2. CASE i \in DOMAIN lines[e] /\ j \notin DOMAIN lines[e]
    BY <1>3, <1>7, <1>10, <2>2 DEF Answers1
  <2>3. CASE i \notin DOMAIN lines[e] /\ j \in DOMAIN lines[e]
    BY <1>3, <1>7, <1>10, <2>3 DEF Answers1
  <2>4. CASE i \notin DOMAIN lines[e] /\ j \notin DOMAIN lines[e]
    <3>1. i - Len(lines[e]) # j - Len(lines[e])
      BY SMTT(30), <1>3, <1>10, <2>4
    <3> QED
      BY <1>3, <1>10, <2>4, <3>1 DEF Answers1
  <2> QED
    BY <2>1, <2>2, <2>3, <2>4
<1> QED
  BY <1>5, <1>6, <1>9, <1>10 DEF Pipe

\* The capture thread says something unasked.
LEMMA SaidPipe ==
  ASSUME Typed, NEW e \in Engines, Pipe(e), Patient(e), commands'[e] = commands[e],
         NEW l \in Lines, ~IsAnswer(l), lines'[e] = lines[e] \o <<l>>
  PROVE  Pipe(e)'
<1>1. lines[e] \in Seq(Lines) /\ <<l>> \in Seq(Lines)
  BY DEF Typed
<1>2. \A i \in DOMAIN lines'[e] :
        \/ i \in DOMAIN lines[e] /\ lines'[e][i] = lines[e][i]
        \/ lines'[e][i] = l
  BY <1>1, JoinedAt
<1>3. ASSUME NEW x, NEW i \in DOMAIN commands[e], x = commands[e][i]
      PROVE  Asked(e, x)'
  BY <1>3 DEF Pipe, Asked, Patient
<1>4. ASSUME NEW x, NEW i \in DOMAIN lines[e], x = lines[e][i], IsAnswer(x)
      PROVE  Owed(e, x)'
  BY <1>4 DEF Pipe, Owed, Patient
<1>5. \A i \in DOMAIN commands'[e] : Asked(e, commands[e][i])'
  <2> SUFFICES ASSUME NEW i \in DOMAIN commands'[e], NEW x, x = commands'[e][i]
               PROVE  Asked(e, x)'
    BY DEF Asked
  <2> QED
    BY <1>3
<1>6. \A i \in DOMAIN lines'[e] : IsAnswer(lines'[e][i]) => Owed(e, lines[e][i])'
  <2> SUFFICES ASSUME NEW i \in DOMAIN lines'[e], NEW x, x = lines'[e][i], IsAnswer(x)
               PROVE  Owed(e, x)'
    BY DEF Owed
  <2> QED
    BY <1>2, <1>4
<1> QED
  BY <1>2, <1>5, <1>6 DEF Pipe

\* The first line is read; if it is an answer, who waited for it does so no more.
LEMMA ReadPipe ==
  ASSUME Typed, NEW e \in Engines, Pipe(e), commands'[e] = commands[e],
         lines[e] # <<>>, lines'[e] = Tail(lines[e]), NEW l \in Lines, l = Head(lines[e]),
         \A b \in Actors : Waiting(b) /\ Target(b) = e =>
           \/ pc'[b] = pc[b] /\ Target(b)' = e /\ Waiting(b)'
           \/ IsAnswer(l) /\ l.by = b
  PROVE  Pipe(e)'
<1>1. /\ l = lines[e][1] /\ 1 \in DOMAIN lines[e]
      /\ \A i \in DOMAIN lines'[e] : /\ i \in Int /\ i + 1 \in DOMAIN lines[e] /\ i + 1 # 1
                                     /\ lines'[e][i] = lines[e][i + 1]
  BY TailAt DEF Typed
<1>2. IsAnswer(l) => Owed(e, l)
  BY <1>1 DEF Pipe
<1>3. ASSUME NEW x, NEW i \in DOMAIN commands[e], x = commands[e][i]
      PROVE  Asked(e, x)'
  <2>1. Asked(e, x) /\ (IsAnswer(l) => x.by # l.by)
    BY <1>2, <1>3 DEF Pipe, Owed
  <2> QED
    BY <2>1 DEF Asked
<1>4. ASSUME NEW x, NEW i \in DOMAIN lines[e], i # 1, x = lines[e][i], IsAnswer(x)
      PROVE  Owed(e, x)'
  <2>1. Owed(e, x) /\ (IsAnswer(l) => x.by # l.by)
    BY <1>1, <1>4 DEF Pipe
  <2> QED
    BY <2>1 DEF Owed
<1>5. \A i \in DOMAIN commands'[e] : Asked(e, commands[e][i])'
  <2> SUFFICES ASSUME NEW i \in DOMAIN commands'[e], NEW x, x = commands'[e][i]
               PROVE  Asked(e, x)'
    BY DEF Asked
  <2> QED
    BY <1>3
<1>6. \A i \in DOMAIN lines'[e] : IsAnswer(lines'[e][i]) => Owed(e, lines[e][i])'
  <2> SUFFICES ASSUME NEW i \in DOMAIN lines'[e], NEW x, x = lines'[e][i], IsAnswer(x)
               PROVE  Owed(e, x)'
    BY DEF Owed
  <2> QED
    BY <1>1, <1>4
<1>7. ASSUME NEW i \in DOMAIN lines'[e], NEW j \in DOMAIN lines'[e],
             IsAnswer(lines'[e][i]), IsAnswer(lines'[e][j]), i # j
      PROVE  lines'[e][i].by # lines'[e][j].by
  <2>1. i + 1 # j + 1
    BY <1>1, <1>7
  <2> QED
    BY <1>1, <1>7, <2>1 DEF Pipe
<1> QED
  BY SMTT(30), <1>5, <1>6, <1>7 DEF Pipe

\* Two elements, one after the other.
LEMMA PairAt ==
  ASSUME NEW S, NEW x \in S, NEW y \in S
  PROVE  /\ <<x>> \o <<y>> \in Seq(S) /\ DOMAIN (<<x>> \o <<y>>) = {1, 2}
         /\ (<<x>> \o <<y>>)[1] = x /\ (<<x>> \o <<y>>)[2] = y
<1>1. /\ <<x>> \in Seq(S) /\ <<y>> \in Seq(S) /\ Len(<<x>>) = 1 /\ Len(<<y>>) = 1
      /\ 1 \in DOMAIN <<x>> /\ 1 \in DOMAIN <<y>> /\ <<x>>[1] = x /\ <<y>>[1] = y
  OBVIOUS
<1>2. DOMAIN (<<x>> \o <<y>>) = 1 .. 1 + 1
  BY <1>1, JoinedAt
<1>3. (<<x>> \o <<y>>)[1] = x /\ (<<x>> \o <<y>>)[1 + 1] = y
  BY <1>1, JoinedAt
<1>4. <<x>> \o <<y>> \in Seq(S)
  BY <1>1, JoinedAt
<1> QED
  BY <1>2, <1>3, <1>4

\* What the watcher writes when it takes the first command: at most one answer, to it.
LEMMA WatcherWords ==
  ASSUME Typed, NEW e \in Engines, WatcherStarts(e) \/ WatcherStops(e),
         NEW c \in Commands, c = Head(commands[e]), c.by # None
  PROVE  \E what \in Seq(Lines) : Say(e, what) /\ Answers1(what, c.by)
<1> DEFINE yes == [line |-> "response", by |-> c.by, ok |-> TRUE]
           no == [line |-> "response", by |-> c.by, ok |-> FALSE]
<1>1. /\ Response(c, TRUE) = <<yes>> /\ Response(c, FALSE) = <<no>>
      /\ yes \in Lines /\ no \in Lines /\ yes.by = c.by /\ no.by = c.by
      /\ Line("capturing") \in Lines /\ ~IsAnswer(Line("capturing"))
      /\ Line("stopped") \in Lines /\ ~IsAnswer(Line("stopped"))
  BY Spoken DEF Response, IsAnswer
<1> HIDE DEF yes, no
<1>2. ASSUME NEW l \in Lines, l.by = c.by
      PROVE  <<l>> \in Seq(Lines) /\ Answers1(<<l>>, c.by)
  BY <1>2 DEF Answers1
<1>3. ASSUME NEW l \in Lines, l.by = c.by, NEW w \in Lines, ~IsAnswer(w)
      PROVE  /\ <<l>> \o <<w>> \in Seq(Lines) /\ Answers1(<<l>> \o <<w>>, c.by)
             /\ <<w>> \o <<l>> \in Seq(Lines) /\ Answers1(<<w>> \o <<l>>, c.by)
  <2> DEFINE lw == <<l>> \o <<w>>
             wl == <<w>> \o <<l>>
  <2>1. /\ lw \in Seq(Lines) /\ DOMAIN lw = {1, 2} /\ lw[1] = l /\ lw[2] = w
        /\ wl \in Seq(Lines) /\ DOMAIN wl = {1, 2} /\ wl[1] = w /\ wl[2] = l
    BY PairAt
  <2> HIDE DEF lw, wl
  <2>2. Answers1(lw, c.by) /\ Answers1(wl, c.by)
    BY <1>3, <2>1 DEF Answers1
  <2> QED
    BY <2>1, <2>2 DEF lw, wl
<1>4. CASE WatcherStarts(e)
  <2>1. \/ Say(e, Response(c, TRUE))
        \/ Say(e, <<Line("capturing")>> \o Response(c, TRUE))
        \/ Say(e, Response(c, TRUE) \o <<Line("capturing")>>)
        \/ Say(e, <<Line("stopped")>> \o Response(c, FALSE))
        \/ Say(e, Response(c, FALSE) \o <<Line("stopped")>>)
    BY <1>4 DEF WatcherStarts
  <2> QED
    BY <1>1, <1>2, <1>3, <2>1
<1>5. CASE WatcherStops(e)
  <2>1. Say(e, (IF thread[e] THEN <<Line("stopped")>> ELSE <<>>) \o Response(c, TRUE))
    BY <1>5 DEF WatcherStops
  <2>2. CASE thread[e]
    BY <1>1, <1>3, <2>1, <2>2
  <2>3. CASE ~thread[e]
    <3>1. <<>> \o Response(c, TRUE) = Response(c, TRUE)
      BY <1>1
    <3> QED
      BY <1>1, <1>2, <2>1, <2>3, <3>1
  <2> QED
    BY <2>2, <2>3
<1> QED
  BY <1>4, <1>5

\* What becomes of the first line.
Reads(e, l) ==
  /\ lines[e] # <<>> /\ l = Head(lines[e]) /\ lines'[e] = Tail(lines[e])
  /\ \A x \in Engines : x # e => lines'[x] = lines[x]
  /\ \A x \in Engines : x # e =>
       remembers'[x] = remembers[x] /\ active'[x] = active[x] /\ sink'[x] = sink[x]
         /\ commands'[x] = commands[x]
  /\ upsets' = IF Overtakes(e, l) THEN upsets \union {"overtaken"} ELSE upsets
  /\ UNCHANGED <<wk, discipline, settings, engine, running, child, listening, alive, thread>>
ReadsFrame(e, l) ==
  /\ l.line = "frame" /\ UNCHANGED <<pc, answer, active, sink, commands>>
  /\ remembers'[e] = (remembers[e] \/ (sink[e] /\ active[e]))
ReadsWindow(e, l) ==
  /\ l.line = "frame" /\ sink[e] /\ active[e] /\ UNCHANGED active /\ remembers'[e] /\ ~sink'[e]
  /\ pc[e] = "idle" /\ pc'[e] = "retuneStop" /\ answer[e] # "waiting"
  /\ \A r \in Requests : ~(wk[r].on = e /\ pc[r] = "exiting")
  /\ \A b \in Actors : b # e => pc'[b] = pc[b] /\ answer'[b] = answer[b]
  /\ child[e] = "none" => commands' = commands /\ answer'[e] = "failed"
  /\ child[e] # "none" =>
       commands'[e] = Append(commands[e], [cmd |-> "stop", by |-> e]) /\ answer'[e] = "waiting"
ReadsStatus(e, l) ==
  /\ l.line \in {"capturing", "failed", "stopped"} /\ UNCHANGED <<pc, answer, remembers, commands>>
  /\ sink'[e] = (sink[e] /\ l.line = "capturing")
  /\ active'[e] = IF listening[e] THEN l.line = "capturing" ELSE active[e]
ReadsAnswer(e, l) ==
  /\ l.line = "response" /\ UNCHANGED <<pc, active, remembers, sink, commands>>
  /\ \A b \in Actors : answer'[b] = IF b = l.by THEN (IF l.ok THEN "ok" ELSE "failed") ELSE answer[b]

\* A line that is read is a frame, a window, a word on the capture, or an answer.
LEMMA ReadDigest ==
  ASSUME Crew, Shape, Roles, NEW e \in Engines, ReadLine(e)
  PROVE  \E l \in Lines : /\ Reads(e, l)
                          /\ ReadsFrame(e, l) \/ ReadsWindow(e, l) \/ ReadsStatus(e, l) \/ ReadsAnswer(e, l)
<1> USE DEF service, state, provider, watcher, actors, counters, bounds
<1> DEFINE l == Head(lines[e])
<1>0. e \in Actors /\ Typed
  BY DEF Actors, Crew
<1>1. /\ lines[e] # <<>> /\ l \in Lines /\ lines' = [lines EXCEPT ![e] = Tail(@)]
      /\ UNCHANGED <<wk, service, running, policy, child, listening, alive, thread, patches, restarts>>
      /\ upsets' = IF Overtakes(e, l) THEN upsets \union {"overtaken"} ELSE upsets
  BY <1>0, TailAt DEF ReadLine, Typed
<1>2. ASSUME \A x \in Engines : x # e =>
               remembers'[x] = remembers[x] /\ active'[x] = active[x] /\ sink'[x] = sink[x]
                 /\ commands'[x] = commands[x]
      PROVE  Reads(e, l)
  BY <1>0, <1>1, <1>2 DEF Reads, Typed
<1>3. CASE l.line = "frame" /\ HearFrame(e)
  <2>1. /\ UNCHANGED active /\ remembers'[e] = (remembers[e] \/ (sink[e] /\ active[e]))
        /\ \A x \in Engines : x # e => remembers'[x] = remembers[x]
    BY <1>0, <1>3 DEF HearFrame, Typed
  <2>2. CASE UNCHANGED <<pc, answer, sink, commands, retunes>>
    <3>1. ReadsFrame(e, l) /\ Reads(e, l)
      BY <1>2, <1>3, <2>1, <2>2 DEF ReadsFrame
    <3> QED
      BY <1>1, <3>1
  <2>3. CASE sink[e] /\ active[e] /\ Retune(e)
    <3>1. /\ pc[e] = "idle" /\ pc'[e] = "retuneStop" /\ \A b \in Actors : b # e => pc'[b] = pc[b]
          /\ sink' = [sink EXCEPT ![e] = FALSE]
          /\ \A x \in Engines : x # e => commands'[x] = commands[x]
          /\ child[e] = "none" => commands' = commands
          /\ child[e] # "none" => commands'[e] = Append(commands[e], [cmd |-> "stop", by |-> e])
          /\ answer' = [answer EXCEPT ![e] = IF child[e] = "none" THEN "failed" ELSE "waiting"]
          /\ answer[e] # "waiting"
          /\ \A r \in Requests : ~(wk[r].on = e /\ pc[r] = "exiting")
      BY <1>1, <2>3, RetuneSends
    <3>2. /\ ~sink'[e] /\ \A x \in Engines : x # e => sink'[x] = sink[x]
          /\ answer'[e] = IF child[e] = "none" THEN "failed" ELSE "waiting"
          /\ \A b \in Actors : b # e => answer'[b] = answer[b]
      BY <1>0, <3>1 DEF Typed
    <3>3. Reads(e, l)
      BY <1>2, <2>1, <3>1, <3>2
    <3>4. ReadsWindow(e, l)
      BY <1>3, <2>1, <2>3, <3>1, <3>2 DEF ReadsWindow
    <3> QED
      BY <1>1, <3>3, <3>4
  <2> QED
    BY <1>3, <2>2, <2>3 DEF HearFrame
<1>4. CASE l.line \in {"capturing", "failed", "stopped"} /\ HearStatus(e, l.line)
  <2>1. /\ sink' = [sink EXCEPT ![e] = @ /\ l.line = "capturing"]
        /\ active' = [active EXCEPT ![e] = IF listening[e] THEN l.line = "capturing" ELSE @]
        /\ UNCHANGED <<pc, answer, remembers, commands, retunes>>
    BY <1>4 DEF HearStatus
  <2>2. Reads(e, l)
    BY <1>0, <1>2, <2>1 DEF Typed
  <2>3. ReadsStatus(e, l)
    BY <1>0, <1>4, <2>1 DEF ReadsStatus, Typed
  <2> QED
    BY <1>1, <2>2, <2>3
<1>5. CASE l.line = "response" /\ HearResponse(e, l)
  <2>1. /\ answer' = [a \in Actors |-> IF a = l.by THEN (IF l.ok THEN "ok" ELSE "failed") ELSE answer[a]]
        /\ UNCHANGED <<pc, active, remembers, sink, commands, retunes>>
    BY <1>5 DEF HearResponse
  <2>2. Reads(e, l)
    BY <1>2, <2>1
  <2>3. ReadsAnswer(e, l)
    BY <1>5, <2>1 DEF ReadsAnswer
  <2> QED
    BY <1>1, <2>2, <2>3
<1> QED
  BY <1>3, <1>4, <1>5 DEF ReadLine

\* Pipes is kept when a line is read: an answer that is read is owed no more,
LEMMA ReadingPipes ==
  ASSUME Crew, Shape, Roles, Pipes, NEW e \in Engines, ReadLine(e)
  PROVE  Pipes'
<1>0. /\ e \in Actors /\ Typed /\ Waits /\ Target(e) = e /\ Target(e)' = e
      /\ \A b \in Actors : wk' = wk => Target(b)' = Target(b)
  BY DEF Actors, Crew, Target
<1>1. PICK l \in Lines : /\ Reads(e, l)
                         /\ ReadsFrame(e, l) \/ ReadsWindow(e, l) \/ ReadsStatus(e, l) \/ ReadsAnswer(e, l)
  BY ReadDigest
<1>2. SUFFICES ASSUME "timeout" \notin upsets', NEW x \in Engines
               PROVE  Pipe(x)'
  BY DEF Pipes
<1>3. Pipe(x) /\ Pipe(e)
  BY <1>1, <1>2 DEF Pipes, Reads
<1>4. CASE ReadsAnswer(e, l)
  <2>1. CASE x = e
    <3>1. \A b \in Actors : Waiting(b) /\ Target(b) = e =>
            \/ pc'[b] = pc[b] /\ Target(b)' = e /\ Waiting(b)'
            \/ IsAnswer(l) /\ l.by = b
      BY <1>0, <1>1, <1>4 DEF ReadsAnswer, Reads, IsAnswer, Waiting
    <3> QED
      BY <1>0, <1>1, <1>3, <1>4, <2>1, <3>1, ReadPipe DEF Reads, ReadsAnswer
  <2>2. CASE x # e
    <3>1. IsAnswer(l) /\ Owed(e, l)
      <4>1. l = lines[e][1] /\ 1 \in DOMAIN lines[e]
        BY <1>0, <1>1, TailAt DEF Reads, Typed
      <4> QED
        BY <1>3, <1>4, <4>1 DEF Pipe, ReadsAnswer, IsAnswer
    <3>2. Patient(x)
      BY <1>0, <1>1, <1>4, <2>2, <3>1 DEF Patient, ReadsAnswer, Reads, Owed, Waiting
    <3> QED
      BY <1>1, <1>3, <2>2, <3>2, PatientPipe DEF Reads
  <2> QED
    BY <2>1, <2>2
<1>5. CASE ReadsFrame(e, l) \/ ReadsStatus(e, l)
  <2>1. /\ UNCHANGED <<pc, answer, commands>> /\ \A b \in Actors : Target(b)' = Target(b)
    BY <1>0, <1>1, <1>5 DEF Reads, ReadsFrame, ReadsStatus
  <2>2. Patient(x) /\ \A b \in Actors : Waiting(b) /\ Target(b) = e => pc'[b] = pc[b] /\ Target(b)' = e /\ Waiting(b)'
    BY <2>1 DEF Patient, Waiting
  <2>3. x = e => Pipe(x)'
    BY <1>0, <1>1, <1>3, <2>1, <2>2, ReadPipe DEF Reads
  <2>4. x # e => Pipe(x)'
    BY <1>1, <1>3, <2>1, <2>2, PatientPipe DEF Reads
  <2> QED
    BY <2>3, <2>4
<1>6. CASE ReadsWindow(e, l)
  <2>1. /\ \A b \in Actors : Target(b)' = Target(b)
        /\ \A b \in Actors : b # e => pc'[b] = pc[b] /\ answer'[b] = answer[b]
        /\ ~Waiting(e) /\ pc'[e] \in Asks("stop") /\ ~IsAnswer(l)
    BY <1>0, <1>1, <1>6 DEF Reads, ReadsWindow, Waiting, Asks, Stopping, IsAnswer
  <2>2. Patient(x) /\ \A b \in Actors : Waiting(b) /\ Target(b) = e => pc'[b] = pc[b] /\ Target(b)' = e /\ Waiting(b)'
    BY <2>1 DEF Patient, Waiting
  <2>3. CASE x # e
    BY <1>1, <1>3, <2>2, <2>3, PatientPipe DEF Reads
  <2>4. CASE x = e /\ child[e] = "none"
    BY <1>0, <1>1, <1>3, <1>6, <2>2, <2>4, ReadPipe DEF Reads, ReadsWindow
  <2>5. CASE x = e /\ child[e] # "none"
    BY ZenonT(60), <1>0, <1>1, <1>3, <1>6, <2>1, <2>5, SentPipe DEF Reads, ReadsWindow
  <2> QED
    BY <2>3, <2>4, <2>5
<1> QED
  BY <1>1, <1>4, <1>5, <1>6

\* by who only thinks,
LEMMA ThinkingPipes ==
  ASSUME Crew, Pipes, NEW a \in Actors, Thinks(a)
  PROVE  Pipes'
<1> SUFFICES ASSUME "timeout" \notin upsets', NEW e \in Engines
             PROVE  Pipe(e)'
  BY DEF Pipes
<1>1. Pipe(e) /\ commands' = commands /\ lines' = lines
  BY DEF Pipes, Thinks, Ticks, watcher
<1>2. Patient(e)
  BY DEF Patient, Waiting, Thinks, Alone
<1> QED
  BY <1>1, <1>2, PatientPipe

\* by who sends: the command that is written is owed an answer,
LEMMA SendingPipes ==
  ASSUME Crew, Pipes, NEW a \in Actors, NEW e \in Engines, NEW cmd \in {"start", "stop", "exit"},
         Sends(a, e, cmd)
  PROVE  Pipes'
<1> SUFFICES ASSUME "timeout" \notin upsets', NEW x \in Engines
             PROVE  Pipe(x)'
  BY DEF Pipes
<1>0. Typed
  BY DEF Crew
<1>1. Pipe(x) /\ lines' = lines /\ ~Waiting(a)
  BY DEF Pipes, Sends, Ticks, Send, Waiting
<1>2. Patient(x)
  BY DEF Patient, Waiting, Sends, Alone
<1>3. /\ \A y \in Engines : y # e => commands'[y] = commands[y]
      /\ answer'[a] = IF child[e] = "none" THEN "failed" ELSE "waiting"
      /\ child[e] = "none" => commands' = commands
      /\ child[e] # "none" => commands'[e] = Append(commands[e], [cmd |-> cmd, by |-> a])
  <2>1. Send(e, a, cmd)
    BY DEF Sends
  <2> QED
    BY <1>0, <2>1 DEF Send, Typed
<1>4. CASE x = e /\ child[e] # "none"
  BY <1>0, <1>1, <1>3, <1>4, SentPipe DEF Sends, Alone
<1>5. CASE x # e \/ child[e] = "none"
  BY <1>1, <1>2, <1>3, <1>5, PatientPipe
<1> QED
  BY <1>4, <1>5

\* A process is gone, and whoever waits for another engine goes on waiting.
LEMMA KillingPipes ==
  ASSUME Crew, Shape, Pipes, NEW e \in Engines, Kill(e), upsets \subseteq upsets',
         \A x \in Engines : x # e => Patient(x)
  PROVE  Pipes'
<1> SUFFICES ASSUME "timeout" \notin upsets', NEW x \in Engines
             PROVE  Pipe(x)'
  BY DEF Pipes
<1>1. Pipe(x) /\ Pipe(e)
  BY DEF Pipes
<1>2. /\ commands'[e] = <<>>
      /\ \A y \in Engines : y # e => commands'[y] = commands[y] /\ lines'[y] = lines[y]
      /\ \A i \in DOMAIN lines'[e] :
           /\ \E j \in DOMAIN lines[e] : lines'[e][i] = lines[e][j]
           /\ ~(lines'[e][i].line = "response" /\ lines'[e][i].by \in Actors)
  BY ZenonT(60), KillTyped
<1>3. CASE x = e
  <2>1. \A i \in DOMAIN lines'[e] : ~IsAnswer(lines'[e][i])
    BY <1>1, <1>2 DEF Pipe, Owed, IsAnswer
  <2> QED
    BY <1>2, <1>3, <2>1, EmptyPipe
<1>4. CASE x # e
  BY <1>1, <1>2, <1>4, PatientPipe
<1> QED
  BY <1>3, <1>4

\* What a launch, its failure, its success and the end of a stop do.
Launched(r, e) ==
  /\ Free(e) /\ pc[r] = "patched" /\ pc'[r] = "launching" /\ wk'[r].on = e /\ settings.enabled
  /\ child' = [child EXCEPT ![e] = "launching"] /\ alive' = [alive EXCEPT ![e] = TRUE]
  /\ policy' = [policy EXCEPT ![e] = settings.visual]
  /\ running' = [running EXCEPT ![e] = FALSE] /\ active' = [active EXCEPT ![e] = FALSE]
  /\ sink' = [sink EXCEPT ![e] = FALSE] /\ listening' = [listening EXCEPT ![e] = FALSE]
  /\ remembers' = [remembers EXCEPT ![e] = FALSE]
  /\ UNCHANGED <<answer, service, thread, commands, lines, counters>>
Unlaunched(r, e) ==
  /\ pc[r] = "launching" /\ Kill(e) /\ upsets \subseteq upsets' /\ pc'[r] = "idle"
  /\ upsets' = upsets \/ "unrestored" \in upsets'
  /\ UNCHANGED <<answer, discipline, engine, state, sink, listening, bounds>>
IsUp(r, e) ==
  /\ pc[r] = "launching" /\ pc'[r] = "snapshot" /\ alive[e]
  /\ child' = [child EXCEPT ![e] = "up"] /\ running' = [running EXCEPT ![e] = TRUE]
  /\ UNCHANGED <<wk, answer, service, policy, active, remembers, sink, listening, watcher, counters>>
IsDown(r, e) ==
  /\ pc[r] = "exiting" /\ Answered(r) /\ Kill(e) /\ pc'[r] = "applying"
  /\ answer'[r] = "none"
  /\ \A b \in Actors : b # r =>
       answer'[b] = IF Target(b) = e /\ Waiting(b) THEN "failed" ELSE answer[b]
  /\ sink' = [sink EXCEPT ![e] = @ /\ child[e] = "none"]
  /\ running' = [running EXCEPT ![e] = FALSE] /\ remembers' = [remembers EXCEPT ![e] = FALSE]
  /\ engine' = None
  /\ UNCHANGED <<wk, discipline, settings, policy, active, listening, counters>>

\* The four ways in which a process comes or goes.
LEMMA ProcessDigest ==
  ASSUME Crew, Shape, Roles, NEW r \in Requests,
         Launch(r) \/ LaunchFails(r) \/ LaunchReady(r) \/ Exited(r)
  PROVE  /\ \A b \in Actors : b # r => pc'[b] = pc[b] /\ (Target(b))' = Target(b)
         /\ Target(r) = wk[r].on /\ Target(r)' = wk'[r].on
         /\ \/ \E e \in Engines : Launched(r, e)
            \/ wk[r].on \in Engines /\ Unlaunched(r, wk[r].on)
            \/ wk[r].on \in Engines /\ IsUp(r, wk[r].on)
            \/ wk[r].on \in Engines /\ IsDown(r, wk[r].on)
<1> USE DEF service, state, provider, watcher, actors, counters, bounds
<1>0. /\ RequestStep(r) /\ Role(r) /\ Others(r) /\ Target(r) = wk[r].on
      /\ (Target(r))' = wk'[r].on /\ r \in Actors /\ Typed
  BY RequestKinds, ShapeByKind DEF RequestStep, Roles, Target, Actors, Crew
<1>1. \A b \in Actors : b # r => pc'[b] = pc[b] /\ (Target(b))' = Target(b)
  <2> SUFFICES ASSUME NEW b \in Actors, b # r
               PROVE  pc'[b] = pc[b] /\ (Target(b))' = Target(b)
    OBVIOUS
  <2>1. b \in Requests => wk'[b] = wk[b]
    BY <1>0 DEF Others
  <2> QED
    BY <1>0, <2>1 DEF Others, Target
<1>2. CASE Launch(r)
  <2>1. PICK e \in Engines :
          /\ Free(e) /\ wk' = [wk EXCEPT ![r].on = e] /\ Goto(r, "launching") /\ pc[r] = "patched"
          /\ child' = [child EXCEPT ![e] = "launching"] /\ alive' = [alive EXCEPT ![e] = TRUE]
          /\ policy' = [policy EXCEPT ![e] = settings.visual] /\ settings.enabled
          /\ running' = [running EXCEPT ![e] = FALSE] /\ active' = [active EXCEPT ![e] = FALSE]
          /\ sink' = [sink EXCEPT ![e] = FALSE] /\ listening' = [listening EXCEPT ![e] = FALSE]
          /\ remembers' = [remembers EXCEPT ![e] = FALSE]
          /\ UNCHANGED <<answer, service, thread, commands, lines, counters>>
    <3>1. (CHOOSE x \in Engines : Free(x)) \in Engines /\ Free(CHOOSE x \in Engines : Free(x))
      BY <1>2 DEF Launch
    <3> QED
      BY <1>2, <3>1 DEF Launch
  <2>2. wk'[r].on = e /\ pc'[r] = "launching"
    BY ZenonT(60), <1>0, <2>1, TakesOn, GotoMoves DEF PCs
  <2>3. Launched(r, e)
    BY <2>1, <2>2 DEF Launched
  <2> QED
    BY <1>0, <1>1, <2>3
<1>3. CASE LaunchFails(r)
  <2>1. /\ wk[r].on \in Engines /\ pc[r] = "launching" /\ Kill(wk[r].on) /\ GiveUp(r)
        /\ UNCHANGED <<answer, discipline, engine, state, sink, listening, bounds>>
    BY <1>0, <1>3 DEF LaunchFails, Role, Making
  <2>2. upsets \subseteq upsets' /\ (upsets' = upsets \/ "unrestored" \in upsets') /\ pc'[r] = "idle"
    BY <1>0, <2>1, EndMoves DEF GiveUp
  <2> QED
    BY <1>0, <1>1, <2>1, <2>2 DEF Unlaunched
<1>4. CASE LaunchReady(r)
  <2>1. wk[r].on \in Engines /\ Goto(r, "snapshot")
    BY <1>0, <1>4 DEF LaunchReady, Role, Making
  <2>2. pc'[r] = "snapshot"
    BY <1>0, <2>1, GotoMoves DEF PCs
  <2> QED
    BY <1>0, <1>1, <1>4, <2>1, <2>2 DEF LaunchReady, IsUp
<1>5. CASE Exited(r)
  <2>1. wk[r].on \in Engines /\ Goto(r, "applying")
    BY <1>0, <1>5 DEF Exited, Role, Ending
  <2>2. pc'[r] = "applying"
    BY <1>0, <2>1, GotoMoves DEF PCs
  <2>3. answer' = [a \in Actors |->
          IF a = r THEN "none"
          ELSE IF Target(a) = wk[r].on /\ answer[a] = "waiting" THEN "failed" ELSE answer[a]]
    BY <1>5 DEF Exited
  <2>4. answer'[r] = "none" /\ \A b \in Actors : b # r =>
          answer'[b] = IF Target(b) = wk[r].on /\ Waiting(b) THEN "failed" ELSE answer[b]
    BY <1>0, <2>3 DEF Waiting
  <2> QED
    BY <1>0, <1>1, <1>5, <2>1, <2>2, <2>4 DEF Exited, IsDown
<1> QED
  BY <1>2, <1>3, <1>4, <1>5

\* by a process that comes or goes, with all that is owed by it,
LEMMA ProcessPipes ==
  ASSUME Crew, Shape, Roles, Pipes, NEW r \in Requests,
         Launch(r) \/ LaunchFails(r) \/ LaunchReady(r) \/ Exited(r)
  PROVE  Pipes'
<1> USE DEF service, state, provider, watcher, actors, counters, bounds
<1>0. /\ \A b \in Actors : b # r => pc'[b] = pc[b] /\ (Target(b))' = Target(b)
      /\ Target(r) = wk[r].on
      /\ \/ \E e \in Engines : Launched(r, e)
         \/ wk[r].on \in Engines /\ Unlaunched(r, wk[r].on)
         \/ wk[r].on \in Engines /\ IsUp(r, wk[r].on)
         \/ wk[r].on \in Engines /\ IsDown(r, wk[r].on)
  BY ProcessDigest
<1>1. Waits /\ r \in Actors
  BY DEF Crew, Actors
<1>2. ASSUME pc[r] \notin Awaiting, UNCHANGED <<answer, commands, lines, upsets>>
      PROVE  Pipes'
  <2>1. ~Waiting(r)
    BY <1>1, <1>2 DEF Waits
  <2>2. \A x \in Engines : Patient(x)
    BY <1>0, <1>2, <2>1 DEF Patient, Waiting
  <2> QED
    BY <1>2, <2>2, PatientPipe DEF Pipes
<1>3. CASE \E e \in Engines : Launched(r, e)
  BY <1>2, <1>3 DEF Launched, Awaiting, Starting, Stopping
<1>4. CASE wk[r].on \in Engines /\ IsUp(r, wk[r].on)
  BY <1>2, <1>4 DEF IsUp, Awaiting, Starting, Stopping
<1>5. CASE wk[r].on \in Engines /\ Unlaunched(r, wk[r].on)
  <2>1. ~Waiting(r) /\ answer' = answer
    BY <1>1, <1>5 DEF Waits, Unlaunched, Awaiting, Starting, Stopping
  <2>2. \A x \in Engines : Patient(x)
    BY <1>0, <2>1 DEF Patient, Waiting
  <2> QED
    BY <1>5, <2>2, KillingPipes DEF Unlaunched
<1>6. CASE wk[r].on \in Engines /\ IsDown(r, wk[r].on)
  <2>1. \A x \in Engines : x # wk[r].on => Patient(x)
    BY <1>0, <1>6 DEF Patient, Waiting, IsDown
  <2> QED
    BY <1>6, <2>1, KillingPipes DEF IsDown
<1> QED
  BY <1>0, <1>3, <1>4, <1>5, <1>6

\* by the watcher: it owes the answer it writes,
LEMMA WatcherPipes ==
  ASSUME Crew, Shape, Roles, Pipes, NEW e \in Engines, WatcherStep(e)
  PROVE  Pipes'
<1> USE DEF service, state, provider, watcher, actors, counters, bounds
<1>0. Typed
  BY DEF Crew
<1>1. CASE WatcherExits(e)
  <2>1. Kill(e) /\ Reject(e) /\ upsets \subseteq upsets' /\ UNCHANGED <<pc, wk>>
    BY <1>1 DEF WatcherExits
  <2>2. \A x \in Engines : x # e => Patient(x)
    BY <2>1 DEF Patient, Waiting, Reject, Target
  <2> QED
    BY <2>1, <2>2, KillingPipes
<1>2. CASE WatcherStarts(e) \/ WatcherStops(e) \/ CaptureFails(e) \/ Frame(e)
  <2> SUFFICES ASSUME "timeout" \notin upsets', NEW x \in Engines
               PROVE  Pipe(x)'
    BY DEF Pipes
  <2>1. /\ UNCHANGED <<pc, wk, answer>> /\ upsets \subseteq upsets'
        /\ \A y \in Engines : y # e => commands'[y] = commands[y] /\ lines'[y] = lines[y]
    BY <1>2, WatcherCrew
  <2>2. Pipe(x) /\ Pipe(e) /\ Patient(x) /\ Patient(e)
    BY <2>1 DEF Pipes, Patient, Waiting, Target
  <2>3. CASE x # e
    BY <2>1, <2>2, <2>3, PatientPipe
  <2>4. CASE x = e /\ (WatcherStarts(e) \/ WatcherStops(e))
    <3>1. /\ commands[e] # <<>> /\ commands' = [commands EXCEPT ![e] = Tail(@)]
          /\ commands[e] \in Seq(Commands)
      BY <1>0, <2>4 DEF WatcherStarts, WatcherStops, Typed
    <3>2. /\ commands'[e] = Tail(commands[e]) /\ Head(commands[e]) \in Commands
          /\ Head(commands[e]) = commands[e][1] /\ 1 \in DOMAIN commands[e]
      BY <1>0, <3>1, TailAt DEF Typed
    <3>3. PICK c \in Commands : c = Head(commands[e])
      BY <3>2
    <3>4. c.by # None
      BY <2>2, <3>2, <3>3 DEF Pipe, Asked, Actors
    <3>5. PICK what \in Seq(Lines) : Say(e, what) /\ Answers1(what, c.by)
      BY <1>0, <2>4, <3>3, <3>4, WatcherWords
    <3>6. lines'[e] = lines[e] \o what
      BY <1>0, <3>5, SaidTyped
    <3> QED
      BY <1>0, <2>2, <2>4, <3>1, <3>2, <3>3, <3>5, <3>6, AnsweredPipe
  <2>5. CASE x = e /\ (CaptureFails(e) \/ Frame(e))
    <3>1. PICK s \in {"failed", "frame"} : Say(e, <<Line(s)>>) /\ commands' = commands
      BY <2>5 DEF CaptureFails, Frame
    <3>2. /\ Line(s) \in Lines /\ Line(s).line = s /\ <<Line(s)>> \in Seq(Lines)
      BY DEF Line, Lines
    <3>3. lines'[e] = lines[e] \o <<Line(s)>> /\ ~IsAnswer(Line(s))
      BY <1>0, <3>1, <3>2, SaidTyped DEF IsAnswer
    <3> QED
      BY <1>0, <2>2, <2>5, <3>1, <3>2, <3>3, SaidPipe
  <2> QED
    BY <1>2, <2>3, <2>4, <2>5
<1> QED
  BY <1>1, <1>2 DEF WatcherStep

\* and so by every step.
LEMMA PipesStep ==
  ASSUME Crew, Shape, Roles, Pipes, [Next]_vars
  PROVE  Pipes'
<1>0. Typed /\ Waits /\ \A q \in Requests : q \in Actors
  BY DEF Crew, Actors
<1>1. ASSUME NEW r \in Requests, RequestStep(r)
      PROVE  Pipes'
  BY <1>0, <1>1, RequestDigest, ThinkingPipes, SendingPipes, ProcessPipes
<1>2. ASSUME NEW r \in Requests, NEW body \in Bodies, Patch(r, body)
      PROVE  Pipes'
  BY <1>0, <1>2, PatchDigest, ThinkingPipes
<1>3. ASSUME NEW e \in Engines, RetuneStep(e)
      PROVE  Pipes'
  BY <1>0, <1>3, RetuneDigest, ThinkingPipes, SendingPipes DEF Actors
<1>4. ASSUME NEW r \in Requests, Restart(r)
      PROVE  Pipes'
  <2>1. \A e \in Engines : commands'[e] = <<>> /\ lines'[e] = <<>>
    BY <1>4 DEF Restart, Empty
  <2> QED
    BY <2>1, EmptyPipe DEF Pipes
<1>5. CASE UNCHANGED vars
  <2>1. UNCHANGED <<pc, wk, answer, commands, lines, upsets>>
    BY <1>5 DEF vars, watcher, actors, counters
  <2>2. \A e \in Engines : Patient(e)
    BY <2>1 DEF Patient, Waiting, Target
  <2> QED
    BY <2>1, <2>2, PatientPipe DEF Pipes
<1>6. ASSUME NEW a \in Actors, CommandTimesOut(a)
      PROVE  Pipes'
  BY <1>6, TimeoutCrew DEF Pipes
<1> QED
  BY <1>1, <1>2, <1>3, <1>4, <1>5, <1>6, WatcherPipes, ReadingPipes DEF Next

-----------------------------------------------------------------------------
(* The stream, as long as nothing went wrong but capture itself *)

\* Somebody waits for news of e, or has some, that says capture runs.
Ack(l) == IsAnswer(l) /\ l.ok /\ pc[l.by] \in Starting
Says(e, s) == \E i \in DOMAIN lines[e] : lines[e][i].line = s
Claimed(e) ==
  \/ active[e] \/ Says(e, "capturing") \/ \E i \in DOMAIN lines[e] : Ack(lines[e][i])
  \/ \E a \in Actors : Target(a) = e /\ pc[a] \in Starting /\ answer[a] = "ok"
\* News that says it ended is on its way.
Over(e) == Says(e, "failed") \/ Says(e, "stopped")

\* Whoever believes that capture runs is right, unless he is about to be told better;
\* its frames have a sink, unless somebody asks for a change.
Unasked(e) == \A i \in DOMAIN commands[e] : commands[e][i].cmd \notin {"start", "stop"}
Believed(e) == Claimed(e) /\ ~Over(e) => thread[e] /\ (Unasked(e) => sink[e])

\* Who asked last for a start set the sink.
LastStart(e, i) ==
  /\ commands[e][i].cmd = "start"
  /\ \A j \in DOMAIN commands[e] : i < j => commands[e][j].cmd # "stop"
Wanted(e) == \A i \in DOMAIN commands[e] : LastStart(e, i) => sink[e]

\* The thread's word and the answer that goes with it are neighbours.
LastWord(l) == IsAnswer(l) /\ IF pc[l.by] \in Starting THEN ~l.ok ELSE pc[l.by] \in Stopping
Spelled(e) ==
  \A i \in DOMAIN lines[e] :
    /\ lines[e][i].line = "stopped" => i + 1 \in DOMAIN lines[e] /\ LastWord(lines[e][i + 1])
    /\ lines[e][i].line = "capturing" =>
         \/ i = 1
         \/ i + 1 \in DOMAIN lines[e] /\ Ack(lines[e][i + 1])
         \/ i - 1 \in DOMAIN lines[e] /\ Ack(lines[e][i - 1])

Watched(e) ==
  running[e] /\ upsets \subseteq {"failure"} /\ \A a \in Actors : Target(a) = e => pc[a] # "exiting"
Stream(e) == Watched(e) => Believed(e) /\ Wanted(e) /\ Spelled(e)
Streams == \A e \in Engines : Stream(e)

\* Whose answer is in the pipe stays where he is.
Lasting(e) ==
  \A i \in DOMAIN lines[e] : IsAnswer(lines[e][i]) => pc'[lines[e][i].by] = pc[lines[e][i].by]

\* Nothing new says that capture runs.
LEMMA NoNewClaim ==
  ASSUME NEW e \in Engines, Lasting(e), active'[e] => Claimed(e),
         \A i \in DOMAIN lines'[e] :
           \/ \E j \in DOMAIN lines[e] : lines'[e][i] = lines[e][j]
           \/ lines'[e][i].line # "capturing" /\ ~Ack(lines[e][i])',
         \A a \in Actors :
           Target(a)' = e /\ pc'[a] \in Starting /\ answer'[a] = "ok" => Claimed(e)
  PROVE  Claimed(e)' => Claimed(e)
<1>1. ASSUME NEW i \in DOMAIN lines'[e], lines'[e][i].line = "capturing"
      PROVE  Claimed(e)
  BY <1>1 DEF Claimed, Says
<1>2. ASSUME NEW i \in DOMAIN lines'[e], Ack(lines[e][i])'
      PROVE  Claimed(e)
  <2>1. PICK j \in DOMAIN lines[e] : lines'[e][i] = lines[e][j]
    BY <1>2
  <2>2. Ack(lines[e][j])
    BY <1>2, <2>1 DEF Ack, IsAnswer, Lasting
  <2> QED
    BY <2>2 DEF Claimed
<1> QED
  BY <1>1, <1>2 DEF Claimed, Says

\* What the pipe spells stays so while what it answers is awaited.
LEMMA SpelledKept ==
  ASSUME NEW e \in Engines, Spelled(e), Lasting(e), lines'[e] = lines[e]
  PROVE  Spelled(e)'
<1>1. ASSUME NEW k \in DOMAIN lines[e]
      PROVE  /\ Ack(lines[e][k]) => Ack(lines[e][k])'
             /\ LastWord(lines[e][k]) => LastWord(lines[e][k])'
  BY <1>1 DEF Ack, LastWord, IsAnswer, Lasting
<1> QED
  BY <1>1 DEF Spelled

\* A step that neither writes nor reads the pipes of an engine and does not claim it captures.
LEMMA SteadyStream ==
  ASSUME NEW e \in Engines, Stream(e), Watched(e)' => Watched(e), Lasting(e),
         active'[e] => Claimed(e),
         thread'[e] = thread[e], sink'[e] = sink[e], commands'[e] = commands[e], lines'[e] = lines[e],
         \A a \in Actors :
           Target(a)' = e /\ pc'[a] \in Starting /\ answer'[a] = "ok" => Claimed(e)
  PROVE  Stream(e)'
<1> SUFFICES ASSUME Watched(e)'
             PROVE  Believed(e)' /\ Wanted(e)' /\ Spelled(e)'
  BY DEF Stream
<1>1. Believed(e) /\ Wanted(e) /\ Spelled(e)
  BY DEF Stream
<1>2. Claimed(e)' => Claimed(e)
  BY NoNewClaim
<1>3. Believed(e)'
  BY <1>1, <1>2 DEF Believed, Over, Says, Unasked
<1>4. Wanted(e)'
  BY <1>1 DEF Wanted, LastStart
<1>5. Spelled(e)'
  BY <1>1, SpelledKept
<1> QED
  BY <1>3, <1>4, <1>5

\* The first line is read.
LEMMA SpelledTail ==
  ASSUME Typed, NEW e \in Engines, Spelled(e), Lasting(e), lines[e] # <<>>, lines'[e] = Tail(lines[e])
  PROVE  Spelled(e)'
<1>1. /\ Len(lines[e]) \in Nat \ {0} /\ DOMAIN lines[e] = 1 .. Len(lines[e])
      /\ DOMAIN lines'[e] = 1 .. Len(lines[e]) - 1
      /\ \A i \in DOMAIN lines'[e] : i + 1 \in DOMAIN lines[e] /\ lines'[e][i] = lines[e][i + 1]
  BY TailAt DEF Typed
<1>2. ASSUME NEW k \in DOMAIN lines'[e]
      PROVE  /\ Ack(lines[e][k + 1]) => Ack(lines[e][k])'
             /\ LastWord(lines[e][k + 1]) => LastWord(lines[e][k])'
  BY <1>1, <1>2 DEF Ack, LastWord, IsAnswer, Lasting
<1>3. ASSUME NEW i \in DOMAIN lines'[e], lines'[e][i].line = "stopped"
      PROVE  i + 1 \in DOMAIN lines'[e] /\ LastWord(lines[e][i + 1])'
  <2>1. i + 1 \in DOMAIN lines[e] /\ i + 1 + 1 \in DOMAIN lines[e] /\ LastWord(lines[e][i + 1 + 1])
    BY <1>1, <1>3 DEF Spelled
  <2> QED
    BY <1>1, <1>2, <2>1
<1>4. ASSUME NEW i \in DOMAIN lines'[e], lines'[e][i].line = "capturing"
      PROVE  \/ i = 1
             \/ i + 1 \in DOMAIN lines'[e] /\ Ack(lines[e][i + 1])'
             \/ i - 1 \in DOMAIN lines'[e] /\ Ack(lines[e][i - 1])'
  <2>1. i + 1 \in DOMAIN lines[e] /\ lines[e][i + 1].line = "capturing"
    BY <1>1, <1>4
  <2>2. CASE i + 1 + 1 \in DOMAIN lines[e] /\ Ack(lines[e][i + 1 + 1])
    BY SMTT(30), <1>1, <1>2, <2>1, <2>2
  <2>3. CASE i + 1 - 1 \in DOMAIN lines[e] /\ Ack(lines[e][i + 1 - 1]) /\ i # 1
    <3>1. i - 1 \in DOMAIN lines'[e] /\ i - 1 + 1 = i /\ i + 1 - 1 = i
      BY <1>1, <2>3
    <3> QED
      BY <1>2, <2>3, <3>1
  <2>4. i + 1 # 1
    BY <1>1
  <2>5. \/ i + 1 + 1 \in DOMAIN lines[e] /\ Ack(lines[e][i + 1 + 1])
        \/ i + 1 - 1 \in DOMAIN lines[e] /\ Ack(lines[e][i + 1 - 1])
    BY <2>1, <2>4 DEF Spelled
  <2> QED
    BY <2>2, <2>3, <2>5
<1> QED
  BY <1>3, <1>4 DEF Spelled

\* Something is said, the thread's word next to an answer.
LEMMA SpelledJoined ==
  ASSUME Typed, NEW e \in Engines, Spelled(e), pc' = pc, NEW what \in Seq(Lines),
         lines'[e] = lines[e] \o what,
         \A i \in DOMAIN what :
           /\ what[i].line = "stopped" => i + 1 \in DOMAIN what /\ LastWord(what[i + 1])
           /\ what[i].line = "capturing" =>
                \/ i + 1 \in DOMAIN what /\ Ack(what[i + 1])
                \/ i - 1 \in DOMAIN what /\ Ack(what[i - 1])
  PROVE  Spelled(e)'
<1> DEFINE n == Len(lines[e])
<1>1. /\ n \in Nat /\ DOMAIN lines[e] = 1 .. n /\ DOMAIN what = 1 .. Len(what) /\ Len(what) \in Nat
      /\ DOMAIN lines'[e] = 1 .. n + Len(what)
      /\ \A i \in DOMAIN lines[e] : lines'[e][i] = lines[e][i]
      /\ \A i \in DOMAIN what : lines'[e][n + i] = what[i]
  BY JoinedAt DEF Typed
<1> HIDE DEF n
<1>5. \A i \in DOMAIN what : i \in Int /\ n \in Int /\ n + i \in DOMAIN lines'[e]
  BY <1>1
<1>2. ASSUME NEW l, NEW k, l = lines'[e][k]
      PROVE  (Ack(l) => Ack(lines[e][k])') /\ (LastWord(l) => LastWord(lines[e][k])')
  BY <1>2 DEF Ack, LastWord, IsAnswer
<1>3. ASSUME NEW i \in DOMAIN lines'[e], lines'[e][i].line = "stopped"
      PROVE  i + 1 \in DOMAIN lines'[e] /\ LastWord(lines[e][i + 1])'
  <2>1. CASE i \in DOMAIN lines[e]
    <3>1. i + 1 \in DOMAIN lines[e] /\ LastWord(lines[e][i + 1])
      BY <1>1, <1>3, <2>1 DEF Spelled
    <3>2. i + 1 \in DOMAIN lines'[e] /\ lines'[e][i + 1] = lines[e][i + 1]
      BY <1>1, <3>1
    <3> QED
      BY <1>2, <3>1, <3>2
  <2>2. CASE i \notin DOMAIN lines[e]
    <3>1. PICK k \in DOMAIN what : i = n + k
      <4>1. i - n \in DOMAIN what /\ i = n + (i - n)
        BY <1>1, <2>2
      <4> QED
        BY <4>1
    <3>2. k + 1 \in DOMAIN what /\ LastWord(what[k + 1])
      BY <1>1, <1>3, <3>1
    <3>3. i + 1 \in DOMAIN lines'[e] /\ lines'[e][i + 1] = what[k + 1]
      <4>1. i + 1 = n + (k + 1) /\ n + (k + 1) \in DOMAIN lines'[e]
        BY SMTT(30), <1>5, <3>1, <3>2
      <4>2. lines'[e][n + (k + 1)] = what[k + 1]
        BY <1>1, <3>2
      <4> QED
        BY <4>1, <4>2
    <3> QED
      BY <1>2, <3>2, <3>3
  <2> QED
    BY <2>1, <2>2
<1>4. ASSUME NEW i \in DOMAIN lines'[e], lines'[e][i].line = "capturing"
      PROVE  \/ i = 1
             \/ i + 1 \in DOMAIN lines'[e] /\ Ack(lines[e][i + 1])'
             \/ i - 1 \in DOMAIN lines'[e] /\ Ack(lines[e][i - 1])'
  <2>1. CASE i \in DOMAIN lines[e]
    <3>1. \/ i = 1
          \/ i + 1 \in DOMAIN lines[e] /\ Ack(lines[e][i + 1])
          \/ i - 1 \in DOMAIN lines[e] /\ Ack(lines[e][i - 1])
      BY <1>1, <1>4, <2>1 DEF Spelled
    <3>2. /\ i + 1 \in DOMAIN lines[e] => i + 1 \in DOMAIN lines'[e] /\ lines'[e][i + 1] = lines[e][i + 1]
          /\ i - 1 \in DOMAIN lines[e] => i - 1 \in DOMAIN lines'[e] /\ lines'[e][i - 1] = lines[e][i - 1]
      BY SMTT(30), <1>1
    <3> QED
      BY <1>2, <3>1, <3>2
  <2>2. CASE i \notin DOMAIN lines[e]
    <3>1. PICK k \in DOMAIN what : i = n + k
      <4>1. i - n \in DOMAIN what /\ i = n + (i - n)
        BY <1>1, <2>2
      <4> QED
        BY <4>1
    <3>2. \/ k + 1 \in DOMAIN what /\ Ack(what[k + 1])
          \/ k - 1 \in DOMAIN what /\ Ack(what[k - 1])
      BY <1>1, <1>4, <3>1
    <3>3. CASE k + 1 \in DOMAIN what /\ Ack(what[k + 1])
      <4>1. i + 1 = n + (k + 1) /\ n + (k + 1) \in DOMAIN lines'[e]
        BY SMTT(30), <1>5, <3>1, <3>3
      <4>2. lines'[e][n + (k + 1)] = what[k + 1]
        BY <1>1, <3>3
      <4>3. i + 1 \in DOMAIN lines'[e] /\ lines'[e][i + 1] = what[k + 1]
        BY <4>1, <4>2
      <4> QED
        BY <1>2, <3>3, <4>3
    <3>4. CASE k - 1 \in DOMAIN what /\ Ack(what[k - 1])
      <4>1. i - 1 = n + (k - 1) /\ n + (k - 1) \in DOMAIN lines'[e]
        BY SMTT(30), <1>5, <3>1, <3>4
      <4>2. lines'[e][n + (k - 1)] = what[k - 1]
        BY <1>1, <3>4
      <4>3. i - 1 \in DOMAIN lines'[e] /\ lines'[e][i - 1] = what[k - 1]
        BY <4>1, <4>2
      <4> QED
        BY <1>2, <3>4, <4>3
    <3> QED
      BY <3>2, <3>3, <3>4
  <2> QED
    BY <2>1, <2>2
<1> QED
  BY <1>3, <1>4 DEF Spelled

\* Who waits and stays where he is keeps the meaning of his answer.
LEMMA LastingAnswers ==
  ASSUME NEW e \in Engines, Pipe(e), \A b \in Actors : Waiting(b) /\ Target(b) = e => pc'[b] = pc[b]
  PROVE  Lasting(e)
  BY DEF Lasting, Pipe, Owed

\* Streams is kept by who only thinks,
LEMMA ThinkingStream ==
  ASSUME Crew, Pipes, Streams, NEW a \in Actors, Thinks(a)
  PROVE  Streams'
<1> SUFFICES ASSUME NEW e \in Engines, Watched(e)'
             PROVE  Stream(e)'
  BY DEF Streams, Stream
<1>1. /\ Alone(a) /\ pc[a] # "exiting" /\ pc'[a] \notin Awaiting /\ ~Waiting(a) /\ upsets \subseteq upsets'
      /\ UNCHANGED <<running, sink, thread, commands, lines>>
  BY DEF Thinks, Ticks, watcher, Waiting
<1>2. Watched(e)
  BY <1>1 DEF Watched, Alone
<1>3. Stream(e) /\ Pipe(e)
  BY <1>2 DEF Streams, Watched, Pipes
<1>4. Lasting(e)
  BY <1>1, <1>3, LastingAnswers DEF Alone
<1>5. active'[e] => Claimed(e)
  <2>1. CASE UNCHANGED active
    BY <2>1 DEF Claimed
  <2>2. CASE /\ pc[a] \in Starting
             /\ active' = [active EXCEPT ![Target(a)] = @ \/ answer[a] = "ok"]
    <3>1. active'[e] => active[e] \/ (Target(a) = e /\ answer[a] = "ok")
      BY <2>2 DEF Crew, Typed
    <3> QED
      BY <2>2, <3>1 DEF Claimed
  <2> QED
    BY <2>1, <2>2 DEF Thinks, Notes, Starting
<1>6. \A b \in Actors :
        Target(b)' = e /\ pc'[b] \in Starting /\ answer'[b] = "ok" => Claimed(e)
  BY <1>1 DEF Alone, Awaiting, Claimed
<1> QED
  BY <1>1, <1>2, <1>3, <1>4, <1>5, <1>6, SteadyStream

\* Who asks for a change, with the sink set to suit.
LEMMA AskedLast ==
  ASSUME Typed, NEW e \in Engines, NEW c \in Commands, c.cmd \in {"start", "stop"},
         commands'[e] = Append(commands[e], c), c.cmd = "start" => sink'[e]
  PROVE  ~Unasked(e)' /\ Wanted(e)'
<1>1. /\ DOMAIN commands'[e] = 1 .. Len(commands[e]) + 1 /\ Len(commands[e]) \in Nat
      /\ commands'[e][Len(commands[e]) + 1] = c
  BY AppendedAt DEF Typed
<1>2. Len(commands[e]) + 1 \in DOMAIN commands'[e]
  BY <1>1
<1>3. ASSUME c.cmd = "start"
      PROVE  Wanted(e)'
  BY <1>3 DEF Wanted
<1>4. ASSUME c.cmd = "stop"
      PROVE  Wanted(e)'
  <2>1. ASSUME NEW i \in DOMAIN commands'[e], commands'[e][i].cmd = "start"
        PROVE  i < Len(commands[e]) + 1
    <3>1. i # Len(commands[e]) + 1
      BY <1>1, <1>4, <2>1
    <3> QED
      BY <1>1, <3>1
  <2> SUFFICES ASSUME NEW i \in DOMAIN commands'[e], commands'[e][i].cmd = "start",
                      \A j \in DOMAIN commands'[e] : i < j => commands'[e][j].cmd # "stop"
               PROVE  FALSE
    BY DEF Wanted, LastStart
  <2> QED
    BY <1>1, <1>2, <1>4, <2>1
<1>5. ~Unasked(e)'
  BY <1>1, <1>2 DEF Unasked
<1> QED
  BY <1>3, <1>4, <1>5

\* by who sends: a start opens the sink, a stop or an exit shuts it,
LEMMA SendingStream ==
  ASSUME Crew, Pipes, Streams, NEW a \in Actors, NEW e \in Engines,
         NEW cmd \in {"start", "stop", "exit"}, Sends(a, e, cmd)
  PROVE  Streams'
<1> SUFFICES ASSUME NEW x \in Engines, Watched(x)'
             PROVE  Stream(x)'
  BY DEF Streams, Stream
<1> DEFINE c == [cmd |-> cmd, by |-> a]
<1>0. /\ Typed /\ Process(e) /\ c \in Commands /\ c.cmd = cmd
  BY DEF Crew, Commands
<1>1. /\ Alone(a) /\ pc[a] # "exiting" /\ pc'[a] \in Asks(cmd) /\ ~Waiting(a) /\ upsets \subseteq upsets'
      /\ pc[a] \in Awaiting => Target(a) = e
      /\ Target(a)' = e /\ UNCHANGED <<running, thread, lines>>
      /\ sink' = IF cmd = "exit" THEN sink ELSE [sink EXCEPT ![e] = (cmd = "start")]
      /\ active' = active \/ active' = [active EXCEPT ![e] = FALSE]
      /\ commands' = IF child[e] = "none" THEN commands ELSE [commands EXCEPT ![e] = Append(@, c)]
      /\ answer'[a] # "ok"
  BY <1>0 DEF Sends, Send, Ticks, Waiting, Typed
<1> HIDE DEF c
<1>2. Watched(x)
  BY <1>1 DEF Watched, Alone
<1>3. Stream(x) /\ Pipe(x)
  BY <1>2 DEF Streams, Watched, Pipes
<1>4. Lasting(x)
  BY <1>1, <1>3, LastingAnswers DEF Alone
<1>5. active'[x] => Claimed(x)
  BY <1>0, <1>1 DEF Typed, Claimed
<1>6. \A b \in Actors :
        Target(b)' = x /\ pc'[b] \in Starting /\ answer'[b] = "ok" => Claimed(x)
  BY <1>1 DEF Alone, Claimed
<1>7. CASE x # e
  <2>1. sink'[x] = sink[x] /\ commands'[x] = commands[x]
    BY <1>0, <1>1, <1>7 DEF Typed
  <2> QED
    BY <1>1, <1>2, <1>3, <1>4, <1>5, <1>6, <2>1, SteadyStream
<1>8. CASE x = e
  <2>1. cmd # "exit"
    BY <1>1, <1>8 DEF Watched, Asks
  <2>2. child[e] # "none"
    BY <1>0, <1>2, <1>8 DEF Process, Watched
  <2>3. commands'[e] = Append(commands[e], c) /\ sink'[e] = (cmd = "start")
    BY <1>0, <1>1, <2>1, <2>2 DEF Typed
  <2>4. ~Unasked(e)' /\ Wanted(e)'
    BY <1>0, <2>1, <2>3, AskedLast
  <2>6. Claimed(e)' => Claimed(e)
    BY <1>1, <1>4, <1>5, <1>6, <1>8, NoNewClaim
  <2>7. Believed(e)'
    BY <1>1, <1>2, <1>3, <1>8, <2>4, <2>6 DEF Stream, Believed, Over, Says
  <2>9. Spelled(e)'
    BY <1>1, <1>2, <1>3, <1>4, <1>8, SpelledKept DEF Stream
  <2> QED
    BY <1>8, <2>4, <2>7, <2>9 DEF Stream
<1> QED
  BY <1>7, <1>8

\* by a process that comes or goes,
LEMMA ProcessStream ==
  ASSUME Crew, Shape, Roles, Pipes, Streams, NEW r \in Requests,
         Launch(r) \/ LaunchFails(r) \/ LaunchReady(r) \/ Exited(r)
  PROVE  Streams'
<1> USE DEF service, state, provider, watcher, actors, counters, bounds
<1> SUFFICES ASSUME NEW x \in Engines, Watched(x)'
             PROVE  Stream(x)'
  BY DEF Streams, Stream
<1>0. /\ \A b \in Actors : b # r => pc'[b] = pc[b] /\ (Target(b))' = Target(b)
      /\ Target(r) = wk[r].on /\ Target(r)' = wk'[r].on
      /\ \/ \E e \in Engines : Launched(r, e)
         \/ wk[r].on \in Engines /\ Unlaunched(r, wk[r].on)
         \/ wk[r].on \in Engines /\ IsUp(r, wk[r].on)
         \/ wk[r].on \in Engines /\ IsDown(r, wk[r].on)
  BY ProcessDigest
<1>1. Typed /\ Waits /\ Launching /\ r \in Actors
  BY DEF Crew, Actors
<1>2. ASSUME ~Waiting(r), running'[x] = running[x], upsets \subseteq upsets',
             Target(r) = x => pc[r] # "exiting",
             pc'[r] \notin Starting, \A b \in Actors : answer'[b] = "ok" => answer[b] = "ok",
             active'[x] = active[x], thread'[x] = thread[x], sink'[x] = sink[x],
             commands'[x] = commands[x], lines'[x] = lines[x]
      PROVE  Stream(x)'
  <2>1. Watched(x)
    BY <1>0, <1>1, <1>2 DEF Watched
  <2>2. Stream(x) /\ Pipe(x)
    BY <2>1 DEF Streams, Watched, Pipes
  <2>3. Lasting(x)
    BY <1>0, <1>2, <2>2, LastingAnswers
  <2>4. active'[x] => Claimed(x)
    BY <1>2 DEF Claimed
  <2>5. \A b \in Actors :
          Target(b)' = x /\ pc'[b] \in Starting /\ answer'[b] = "ok" => Claimed(x)
    BY <1>0, <1>2 DEF Claimed
  <2> QED
    BY <1>2, <2>1, <2>2, <2>3, <2>4, <2>5, SteadyStream
<1>3. ASSUME NEW e \in Engines, Launched(r, e)
      PROVE  Stream(x)'
  <2>1. x # e
    BY <1>1, <1>3 DEF Launched, Watched, Shape
  <2>2. /\ pc[r] = "patched" /\ pc'[r] = "launching" /\ answer' = answer /\ upsets' = upsets
        /\ ~Waiting(r)
    BY <1>1, <1>3 DEF Launched, Waits, Awaiting, Starting, Stopping
  <2>3. /\ running'[x] = running[x] /\ active'[x] = active[x] /\ sink'[x] = sink[x]
        /\ UNCHANGED <<thread, commands, lines>>
    BY <1>1, <1>3, <2>1 DEF Launched, Typed, Shape
  <2> QED
    BY <1>2, <2>2, <2>3 DEF Starting
<1>4. ASSUME NEW e \in Engines, e = wk[r].on, Unlaunched(r, e)
      PROVE  Stream(x)'
  <2>1. running' = running /\ x # e
    BY <1>0, <1>1, <1>4 DEF Unlaunched, Watched, Launching, Untouched
  <2>2. /\ pc[r] = "launching" /\ pc'[r] = "idle" /\ answer' = answer /\ upsets \subseteq upsets'
        /\ ~Waiting(r) /\ UNCHANGED <<active, sink>> /\ Kill(e)
    BY <1>1, <1>4 DEF Unlaunched, Waits, Awaiting, Starting, Stopping
  <2>3. thread'[x] = thread[x] /\ commands'[x] = commands[x] /\ lines'[x] = lines[x]
    BY <1>1, <2>1, <2>2, KillTyped
  <2> QED
    BY <1>2, <2>1, <2>2, <2>3 DEF Starting
<1>5. ASSUME NEW e \in Engines, e = wk[r].on, IsDown(r, e)
      PROVE  Stream(x)'
  <2>1. x # e
    BY <1>5 DEF IsDown, Watched, Shape
  <2>2. /\ pc[r] = "exiting" /\ pc'[r] = "applying" /\ Kill(e) /\ upsets' = upsets /\ ~Waiting(r)
        /\ Target(r) # x /\ UNCHANGED active /\ \A b \in Actors : answer'[b] = "ok" => answer[b] = "ok"
        /\ running'[x] = running[x] /\ sink'[x] = sink[x]
    BY <1>0, <1>1, <1>5, <2>1 DEF IsDown, Answered, Waiting, Shape, Typed
  <2>3. thread'[x] = thread[x] /\ commands'[x] = commands[x] /\ lines'[x] = lines[x]
    BY <1>1, <2>1, <2>2, KillTyped
  <2> QED
    BY <1>2, <2>1, <2>2, <2>3 DEF Starting
<1>6. ASSUME NEW e \in Engines, e = wk[r].on, IsUp(r, e)
      PROVE  Stream(x)'
  <2>1. /\ pc[r] = "launching" /\ pc'[r] = "snapshot" /\ ~Waiting(r)
        /\ UNCHANGED <<wk, answer, active, sink, thread, commands, lines, upsets>>
        /\ x # e => running'[x] = running[x]
    BY <1>1, <1>6 DEF IsUp, Waits, Awaiting, Starting, Stopping, Shape
  <2>2. CASE x # e
    BY <1>2, <2>1, <2>2 DEF Starting
  <2>3. CASE x = e
    <3>1. child[e] = "launching"
      BY <1>0, <1>1, <1>6, <2>1 DEF Launching
    <3>2. PICK q \in Requests : LaunchedBy(q, e)
      BY <1>1, <3>1 DEF Launching
    <3>3. Untouched(e) /\ \A a \in Actors : Target(a) = e => pc[a] = "launching" \/ Resting(a)
      BY <1>1, <3>1, <3>2 DEF Launching, LaunchedBy
    <3>4. lines'[e] = <<>> /\ commands'[e] = <<>> /\ ~active'[e]
      BY <2>1, <3>3 DEF Untouched
    <3>5. \A a \in Actors : Target(a)' = e => pc'[a] \notin Starting
      BY <1>0, <2>1, <3>3 DEF Starting, Resting
    <3>6. ~Claimed(e)'
      BY <3>4, <3>5 DEF Claimed, Says
    <3> QED
      BY <2>3, <3>4, <3>6 DEF Stream, Believed, Wanted, LastStart, Spelled
  <2> QED
    BY <2>2, <2>3
<1> QED
  BY <1>0, <1>3, <1>4, <1>5, <1>6

\* What a pipe says after more is written to it: what it said, and what was written.
LEMMA SaidWords ==
  ASSUME Typed, NEW e \in Engines, NEW what \in Seq(Lines), lines'[e] = lines[e] \o what
  PROVE  /\ \A i \in DOMAIN lines'[e] :
              \/ \E j \in DOMAIN lines[e] : lines'[e][i] = lines[e][j]
              \/ \E j \in DOMAIN what : lines'[e][i] = what[j]
         /\ \A s : Says(e, s) => Says(e, s)'
         /\ \A j \in DOMAIN what : \E i \in DOMAIN lines'[e] : lines'[e][i] = what[j]
<1>1. /\ Len(lines[e]) \in Nat /\ DOMAIN lines[e] = 1 .. Len(lines[e]) /\ Len(what) \in Nat
      /\ DOMAIN what = 1 .. Len(what)
      /\ DOMAIN lines'[e] = 1 .. Len(lines[e]) + Len(what)
      /\ \A i \in DOMAIN lines[e] : lines'[e][i] = lines[e][i]
      /\ \A i \in DOMAIN what : lines'[e][Len(lines[e]) + i] = what[i]
  BY JoinedAt DEF Typed
<1>2. ASSUME NEW i \in DOMAIN lines'[e], i \notin DOMAIN lines[e]
      PROVE  \E j \in DOMAIN what : lines'[e][i] = what[j]
  <2>1. i - Len(lines[e]) \in DOMAIN what /\ i = Len(lines[e]) + (i - Len(lines[e]))
    BY <1>1, <1>2
  <2> QED
    BY <1>1, <2>1
<1>3. ASSUME NEW j \in DOMAIN what
      PROVE  \E i \in DOMAIN lines'[e] : lines'[e][i] = what[j]
  <2>1. Len(lines[e]) + j \in DOMAIN lines'[e]
    BY <1>1, <1>3
  <2> QED
    BY <1>1, <2>1
<1>4. \A i \in DOMAIN lines[e] : i \in DOMAIN lines'[e]
  BY <1>1
<1> QED
  BY <1>1, <1>2, <1>3, <1>4 DEF Says

\* The first command is taken, and the others are as before.
LEMMA WantedTail ==
  ASSUME Typed, NEW e \in Engines, Wanted(e), commands[e] # <<>>, commands'[e] = Tail(commands[e]),
         sink'[e] = sink[e]
  PROVE  /\ Wanted(e)'
         /\ Unasked(e)' /\ Head(commands[e]).cmd = "start" => sink'[e]
<1>1. /\ Len(commands[e]) \in Nat \ {0} /\ DOMAIN commands[e] = 1 .. Len(commands[e])
      /\ DOMAIN commands'[e] = 1 .. Len(commands[e]) - 1 /\ Head(commands[e]) = commands[e][1]
      /\ \A i \in DOMAIN commands'[e] : commands'[e][i] = commands[e][i + 1]
      /\ \A i \in DOMAIN commands[e] : i # 1 =>
           i - 1 \in DOMAIN commands'[e] /\ commands'[e][i - 1] = commands[e][i]
  BY TailAt DEF Typed
<1>2. ASSUME NEW i \in DOMAIN commands'[e], commands'[e][i].cmd = "start",
             \A j \in DOMAIN commands'[e] : i < j => commands'[e][j].cmd # "stop"
      PROVE  sink'[e]
  <2>1. i + 1 \in DOMAIN commands[e] /\ commands[e][i + 1].cmd = "start"
    BY <1>1, <1>2
  <2>2. ASSUME NEW j \in DOMAIN commands[e], i + 1 < j
        PROVE  commands[e][j].cmd # "stop"
    <3>1. j # 1 /\ i < j - 1
      BY <1>1, <2>1, <2>2
    <3>2. j - 1 \in DOMAIN commands'[e] /\ commands'[e][j - 1] = commands[e][j]
      BY <1>1, <3>1
    <3> QED
      BY <1>2, <3>1, <3>2
  <2> QED
    BY <2>1, <2>2 DEF Wanted, LastStart
<1>3. ASSUME Unasked(e)', Head(commands[e]).cmd = "start"
      PROVE  sink'[e]
  <2>1. 1 \in DOMAIN commands[e] /\ commands[e][1].cmd = "start"
    BY <1>1, <1>3
  <2>2. ASSUME NEW j \in DOMAIN commands[e], 1 < j
        PROVE  commands[e][j].cmd # "stop"
    <3>1. j # 1
      BY <1>1, <2>2
    <3>2. j - 1 \in DOMAIN commands'[e] /\ commands'[e][j - 1] = commands[e][j]
      BY <1>1, <3>1
    <3> QED
      BY <1>3, <3>2 DEF Unasked
  <2> QED
    BY <2>1, <2>2 DEF Wanted, LastStart
<1> QED
  BY <1>2, <1>3 DEF Wanted, LastStart

\* A watcher that writes its word on the capture and its answer spells them in order.
LEMMA SpelledPair ==
  ASSUME Typed, NEW e \in Engines, Spelled(e), pc' = pc, NEW what \in Seq(Lines), DOMAIN what = {1, 2},
         lines'[e] = lines[e] \o what,
         what[1].line = "stopped" => LastWord(what[2]), what[2].line # "stopped",
         what[1].line = "capturing" => Ack(what[2]), what[2].line = "capturing" => Ack(what[1])
  PROVE  Spelled(e)'
<1>1. ASSUME NEW i \in DOMAIN what, what[i].line = "stopped"
      PROVE  i + 1 \in DOMAIN what /\ LastWord(what[i + 1])
  <2>1. i = 1
    BY <1>1
  <2>2. i + 1 = 2 /\ LastWord(what[2])
    BY <1>1, <2>1
  <2> QED
    BY <2>2
<1>2. ASSUME NEW i \in DOMAIN what, what[i].line = "capturing"
      PROVE  \/ i + 1 \in DOMAIN what /\ Ack(what[i + 1])
             \/ i - 1 \in DOMAIN what /\ Ack(what[i - 1])
  <2>1. CASE i = 1
    <3>1. i + 1 = 2 /\ Ack(what[2])
      BY <1>2, <2>1
    <3> QED
      BY <3>1
  <2>2. CASE i = 2
    <3>1. i - 1 = 1 /\ Ack(what[1])
      BY <1>2, <2>2
    <3> QED
      BY <3>1
  <2> QED
    BY <2>1, <2>2
<1> QED
  BY <1>1, <1>2, SpelledJoined

\* What the watcher of e does, as far as the stream of e is concerned.
LEMMA WatcherStreamThere ==
  ASSUME Crew, Shape, Roles, Pipes, NEW e \in Engines, Watched(e), Stream(e),
         upsets' \subseteq {"failure"},
         WatcherStarts(e) \/ WatcherStops(e) \/ CaptureFails(e) \/ Frame(e),
         UNCHANGED <<pc, wk, answer, service, state, sink>>
  PROVE  Believed(e)' /\ Wanted(e)' /\ Spelled(e)'
<1> USE DEF service, state, provider, watcher, actors, counters, bounds
<1>0. /\ Typed /\ Pipe(e) /\ Believed(e) /\ Wanted(e) /\ Spelled(e) /\ Lasting(e)
      /\ commands[e] \in Seq(Commands) /\ active' = active
      /\ \A a \in Actors : Target(a)' = e /\ pc'[a] \in Starting /\ answer'[a] = "ok" => Claimed(e)
  BY DEF Crew, Watched, Stream, Pipes, Lasting, Typed, Claimed, Target
<1>1. ASSUME NEW what \in Seq(Lines), Say(e, what)
      PROVE  /\ lines'[e] = lines[e] \o what
             /\ \A i \in DOMAIN lines'[e] :
                  \/ \E j \in DOMAIN lines[e] : lines'[e][i] = lines[e][j]
                  \/ \E j \in DOMAIN what : lines'[e][i] = what[j]
             /\ Over(e) => Over(e)'
             /\ \A j \in DOMAIN what : what[j].line \in {"failed", "stopped"} => Over(e)'
  <2>1. lines'[e] = lines[e] \o what
    BY <1>0, <1>1, SaidTyped
  <2>2. /\ \A i \in DOMAIN lines'[e] :
             \/ \E j \in DOMAIN lines[e] : lines'[e][i] = lines[e][j]
             \/ \E j \in DOMAIN what : lines'[e][i] = what[j]
        /\ \A s : Says(e, s) => Says(e, s)'
        /\ \A j \in DOMAIN what : \E i \in DOMAIN lines'[e] : lines'[e][i] = what[j]
    BY <1>0, <2>1, SaidWords
  <2>3. Over(e) => Over(e)'
    BY <2>2 DEF Over
  <2>4. ASSUME NEW j \in DOMAIN what, what[j].line \in {"failed", "stopped"}
        PROVE  Over(e)'
    <3>1. PICK i \in DOMAIN lines'[e] : lines'[e][i] = what[j]
      BY <2>2, <2>4
    <3> QED
      BY <2>4, <3>1 DEF Over, Says
  <2> QED
    BY <2>1, <2>2, <2>3, <2>4
<1>2. ASSUME NEW s \in {"failed", "frame"}, Say(e, <<Line(s)>>), commands'[e] = commands[e]
      PROVE  /\ Wanted(e)' /\ Spelled(e)' /\ (s = "failed" => Over(e)')
             /\ s = "frame" => (Claimed(e)' => Claimed(e)) /\ (Over(e) => Over(e)')
  <2> DEFINE what == <<Line(s)>>
  <2>1. what \in Seq(Lines) /\ DOMAIN what = {1} /\ what[1].line = s
    BY DEF Line, Lines
  <2>2. Say(e, what)
    BY <1>2
  <2> HIDE DEF what
  <2>3. /\ lines'[e] = lines[e] \o what
        /\ \A i \in DOMAIN lines'[e] :
             \/ \E j \in DOMAIN lines[e] : lines'[e][i] = lines[e][j]
             \/ \E j \in DOMAIN what : lines'[e][i] = what[j]
        /\ Over(e) => Over(e)'
        /\ \A j \in DOMAIN what : what[j].line \in {"failed", "stopped"} => Over(e)'
    BY <1>1, <2>1, <2>2
  <2>4. Wanted(e)'
    BY <1>0, <1>2 DEF Wanted, LastStart
  <2>5. Spelled(e)'
    BY <1>0, <2>1, <2>3, SpelledJoined
  <2>6. s = "frame" => (Claimed(e)' => Claimed(e))
    <3>1. active'[e] => Claimed(e)
      BY <1>0 DEF Claimed
    <3>2. s = "frame" => \A i \in DOMAIN lines'[e] :
            \/ \E j \in DOMAIN lines[e] : lines'[e][i] = lines[e][j]
            \/ lines'[e][i].line # "capturing" /\ ~Ack(lines[e][i])'
      BY <2>1, <2>3 DEF Ack, IsAnswer
    <3> QED
      BY <1>0, <3>1, <3>2, NoNewClaim
  <2> QED
    BY <2>1, <2>3, <2>4, <2>5, <2>6
<1>3. CASE CaptureFails(e)
  <2>1. Say(e, <<Line("failed")>>) /\ commands'[e] = commands[e]
    BY <1>3 DEF CaptureFails
  <2> QED
    BY <1>2, <2>1 DEF Believed
<1>4. CASE Frame(e)
  <2>1. Say(e, <<Line("frame")>>) /\ commands'[e] = commands[e] /\ thread' = thread
    BY <1>4 DEF Frame
  <2> QED
    BY <1>0, <1>2, <2>1 DEF Believed, Unasked
<1>5. CASE WatcherStarts(e) \/ WatcherStops(e)
  <2>1. /\ commands[e] # <<>> /\ commands'[e] = Tail(commands[e])
        /\ Head(commands[e]).cmd = IF WatcherStarts(e) THEN "start" ELSE Head(commands[e]).cmd
        /\ WatcherStops(e) => Head(commands[e]).cmd \in {"stop", "exit"}
    BY <1>0, <1>5 DEF WatcherStarts, WatcherStops, Typed
  <2>2. PICK c \in Commands : c = Head(commands[e]) /\ Asked(e, c)
    <3>1. Head(commands[e]) = commands[e][1] /\ 1 \in DOMAIN commands[e] /\ Head(commands[e]) \in Commands
      BY <1>0, <2>1, TailAt
    <3> QED
      BY <1>0, <3>1 DEF Pipe
  <2>3. Wanted(e)' /\ (Unasked(e)' /\ c.cmd = "start" => sink'[e])
    BY <1>0, <2>1, <2>2, WantedTail
  <2>4. /\ c.by \in Actors /\ Target(c.by) = e /\ c.by # None
        /\ pc[c.by] \in Asks(c.cmd) /\ c.cmd # "exit"
    BY <2>2 DEF Asked, Watched, Asks, Actors
  <2> DEFINE yes == [line |-> "response", by |-> c.by, ok |-> TRUE]
             no == [line |-> "response", by |-> c.by, ok |-> FALSE]
             cap == Line("capturing")
             end == Line("stopped")
  <2>5. /\ Response(c, TRUE) = <<yes>> /\ Response(c, FALSE) = <<no>>
        /\ yes \in Lines /\ no \in Lines /\ IsAnswer(yes) /\ IsAnswer(no)
        /\ yes.by = c.by /\ no.by = c.by /\ yes.ok /\ ~no.ok /\ yes.line = "response" /\ no.line = "response"
        /\ cap \in Lines /\ cap.line = "capturing" /\ end \in Lines /\ end.line = "stopped"
    BY <2>4, Spoken DEF IsAnswer
  <2> HIDE DEF yes, no, cap, end
  <2>6. /\ c.cmd = "start" => Ack(yes) /\ LastWord(no) /\ pc[c.by] \in Starting
        /\ c.cmd = "stop" => LastWord(yes) /\ pc[c.by] \notin Starting
    BY <2>4, <2>5 DEF Ack, LastWord, Asks, Starting, Stopping
  <2>7. CASE WatcherStarts(e)
    <3>1. c.cmd = "start"
      BY <2>1, <2>2, <2>7
    <3>2. ASSUME thread'[e], Spelled(e)'
          PROVE  Believed(e)' /\ Wanted(e)' /\ Spelled(e)'
      BY <2>3, <3>1, <3>2 DEF Believed
    <3>3. CASE thread[e] /\ thread' = thread /\ Say(e, <<yes>>)
      <4>1. <<yes>> \in Seq(Lines) /\ DOMAIN <<yes>> = {1} /\ <<yes>>[1] = yes
        BY <2>5
      <4>2. Spelled(e)'
        <5>1. lines'[e] = lines[e] \o <<yes>>
          BY <1>1, <3>3, <4>1
        <5> QED
          BY <1>0, <2>5, <4>1, <5>1, SpelledJoined
      <4> QED
        BY <3>2, <3>3, <4>2
    <3>4. ASSUME NEW w \in Lines, NEW v \in Lines, Say(e, <<w>> \o <<v>>),
                 w.line = "stopped" => LastWord(v), v.line # "stopped",
                 w.line = "capturing" => Ack(v), v.line = "capturing" => Ack(w)
          PROVE  Spelled(e)' /\ (w.line = "stopped" => Over(e)')
      <4> DEFINE what == <<w>> \o <<v>>
      <4>1. what \in Seq(Lines) /\ DOMAIN what = {1, 2} /\ what[1] = w /\ what[2] = v
        BY PairAt
      <4>2. Say(e, what)
        BY <3>4
      <4> HIDE DEF what
      <4>3. lines'[e] = lines[e] \o what /\ (w.line = "stopped" => Over(e)')
        BY <1>1, <4>1, <4>2
      <4>4. Spelled(e)'
        <5>1. /\ what[1].line = "stopped" => LastWord(what[2])
              /\ what[2].line # "stopped"
              /\ what[1].line = "capturing" => Ack(what[2])
              /\ what[2].line = "capturing" => Ack(what[1])
          BY <3>4, <4>1
        <5> QED
          BY <1>0, <4>1, <4>3, <5>1, SpelledPair
      <4> QED
        BY <4>3, <4>4
    <3>5. CASE thread'[e] /\ Say(e, <<cap>> \o <<yes>>)
      BY <2>5, <2>6, <3>1, <3>2, <3>4, <3>5
    <3>6. CASE thread'[e] /\ Say(e, <<yes>> \o <<cap>>)
      BY <2>5, <2>6, <3>1, <3>2, <3>4, <3>6
    <3>7. CASE Say(e, <<end>> \o <<no>>)
      <4>1. Spelled(e)' /\ Over(e)'
        BY <2>5, <2>6, <3>1, <3>4, <3>7
      <4> QED
        BY <2>3, <4>1 DEF Believed
    <3>8. \/ thread[e] /\ thread' = thread /\ Say(e, <<yes>>)
          \/ thread'[e] /\ Say(e, <<cap>> \o <<yes>>)
          \/ thread'[e] /\ Say(e, <<yes>> \o <<cap>>)
          \/ Say(e, <<end>> \o <<no>>)
          \/ "lastWord" \in upsets'
      BY <1>0, <2>2, <2>5, <2>7 DEF WatcherStarts, Typed, cap, end
    <3> QED
      BY <3>3, <3>5, <3>6, <3>7, <3>8
  <2>8. CASE WatcherStops(e)
    <3>1. c.cmd = "stop"
      BY <2>1, <2>2, <2>4, <2>8
    <3>2. CASE thread[e]
      <4> DEFINE what == <<end>> \o <<yes>>
      <4>1. what \in Seq(Lines) /\ DOMAIN what = {1, 2} /\ what[1] = end /\ what[2] = yes
        BY <2>5, PairAt
      <4>2. Say(e, what)
        BY <2>2, <2>5, <2>8, <3>2 DEF WatcherStops, end
      <4> HIDE DEF what
      <4>3. lines'[e] = lines[e] \o what /\ Over(e)'
        BY <1>1, <2>5, <4>1, <4>2
      <4>4. Spelled(e)'
        BY <1>0, <2>5, <2>6, <3>1, <4>1, <4>3, SpelledPair
      <4> QED
        BY <2>3, <4>3, <4>4 DEF Believed
    <3>3. CASE ~thread[e]
      <4>1. <<yes>> \in Seq(Lines) /\ DOMAIN <<yes>> = {1} /\ <<yes>>[1] = yes /\ <<>> \o <<yes>> = <<yes>>
        BY <2>5
      <4>2. Say(e, <<yes>>)
        BY <2>2, <2>5, <2>8, <3>3, <4>1 DEF WatcherStops
      <4>3. /\ lines'[e] = lines[e] \o <<yes>> /\ (Over(e) => Over(e)')
            /\ \A i \in DOMAIN lines'[e] :
                 \/ \E j \in DOMAIN lines[e] : lines'[e][i] = lines[e][j]
                 \/ \E j \in DOMAIN <<yes>> : lines'[e][i] = <<yes>>[j]
        BY <1>1, <4>1, <4>2
      <4>4. Spelled(e)'
        BY ZenonT(60), <1>0, <2>5, <4>1, <4>3, SpelledJoined
      <4>5. Claimed(e)' => Claimed(e)
        <5>1. active'[e] => Claimed(e)
          BY <1>0 DEF Claimed
        <5>2. ASSUME NEW i \in DOMAIN lines'[e], lines'[e][i] = yes
              PROVE  lines'[e][i].line # "capturing" /\ ~Ack(lines[e][i])'
          BY <2>5, <2>6, <3>1, <5>2 DEF Ack
        <5>3. \A i \in DOMAIN lines'[e] :
                \/ \E j \in DOMAIN lines[e] : lines'[e][i] = lines[e][j]
                \/ lines'[e][i].line # "capturing" /\ ~Ack(lines[e][i])'
          BY <4>1, <4>3, <5>2
        <5> QED
          BY <1>0, <5>1, <5>3, NoNewClaim
      <4> QED
        BY <1>0, <2>3, <3>3, <4>3, <4>4, <4>5 DEF Believed
    <3> QED
      BY <3>2, <3>3
  <2> QED
    BY <1>5, <2>7, <2>8
<1> QED
  BY <1>3, <1>4, <1>5

\* by the watcher, which says what its thread does before it answers,
LEMMA WatcherStream ==
  ASSUME Crew, Shape, Roles, Pipes, Streams, NEW e \in Engines, WatcherStep(e)
  PROVE  Streams'
<1> USE DEF service, state, provider, watcher, actors, counters, bounds
<1> SUFFICES ASSUME NEW x \in Engines, Watched(x)'
             PROVE  Stream(x)'
  BY DEF Streams, Stream
<1>1. WatcherStarts(e) \/ WatcherStops(e) \/ CaptureFails(e) \/ Frame(e)
  BY DEF WatcherStep, WatcherExits, Watched
<1>2. /\ UNCHANGED <<pc, wk, answer, service, state, child, sink, listening, alive, bounds>>
      /\ \A y \in Engines : y # e =>
           thread'[y] = thread[y] /\ commands'[y] = commands[y] /\ lines'[y] = lines[y]
      /\ upsets \subseteq upsets'
  BY <1>1, WatcherCrew
<1>3. Watched(x) /\ Stream(x)
  BY <1>2 DEF Watched, Target, Streams
<1>4. CASE x = e
  BY <1>1, <1>2, <1>3, <1>4, WatcherStreamThere DEF Watched, Stream
<1>5. CASE x # e
  <2>1. /\ Lasting(x) /\ (active'[x] => Claimed(x))
        /\ \A a \in Actors : Target(a)' = x /\ pc'[a] \in Starting /\ answer'[a] = "ok" => Claimed(x)
    BY <1>2 DEF Lasting, Claimed, Target
  <2> QED
    BY <1>2, <1>3, <1>5, <2>1, SteadyStream
<1> QED
  BY <1>4, <1>5

\* Nobody has been told, or will be, that capture runs.
LEMMA Silenced ==
  ASSUME Typed, NEW e \in Engines, Spelled(e), lines[e] # <<>>, lines'[e] = Tail(lines[e]),
         UNCHANGED <<pc, wk, answer>>, commands'[e] = commands[e], ~active'[e],
         \A k \in DOMAIN lines[e] : ~Ack(lines[e][k]),
         \A a \in Actors : Target(a) = e /\ pc[a] \in Starting => answer[a] # "ok",
         \A i \in DOMAIN commands[e] : commands[e][i].cmd # "start"
  PROVE  ~Claimed(e)' /\ Wanted(e)'
<1>1. \A i \in DOMAIN lines'[e] : /\ i \in Int /\ i + 1 \in DOMAIN lines[e] /\ i + 1 # 1
                                  /\ lines'[e][i] = lines[e][i + 1]
  BY TailAt DEF Typed
<1>2. ASSUME NEW i \in DOMAIN lines'[e]
      PROVE  lines'[e][i].line # "capturing" /\ ~Ack(lines[e][i])'
  <2>1. PICK k \in DOMAIN lines[e] : k # 1 /\ lines'[e][i] = lines[e][k]
    BY <1>1
  <2> QED
    BY <2>1 DEF Spelled, Ack, IsAnswer
<1>3. ~Claimed(e)'
  BY <1>2 DEF Claimed, Says, Target
<1>4. Wanted(e)'
  BY DEF Wanted, LastStart
<1> QED
  BY <1>3, <1>4

\* What reading a line does, as far as the stream of e is concerned.
LEMMA ReadStreamThere ==
  ASSUME Crew, Roles, Pipes, NEW e \in Engines, Watched(e), Stream(e), NEW l \in Lines,
         Reads(e, l), ~Overtakes(e, l), Lasting(e),
         ReadsFrame(e, l) \/ ReadsWindow(e, l) \/ ReadsStatus(e, l) \/ ReadsAnswer(e, l)
  PROVE  Believed(e)' /\ Wanted(e)' /\ Spelled(e)'
<1>0. /\ Typed /\ Pipe(e) /\ Believed(e) /\ Wanted(e) /\ Spelled(e) /\ Process(e) /\ e \in Actors
      /\ \A a \in Actors : Target(a)' = Target(a)
      /\ Target(e) = e /\ lines[e] # <<>> /\ lines'[e] = Tail(lines[e]) /\ thread' = thread
  BY DEF Crew, Watched, Stream, Pipes, Reads, Target, Actors
<1>1. /\ l = lines[e][1] /\ 1 \in DOMAIN lines[e]
      /\ \A i \in DOMAIN lines'[e] : /\ i \in Int /\ i + 1 \in DOMAIN lines[e] /\ i + 1 # 1
                                     /\ lines'[e][i] = lines[e][i + 1]
      /\ \A i \in DOMAIN lines[e] : i # 1 => i - 1 \in DOMAIN lines'[e] /\ lines'[e][i - 1] = lines[e][i]
  BY <1>0, TailAt DEF Typed, Reads
<1>2. Spelled(e)'
  BY <1>0, SpelledTail
<1>3. l.line \notin {"failed", "stopped"} => (Over(e) => Over(e)')
  <2>1. ASSUME l.line \notin {"failed", "stopped"}, NEW i \in DOMAIN lines[e],
               lines[e][i].line \in {"failed", "stopped"}
        PROVE  Over(e)'
    <3>1. i # 1
      BY <1>1, <2>1
    <3> QED
      BY <1>1, <2>1, <3>1 DEF Over, Says
  <2> QED
    BY <2>1 DEF Over, Says
<1>4. ASSUME active'[e] => Claimed(e),
             \A a \in Actors : Target(a)' = e /\ pc'[a] \in Starting /\ answer'[a] = "ok" => Claimed(e)
      PROVE  Claimed(e)' => Claimed(e)
  <2>1. \A i \in DOMAIN lines'[e] :
          \/ \E j \in DOMAIN lines[e] : lines'[e][i] = lines[e][j]
          \/ lines'[e][i].line # "capturing" /\ ~Ack(lines[e][i])'
    BY <1>1
  <2> QED
    BY <1>4, <2>1, NoNewClaim
<1>5. ASSUME Claimed(e)' => Claimed(e), l.line \notin {"failed", "stopped"},
             sink'[e] = sink[e], commands'[e] = commands[e]
      PROVE  Believed(e)' /\ Wanted(e)'
  BY <1>0, <1>3, <1>5 DEF Believed, Wanted, LastStart, Unasked
<1>6. CASE ReadsFrame(e, l)
  <2>1. /\ active'[e] => Claimed(e)
        /\ \A a \in Actors : Target(a)' = e /\ pc'[a] \in Starting /\ answer'[a] = "ok" => Claimed(e)
    BY <1>0, <1>6 DEF ReadsFrame, Claimed
  <2> QED
    BY <1>2, <1>4, <1>5, <1>6, <2>1 DEF ReadsFrame
<1>7. CASE ReadsWindow(e, l)
  <2>1. /\ active'[e] => Claimed(e)
        /\ \A a \in Actors : Target(a)' = e /\ pc'[a] \in Starting /\ answer'[a] = "ok" => Claimed(e)
    BY <1>0, <1>7 DEF ReadsWindow, Claimed, Starting
  <2>2. Claimed(e)' => Claimed(e)
    BY <1>4, <2>1
  <2>3. child[e] # "none"
    BY <1>0 DEF Process, Watched
  <2> DEFINE c == [cmd |-> "stop", by |-> e]
  <2>4. c \in Commands /\ c.cmd = "stop" /\ commands'[e] = Append(commands[e], c)
    BY <1>0, <1>7, <2>3 DEF Commands, ReadsWindow
  <2> HIDE DEF c
  <2>6. ~Unasked(e)' /\ Wanted(e)'
    BY <1>0, <2>4, AskedLast
  <2>7. Believed(e)'
    BY <1>0, <1>3, <1>7, <2>2, <2>6 DEF Believed, ReadsWindow
  <2> QED
    BY <1>2, <2>6, <2>7
<1>8. CASE ReadsAnswer(e, l)
  <2>1. active'[e] => Claimed(e)
    BY <1>8 DEF ReadsAnswer, Claimed
  <2>2. ASSUME NEW a \in Actors, Target(a)' = e, pc'[a] \in Starting, answer'[a] = "ok"
        PROVE  Claimed(e)
    <3>1. CASE a = l.by
      <4>1. Ack(l)
        BY <1>8, <2>2, <3>1 DEF ReadsAnswer, Ack, IsAnswer
      <4> QED
        BY <1>1, <4>1 DEF Claimed
    <3>2. CASE a # l.by
      BY <1>0, <1>8, <2>2, <3>2 DEF ReadsAnswer, Claimed
    <3> QED
      BY <3>1, <3>2
  <2> QED
    BY <1>2, <1>4, <1>5, <1>8, <2>1, <2>2 DEF ReadsAnswer
<1>9. CASE ReadsStatus(e, l) /\ l.line = "capturing"
  <2>1. active'[e] => Claimed(e)
    BY <1>1, <1>9 DEF Claimed, Says
  <2>2. \A a \in Actors : Target(a)' = e /\ pc'[a] \in Starting /\ answer'[a] = "ok" => Claimed(e)
    BY <1>0, <1>9 DEF ReadsStatus, Claimed
  <2>3. sink'[e] = sink[e]
    BY <1>0, <1>9 DEF ReadsStatus, Typed
  <2> QED
    BY <1>2, <1>4, <1>5, <1>9, <2>1, <2>2, <2>3 DEF ReadsStatus
<1>10. CASE ReadsStatus(e, l) /\ l.line \in {"failed", "stopped"}
  <2>1. ~active'[e]
    BY <1>10 DEF Crew, Attends, ReadsStatus
  <2>2. ASSUME NEW i \in DOMAIN commands[e], commands[e][i].cmd = "start"
        PROVE  \E a \in Actors : Target(a) = e /\ pc[a] \in Starting /\ Waiting(a) /\ a = commands[e][i].by
    BY <1>0, <2>2 DEF Pipe, Asked, Asks
  <2>3. ASSUME NEW k \in DOMAIN lines[e], Ack(lines[e][k])
        PROVE  \E a \in Actors : /\ Target(a) = e /\ pc[a] \in Starting /\ a = lines[e][k].by
                                 /\ IsAnswer(lines[e][k])
    BY <1>0, <2>3 DEF Pipe, Owed, Ack
  <2>4. CASE l.line = "failed"
    <3>1. \A a \in Actors : Target(a) = e => pc[a] \notin Starting
      BY <2>4 DEF Overtakes
    <3>2. ~Claimed(e)' /\ Wanted(e)'
      BY <1>0, <1>10, <2>1, <2>2, <2>3, <3>1, Silenced DEF ReadsStatus, Reads
    <3> QED
      BY <1>2, <3>2 DEF Believed
  <2>5. CASE l.line = "stopped"
    <3>1. PICK m \in Lines : 2 \in DOMAIN lines[e] /\ m = lines[e][2] /\ LastWord(m)
      <4>1. 1 + 1 \in DOMAIN lines[e] /\ LastWord(lines[e][1 + 1])
        BY <1>0, <1>1, <2>5 DEF Spelled
      <4>2. lines[e][2] \in Lines
        BY <1>0, <4>1 DEF Typed
      <4> QED
        BY <4>1, <4>2
    <3>2. Owed(e, m) /\ IsAnswer(m)
      BY <1>0, <3>1 DEF Pipe, LastWord
    <3>3. ASSUME NEW a \in Actors, Target(a) = e, pc[a] \in Starting \union Stopping
          PROVE  a = m.by
      <4>1. m.by \in Actors /\ Target(m.by) = e /\ pc[m.by] \in Starting \union Stopping
        BY <3>1, <3>2 DEF Owed, LastWord
      <4> QED
        BY <2>5, <3>3, <4>1 DEF Overtakes
    <3>4. \A k \in DOMAIN lines[e] : ~Ack(lines[e][k])
      <4>1. ASSUME NEW k \in DOMAIN lines[e], Ack(lines[e][k])
            PROVE  FALSE
        <5>1. IsAnswer(lines[e][k]) /\ lines[e][k].by = m.by /\ pc[m.by] \in Starting
          BY <2>3, <3>3, <4>1
        <5>2. k = 2
          BY <1>0, <3>1, <3>2, <5>1 DEF Pipe
        <5> QED
          BY <3>1, <4>1, <5>1, <5>2 DEF Ack, LastWord
      <4> QED
        BY <4>1
    <3>5. \A a \in Actors : Target(a) = e /\ pc[a] \in Starting => answer[a] # "ok"
      BY <3>2, <3>3 DEF Owed, Waiting
    <3>6. \A i \in DOMAIN commands[e] : commands[e][i].cmd # "start"
      BY <2>2, <3>2, <3>3 DEF Owed
    <3>7. ~Claimed(e)' /\ Wanted(e)'
      BY <1>0, <1>10, <2>1, <3>4, <3>5, <3>6, Silenced DEF ReadsStatus, Reads
    <3> QED
      BY <1>2, <3>7 DEF Believed
  <2> QED
    BY <1>10, <2>4, <2>5
<1> QED
  BY <1>6, <1>7, <1>8, <1>9, <1>10 DEF ReadsStatus

\* by a line that is read, which leaves the rest of the pipe to say it,
LEMMA ReadingStream ==
  ASSUME Crew, Shape, Roles, Pipes, Streams, NEW e \in Engines, ReadLine(e)
  PROVE  Streams'
<1> SUFFICES ASSUME NEW x \in Engines, Watched(x)'
             PROVE  Stream(x)'
  BY DEF Streams, Stream
<1>0. PICK l \in Lines : /\ Reads(e, l)
                         /\ ReadsFrame(e, l) \/ ReadsWindow(e, l) \/ ReadsStatus(e, l) \/ ReadsAnswer(e, l)
  BY ReadDigest
<1>1. /\ Typed /\ e \in Actors /\ Target(e) = e /\ \A a \in Actors : Target(a)' = Target(a)
      /\ running' = running /\ upsets \subseteq upsets' /\ lines[e] # <<>> /\ l = Head(lines[e])
      /\ \A b \in Actors : pc'[b] = pc[b] \/ (pc[b] = "idle" /\ ~Waiting(b))
  BY <1>0 DEF Crew, Actors, Target, Reads, ReadsFrame, ReadsWindow, ReadsStatus, ReadsAnswer, Waiting
<1>2. Watched(x) /\ ~Overtakes(e, l)
  BY <1>0, <1>1 DEF Watched, Reads
<1>3. Stream(x) /\ Pipe(x) /\ Pipe(e)
  BY <1>2 DEF Streams, Watched, Pipes
<1>4. Lasting(x)
  BY <1>1, <1>3, LastingAnswers
<1>5. CASE x = e
  BY <1>0, <1>2, <1>3, <1>4, <1>5, ReadStreamThere DEF Stream
<1>6. CASE x # e
  <2>1. /\ active'[x] = active[x] /\ sink'[x] = sink[x] /\ commands'[x] = commands[x]
        /\ lines'[x] = lines[x] /\ thread'[x] = thread[x]
    BY <1>0, <1>6 DEF Reads
  <2>2. active'[x] => Claimed(x)
    BY <2>1 DEF Claimed
  <2>3. ASSUME NEW b \in Actors, Target(b) = x
        PROVE  pc'[b] = pc[b] /\ answer'[b] = answer[b]
    <3>1. b # e
      BY <1>1, <1>6, <2>3
    <3>2. CASE ReadsAnswer(e, l)
      <4>1. Owed(e, l)
        <5>1. l = lines[e][1] /\ 1 \in DOMAIN lines[e]
          BY <1>1, TailAt DEF Typed
        <5> QED
          BY <1>3, <3>2, <5>1 DEF Pipe, ReadsAnswer, IsAnswer
      <4> QED
        BY <1>6, <2>3, <3>2, <4>1 DEF ReadsAnswer, Owed
    <3> QED
      BY <1>0, <3>1, <3>2 DEF ReadsFrame, ReadsWindow, ReadsStatus
  <2>4. \A b \in Actors : Target(b)' = x /\ pc'[b] \in Starting /\ answer'[b] = "ok" => Claimed(x)
    BY <1>1, <2>3 DEF Claimed
  <2> QED
    BY <1>1, <1>2, <1>3, <1>4, <2>1, <2>2, <2>4, SteadyStream
<1> QED
  BY <1>5, <1>6

\* and so by every step.
LEMMA StreamsStep ==
  ASSUME Crew, Shape, Roles, Pipes, Streams, [Next]_vars
  PROVE  Streams'
<1>0. Typed /\ Waits /\ \A q \in Requests : q \in Actors
  BY DEF Crew, Actors
<1>1. ASSUME NEW r \in Requests, RequestStep(r)
      PROVE  Streams'
  BY <1>0, <1>1, RequestDigest, ThinkingStream, SendingStream, ProcessStream
<1>2. ASSUME NEW r \in Requests, NEW body \in Bodies, Patch(r, body)
      PROVE  Streams'
  BY <1>0, <1>2, PatchDigest, ThinkingStream
<1>3. ASSUME NEW e \in Engines, RetuneStep(e)
      PROVE  Streams'
  BY <1>0, <1>3, RetuneDigest, ThinkingStream, SendingStream DEF Actors
<1>4. ASSUME NEW r \in Requests, Restart(r)
      PROVE  Streams'
  BY <1>4 DEF Restart, Off, Streams, Stream, Watched
<1>5. CASE UNCHANGED vars
  <2>1. UNCHANGED <<pc, wk, answer, running, active, sink, thread, commands, lines, upsets>>
    BY <1>5 DEF vars, state, provider, watcher, actors, counters
  <2> SUFFICES ASSUME NEW e \in Engines
               PROVE  Stream(e)'
    BY DEF Streams
  <2>2. /\ Lasting(e) /\ (Watched(e)' => Watched(e)) /\ (active'[e] => Claimed(e))
        /\ \A a \in Actors : Target(a)' = e /\ pc'[a] \in Starting /\ answer'[a] = "ok" => Claimed(e)
    BY <2>1 DEF Lasting, Watched, Claimed, Target
  <2> QED
    BY <2>1, <2>2, SteadyStream DEF Streams
<1>6. ASSUME NEW a \in Actors, CommandTimesOut(a)
      PROVE  Streams'
  BY <1>6, TimeoutCrew DEF Streams, Stream, Watched
<1> QED
  BY <1>1, <1>2, <1>3, <1>4, <1>5, <1>6, WatcherStream, ReadingStream DEF Next

Flow == Crew /\ Shape /\ Roles /\ Pipes /\ Streams

\* The three invariants hold always.
LEMMA FlowKept == Spec => []Flow
<1>1. Init => Flow
  <2> SUFFICES ASSUME Init
               PROVE  Flow
    OBVIOUS
  <2>1. Pipes
    BY DEF Init, Pipes, Pipe, Empty
  <2>2. Streams
    BY DEF Init, Streams, Stream, Watched, Off
  <2> QED
    BY <2>1, <2>2, InitCrew, EyesInit DEF Flow
<1>2. Flow /\ [Next]_vars => Flow'
  BY CrewStep, ShapeStep, PipesStep, StreamsStep DEF Flow
<1> QED
  BY <1>1, <1>2, PTL DEF Spec

\* Whenever nothing is in the air, an engine that says it captures has a capture thread and
\* a sink for its frames, whatever was started, stopped, retuned or failed in between,
\* but for a process that exited, a command that timed out, and a refusal or an end of
\* a start that came after the thread's last word.
THEOREM SaysSoAndDoesSo == Spec => []ActiveMeansStream
<1>1. Flow => ActiveMeansStream
  <2> SUFFICES ASSUME Flow, NEW e \in Engines, running[e], active[e], Settled(e), upsets \subseteq {"failure"}
               PROVE  thread[e] /\ sink[e]
    BY DEF ActiveMeansStream
  <2>1. \A a \in Actors : Target(a) = e => pc[a] = "idle"
    BY DEF Settled, Target, Resting, Actors
  <2>2. Watched(e) /\ Claimed(e) /\ ~Over(e)
    BY <2>1 DEF Watched, Claimed, Over, Says, Settled
  <2>3. Pipe(e) /\ Believed(e)
    BY <2>2 DEF Flow, Pipes, Streams, Stream
  <2>4. Unasked(e)
    BY <2>1, <2>3 DEF Pipe, Asked, Asks, Starting, Stopping, Unasked
  <2> QED
    BY <2>2, <2>3, <2>4 DEF Believed
<1> QED
  BY <1>1, FlowKept, PTL

-----------------------------------------------------------------------------
(* What is left of an engine nobody holds, for a client that waits for its answers,
   as long as nothing timed out *)

\* It has no thread, and a frame that is still in the pipe finds no sink, not even later.
Past(e) ==
  ~running[e] /\ engine # e =>
    /\ ~remembers[e] /\ ~thread[e]
    /\ Says(e, "frame") => ~sink[e] /\ pc[e] # "retuneStop"

\* Whoever exited had been heard to the end.
Lost(e) == running[e] /\ ~alive[e] => ~Says(e, "frame")

\* When the watcher has taken exit, frames come before the answer to it.
NoExit(e) == \A i \in DOMAIN commands[e] : commands[e][i].cmd # "exit"
Before(e, r) ==
  \A i, j \in DOMAIN lines[e] :
    lines[e][i].line = "frame" /\ IsAnswer(lines[e][j]) /\ lines[e][j].by = r => i < j
Leaves(r, e) == pc[r] = "exiting" /\ Target(r) = e
Leaving(r, e) ==
  Leaves(r, e) /\ alive[e] /\ pc[e] = "retuneStop" /\ NoExit(e) =>
    ~thread[e] /\ (~Waiting(r) => ~Says(e, "frame")) /\ Before(e, r)

Memory(e) == Past(e) /\ Lost(e) /\ \A r \in Requests : Leaving(r, e)
Home == \A r \in Requests : pc[r] \in Adapting => wk[r].on = engine
Memories ==
  discipline = "serial" => Home /\ ("timeout" \notin upsets => \A e \in Engines : Memory(e))

Tidy == Crew /\ Shape /\ Roles /\ Pipes /\ Serial /\ NoStrayWatcher /\ Memories

\* A request adapts the engine that is held.
LEMMA HomeStep ==
  ASSUME Shape, Roles, Serial, Memories, discipline = "serial", [Next]_vars
  PROVE  Home'
<1> USE DEF Adapting
<1>0. Home /\ OneAtATime /\ \A r \in Requests : r \in Actors
  BY DEF Memories, Serial, Actors
<1>1. ASSUME Behind
      PROVE  Home'
  BY <1>0, <1>1 DEF Behind, Home, service
<1>2. ASSUME NEW r \in Requests, RequestStep(r)
      PROVE  Home'
  <2>1. Others(r) /\ ~Resting(r)
    BY <1>2, RequestKinds, ShapeByKind
       DEF Resting, Finishes, Proceeds, Launches, Fails, GivesUp, Ready, Installs,
           StopsNothing, Exits
  <2>2. \A q \in Requests : q # r => pc'[q] = "idle"
    BY <1>0, <2>1 DEF OneAtATime, Others, Resting
  <2>3. pc'[r] \in Adapting => wk'[r].on = engine'
    <3>1. CASE Proceeds(r)
      <4>1. engine' = engine
        BY <3>1 DEF Proceeds, Alike
      <4>2. CASE pc[r] = "restopping" /\ GoesTo(r, "restarting", wk[r].on)
        BY <1>0, <4>1, <4>2 DEF GoesTo, Home
      <4>3. CASE \E to \in Adapting : GoesTo(r, to, engine)
        BY <4>1, <4>3 DEF GoesTo
      <4> QED
        BY <3>1, <4>2, <4>3 DEF Proceeds, GoesTo, Ending
    <3>2. CASE ~Proceeds(r)
      BY <1>2, <3>2, RequestKinds
         DEF Finishes, Launches, Fails, GivesUp, Ready, Installs, StopsNothing, Exits, Ended, GoesTo
    <3> QED
      BY <3>1, <3>2
  <2> QED
    BY <2>2, <2>3 DEF Home
<1>3. ASSUME NEW r \in Requests, NEW body \in Bodies, Patch(r, body)
      PROVE  Home'
  <2>1. Quiet
    BY <1>3 DEF Patch
  <2> QED
    BY <1>0, <1>3, <2>1, PatchMoves DEF Quiet, Resting, Others, Home
<1>4. ASSUME NEW r \in Requests, Restart(r)
      PROVE  Home'
  BY <1>0, <1>4, RestartMoves DEF Home
<1>5. CASE UNCHANGED vars
  BY <1>0, <1>5 DEF vars, actors, service, Home
<1>6. CASE \E a \in Actors : CommandTimesOut(a)
  BY <1>1, <1>6, TimesOutBehind
<1> QED
  BY <1>1, <1>2, <1>3, <1>4, <1>5, <1>6, BehindSteps DEF Next

\* A step that leaves an engine and its pipes as they are, and starts no exit from it.
LEMMA SteadyMemory ==
  ASSUME NEW e \in Engines, Memory(e), running'[e] = running[e], alive'[e] = alive[e],
         remembers'[e] = remembers[e], sink'[e] = sink[e], thread'[e] = thread[e],
         commands'[e] = commands[e], lines'[e] = lines[e],
         pc'[e] = "retuneStop" => pc[e] = "retuneStop",
         engine' # e => engine # e \/ running[e],
         \A r \in Requests : Leaves(r, e)' => Leaves(r, e) /\ answer'[r] = answer[r]
  PROVE  Memory(e)'
<1>1. Past(e)' /\ Lost(e)'
  BY DEF Memory, Past, Lost, Says
<1>2. ASSUME NEW r \in Requests
      PROVE  Leaving(r, e)'
  BY DEF Memory, Leaving, NoExit, Before, Says, IsAnswer, Waiting
<1> QED
  BY <1>1, <1>2 DEF Memory

\* Memory is kept by who only thinks,
LEMMA ThinkingMemory ==
  ASSUME HeldRuns, NEW a \in Actors, Thinks(a), NEW e \in Engines, Memory(e)
  PROVE  Memory(e)'
<1>1. /\ Alone(a) /\ pc'[a] \notin Awaiting /\ UNCHANGED <<running, remembers, sink, watcher>>
  BY DEF Thinks
<1>2. pc'[e] = "retuneStop" => pc[e] = "retuneStop"
  BY <1>1 DEF Alone, Awaiting, Stopping, Actors
<1>3. \A r \in Requests : Leaves(r, e)' => Leaves(r, e) /\ answer'[r] = answer[r]
  BY <1>1 DEF Alone, Awaiting, Leaves, Actors
<1> QED
  BY <1>1, <1>2, <1>3, SteadyMemory DEF watcher, HeldRuns

\* by who sends, an exit included,
LEMMA SendingMemory ==
  ASSUME Crew, Shape, Roles, HeldRuns, OneAtATime, Home, \A r \in Requests : Owned(r),
         NEW a \in Actors, NEW x \in Engines, NEW cmd \in {"start", "stop", "exit"}, Sends(a, x, cmd),
         a \in Engines => a = x /\ cmd = "start" /\ pc[a] = "retuneStop",
         NEW e \in Engines, Memory(e)
  PROVE  Memory(e)'
<1> DEFINE c == [cmd |-> cmd, by |-> a]
<1>0. Typed /\ Process(e) /\ c \in Commands /\ c.cmd = cmd
  BY DEF Crew, Commands
<1>1. /\ Alone(a) /\ pc[a] \notin {"idle", "launching", "exiting"}
      /\ pc'[a] \in Asks(cmd) /\ Target(a)' = x
      /\ x = engine \/ (Target(a) = x /\ pc[a] # "applying")
      /\ UNCHANGED <<engine, running, remembers, alive, thread, lines>>
      /\ sink' = IF cmd = "exit" THEN sink ELSE [sink EXCEPT ![x] = (cmd = "start")]
      /\ commands' = IF child[x] = "none" THEN commands ELSE [commands EXCEPT ![x] = Append(@, c)]
  BY DEF Sends, Send
<1> HIDE DEF c
<1>2. CASE e # x
  <2>1. sink'[e] = sink[e] /\ commands'[e] = commands[e]
    BY <1>0, <1>1, <1>2 DEF Typed
  <2>2. pc'[e] = pc[e]
    BY <1>1, <1>2 DEF Alone, Actors
  <2>3. \A r \in Requests : Leaves(r, e)' => Leaves(r, e) /\ answer'[r] = answer[r]
    BY <1>1, <1>2 DEF Alone, Leaves, Actors
  <2> QED
    BY <1>1, <2>1, <2>2, <2>3, SteadyMemory
<1>3. CASE e = x /\ a \in Engines
  <2>1. pc[e] = "retuneStop" /\ pc'[e] # "retuneStop"
    BY <1>1, <1>3 DEF Asks, Starting
  <2>2. Past(e)' /\ Lost(e)'
    BY <1>1, <2>1 DEF Memory, Past, Lost, Says
  <2> QED
    BY <2>1, <2>2 DEF Memory, Leaving
<1>4. CASE e = x /\ a \in Requests
  <2>1. running[e]
    <3>1. CASE e = engine
      BY <3>1 DEF HeldRuns
    <3>2. CASE wk[a].on = e /\ pc[a] # "applying"
      <4>1. Role(a) /\ Owned(a)
        BY <1>4 DEF Roles
      <4>2. pc[a] \in {"snapshot", "beginning", "halting"} \union Adapting
        BY <1>1, <3>2, <4>1 DEF Role, Making, Ending
      <4> QED
        BY <1>4, <3>2, <4>1, <4>2 DEF Owned, Home, HeldRuns, Ending
    <3> QED
      BY <1>1, <1>4, <3>1, <3>2 DEF Target
  <2>2. Past(e)' /\ Lost(e)'
    BY <1>1, <2>1 DEF Memory, Past, Lost, Says
  <2>3. ASSUME NEW r \in Requests
        PROVE  Leaving(r, e)'
    <3>1. CASE r = a
      <4> SUFFICES ASSUME pc'[a] = "exiting", alive[e], NoExit(e)'
                   PROVE  FALSE
        BY <1>1, <3>1 DEF Leaving, Leaves
      <4>1. cmd = "exit"
        BY <1>1 DEF Asks, Starting, Stopping
      <4>2. commands'[e] = Append(commands[e], c)
        BY <1>0, <1>1, <1>4 DEF Process, Typed
      <4>3. Len(commands[e]) + 1 \in DOMAIN commands'[e] /\ commands'[e][Len(commands[e]) + 1] = c
        <5>1. /\ DOMAIN commands'[e] = 1 .. Len(commands[e]) + 1 /\ Len(commands[e]) \in Nat
              /\ commands'[e][Len(commands[e]) + 1] = c
          BY <1>0, <4>2, AppendedAt DEF Typed
        <5> QED
          BY <5>1
      <4> QED
        BY <1>0, <4>1, <4>3 DEF NoExit
    <3>2. CASE r # a
      <4>1. pc'[r] = pc[r] /\ (pc[r] = "idle" \/ pc[a] = "idle")
        BY <1>1, <1>4, <3>2 DEF Alone, OneAtATime, Resting, Actors
      <4> QED
        BY <1>1, <4>1 DEF Leaving, Leaves
    <3> QED
      BY <3>1, <3>2
  <2> QED
    BY <2>2, <2>3 DEF Memory
<1> QED
  BY <1>2, <1>3, <1>4 DEF Actors

\* by a process that comes or goes,
LEMMA ProcessMemory ==
  ASSUME Crew, Shape, Roles, Pipes, HeldRuns, OneAtATime, \A r \in Requests : Owned(r),
         "timeout" \notin upsets, NEW q \in Requests,
         Launch(q) \/ LaunchFails(q) \/ LaunchReady(q) \/ Exited(q),
         NEW e \in Engines, Memory(e)
  PROVE  Memory(e)'
<1> USE DEF service, state, provider, watcher, actors, counters, bounds
<1>0. /\ \A b \in Actors : b # q => pc'[b] = pc[b] /\ (Target(b))' = Target(b)
      /\ Target(q) = wk[q].on /\ Target(q)' = wk'[q].on
      /\ \/ \E x \in Engines : Launched(q, x)
         \/ wk[q].on \in Engines /\ Unlaunched(q, wk[q].on)
         \/ wk[q].on \in Engines /\ IsUp(q, wk[q].on)
         \/ wk[q].on \in Engines /\ IsDown(q, wk[q].on)
  BY ProcessDigest
<1>1. Typed /\ Launching /\ Process(e) /\ e # q /\ e \in Actors /\ q \in Actors
  BY DEF Crew, Actors
<1>2. \A r \in Requests : ~Leaves(r, e)'
  <2>1. ~Resting(q) /\ pc'[q] # "exiting"
    BY <1>0 DEF Launched, Unlaunched, IsUp, IsDown, Resting
  <2> QED
    BY <1>0, <2>1 DEF OneAtATime, Leaves, Resting, Actors
<1>3. ASSUME Past(e)', Lost(e)'
      PROVE  Memory(e)'
  BY <1>2, <1>3 DEF Memory, Leaving
<1>4. pc'[e] = pc[e]
  BY <1>0, <1>1
<1>5. ASSUME NEW x \in Engines, Launched(q, x)
      PROVE  Memory(e)'
  <2>1. CASE x = e
    <3>1. ~thread'[e] /\ lines'[e] = <<>> /\ ~remembers'[e] /\ ~running'[e]
      BY <1>1, <1>5, <2>1 DEF Launched, Free, Process, Typed, Shape
    <3> QED
      BY <1>3, <3>1 DEF Past, Lost, Says
  <2>2. CASE x # e
    <3>1. /\ running'[e] = running[e] /\ alive'[e] = alive[e] /\ remembers'[e] = remembers[e]
          /\ sink'[e] = sink[e] /\ UNCHANGED <<thread, commands, lines, engine>>
      BY <1>1, <1>5, <2>2 DEF Launched, Typed, Shape
    <3> QED
      BY <1>2, <1>4, <3>1, SteadyMemory
  <2> QED
    BY <2>1, <2>2
<1>6. ASSUME NEW x \in Engines, x = wk[q].on, Unlaunched(q, x)
      PROVE  Memory(e)'
  <2>1. UNCHANGED <<running, remembers, sink, engine>> /\ Kill(x)
    BY <1>6 DEF Unlaunched
  <2>2. /\ ~thread'[x]
        /\ \A y \in Engines : y # x =>
             /\ alive'[y] = alive[y] /\ thread'[y] = thread[y] /\ commands'[y] = commands[y]
             /\ lines'[y] = lines[y]
        /\ \A i \in DOMAIN lines'[x] : \E j \in DOMAIN lines[x] : lines'[x][i] = lines[x][j]
    BY SMTT(30), <2>1, KillTyped
  <2>3. CASE x = e
    <3>1. Untouched(e)
      BY <1>0, <1>1, <1>6, <2>3 DEF Unlaunched, Launching
    <3>2. ~Says(e, "frame")'
      BY <2>2, <2>3, <3>1 DEF Says, Untouched
    <3> QED
      BY <1>3, <2>1, <2>2, <2>3, <3>1, <3>2 DEF Past, Lost, Untouched
  <2>4. CASE x # e
    BY <1>2, <1>4, <2>1, <2>2, <2>4, SteadyMemory
  <2> QED
    BY <2>3, <2>4
<1>7. ASSUME NEW x \in Engines, x = wk[q].on, IsUp(q, x)
      PROVE  Memory(e)'
  <2>1. /\ UNCHANGED <<remembers, sink, engine, alive, thread, commands, lines>>
        /\ running' = [running EXCEPT ![x] = TRUE] /\ alive[x]
    BY <1>7 DEF IsUp
  <2>2. CASE x = e
    <3>1. running'[e] /\ alive'[e]
      BY <2>1, <2>2 DEF Shape
    <3> QED
      BY <1>3, <3>1 DEF Past, Lost
  <2>3. CASE x # e
    <3>1. running'[e] = running[e]
      BY <2>1, <2>3 DEF Shape
    <3> QED
      BY <1>2, <1>4, <2>1, <3>1, SteadyMemory
  <2> QED
    BY <2>2, <2>3
<1>8. ASSUME NEW x \in Engines, x = wk[q].on, IsDown(q, x)
      PROVE  Memory(e)'
  <2>1. /\ Kill(x) /\ sink' = [sink EXCEPT ![x] = @ /\ child[x] = "none"] /\ engine' = None
        /\ running' = [running EXCEPT ![x] = FALSE] /\ remembers' = [remembers EXCEPT ![x] = FALSE]
        /\ pc[q] = "exiting" /\ ~Waiting(q)
    BY <1>8 DEF IsDown, Answered, Waiting
  <2>2. /\ ~thread'[x]
        /\ \A y \in Engines : y # x =>
             /\ alive'[y] = alive[y] /\ thread'[y] = thread[y] /\ commands'[y] = commands[y]
             /\ lines'[y] = lines[y]
        /\ \A i \in DOMAIN lines'[x] : \E j \in DOMAIN lines[x] : lines'[x][i] = lines[x][j]
    <3>1. Kill(x)
      BY <2>1
    <3> QED
      BY SMTT(30), <3>1, KillTyped
  <2>3. CASE x = e
    <3>1. ~running'[e] /\ ~remembers'[e] /\ sink'[e] = (sink[e] /\ child[e] = "none")
      BY <1>1, <2>1, <2>3 DEF Typed, Shape
    <3>2. Says(e, "frame")' => Says(e, "frame")
      BY <2>2, <2>3 DEF Says
    <3>3. CASE ~alive[e]
      <4>1. Owned(q) /\ wk[q].on = engine /\ running[e]
        BY <1>8, <2>1, <2>3 DEF Owned, Ending, HeldRuns
      <4>2. ~Says(e, "frame")
        BY <3>3, <4>1 DEF Memory, Lost
      <4> QED
        BY <1>3, <2>2, <2>3, <3>1, <3>2, <4>2 DEF Past, Lost
    <3>4. CASE alive[e]
      <4>1. ~sink'[e]
        BY <1>1, <3>1, <3>4 DEF Process
      <4>2. NoExit(e)
        <5>1. ASSUME NEW i \in DOMAIN commands[e], commands[e][i].cmd = "exit"
              PROVE  FALSE
          <6>1. Asked(e, commands[e][i])
            BY <5>1 DEF Pipes, Pipe
          <6>2. PICK b \in Actors : pc[b] = "exiting" /\ Waiting(b)
            BY <5>1, <6>1 DEF Asked, Asks
          <6> QED
            BY <2>1, <6>2 DEF Actors, Roles, OneAtATime, Resting
        <5> QED
          BY <5>1 DEF NoExit
      <4>3. pc[e] = "retuneStop" => ~Says(e, "frame")
        BY <1>0, <1>8, <2>1, <2>3, <3>4, <4>2 DEF Memory, Leaving, Leaves
      <4> QED
        BY <1>3, <1>4, <2>2, <2>3, <3>1, <3>2, <4>1, <4>3 DEF Past, Lost
    <3> QED
      BY <3>3, <3>4
  <2>4. CASE x # e
    <3>1. /\ running'[e] = running[e] /\ remembers'[e] = remembers[e] /\ sink'[e] = sink[e]
          /\ engine' # e => engine # e \/ running[e]
      BY <1>1, <2>1, <2>4 DEF Typed, Shape, HeldRuns
    <3> QED
      BY <1>2, <1>4, <2>2, <2>4, <3>1, SteadyMemory
  <2> QED
    BY <2>3, <2>4
<1> QED
  BY <1>0, <1>5, <1>6, <1>7, <1>8

\* The watcher of e goes on while e is left.
LEMMA WatcherMemoryThere ==
  ASSUME Crew, Shape, Roles, Pipes, OneAtATime, "timeout" \notin upsets, NEW e \in Engines, Memory(e),
         WatcherStarts(e) \/ WatcherStops(e) \/ CaptureFails(e) \/ Frame(e), alive[e],
         UNCHANGED <<pc, wk, answer, service, state, alive, sink>>
  PROVE  Memory(e)'
<1> USE DEF service, state, provider, watcher, actors, counters, bounds
<1>0. Typed /\ Launching /\ Process(e) /\ Pipe(e) /\ commands[e] \in Seq(Commands)
  BY DEF Crew, Pipes, Typed
<1>1. commands[e] # <<>> \/ thread[e]
  BY DEF WatcherStarts, WatcherStops, CaptureFails, Frame
<1>2. running[e]
  BY <1>0, <1>1 DEF Process, Launching, Untouched, Typed
<1>3. Past(e)' /\ Lost(e)'
  BY <1>2 DEF Past, Lost
<1>4. ASSUME NEW r \in Requests, Leaves(r, e), pc[e] = "retuneStop", NoExit(e)'
      PROVE  ~thread'[e] /\ (~Waiting(r) => ~Says(e, "frame")') /\ Before(e, r)'
  <2>1. \A b \in Actors : Target(b) = e /\ pc[b] \in Awaiting => b = e \/ b = r
    BY <1>4 DEF OneAtATime, Resting, Leaves, Target, Actors, Awaiting, Starting, Stopping
  <2>2. CASE commands'[e] = commands[e]
    <3>1. ~thread[e]
      BY <1>4, <2>2 DEF NoExit, Memory, Leaving
    <3>2. WatcherStarts(e) \/ WatcherStops(e)
      BY <3>1 DEF CaptureFails, Frame
    <3>3. commands[e] # <<>> /\ commands'[e] = Tail(commands[e])
      BY <1>0, <3>2 DEF WatcherStarts, WatcherStops, Typed
    <3>4. /\ Len(commands[e]) \in Nat \ {0} /\ DOMAIN commands[e] = 1 .. Len(commands[e])
          /\ DOMAIN Tail(commands[e]) = 1 .. Len(commands[e]) - 1
      BY <1>0, <3>3, TailAt
    <3>5. Len(commands[e]) \in DOMAIN commands[e] /\ Len(commands[e]) \notin DOMAIN Tail(commands[e])
      BY <3>4
    <3> QED
      BY <2>2, <3>3, <3>5
  <2>3. CASE commands'[e] # commands[e]
    <3>1. /\ WatcherStarts(e) \/ WatcherStops(e)
          /\ commands[e] # <<>> /\ commands'[e] = Tail(commands[e])
      BY <1>0, <2>3 DEF WatcherStarts, WatcherStops, CaptureFails, Frame, Typed
    <3>2. PICK c \in Commands : /\ c = Head(commands[e]) /\ Asked(e, c)
                                /\ \E i \in DOMAIN commands[e] : c = commands[e][i]
                                /\ (c.cmd # "exit" => NoExit(e))
      <4>1. /\ Head(commands[e]) \in Commands /\ Head(commands[e]) = commands[e][1] /\ 1 \in DOMAIN commands[e]
            /\ \A i \in DOMAIN commands[e] : i # 1 =>
                 i - 1 \in DOMAIN commands'[e] /\ commands'[e][i - 1] = commands[e][i]
        BY <1>0, <3>1, TailAt
      <4>2. commands[e][1].cmd # "exit" => NoExit(e)
        BY <1>4, <4>1 DEF NoExit
      <4> QED
        BY <1>0, <4>1, <4>2 DEF Pipe
    <3>3. /\ c.by \in {e, r} /\ Waiting(c.by) /\ c.by \in Actors
          /\ pc[c.by] \in Asks(c.cmd) /\ pc[r] = "exiting" /\ r # e
      BY <1>4, <2>1, <3>2 DEF Asked, Asks, Awaiting, Leaves
    <3>4. \/ c.by = e /\ c.cmd = "stop"
          \/ c.by = r /\ c.cmd = "exit"
      <4>1. c.cmd \in {"start", "stop", "exit"}
        BY <3>2 DEF Commands
      <4>2. CASE c.by = e
        BY <1>4, <3>3, <4>1, <4>2 DEF Asks, Starting, Stopping
      <4>3. CASE c.by = r
        BY <3>3, <4>1, <4>3 DEF Asks, Starting, Stopping
      <4> QED
        BY <3>3, <4>2, <4>3
    <3>5. WatcherStops(e) /\ ~thread'[e]
      BY <1>0, <3>1, <3>2, <3>4 DEF WatcherStarts, WatcherStops, Typed
    <3> DEFINE yes == [line |-> "response", by |-> c.by, ok |-> TRUE]
               end == Line("stopped")
    <3>6. /\ Response(c, TRUE) = <<yes>> /\ yes \in Lines /\ yes.line = "response" /\ yes.by = c.by
          /\ end \in Lines /\ end.line = "stopped" /\ <<yes>> \in Seq(Lines)
      BY <3>3, Spoken DEF Actors
    <3>7. Say(e, (IF thread[e] THEN <<end>> ELSE <<>>) \o <<yes>>)
      BY <3>2, <3>5, <3>6 DEF WatcherStops
    <3> HIDE DEF yes, end
    <3>8. PICK what \in Seq(Lines) : /\ Say(e, what) /\ \A j \in DOMAIN what : what[j] \in {yes, end}
      <4>1. CASE thread[e]
        <5>1. /\ <<end>> \o <<yes>> \in Seq(Lines) /\ DOMAIN (<<end>> \o <<yes>>) = {1, 2}
              /\ (<<end>> \o <<yes>>)[1] = end /\ (<<end>> \o <<yes>>)[2] = yes
          BY <3>6, PairAt
        <5>2. Say(e, <<end>> \o <<yes>>)
          BY <3>7, <4>1
        <5> DEFINE both == <<end>> \o <<yes>>
        <5>3. /\ both \in Seq(Lines) /\ Say(e, both) /\ DOMAIN both = {1, 2}
              /\ both[1] = end /\ both[2] = yes
          BY <5>1, <5>2
        <5> HIDE DEF both
        <5>4. \A j \in DOMAIN both : both[j] \in {yes, end}
          BY <5>3
        <5> QED
          BY <5>3, <5>4
      <4>2. CASE ~thread[e]
        <5>1. <<>> \o <<yes>> = <<yes>> /\ DOMAIN <<yes>> = {1} /\ <<yes>>[1] = yes
          BY <3>6
        <5> QED
          BY <3>6, <3>7, <4>2, <5>1
      <4> QED
        BY <4>1, <4>2
    <3>9. lines'[e] = lines[e] \o what
      BY <1>0, <3>8, SaidTyped
    <3>10. /\ Len(lines[e]) \in Nat /\ DOMAIN lines[e] = 1 .. Len(lines[e]) /\ Len(what) \in Nat
           /\ DOMAIN what = 1 .. Len(what)
           /\ DOMAIN lines'[e] = 1 .. Len(lines[e]) + Len(what)
           /\ \A i \in DOMAIN lines[e] : lines'[e][i] = lines[e][i]
           /\ \A i \in DOMAIN what : lines'[e][Len(lines[e]) + i] = what[i]
      BY <1>0, <3>9, JoinedAt DEF Typed
    <3>11. ASSUME NEW i \in DOMAIN lines'[e], i \notin DOMAIN lines[e]
           PROVE  lines'[e][i] \in {yes, end} /\ i > Len(lines[e]) /\ i \in Int
      <4>1. /\ i - Len(lines[e]) \in DOMAIN what /\ i = Len(lines[e]) + (i - Len(lines[e]))
            /\ i > Len(lines[e]) /\ i \in Int
        BY SMTT(30), <3>10, <3>11
      <4>2. lines'[e][i] = what[i - Len(lines[e])]
        BY <3>10, <4>1
      <4> QED
        BY <3>8, <4>1, <4>2
    <3>12. \A i \in DOMAIN lines'[e] : lines'[e][i].line = "frame" => i \in DOMAIN lines[e]
      BY <3>6, <3>11
    <3>13. CASE c.cmd = "stop"
      <4>1. NoExit(e) /\ Leaving(r, e)
        BY <3>2, <3>13 DEF Memory
      <4>2. (~Waiting(r) => ~Says(e, "frame")) /\ Before(e, r)
        BY <1>4, <4>1 DEF Leaving
      <4>3. \A j \in DOMAIN lines'[e] : IsAnswer(lines'[e][j]) /\ lines'[e][j].by = r => j \in DOMAIN lines[e]
        BY <3>3, <3>4, <3>6, <3>11, <3>13 DEF IsAnswer
      <4>4. ~Waiting(r) => ~Says(e, "frame")'
        BY <3>10, <3>12, <4>2 DEF Says
      <4>5. Before(e, r)'
        BY <3>10, <3>12, <4>2, <4>3 DEF Before, IsAnswer
      <4> QED
        BY <3>5, <4>4, <4>5
    <3>14. CASE c.cmd = "exit"
      <4>1. c.by = r /\ Waiting(r)
        BY <3>3, <3>4, <3>14
      <4>2. ASSUME NEW j \in DOMAIN lines[e], IsAnswer(lines[e][j])
            PROVE  lines[e][j].by # r
        <5>1. Owed(e, lines[e][j])
          BY <1>0, <4>2 DEF Pipe
        <5> QED
          BY <3>2, <4>1, <5>1 DEF Owed
      <4>3. \A j \in DOMAIN lines'[e] : IsAnswer(lines'[e][j]) /\ lines'[e][j].by = r => j \notin DOMAIN lines[e]
        BY <3>10, <4>2 DEF IsAnswer
      <4>4. ASSUME NEW i \in DOMAIN lines[e], NEW j \in DOMAIN lines'[e], j \notin DOMAIN lines[e]
            PROVE  i < j
        <5>1. j > Len(lines[e]) /\ j \in Int
          BY <3>11, <4>4
        <5> QED
          BY <3>10, <4>4, <5>1
      <4>5. Before(e, r)'
        BY <3>12, <4>3, <4>4 DEF Before, IsAnswer
      <4> QED
        BY <3>5, <4>1, <4>5
    <3> QED
      BY <3>4, <3>13, <3>14
  <2> QED
    BY <2>2, <2>3
<1>5. ASSUME NEW r \in Requests
      PROVE  Leaving(r, e)'
  <2>1. Leaves(r, e)' => Leaves(r, e)
    BY DEF Leaves, Target
  <2>2. Waiting(r)' <=> Waiting(r)
    BY DEF Waiting
  <2> QED
    BY <1>4, <2>1, <2>2 DEF Leaving
<1> QED
  BY <1>3, <1>5 DEF Memory

\* by a watcher, of this engine or another,
LEMMA WatcherMemory ==
  ASSUME Crew, Shape, Roles, Pipes, OneAtATime, "timeout" \notin upsets,
         NEW x \in Engines, WatcherStep(x), NEW e \in Engines, Memory(e)
  PROVE  Memory(e)'
<1> USE DEF service, state, provider, watcher, actors, counters, bounds
<1>1. CASE WatcherExits(x)
  <2>1. /\ Kill(x) /\ Reject(x) /\ lines[x] = <<>> /\ child[x] = "up"
        /\ UNCHANGED <<pc, wk, engine, running, remembers, sink>>
    BY <1>1 DEF WatcherExits
  <2>2. /\ ~alive'[x]
        /\ \A y \in Engines : y # x =>
             /\ alive'[y] = alive[y] /\ thread'[y] = thread[y] /\ commands'[y] = commands[y]
             /\ lines'[y] = lines[y]
        /\ \A i \in DOMAIN lines'[x] : \E j \in DOMAIN lines[x] : lines'[x][i] = lines[x][j]
    BY <2>1, KillTyped
  <2>3. CASE x = e
    <3>1. running'[e] /\ ~Says(e, "frame")'
      BY <2>1, <2>2, <2>3 DEF Crew, Process, Says
    <3> QED
      BY <2>2, <2>3, <3>1 DEF Memory, Past, Lost, Leaving
  <2>4. CASE x # e
    <3>1. \A r \in Requests : Leaves(r, e)' => Leaves(r, e) /\ answer'[r] = answer[r]
      BY <2>1, <2>4 DEF Leaves, Target, Reject, Actors
    <3> QED
      BY <2>1, <2>2, <2>4, <3>1, SteadyMemory
  <2> QED
    BY <2>3, <2>4
<1>2. CASE WatcherStarts(x) \/ WatcherStops(x) \/ CaptureFails(x) \/ Frame(x)
  <2>1. /\ UNCHANGED <<pc, wk, answer, service, state, child, sink, listening, alive, bounds>> /\ alive[x]
        /\ \A y \in Engines : y # x =>
             thread'[y] = thread[y] /\ commands'[y] = commands[y] /\ lines'[y] = lines[y]
    BY <1>2, WatcherCrew
  <2>2. CASE x = e
    BY <1>2, <2>1, <2>2, WatcherMemoryThere
  <2>3. CASE x # e
    <3>1. \A r \in Requests : Leaves(r, e)' => Leaves(r, e) /\ answer'[r] = answer[r]
      BY <2>1 DEF Leaves, Target
    <3> QED
      BY <2>1, <2>3, <3>1, SteadyMemory
  <2> QED
    BY <2>2, <2>3
<1> QED
  BY <1>1, <1>2 DEF WatcherStep

\* by a line that is read: no frame is among those an engine that stopped still reads,
LEMMA ReadingMemory ==
  ASSUME Crew, Shape, Roles, Pipes, "timeout" \notin upsets,
         NEW x \in Engines, ReadLine(x), NEW e \in Engines, Memory(e)
  PROVE  Memory(e)'
<1>0. PICK l \in Lines : /\ Reads(x, l)
                         /\ ReadsFrame(x, l) \/ ReadsWindow(x, l) \/ ReadsStatus(x, l) \/ ReadsAnswer(x, l)
  BY ReadDigest
<1>1. /\ Typed /\ x \in Actors /\ e \in Actors /\ Pipe(x) /\ Target(x) = x
      /\ \A r \in Requests : r \in Actors /\ r # x /\ r # e
      /\ UNCHANGED <<wk, running, engine, alive, thread>>
      /\ \A b \in Actors : Target(b)' = Target(b)
      /\ \A b \in Actors : b # x => pc'[b] = pc[b]
      /\ lines[x] # <<>> /\ lines'[x] = Tail(lines[x]) /\ l = Head(lines[x])
  BY <1>0 DEF Crew, Actors, Pipes, Target, Reads, ReadsFrame, ReadsWindow, ReadsStatus, ReadsAnswer
<1>2. /\ l = lines[x][1] /\ 1 \in DOMAIN lines[x]
      /\ \A i \in DOMAIN lines'[x] : /\ i \in Int /\ i + 1 \in DOMAIN lines[x] /\ i + 1 # 1
                                     /\ lines'[x][i] = lines[x][i + 1]
  BY SMTT(30), <1>1, TailAt DEF Typed
<1>3. CASE x # e
  <2>1. /\ remembers'[e] = remembers[e] /\ sink'[e] = sink[e] /\ commands'[e] = commands[e]
        /\ lines'[e] = lines[e] /\ pc'[e] = pc[e]
    BY <1>0, <1>1, <1>3 DEF Reads
  <2>2. ASSUME NEW r \in Requests, Leaves(r, e)'
        PROVE  Leaves(r, e) /\ answer'[r] = answer[r]
    <3>1. Leaves(r, e)
      BY <1>1, <2>2 DEF Leaves
    <3>2. CASE ReadsAnswer(x, l)
      <4>1. Owed(x, l)
        BY <1>1, <1>2, <3>2 DEF Pipe, ReadsAnswer, IsAnswer
      <4> QED
        BY <1>1, <1>3, <3>1, <3>2, <4>1 DEF ReadsAnswer, Owed, Leaves
    <3> QED
      BY <1>0, <1>1, <3>1, <3>2 DEF ReadsFrame, ReadsWindow, ReadsStatus
  <2> QED
    BY <1>1, <2>1, <2>2, SteadyMemory
<1>4. CASE x = e
  <2>1. Says(e, "frame")' => Says(e, "frame")
    BY <1>2, <1>4 DEF Says
  <2>2. l.line = "frame" => Says(e, "frame")
    BY <1>2, <1>4 DEF Says
  <2>3. Lost(e)'
    BY <1>1, <2>1 DEF Memory, Lost
  <2>4. Past(e)'
    <3> SUFFICES ASSUME ~running[e], engine # e
                 PROVE  /\ ~remembers'[e] /\ ~thread'[e]
                        /\ Says(e, "frame")' => ~sink'[e] /\ pc'[e] # "retuneStop"
      BY <1>1 DEF Past
    <3>1. /\ ~remembers[e] /\ ~thread[e]
          /\ Says(e, "frame") => ~sink[e] /\ pc[e] # "retuneStop"
      BY DEF Memory, Past
    <3>2. ~ReadsWindow(e, l)
      BY <2>2, <3>1 DEF ReadsWindow
    <3> QED
      BY <1>0, <1>1, <1>4, <2>1, <2>2, <3>1, <3>2 DEF ReadsFrame, ReadsStatus, ReadsAnswer
  <2>5. ASSUME NEW r \in Requests
        PROVE  Leaving(r, e)'
    <3> SUFFICES ASSUME Leaves(r, e)', alive[e], pc'[e] = "retuneStop", NoExit(e)'
                 PROVE  ~thread[e] /\ (~Waiting(r)' => ~Says(e, "frame")') /\ Before(e, r)'
      BY <1>1 DEF Leaving
    <3>1. Leaves(r, e)
      BY <1>1, <1>4 DEF Leaves
    <3>2. ~ReadsWindow(e, l)
      BY <3>1 DEF ReadsWindow, Leaves, Target
    <3>3. pc' = pc /\ commands' = commands
      BY <1>0, <1>4, <3>2 DEF ReadsFrame, ReadsStatus, ReadsAnswer
    <3>4. ~thread[e] /\ (~Waiting(r) => ~Says(e, "frame")) /\ Before(e, r)
      BY <3>1, <3>3 DEF Memory, Leaving, NoExit
    <3>5. Before(e, r)'
      <4> SUFFICES ASSUME NEW i \in DOMAIN lines'[e], NEW j \in DOMAIN lines'[e],
                          lines'[e][i].line = "frame", IsAnswer(lines'[e][j]), lines'[e][j].by = r
                   PROVE  i < j
        BY DEF Before, IsAnswer
      <4>1. i + 1 < j + 1
        BY <1>2, <1>4, <3>4 DEF Before
      <4> QED
        BY <1>2, <1>4, <4>1
    <3>6. ~Waiting(r)' => ~Says(e, "frame")'
      <4>1. CASE ReadsAnswer(e, l) /\ l.by = r
        <5>1. ASSUME NEW i \in DOMAIN lines'[e], lines'[e][i].line = "frame"
              PROVE  FALSE
          <6>1. i + 1 < 1
            BY <1>2, <1>4, <3>4, <4>1, <5>1 DEF Before, ReadsAnswer, IsAnswer
          <6>2. i + 1 \in DOMAIN lines[e] /\ DOMAIN lines[e] = 1 .. Len(lines[e]) /\ Len(lines[e]) \in Nat
            BY <1>1, <1>2, <1>4, TailAt DEF Typed
          <6> QED
            BY <6>1, <6>2
        <5> QED
          BY <5>1 DEF Says
      <4>2. CASE ~(ReadsAnswer(e, l) /\ l.by = r)
        <5>1. answer'[r] = answer[r]
          BY <1>0, <1>1, <1>4, <3>2, <4>2 DEF ReadsFrame, ReadsStatus, ReadsAnswer
        <5> QED
          BY <2>1, <3>4, <5>1 DEF Waiting
      <4> QED
        BY <4>1, <4>2
    <3> QED
      BY <3>4, <3>5, <3>6
  <2> QED
    BY <2>3, <2>4, <2>5 DEF Memory
<1> QED
  BY <1>3, <1>4

\* and so by every step.
LEMMA MemoriesStep ==
  ASSUME Tidy, [Next]_vars
  PROVE  Memories'
<1> USE DEF service, state, provider, watcher, actors, counters, bounds
<1>0. /\ Crew /\ Typed /\ Waits /\ Shape /\ Roles /\ Pipes /\ \A r \in Requests : r \in Actors
      /\ discipline' = discipline
  <2>1. /\ \A r \in Requests : RequestStep(r) => discipline' = discipline
        /\ \A r \in Requests, body \in Bodies : Patch(r, body) => discipline' = discipline
        /\ \A r \in Requests : Restart(r) => discipline' = discipline
        /\ Behind => discipline' = discipline
    BY RequestKinds, ShapeByKind, PatchMoves, RestartMoves DEF Tidy, Behind
  <2>2. \A e \in Engines : RetuneStep(e) \/ WatcherStep(e) \/ ReadLine(e) => discipline' = discipline
    BY <2>1, BehindSteps DEF Tidy
  <2>3. \A a \in Actors : CommandTimesOut(a) => discipline' = discipline
    BY <2>1, TimesOutBehind DEF Tidy
  <2>4. UNCHANGED vars => discipline' = discipline
    BY DEF vars
  <2> QED
    BY <2>1, <2>2, <2>3, <2>4 DEF Next, Tidy, Crew, Actors
<1> SUFFICES ASSUME discipline = "serial"
             PROVE  Home' /\ ("timeout" \notin upsets' => \A e \in Engines : Memory(e)')
  BY <1>0 DEF Memories
<1>1. Home' /\ Home /\ HeldRuns /\ OneAtATime /\ \A r \in Requests : Owned(r)
  BY HomeStep DEF Tidy, Memories, Serial
<1> SUFFICES ASSUME "timeout" \notin upsets', NEW e \in Engines
             PROVE  Memory(e)'
  BY <1>1
<1>2. upsets \subseteq upsets' => Memory(e) /\ "timeout" \notin upsets
  BY DEF Tidy, Memories
<1>3. ASSUME NEW r \in Requests, RequestStep(r)
      PROVE  Memory(e)'
  <2>1. CASE Thinks(r)
    BY <1>0, <1>1, <1>2, <2>1, ThinkingMemory DEF Thinks, Ticks
  <2>2. CASE \E x \in Engines, cmd \in {"start", "stop", "exit"} : Sends(r, x, cmd)
    <3>1. PICK x \in Engines, cmd \in {"start", "stop", "exit"} : Sends(r, x, cmd)
      BY <2>2
    <3>2. r \notin Engines /\ upsets \subseteq upsets'
      BY <3>1 DEF Sends, Ticks
    <3> QED
      BY <1>0, <1>1, <1>2, <3>1, <3>2, SendingMemory
  <2>3. CASE Launch(r) \/ LaunchFails(r) \/ LaunchReady(r) \/ Exited(r)
    <3>1. upsets \subseteq upsets'
      BY <1>0, <2>3, ProcessDigest DEF Launched, Unlaunched, IsUp, IsDown
    <3> QED
      BY <1>0, <1>1, <1>2, <2>3, <3>1, ProcessMemory
  <2> QED
    BY <1>0, <1>3, <2>1, <2>2, <2>3, RequestDigest
<1>4. ASSUME NEW r \in Requests, NEW body \in Bodies, Patch(r, body)
      PROVE  Memory(e)'
  <2>1. Thinks(r)
    BY <1>0, <1>4, PatchDigest
  <2> QED
    BY <1>0, <1>1, <1>2, <2>1, ThinkingMemory DEF Thinks, Ticks
<1>5. ASSUME NEW x \in Engines, RetuneStep(x)
      PROVE  Memory(e)'
  <2>1. x \in Actors /\ (Thinks(x) \/ (Sends(x, x, "start") /\ pc[x] = "retuneStop"))
    BY <1>0, <1>5, RetuneDigest DEF Actors
  <2>2. upsets \subseteq upsets'
    BY <2>1 DEF Thinks, Sends, Ticks
  <2>3. CASE Thinks(x)
    BY <1>1, <1>2, <2>1, <2>2, <2>3, ThinkingMemory
  <2>4. CASE Sends(x, x, "start") /\ pc[x] = "retuneStop"
    BY <1>0, <1>1, <1>2, <2>1, <2>2, <2>4, SendingMemory
  <2> QED
    BY <2>1, <2>3, <2>4
<1>6. ASSUME NEW x \in Engines, WatcherStep(x)
      PROVE  Memory(e)'
  <2>1. upsets \subseteq upsets'
    BY <1>6 DEF WatcherStep, WatcherStarts, WatcherStops, CaptureFails, Frame, WatcherExits
  <2> QED
    BY <1>0, <1>1, <1>2, <1>6, <2>1, WatcherMemory
<1>7. ASSUME NEW x \in Engines, ReadLine(x)
      PROVE  Memory(e)'
  <2>1. upsets \subseteq upsets'
    BY <1>7 DEF ReadLine
  <2> QED
    BY <1>0, <1>2, <1>7, <2>1, ReadingMemory
<1>8. ASSUME NEW r \in Requests, Restart(r)
      PROVE  Memory(e)'
  <2>1. /\ ~running'[e] /\ ~remembers'[e] /\ ~thread'[e] /\ lines'[e] = <<>>
        /\ \A q \in Requests : pc'[q] # "exiting"
    BY <1>8 DEF Restart, Off, Empty, Actors
  <2> QED
    BY <2>1 DEF Memory, Past, Lost, Leaving, Leaves, Says
<1>9. CASE UNCHANGED vars
  <2>1. UNCHANGED <<pc, wk, answer, engine, running, remembers, alive, sink, thread, commands, lines, upsets>>
    BY <1>9 DEF vars
  <2>2. \A r \in Requests : Leaves(r, e)' => Leaves(r, e)
    BY <2>1 DEF Leaves, Target
  <2> QED
    BY <1>2, <2>1, <2>2, SteadyMemory
<1>10. ASSUME NEW a \in Actors, CommandTimesOut(a)
       PROVE  Memory(e)'
  BY <1>0, <1>10, TimeoutCrew
<1> QED
  BY <1>3, <1>4, <1>5, <1>6, <1>7, <1>8, <1>9, <1>10 DEF Next, Tidy

\* VisualPerceptionEngine.stop: for a client that waits for its answers, visual memory dies
\* with the session, whatever frames and whatever retune were still on their way, but
\* for commands that timed out.
THEOREM MemoryDies == Spec => []StoppedEngineForgets
<1>1. Init => Tidy
  <2> SUFFICES ASSUME Init
               PROVE  Tidy
    OBVIOUS
  <2>1. Pipes
    BY DEF Init, Pipes, Pipe, Empty
  <2>2. Home
    BY DEF Init, Home, Adapting, Actors
  <2>3. ASSUME NEW e \in Engines
        PROVE  Memory(e)
    BY DEF Init, Memory, Past, Lost, Leaving, Leaves, Says, Off, Empty, Actors
  <2> QED
    BY <2>1, <2>2, <2>3, InitCrew, EyesInit DEF Tidy, Memories
<1>2. Tidy /\ [Next]_vars => Tidy'
  BY CrewStep, ShapeStep, PipesStep, SerialStep, MemoriesStep DEF Tidy
<1>3. Tidy => StoppedEngineForgets
  BY DEF Tidy, Memories, Memory, Past, StoppedEngineForgets
<1> QED
  BY <1>1, <1>2, <1>3, PTL DEF Spec
=============================================================================
