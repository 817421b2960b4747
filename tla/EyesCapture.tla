----------------------------- MODULE EyesCapture -----------------------------
(***************************************************************************)
(* One user's Eyes: the settings route, EyesService, the perception engine *)
(* and the Windows provider with its watcher process                       *)
(* (api/routes/settingsRoutes.ts, eyes/eyesService.ts,                     *)
(* eyes/visualPerceptionEngine.ts, providers/windows/).                    *)
(*                                                                         *)
(* An engine and the provider made for it have one name.  Whoever awaits   *)
(* the provider is an actor: a request, or the engine itself for the       *)
(* retune it fires and forgets.  Commands go down stdin, lines come back   *)
(* up stdout; node and watcher each take them in order, one at a time.     *)
(* A row is read in the step that uses it.  The capture rate is automatic, *)
(* so that a frame may close a measurement window and ask for a retune;    *)
(* the windows last seconds, so that at most one retune is in the air.     *)
(* Stop's Join is taken to outlast the capture thread.                     *)
(* An operator named Op_Mistake is Op with a mistake a programmer could    *)
(* make; no formula uses it.                                               *)
(***************************************************************************)
EXTENDS Integers, Sequences, FiniteSets, Selections

CONSTANTS
  Requests,     \* bound: PATCH requests, or the restore at startup, at one time
  Engines,      \* bound: engines somebody still holds
  None,
  MaxPatches, MaxRetunes, MaxRestarts, MaxTroubles,  \* bounds
  Disciplines   \* of clients: a subset of {"serial", "overlapping"}

ASSUME SetsAssumption ==
  /\ None \notin Requests \union Engines /\ Requests \intersect Engines = {}
  /\ {MaxPatches, MaxRetunes, MaxRestarts, MaxTroubles} \subseteq Nat
  /\ Disciplines \subseteq {"serial", "overlapping"}

VARIABLES
  discipline,
  settings,   \* the row: eyesEnabled, and whether eyesMode includes pixels
  pc, wk,     \* where each actor is; a request's body and its engine
  answer,     \* of the watcher, to each actor's last command
  engine,     \* EyesService.engines, for this user
  running, policy, active, \* of each engine: running, policy.enabled, continuousCaptureActive
  remembers,  \* whether its history holds anything
  child,      \* the provider's child process, as node knows it
  sink,       \* onFrameCallback is set
  listening,  \* onCaptureStatusCallback is set
  alive,      \* watcher processes
  thread,     \* their capture threads
  commands, lines,  \* in the pipes
  upsets,     \* what went wrong so far
  patches, retunes, restarts

actors == <<pc, wk, answer>>
service == <<discipline, settings, engine>>
state == <<running, policy, active, remembers>>
provider == <<child, sink, listening>>
watcher == <<alive, thread, commands, lines>>
bounds == <<patches, retunes, restarts>>
counters == <<upsets, bounds>>
vars == <<actors, service, state, provider, watcher, counters>>

Actors == Requests \union Engines
PCs == {"idle", "patched", "launching", "snapshot", "beginning", "halting", "exiting",
        "applying", "restopping", "restarting", "unstopping", "retuneStop", "retuneStart"}
Choice == {"keep", "on", "off"}
Bodies == [enabled : Choice, visual : Choice, restore : BOOLEAN]
Upsets == {"timeout", "exit", "failure", "lastWord", "overtaken", "unrestored"}
Commands == [cmd : {"start", "stop", "exit"}, by : Actors \union {None}]
Lines == [line : {"capturing", "failed", "stopped", "frame"}]
         \union [line : {"response"}, by : Actors \union {None}, ok : BOOLEAN]

\* A command that waits has a process to answer it.
TypeOK ==
  /\ discipline \in Disciplines
  /\ settings \in [enabled : BOOLEAN, visual : BOOLEAN]
  /\ pc \in [Actors -> PCs]
  /\ wk \in [Requests -> [body : Bodies, on : Engines \union {None}]]
  /\ answer \in [Actors -> {"none", "waiting", "ok", "failed"}]
  /\ engine \in Engines \union {None}
  /\ {running, policy, active, remembers, sink, listening, alive, thread}
       \subseteq [Engines -> BOOLEAN]
  /\ child \in [Engines -> {"none", "launching", "up"}]
  /\ commands \in [Engines -> Seq(Commands)] /\ lines \in [Engines -> Seq(Lines)]
  /\ upsets \subseteq Upsets /\ {patches, retunes, restarts} \subseteq Nat
  /\ \A a \in Actors : answer[a] = "waiting" =>
       (IF a \in Requests THEN wk[a].on ELSE a) \in {e \in Engines : child[e] = "up"}

NoBody == [enabled |-> "keep", visual |-> "keep", restore |-> FALSE]
NoWork == [body |-> NoBody, on |-> None]
Off == [e \in Engines |-> FALSE]
Empty == [e \in Engines |-> <<>>]

Init ==
  /\ discipline \in Disciplines
  /\ settings = [enabled |-> FALSE, visual |-> FALSE]
  /\ pc = [a \in Actors |-> "idle"] /\ answer = [a \in Actors |-> "none"]
  /\ wk = [r \in Requests |-> NoWork]
  /\ engine = None
  /\ running = Off /\ policy = Off /\ active = Off /\ remembers = Off
  /\ child = [e \in Engines |-> "none"] /\ sink = Off /\ listening = Off
  /\ alive = Off /\ thread = Off /\ commands = Empty /\ lines = Empty
  /\ upsets = {} /\ patches = 0 /\ retunes = 0 /\ restarts = 0

Resting(a) == pc[a] = "idle"
Quiet == \A r \in Requests : Resting(r)
AnyRequest == CHOOSE r \in Requests : TRUE
Restoring == \E r \in Requests : ~Resting(r) /\ wk[r].body.restore
Calm == Cardinality(upsets) + retunes + restarts < MaxTroubles
Goto(a, to) == pc' = [pc EXCEPT ![a] = to]
GoOn(r, to) == Goto(r, to) /\ UNCHANGED wk
End(r) == Goto(r, "idle") /\ wk' = [wk EXCEPT ![r] = NoWork]
Target(a) == IF a \in Requests THEN wk[a].on ELSE a

-----------------------------------------------------------------------------
(* WindowsVisualProvider: commands and their answers *)

\* sendCommand; without a child it throws.
Send(e, a, c) ==
  /\ commands' = IF child[e] = "none" THEN commands
                 ELSE [commands EXCEPT ![e] = Append(@, [cmd |-> c, by |-> a])]
  /\ answer' = [answer EXCEPT ![a] = IF child[e] = "none" THEN "failed" ELSE "waiting"]
  /\ UNCHANGED <<alive, thread, lines>>

\* The frame sink is set before the command is sent.
StartContinuousCapture(e, a) ==
  /\ sink' = [sink EXCEPT ![e] = TRUE]
  /\ Send(e, a, "start")

StopContinuousCapture(e, a) ==
  /\ sink' = [sink EXCEPT ![e] = FALSE]
  /\ Send(e, a, "stop")

Answered(a) == answer[a] \in {"ok", "failed"}

\* An answer to nobody's command is dropped when it is read: here, at once.
WithoutAnswers(seq, to) ==
  Filtered(seq, {i \in DOMAIN seq : ~(seq[i].line = "response" /\ seq[i].by \in to)})

\* Every command has a deadline.  The watcher may still carry it out.

CommandTimesOut_Never(a) == FALSE /\ UNCHANGED vars

CommandTimesOut(a) ==
  LET e == Target(a) IN
  /\ answer[a] = "waiting"
  /\ answer' = [answer EXCEPT ![a] = "failed"]
  /\ commands' = [commands EXCEPT ![e] =
       [i \in DOMAIN @ |-> IF @[i].by = a THEN [@[i] EXCEPT !.by = None] ELSE @[i]]]
  /\ lines' = [lines EXCEPT ![e] = WithoutAnswers(@, {a})]
  /\ upsets' = upsets \union {"timeout"}
  /\ UNCHANGED <<pc, wk, service, state, provider, alive, thread, bounds>>

\* What is left when the process of provider e is gone: every pending command
\* is rejected.
Reject_Nobody(e) == UNCHANGED answer

Reject(e) ==
  answer' = [a \in Actors |->
    IF Target(a) = e /\ answer[a] = "waiting" THEN "failed" ELSE answer[a]]

Kill(e) ==
  /\ alive' = [alive EXCEPT ![e] = FALSE]
  /\ thread' = [thread EXCEPT ![e] = FALSE]
  /\ commands' = [commands EXCEPT ![e] = <<>>]
  /\ child' = [child EXCEPT ![e] = "none"]
  /\ lines' = [lines EXCEPT ![e] = WithoutAnswers(@, Actors)]

\* The process ends by itself; what it wrote was read by then.
WatcherExits(e) ==
  /\ Calm /\ alive[e] /\ child[e] = "up" /\ lines[e] = <<>> /\ "exit" \notin upsets
  /\ upsets' = upsets \union {"exit"}
  /\ Kill(e) /\ Reject(e)
  /\ UNCHANGED <<pc, wk, service, state, sink, listening, bounds>>

-----------------------------------------------------------------------------
(* eyesWatcher.ps1 *)

Say(e, what) == lines' = [lines EXCEPT ![e] = @ \o what]
Line(s) == [line |-> s]
Response(c, ok) == IF c.by = None THEN <<>> ELSE <<[line |-> "response", by |-> c.by, ok |-> ok]>>

\* Start: the capture thread announces itself while the command answers.
WatcherStarts(e) ==
  LET c == Head(commands[e]) IN
  /\ alive[e] /\ commands[e] # <<>> /\ c.cmd = "start"
  /\ commands' = [commands EXCEPT ![e] = Tail(@)]
  /\ \/ thread[e] /\ Say(e, Response(c, TRUE)) /\ UNCHANGED <<thread, upsets>>
     \/ /\ ~thread[e] /\ thread' = [thread EXCEPT ![e] = TRUE] /\ UNCHANGED upsets
        /\ \/ Say(e, <<Line("capturing")>> \o Response(c, TRUE))
           \/ Say(e, Response(c, TRUE) \o <<Line("capturing")>>)
     \/ /\ ~thread[e] /\ UNCHANGED thread
        /\ \/ Say(e, <<Line("stopped")>> \o Response(c, FALSE)) /\ UNCHANGED upsets
           \/ /\ Calm /\ Say(e, Response(c, FALSE) \o <<Line("stopped")>>)
              /\ upsets' = upsets \union {"lastWord"}
  /\ UNCHANGED <<actors, service, state, provider, alive, bounds>>

\* Stop joins the capture thread, whose last word comes first.
WatcherStops(e) ==
  LET c == Head(commands[e]) IN
  /\ alive[e] /\ commands[e] # <<>> /\ c.cmd \in {"stop", "exit"}
  /\ commands' = [commands EXCEPT ![e] = Tail(@)]
  /\ thread' = [thread EXCEPT ![e] = FALSE]
  /\ Say(e, (IF thread[e] THEN <<Line("stopped")>> ELSE <<>>) \o Response(c, TRUE))
  /\ UNCHANGED <<actors, service, state, provider, alive, counters>>

\* The thread says "failed" and, ending, "stopped" at once: here one line.
CaptureFails(e) ==
  /\ Calm /\ thread[e] /\ "failure" \notin upsets
  /\ upsets' = upsets \union {"failure"}
  /\ thread' = [thread EXCEPT ![e] = FALSE]
  /\ Say(e, <<Line("failed")>>)
  /\ UNCHANGED <<actors, service, state, provider, alive, commands, bounds>>

\* At most one frame is in the pipe: a second would do what the first does.
Frame(e) ==
  /\ thread[e] /\ Line("frame") \notin {lines[e][i] : i \in DOMAIN lines[e]}
  /\ Say(e, <<Line("frame")>>)
  /\ UNCHANGED <<actors, service, state, provider, alive, thread, commands, counters>>
-----------------------------------------------------------------------------
(* What node reads: handleStdout, ingestContinuousFrame, handleCaptureStatus *)

\* retuneCaptureRate, as far as its first await.  No window closes while the provider
\* stops: one lasts as long as the deadline of exit, and begins anew with every start.
Retune(e) ==
  /\ Calm /\ retunes < MaxRetunes /\ pc[e] = "idle"
  /\ \A r \in Requests : ~(wk[r].on = e /\ pc[r] = "exiting")
  /\ retunes' = retunes + 1
  /\ Goto(e, "retuneStop")
  /\ sink' = [sink EXCEPT ![e] = FALSE]
  /\ commands' = IF child[e] = "none" THEN commands
                 ELSE [commands EXCEPT ![e] = Append(@, [cmd |-> "stop", by |-> e])]
  /\ answer' = [answer EXCEPT ![e] = IF child[e] = "none" THEN "failed" ELSE "waiting"]

HearFrame(e) ==
  /\ remembers' = [remembers EXCEPT ![e] = @ \/ (sink[e] /\ active[e])]
  /\ \/ UNCHANGED <<pc, answer, sink, commands, retunes>>
     \/ sink[e] /\ active[e] /\ Retune(e)
  /\ UNCHANGED active

HearStatus_KeepsActive(e, s) ==
  /\ sink' = [sink EXCEPT ![e] = @ /\ s = "capturing"]
  /\ active' = [active EXCEPT ![e] = @ \/ (listening[e] /\ s = "capturing")]
  /\ UNCHANGED <<pc, answer, remembers, commands, retunes>>

HearStatus(e, s) ==
  /\ sink' = [sink EXCEPT ![e] = @ /\ s = "capturing"]
  /\ active' = [active EXCEPT ![e] = IF listening[e] THEN s = "capturing" ELSE @]
  /\ UNCHANGED <<pc, answer, remembers, commands, retunes>>

HearResponse(e, l) ==
  /\ answer' = [a \in Actors |-> IF a = l.by THEN (IF l.ok THEN "ok" ELSE "failed") ELSE answer[a]]
  /\ UNCHANGED <<pc, active, remembers, sink, commands, retunes>>

\* Capture's end is read while a start, maybe of a later capture, is in the air.
Starting == {"beginning", "restarting", "retuneStart"}
Stopping == {"halting", "restopping", "unstopping", "retuneStop"}
Overtakes(e, l) ==
  LET at(pcs) == {a \in Actors : Target(a) = e /\ pc[a] \in pcs} IN
  \/ l.line = "failed" /\ at(Starting) # {}
  \/ l.line = "stopped" /\ \E a, b \in at(Starting \union Stopping) : a # b

\* Lines that were in the pipe are read even when the process is gone.
ReadLine(e) ==
  LET l == Head(lines[e]) IN
  /\ lines[e] # <<>>
  /\ lines' = [lines EXCEPT ![e] = Tail(@)]
  /\ upsets' = IF Overtakes(e, l) THEN upsets \union {"overtaken"} ELSE upsets
  /\ \/ l.line = "frame" /\ HearFrame(e)
     \/ l.line \in {"capturing", "failed", "stopped"} /\ HearStatus(e, l.line)
     \/ l.line = "response" /\ HearResponse(e, l)
  /\ UNCHANGED <<wk, service, running, policy, child, listening, alive, thread, patches, restarts>>

\* Nothing looks again at whether capture is still wanted.
RetuneStopped(e) ==
  /\ pc[e] = "retuneStop" /\ Answered(e)
  /\ Goto(e, "retuneStart")
  /\ StartContinuousCapture(e, e)
  /\ UNCHANGED <<wk, service, state, child, listening, counters>>

RetuneStarted(e) ==
  /\ pc[e] = "retuneStart" /\ Answered(e)
  /\ Goto(e, "idle") /\ answer' = [answer EXCEPT ![e] = "none"]
  /\ UNCHANGED <<wk, service, state, provider, watcher, counters>>

-----------------------------------------------------------------------------
(* PATCH /settings/eyes, and EyesService.ensureStarted *)

Chosen(choice, old) == IF choice = "keep" THEN old ELSE choice = "on"

Patch(r, body) ==
  /\ pc[r] = "idle" /\ ~body.restore /\ ~Restoring
  /\ patches < MaxPatches /\ patches' = patches + 1
  /\ body.enabled # "keep" \/ body.visual # "keep"
  /\ IF discipline = "serial" THEN Quiet /\ r = AnyRequest ELSE body.visual = "keep"  \* bound
  /\ settings' = [enabled |-> Chosen(body.enabled, settings.enabled),
                  visual |-> Chosen(body.visual, settings.visual)]
  /\ wk' = [wk EXCEPT ![r] = [body |-> body, on |-> None]]
  /\ Goto(r, "patched")
  /\ UNCHANGED <<answer, discipline, engine, state, provider, watcher, upsets, retunes, restarts>>

IsRunning == engine # None /\ running[engine]

\* The body asks for nothing that starts or stops an engine, or it is started.
NothingToStart(r) ==
  /\ pc[r] = "patched"
  /\ wk[r].body.enabled = "keep" \/ (wk[r].body.enabled = "on" /\ IsRunning)
  /\ IF wk[r].body.restore THEN End(r) ELSE GoOn(r, "applying")
  /\ UNCHANGED <<answer, service, state, provider, watcher, counters>>

\* ensureStarted threw: the route takes the setting back, a restore only logs.
GiveUp_SettingKept(r) == End(r) /\ UNCHANGED <<settings, upsets>>

GiveUp(r) ==
  /\ End(r)
  /\ IF wk[r].body.restore
     THEN upsets' = upsets \union {"unrestored"} /\ UNCHANGED settings
     ELSE settings' = [settings EXCEPT !.enabled = FALSE] /\ UNCHANGED upsets

Refused(r) ==
  /\ pc[r] = "patched" /\ wk[r].body.enabled = "on" /\ ~IsRunning /\ ~settings.enabled
  /\ GiveUp(r)
  /\ UNCHANGED <<answer, discipline, engine, state, provider, watcher, bounds>>

\* Nobody holds e: its name may stand for the next one made.
Free(e) ==
  /\ e # engine /\ ~alive[e] /\ lines[e] = <<>>
  /\ \A a \in Actors : Target(a) = e => Resting(a)

Launch(r) ==
  LET e == CHOOSE x \in Engines : Free(x) IN
  /\ pc[r] = "patched" /\ wk[r].body.enabled = "on" /\ ~IsRunning /\ settings.enabled
  /\ \E x \in Engines : Free(x)
  /\ policy' = [policy EXCEPT ![e] = settings.visual]
  /\ child' = [child EXCEPT ![e] = "launching"] /\ alive' = [alive EXCEPT ![e] = TRUE]
  /\ wk' = [wk EXCEPT ![r].on = e] /\ Goto(r, "launching")
  /\ running' = [running EXCEPT ![e] = FALSE] /\ active' = [active EXCEPT ![e] = FALSE]
  /\ sink' = [sink EXCEPT ![e] = FALSE] /\ listening' = [listening EXCEPT ![e] = FALSE]
  /\ remembers' = [remembers EXCEPT ![e] = FALSE]
  /\ UNCHANGED <<answer, service, thread, commands, lines, counters>>

LaunchFails_Unkilled(r) ==
  /\ pc[r] = "launching"
  /\ child' = [child EXCEPT ![wk[r].on] = "none"]
  /\ GiveUp(r)
  /\ UNCHANGED <<answer, discipline, engine, state, sink, listening, watcher, bounds>>

LaunchFails(r) ==
  /\ pc[r] = "launching"
  /\ Kill(wk[r].on) /\ GiveUp(r)
  /\ UNCHANGED <<answer, discipline, engine, state, sink, listening, bounds>>

LaunchReady(r) ==
  LET e == wk[r].on IN
  /\ pc[r] = "launching" /\ alive[e]
  /\ child' = [child EXCEPT ![e] = "up"]
  /\ running' = [running EXCEPT ![e] = TRUE]
  /\ Goto(r, "snapshot")
  /\ UNCHANGED <<wk, answer, service, policy, active, remembers, sink, listening, watcher, counters>>

Install(r) ==
  /\ engine' = wk[r].on
  /\ IF wk[r].body.restore THEN End(r) ELSE GoOn(r, "applying")

\* The window list came or failed; capture is started if the policy says so.
Snapshot(r) ==
  LET e == wk[r].on IN
  /\ pc[r] = "snapshot"
  /\ \/ /\ policy[e] /\ ~active[e]
        /\ StartContinuousCapture(e, r) /\ GoOn(r, "beginning")
        /\ UNCHANGED engine
     \/ /\ ~policy[e] \/ active[e]
        /\ Install(r) /\ UNCHANGED <<answer, sink, watcher>>
  /\ UNCHANGED <<discipline, settings, state, child, listening, counters>>

\* startContinuousCaptureIfEnabled, after its await.
Started(e, a) ==
  /\ active' = [active EXCEPT ![e] = @ \/ answer[a] = "ok"]
  /\ listening' = [listening EXCEPT ![e] = @ \/ answer[a] = "ok"]
  /\ answer' = [answer EXCEPT ![a] = "none"]

Begun(r) ==
  /\ pc[r] = "beginning" /\ Answered(r)
  /\ Started(wk[r].on, r) /\ Install(r)
  /\ UNCHANGED <<discipline, settings, running, policy, remembers, child, sink, watcher, counters>>

-----------------------------------------------------------------------------
(* EyesService.stop and VisualPerceptionEngine.stop *)

\* stopContinuousCaptureIfActive, as far as its await.
StopCapture(e, a) ==
  /\ active[e]
  /\ active' = [active EXCEPT ![e] = FALSE]
  /\ StopContinuousCapture(e, a)

NothingToStop(r) ==
  /\ pc[r] = "patched" /\ wk[r].body.enabled = "off" /\ ~IsRunning
  /\ engine' = None /\ Goto(r, "applying")
  /\ UNCHANGED <<wk, answer, discipline, settings, state, provider, watcher, counters>>

Halt(r) ==
  LET e == engine IN
  /\ pc[r] = "patched" /\ wk[r].body.enabled = "off" /\ IsRunning
  /\ wk' = [wk EXCEPT ![r].on = e]
  /\ \/ StopCapture(e, r) /\ Goto(r, "halting")
     \/ ~active[e] /\ Send(e, r, "exit") /\ Goto(r, "exiting") /\ UNCHANGED <<active, sink>>
  /\ UNCHANGED <<service, running, policy, remembers, child, listening, counters>>

Halted(r) ==
  /\ pc[r] = "halting" /\ Answered(r)
  /\ Send(wk[r].on, r, "exit") /\ Goto(r, "exiting")
  /\ UNCHANGED <<wk, service, state, provider, counters>>

\* provider.stop, without a child, does nothing at all; the map forgets
\* whichever engine it holds.
Exited_HistoryKept(r) ==
  LET e == wk[r].on IN
  /\ pc[r] = "exiting" /\ Answered(r)
  /\ Kill(e)
  /\ sink' = [sink EXCEPT ![e] = @ /\ child[e] = "none"]
  /\ answer' = [answer EXCEPT ![r] = "none"]
  /\ running' = [running EXCEPT ![e] = FALSE]
  /\ engine' = None /\ Goto(r, "applying")
  /\ UNCHANGED <<wk, discipline, settings, policy, active, remembers, listening, counters>>

Exited(r) ==
  LET e == wk[r].on IN
  /\ pc[r] = "exiting" /\ Answered(r)
  /\ Kill(e)
  /\ sink' = [sink EXCEPT ![e] = @ /\ child[e] = "none"]
  /\ answer' = [a \in Actors |->
       IF a = r THEN "none"
       ELSE IF Target(a) = e /\ answer[a] = "waiting" THEN "failed" ELSE answer[a]]
  /\ running' = [running EXCEPT ![e] = FALSE]
  /\ remembers' = [remembers EXCEPT ![e] = FALSE]
  /\ engine' = None /\ Goto(r, "applying")
  /\ UNCHANGED <<wk, discipline, settings, policy, active, listening, counters>>

-----------------------------------------------------------------------------
(* EyesService.applySettings and setContinuousCapturePolicy *)

NothingToApply(r) ==
  /\ pc[r] = "applying" /\ engine = None
  /\ End(r)
  /\ UNCHANGED <<answer, service, state, provider, watcher, counters>>

\* startContinuousCaptureIfEnabled, as far as its await; `enabled' is the policy by then.
StartIfEnabled(e, r, enabled) ==
  \/ /\ enabled /\ ~active[e]
     /\ StartContinuousCapture(e, r) /\ Goto(r, "restarting")
     /\ wk' = [wk EXCEPT ![r].on = e]
  \/ /\ ~enabled \/ active[e]
     /\ End(r) /\ answer' = [answer EXCEPT ![r] = "none"]
     /\ UNCHANGED <<sink, watcher>>

Apply(r) ==
  LET e == engine
      was == policy[e]
      new == settings.visual
  IN
  /\ pc[r] = "applying" /\ engine # None
  /\ policy' = [policy EXCEPT ![e] = new]
  /\ \/ /\ ~running[e] \/ (~new /\ ~(was /\ active[e]))
        /\ End(r) /\ UNCHANGED <<answer, active, sink, watcher>>
     \/ /\ running[e] /\ new /\ ~(was /\ active[e])
        /\ StartIfEnabled(e, r, TRUE) /\ UNCHANGED active
     \/ /\ running[e] /\ was
        /\ StopCapture(e, r) /\ Goto(r, IF new THEN "restopping" ELSE "unstopping")
        /\ wk' = [wk EXCEPT ![r].on = e]
  /\ UNCHANGED <<service, running, remembers, child, listening, counters>>

Restopped(r) ==
  /\ pc[r] = "restopping" /\ Answered(r)
  /\ StartIfEnabled(wk[r].on, r, policy[wk[r].on])
  /\ UNCHANGED <<service, state, child, listening, counters>>

Restarted(r) ==
  /\ pc[r] = "restarting" /\ Answered(r)
  /\ Started(wk[r].on, r) /\ End(r)
  /\ UNCHANGED <<service, running, policy, remembers, child, sink, watcher, counters>>

Unstopped(r) ==
  /\ pc[r] = "unstopping" /\ Answered(r)
  /\ End(r) /\ answer' = [answer EXCEPT ![r] = "none"]
  /\ UNCHANGED <<service, state, provider, watcher, counters>>

-----------------------------------------------------------------------------
(* Restart: only the row is left, and startup restores an enabled engine
   before the server listens *)

Restart(r) ==
  /\ Calm /\ restarts < MaxRestarts /\ r = AnyRequest
  /\ restarts' = restarts + 1
  /\ pc' = [a \in Actors |-> IF a = r /\ settings.enabled THEN "patched" ELSE "idle"]
  /\ wk' = [a \in Requests |-> IF a = r /\ settings.enabled
               THEN [NoWork EXCEPT !.body.enabled = "on", !.body.restore = TRUE] ELSE NoWork]
  /\ answer' = [a \in Actors |-> "none"]
  /\ engine' = None
  /\ running' = Off /\ active' = Off /\ remembers' = Off
  /\ child' = [e \in Engines |-> "none"] /\ sink' = Off /\ listening' = Off
  /\ alive' = Off /\ thread' = Off /\ commands' = Empty /\ lines' = Empty
  /\ UNCHANGED <<discipline, settings, policy, upsets, patches, retunes>>

-----------------------------------------------------------------------------
RequestStep(r) ==
  \/ NothingToStart(r) \/ Refused(r) \/ Launch(r)
  \/ LaunchFails(r) \/ LaunchReady(r) \/ Snapshot(r) \/ Begun(r)
  \/ NothingToStop(r) \/ Halt(r) \/ Halted(r) \/ Exited(r)
  \/ NothingToApply(r) \/ Apply(r) \/ Restopped(r) \/ Restarted(r) \/ Unstopped(r)

RetuneStep(e) == RetuneStopped(e) \/ RetuneStarted(e)

WatcherStep(e) ==
  WatcherStarts(e) \/ WatcherStops(e) \/ CaptureFails(e) \/ Frame(e) \/ WatcherExits(e)

Next ==
  \/ \E r \in Requests :
       RequestStep(r) \/ Restart(r) \/ \E body \in Bodies : Patch(r, body)
  \/ \E e \in Engines : RetuneStep(e) \/ WatcherStep(e) \/ ReadLine(e)
  \/ \E a \in Actors : CommandTimesOut(a)

Spec == Init /\ [][Next]_vars

\* The event loop resumes what can go on, a launch settles by its deadline,
\* and so does a command.  Nothing is assumed of the watcher.
FairSpec ==
  /\ Spec
  /\ \A r \in Requests : WF_vars(RequestStep(r))
  /\ \A a \in Actors : WF_vars(CommandTimesOut(a))

-----------------------------------------------------------------------------
(* Properties *)

\* EyesService: engines run in lockstep with eyesEnabled.  Whenever no request of a
\* client that waits for its answers is open, an engine runs exactly if the row says
\* so, unless it could not be restored at startup.
LockstepWithSettings ==
  discipline = "serial" /\ Quiet =>
    /\ IsRunning => settings.enabled
    /\ settings.enabled => IsRunning \/ "unrestored" \in upsets

\* No watcher process is left behind by a launch that failed, a stop or a restart:
\* one that lives is the engine's, or of an engine a request is working on.
NoStrayWatcher ==
  discipline = "serial" =>
    \A e \in Engines : alive[e] =>
      e = engine \/ \E r \in Requests : ~Resting(r) /\ wk[r].on = e

\* VisualPerceptionEngine.stop: visual memory dies with the session.  Frames that are
\* still in the pipe, and a retune that goes on, bring nothing back.  Commands that
\* timed out are set aside (README, section 5).
StoppedEngineForgets ==
  discipline = "serial" /\ "timeout" \notin upsets =>
    \A e \in Engines : ~running[e] /\ engine # e => ~remembers[e]

\* handleCaptureStatus: isCapturingContinuously tells a live stream from a silent one.
\* When nothing is in the air, an engine that says it captures has a capture thread and
\* a sink for its frames, also after capture failed.  A process that exited, a command
\* that timed out, a refusal that overtook the thread's last word and a failure that
\* the end of a start writes over are set aside (README, section 5).
Settled(e) == lines[e] = <<>> /\ pc[e] = "idle" /\ \A r \in Requests : Resting(r) \/ wk[r].on # e

ActiveMeansStream ==
  \A e \in Engines : running[e] /\ active[e] /\ Settled(e) /\ upsets \subseteq {"failure"}
    => thread[e] /\ sink[e]

\* A settings request is answered, whatever the watcher does.
PatchEnds == \A r \in Requests : ~Resting(r) ~> Resting(r)

\* eyesService.ts: in structural_only mode no pixels are ever obtained.  The client
\* waited for its answer, nothing went wrong and nothing is in the air, and the
\* policy says no pixels.
StructuralOnlyIsBlind ==
  discipline = "serial" /\ Quiet /\ upsets = {} =>
    \A e \in Engines : Settled(e) /\ commands[e] = <<>> /\ ~policy[e] => ~thread[e]
=============================================================================
