---------------------------- MODULE CaptureThread ----------------------------
(***************************************************************************)
(* Continuous capture inside the watcher process (eyesWatcher.ps1): one    *)
(* command at a time, on the thread that reads stdin, and the capture      *)
(* threads it starts, which share the static fields `_running` and         *)
(* `_needsReinit`.  EyesCapture has the watcher as one thread that answers *)
(* at once; this is what goes on inside it.  Whether a wait ends by its    *)
(* limit (ready.Wait, Join) is a choice; the pixels of a frame are left    *)
(* out, and its release with it.                                           *)
(***************************************************************************)
EXTENDS Integers, FiniteSets

CONSTANTS
  Threads, NoThread,  \* capture threads, each started once
  MaxRebuilds         \* bound on the rebuilds of one thread

ASSUME ThreadAssumption == NoThread \notin Threads /\ MaxRebuilds \in Nat

VARIABLES
  threadRunning,         \* _running
  needsReinit,           \* _needsReinit
  current,               \* _thread: the one started last
  threads,               \* thread -> [pc, ready, ok, attempt]; ready and ok belong to its Start
  command,               \* what the command thread waits in: "none", "start", "stop"
  statusTold,            \* the last capture_status line
  strayed,               \* ghost: a frame line came with no stream told
  overlapped             \* ghost: a wait ran out, or a start found a thread on its way out

threadVars == <<threadRunning, needsReinit, current, threads, command, statusTold, strayed, overlapped>>

Statuses == {"none", "capturing", "reinitializing", "reconnecting", "failed", "stopped"}

ThreadTypeOK ==
  /\ threadRunning \in BOOLEAN /\ needsReinit \in BOOLEAN /\ current \in Threads \union {NoThread}
  /\ threads \in [Threads -> [pc : {"free", "again", "init", "capture", "judge", "backoff", "finally", "ended"},
                              ready : BOOLEAN, ok : BOOLEAN, attempt : 0..MaxRebuilds]]
  /\ command \in {"none", "start", "stop"}
  /\ statusTold \in Statuses /\ strayed \in BOOLEAN /\ overlapped \in BOOLEAN

ThreadInit ==
  /\ threadRunning = FALSE /\ needsReinit = FALSE /\ current = NoThread
  /\ threads = [t \in Threads |-> [pc |-> "free", ready |-> FALSE, ok |-> FALSE, attempt |-> 0]]
  /\ command = "none" /\ statusTold = "none"
  /\ strayed = FALSE /\ overlapped = FALSE

Alive(t) == threads[t].pc \notin {"free", "ended"}
ThreadTo(t, pc) == threads' = [threads EXCEPT ![t].pc = pc]
\* A thread that has its duplication, or may get one.
Duplicating == {t \in Threads : threads[t].pc = "capture"}

-----------------------------------------------------------------------------
(* The command thread *)

\* Start, when `_running` still says that one is running: it answers that it started.
AlreadyRunning ==
  /\ command = "none" /\ threadRunning
  /\ overlapped' = (overlapped \/ ~\E t \in Threads : threads[t].pc \in {"again", "init", "capture", "backoff"})
  /\ UNCHANGED <<threadRunning, needsReinit, current, threads, command, statusTold, strayed>>

CaptureStarts(t) ==
  /\ command = "none" /\ ~threadRunning
  /\ threads[t].pc = "free"
  /\ threadRunning' = TRUE /\ needsReinit' = FALSE /\ current' = t
  /\ ThreadTo(t, "again") /\ command' = "start"
  /\ overlapped' = (overlapped \/ \E u \in Threads : Alive(u))
  /\ UNCHANGED <<statusTold, strayed>>

\* ready.Wait(10000) comes back, set or not; initOk is what it reads.
StartAnswers ==
  /\ command = "start"
  /\ command' = "none"
  /\ threadRunning' = (threadRunning /\ threads[current].ok)
  /\ overlapped' = (overlapped \/ ~threads[current].ready)
  /\ UNCHANGED <<needsReinit, current, threads, statusTold, strayed>>

\* stop_continuous_capture, exit, and the end of the script.
CaptureStops ==
  /\ command = "none"
  /\ threadRunning' = FALSE
  /\ command' = IF current = NoThread THEN "none" ELSE "stop"
  /\ UNCHANGED <<needsReinit, current, threads, statusTold, strayed, overlapped>>

\* Join(2000): the thread is over, or it takes longer.
Joins == ~Alive(current)

StopAnswers ==
  /\ command = "stop" /\ Joins
  /\ command' = "none"
  /\ UNCHANGED <<threadRunning, needsReinit, current, threads, statusTold, strayed, overlapped>>

JoinRunsOut ==
  /\ command = "stop" /\ Alive(current)
  /\ command' = "none" /\ overlapped' = TRUE
  /\ UNCHANGED <<threadRunning, needsReinit, current, threads, statusTold, strayed>>

-----------------------------------------------------------------------------
(* A capture thread *)

\* The head of the reconnect loop.
Again(t) ==
  /\ threads[t].pc = "again"
  /\ IF threadRunning THEN needsReinit' = FALSE /\ ThreadTo(t, "init")
                ELSE UNCHANGED needsReinit /\ ThreadTo(t, "finally")
  /\ UNCHANGED <<threadRunning, current, command, statusTold, strayed, overlapped>>

\* RunCaptureLoop up to the duplication: the dimensions are read anew each time.
Initialized(t) ==
  /\ threads[t].pc = "init"
  /\ threads' = [threads EXCEPT ![t].pc = "capture", ![t].ok = TRUE, ![t].ready = TRUE]
  /\ statusTold' = "capturing"
  /\ UNCHANGED <<threadRunning, needsReinit, current, command, strayed, overlapped>>

\* Any call of it fails: `initError` is kept for Start, which may be gone, and nothing is told.
InitFails(t) ==
  /\ threads[t].pc = "init"
  /\ threads' = [threads EXCEPT ![t].pc = "judge", ![t].ok = FALSE, ![t].ready = TRUE]
  /\ UNCHANGED <<threadRunning, needsReinit, current, command, statusTold, strayed, overlapped>>

\* while (_running): nothing came, or a frame line is written.
FrameComes(t) ==
  /\ threads[t].pc = "capture" /\ threadRunning
  /\ strayed' = (strayed \/ statusTold # "capturing")
  /\ UNCHANGED <<threadRunning, needsReinit, current, threads, command, statusTold, overlapped>>

AccessLost(t) ==
  /\ threads[t].pc = "capture" /\ threadRunning
  /\ statusTold' = "reinitializing" /\ needsReinit' = TRUE
  /\ ThreadTo(t, "judge")
  /\ UNCHANGED <<threadRunning, current, command, strayed, overlapped>>

AcquireFails(t) ==
  /\ threads[t].pc = "capture" /\ threadRunning
  /\ statusTold' = "failed" /\ needsReinit' = FALSE
  /\ ThreadTo(t, "judge")
  /\ UNCHANGED <<threadRunning, current, command, strayed, overlapped>>

\* An exception goes past ReleaseAll to the catch of the thread.
CaptureThrows(t) ==
  /\ threads[t].pc = "capture" /\ threadRunning
  /\ statusTold' = "failed"
  /\ threads' = [threads EXCEPT ![t].pc = "finally", ![t].ok = FALSE]
  /\ UNCHANGED <<threadRunning, needsReinit, current, command, strayed, overlapped>>

LoopEnds(t) ==
  /\ threads[t].pc = "capture" /\ ~threadRunning
  /\ ThreadTo(t, "judge")
  /\ UNCHANGED <<threadRunning, needsReinit, current, command, statusTold, strayed, overlapped>>

\* After RunCaptureLoop: over, unless what was lost is worth building again.
Judge(t) ==
  /\ threads[t].pc = "judge"
  /\ IF threadRunning /\ needsReinit
       THEN /\ threads[t].attempt < MaxRebuilds
            /\ threads' = [threads EXCEPT ![t].pc = "backoff", ![t].attempt = @ + 1]
       ELSE ThreadTo(t, "finally")
  /\ UNCHANGED <<threadRunning, needsReinit, current, command, statusTold, strayed, overlapped>>

\* The sleep, in slices that look at `_running`.
RebuildIsDue(t) ==
  /\ threads[t].pc = "backoff"
  /\ IF threadRunning THEN statusTold' = "reconnecting" /\ ThreadTo(t, "again")
                ELSE UNCHANGED statusTold /\ ThreadTo(t, "finally")
  /\ UNCHANGED <<threadRunning, needsReinit, current, command, strayed, overlapped>>

Finally_KeepsRunning(t) == threadRunning' = threadRunning
\* `finally`: whoever started since, the field is reset.
Finally(t) == threadRunning' = FALSE

ThreadEnds(t) ==
  /\ threads[t].pc = "finally"
  /\ Finally(t)
  /\ ThreadTo(t, "ended") /\ statusTold' = "stopped"
  /\ UNCHANGED <<needsReinit, current, command, strayed, overlapped>>

ThreadNext ==
  \/ AlreadyRunning \/ StartAnswers \/ CaptureStops \/ StopAnswers \/ JoinRunsOut
  \/ \E t \in Threads :
       \/ CaptureStarts(t) \/ Again(t) \/ Initialized(t) \/ InitFails(t) \/ FrameComes(t) \/ AccessLost(t) \/ AcquireFails(t)
       \/ CaptureThrows(t) \/ LoopEnds(t) \/ Judge(t) \/ RebuildIsDue(t) \/ ThreadEnds(t)

ThreadSpec == ThreadInit /\ [][ThreadNext]_threadVars

-----------------------------------------------------------------------------
(* Properties *)

\* As long as every start found the thread before it over, and none waited in vain, the
\* engine can believe the lines: a thread that duplicates was the last to speak, and no
\* other is alive; with none alive the last line is its end and the next start is a real
\* one; frames come only while a stream is told.
CaptureTellsItself ==
  ~overlapped =>
    /\ \A t \in Threads : Alive(t) => t = current
    /\ Duplicating # {} => statusTold = "capturing"
    /\ (current # NoThread /\ ~Alive(current)) => statusTold = "stopped" /\ ~threadRunning
    /\ ~strayed
=============================================================================
