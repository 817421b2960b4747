------------------------ MODULE EyesCompanionProofs -------------------------
(***************************************************************************)
(* Theorems about the parts around the perception engine: the live visual  *)
(* sessions its stream feeds (VisualSessions), for any number of keys,     *)
(* turns and sinks and any interval; the threads that capture inside the   *)
(* watcher (CaptureThread), for any number of threads; the engine's        *)
(* foreground window (EyesAttention), for any windows and throttles; the   *)
(* capture rate (CaptureCapability), for any machine; what a model is      *)
(* shown (SightToModel), for any models, budgets and looks; and the memory *)
(* of the engine (VisualMemory), for any frames, events and settings.      *)
(***************************************************************************)
EXTENDS VisualSessions, CaptureThread, EyesAttention, CaptureCapability, SightToModel, VisualMemory,
        SelectionProofs, FiniteSetTheorems, TLAPS

-----------------------------------------------------------------------------
(* Live visual sessions *)

\* What the paths and the pace of a session need of the types.
SessionShape ==
  /\ sinks \in [Sinks -> {"unused", "connecting", "open", "closed"}] /\ keyOf \in [Sinks -> Keys]
  /\ opening \in [Turns -> Sinks \union {NoSink}]
  /\ session \in [Keys -> Sinks \union {NoSink}] /\ streams \in [Keys -> Sinks \union {NoSink}]
  /\ engine \in {"none", "running", "stopping"}
  /\ listeners \subseteq Sinks /\ inFlight \in [Sinks -> BOOLEAN]
  /\ pending \in [Sinks -> {NotYet} \union 0..MaxMoment]
  /\ lastSentAt \in [Sinks -> {NotYet} \union 0..MaxMoment]
  /\ moment \in 0..MaxMoment

LEMMA SessionShapeStep ==
  ASSUME SessionShape, SessionsNext
  PROVE  SessionShape'
<1> USE SessionsAssumption DEF SessionShape, feedVars
<1>1. ASSUME NEW t \in Turns, NEW k \in Keys, Connect(t, k) PROVE SessionShape'
  BY <1>1 DEF Connect
<1>2. ASSUME NEW t \in Turns, Opens(t) PROVE SessionShape'
  <2>1. opening[t] \in Sinks
    BY <1>2 DEF Opens
  <2> QED
    BY <1>2, <2>1 DEF Opens, Attach
<1>3. ASSUME NEW t \in Turns, OpenFails(t) PROVE SessionShape'
  BY <1>3 DEF OpenFails
<1>4. ASSUME NEW s \in Sinks, Hangup(s) PROVE SessionShape'
  BY <1>4 DEF Hangup
<1>5. ASSUME NEW s \in Sinks, SendEnds(s) PROVE SessionShape'
  BY <1>5 DEF SendEnds
<1>6. CASE CloseAll
  BY <1>6 DEF CloseAll
<1>7. CASE EngineStarts \/ StopBegins \/ StopEnds
  BY <1>7 DEF EngineStarts, StopBegins, StopEnds
<1>8. CASE FramePublished
  BY <1>8 DEF FramePublished
<1>9. CASE MomentPasses
  BY <1>9 DEF MomentPasses
<1> QED
  BY <1>1, <1>2, <1>3, <1>4, <1>5, <1>6, <1>7, <1>8, <1>9 DEF SessionsNext

\* Every subscription of an engine's stream is the one its key would end, and an open
\* sink that is subscribed is the session of its key.
Paths ==
  /\ engine = "none" => listeners = {}
  /\ \A s \in listeners : streams[keyOf[s]] = s
  /\ \A s \in listeners : IsOpen(s) => session[keyOf[s]] = s

LEMMA PathsStep ==
  ASSUME SessionShape, Paths, SessionsNext
  PROVE  Paths'
<1> USE SessionsAssumption DEF SessionShape, Paths, feedVars, IsOpen
<1>1. ASSUME NEW t \in Turns, NEW k \in Keys, Connect(t, k) PROVE Paths'
  BY <1>1 DEF Connect
<1>2. ASSUME NEW t \in Turns, Opens(t) PROVE Paths'
  <2>1. opening[t] \in Sinks
    BY <1>2 DEF Opens
  <2> QED
    BY <1>2, <2>1 DEF Opens, Attach
<1>3. ASSUME NEW t \in Turns, OpenFails(t) PROVE Paths'
  BY <1>3 DEF OpenFails
<1>4. ASSUME NEW s \in Sinks, Hangup(s) PROVE Paths'
  BY <1>4 DEF Hangup
<1>5. ASSUME NEW s \in Sinks, SendEnds(s) PROVE Paths'
  BY <1>5 DEF SendEnds
<1>6. CASE CloseAll
  BY <1>6 DEF CloseAll
<1>7. CASE EngineStarts \/ StopBegins \/ StopEnds
  BY <1>7 DEF EngineStarts, StopBegins, StopEnds
<1>8. CASE FramePublished \/ MomentPasses
  BY <1>8 DEF FramePublished, MomentPasses
<1> QED
  BY <1>1, <1>2, <1>3, <1>4, <1>5, <1>6, <1>7, <1>8 DEF SessionsNext

LEMMA SessionsKeepShape == SessionsSpec => []SessionShape
<1>1. SessionsInit => SessionShape
  BY SessionsAssumption DEF SessionsInit, SessionShape
<1>2. SessionShape /\ UNCHANGED sessionVars => SessionShape'
  BY DEF SessionShape, sessionVars, feedVars
<1> QED
  BY <1>1, <1>2, SessionShapeStep, PTL DEF SessionsSpec

\* "At most one live visual session per (user, provider, model)": only the registered
\* sink of a key is fed, and none without an engine, however many turns open one at once.
THEOREM OneLivePathHolds == SessionsSpec => []OneLivePath
<1>1. SessionsInit => Paths
  BY DEF SessionsInit, Paths
<1>2. SessionShape /\ Paths /\ UNCHANGED sessionVars => Paths'
  BY DEF Paths, IsOpen, sessionVars
<1>3. Paths => OneLivePath
  BY DEF Paths, OneLivePath
<1> QED
  BY <1>1, <1>2, <1>3, PathsStep, SessionsKeepShape, PTL DEF SessionsSpec

\* A frame waits only behind a send under way, and its turn will have come.
Waits(s) ==
  pending[s] # NotYet =>
    inFlight[s] /\ (lastSentAt[s] = NotYet \/ pending[s] - lastSentAt[s] >= Interval)

\* The two steps that send or put by.
LEMMA PacedStep ==
  ASSUME SessionShape, NEW s \in Sinks, Waits(s), SessionsNext
  PROVE  /\ Waits(s)'
         /\ \/ lastSentAt'[s] = lastSentAt[s] \/ lastSentAt[s] = NotYet
            \/ lastSentAt'[s] - lastSentAt[s] >= Interval
<1> USE SessionsAssumption DEF SessionShape, Waits, feedVars, NotYet
<1>1. CASE FramePublished
  <2>1. PICK at \in 0..MaxMoment :
          LET taken == {r \in Offers(at) : ~inFlight[r]} IN
          /\ inFlight' = [r \in Sinks |-> inFlight[r] \/ r \in taken]
          /\ lastSentAt' = [r \in Sinks |-> IF r \in taken THEN at ELSE lastSentAt[r]]
          /\ pending' = [r \in Sinks |-> IF r \in Offers(at) \ taken THEN at ELSE pending[r]]
    BY <1>1 DEF FramePublished
  <2>2. s \in Offers(at) => lastSentAt[s] = NotYet \/ at - lastSentAt[s] >= Interval
    BY DEF Offers, Sparse
  <2>3. CASE s \in Offers(at) /\ ~inFlight[s]
    BY <2>1, <2>2, <2>3
  <2>4. CASE s \in Offers(at) /\ inFlight[s]
    BY <2>1, <2>2, <2>4
  <2>5. CASE s \notin Offers(at)
    BY <2>1, <2>5
  <2> QED
    BY <2>3, <2>4, <2>5
<1>2. ASSUME NEW r \in Sinks, SendEnds(r)
      PROVE  /\ Waits(s)'
             /\ \/ lastSentAt'[s] = lastSentAt[s] \/ lastSentAt[s] = NotYet
                \/ lastSentAt'[s] - lastSentAt[s] >= Interval
  BY <1>2 DEF SendEnds
<1>3. CASE CloseAll
  BY <1>3 DEF CloseAll
<1>4. CASE UNCHANGED feedVars
  BY <1>4
<1> QED
  BY <1>1, <1>2, <1>3, <1>4 DEF SessionsNext, Connect, Opens, OpenFails, Hangup, EngineStarts,
     StopBegins, StopEnds, MomentPasses

\* The negotiated interval lies between the capture times of any two frames that are
\* sent to one model, whatever waited behind a slow send.
THEOREM PaceIsKept == SessionsSpec => PacedSends
<1> DEFINE AllWait == \A s \in Sinks : Waits(s)
<1>1. SessionsInit => AllWait
  BY DEF SessionsInit, Waits
<1>2. SessionShape /\ AllWait /\ [SessionsNext]_sessionVars => AllWait'
  BY PacedStep DEF Waits, sessionVars, feedVars
<1>3. SessionShape /\ AllWait /\ [SessionsNext]_sessionVars
        => [\A s \in Sinks : lastSentAt'[s] = lastSentAt[s] \/ lastSentAt[s] = NotYet
                             \/ lastSentAt'[s] - lastSentAt[s] >= Interval]_sessionVars
  BY PacedStep
<1> HIDE DEF AllWait
<1> QED
  BY <1>1, <1>2, <1>3, SessionsKeepShape, PTL DEF SessionsSpec, PacedSends

-----------------------------------------------------------------------------
(* The threads that capture *)

\* What a thread is made of.
ThreadPCs == {"free", "again", "init", "capture", "judge", "backoff", "finally", "ended"}
ThreadStates == [pc : ThreadPCs, ready : BOOLEAN, ok : BOOLEAN, attempt : 0..MaxRebuilds]

LEMMA ThreadsMove ==
  ASSUME ThreadTypeOK, NEW t \in Threads, NEW to \in ThreadPCs, ThreadTo(t, to)
  PROVE  /\ threads' \in [Threads -> ThreadStates] /\ threads'[t].pc = to
         /\ \A u \in Threads : u # t => threads'[u] = threads[u]
<1>1. threads \in [Threads -> ThreadStates]
  BY DEF ThreadTypeOK, ThreadStates, ThreadPCs
<1>2. [threads[t] EXCEPT !.pc = to] \in ThreadStates /\ [threads[t] EXCEPT !.pc = to].pc = to
  BY <1>1 DEF ThreadStates
<1> QED
  BY <1>1, <1>2 DEF ThreadTo

LEMMA ThreadsKeepType == ThreadSpec => []ThreadTypeOK
<1> USE ThreadAssumption DEF ThreadTypeOK
<1>1. ThreadInit => ThreadTypeOK
  <2>1. 0 \in 0..MaxRebuilds /\ "none" \in Statuses
    BY DEF Statuses
  <2>2. ASSUME ThreadInit PROVE threads \in [Threads -> ThreadStates]
    BY <2>1, <2>2 DEF ThreadInit, ThreadStates, ThreadPCs
  <2> QED
    BY <2>1, <2>2 DEF ThreadInit, ThreadStates, ThreadPCs
<1>2. ThreadTypeOK /\ UNCHANGED threadVars => ThreadTypeOK'
  BY DEF threadVars
<1>3. ASSUME ThreadTypeOK, ThreadNext PROVE ThreadTypeOK'
  <2> USE <1>3
  <2>1. CASE AlreadyRunning \/ CaptureStops \/ StopAnswers \/ JoinRunsOut
    BY <2>1 DEF AlreadyRunning, CaptureStops, StopAnswers, JoinRunsOut
  <2>2. CASE StartAnswers
    BY <2>2 DEF StartAnswers
  <2>3. ASSUME NEW t \in Threads, CaptureStarts(t) PROVE ThreadTypeOK'
    <3>1. threads' \in [Threads -> ThreadStates]
      BY <2>3, ThreadsMove DEF CaptureStarts, ThreadPCs
    <3> QED
      BY <2>3, <3>1 DEF CaptureStarts, ThreadStates, ThreadPCs
  <2>4. ASSUME NEW t \in Threads, Again(t) \/ FrameComes(t) \/ LoopEnds(t) PROVE ThreadTypeOK'
    BY <2>4, ThreadsMove DEF Again, FrameComes, LoopEnds, ThreadStates, ThreadPCs
  <2>5. ASSUME NEW t \in Threads, AccessLost(t) \/ AcquireFails(t) PROVE ThreadTypeOK'
    <3>1. threads' \in [Threads -> ThreadStates]
      BY <2>5, ThreadsMove DEF AccessLost, AcquireFails, ThreadPCs
    <3> QED
      BY <2>5, <3>1 DEF AccessLost, AcquireFails, Statuses, ThreadStates, ThreadPCs
  <2>6. ASSUME NEW t \in Threads, RebuildIsDue(t) \/ ThreadEnds(t) PROVE ThreadTypeOK'
    BY <2>6, ThreadsMove DEF RebuildIsDue, ThreadEnds, Finally, ThreadStates, ThreadPCs, Statuses
  <2>7. ASSUME NEW t \in Threads, Initialized(t) \/ InitFails(t) \/ CaptureThrows(t) \/ Judge(t)
        PROVE  ThreadTypeOK'
    <3>1. threads \in [Threads -> ThreadStates] /\ threads[t] \in ThreadStates
      BY DEF ThreadStates, ThreadPCs
    <3>2. PICK x \in ThreadStates : threads' = [threads EXCEPT ![t] = x]
      BY <2>7, <3>1 DEF Initialized, InitFails, CaptureThrows, Judge, ThreadTo, ThreadStates, ThreadPCs
    <3>3. threads' \in [Threads -> ThreadStates]
      BY <3>1, <3>2
    <3> QED
      BY <2>7, <3>3 DEF Initialized, InitFails, CaptureThrows, Judge, Statuses, ThreadStates, ThreadPCs
  <2> QED
    BY <2>1, <2>2, <2>3, <2>4, <2>5, <2>6, <2>7 DEF ThreadNext
<1> QED
  BY <1>1, <1>2, <1>3, PTL DEF ThreadSpec

\* A step of one thread leaves the others where they are.
LEMMA OthersStay ==
  ASSUME ThreadTypeOK, NEW t \in Threads, NEW u \in Threads, u # t,
         \/ Again(t) \/ Initialized(t) \/ InitFails(t) \/ FrameComes(t) \/ AccessLost(t)
         \/ AcquireFails(t) \/ CaptureThrows(t) \/ LoopEnds(t) \/ Judge(t) \/ RebuildIsDue(t)
         \/ ThreadEnds(t) \/ CaptureStarts(t)
  PROVE  threads'[u] = threads[u]
  BY DEF ThreadTypeOK, CaptureStarts, Again, Initialized, InitFails, FrameComes, AccessLost, AcquireFails,
     CaptureThrows, LoopEnds, Judge, RebuildIsDue, ThreadEnds, ThreadTo

\* As long as every start found the thread before it over, and none waited in vain, the
\* engine can believe the watcher's lines, whatever failed, was lost and was built again.
THEOREM CaptureTells == ThreadSpec => []CaptureTellsItself
<1>1. ThreadInit => CaptureTellsItself
  BY ThreadAssumption DEF ThreadInit, CaptureTellsItself, Alive, Duplicating
<1>2. CaptureTellsItself /\ UNCHANGED threadVars => CaptureTellsItself'
  BY DEF CaptureTellsItself, threadVars, Alive, Duplicating
<1>3. ASSUME ThreadTypeOK, CaptureTellsItself, ThreadNext PROVE CaptureTellsItself'
  <2> USE <1>3, ThreadAssumption DEF CaptureTellsItself, Alive, Duplicating
  <2>1. CASE AlreadyRunning \/ CaptureStops \/ StopAnswers \/ JoinRunsOut \/ StartAnswers
    BY <2>1 DEF AlreadyRunning, CaptureStops, StopAnswers, JoinRunsOut, StartAnswers, ThreadTypeOK
  <2>2. ASSUME NEW t \in Threads, CaptureStarts(t) PROVE CaptureTellsItself'
    <3>1. threads'[t].pc = "again" /\ current' = t
      BY <2>2 DEF CaptureStarts, ThreadTo, ThreadTypeOK
    <3>2. \A u \in Threads : u # t => threads'[u] = threads[u]
      BY <2>2, OthersStay
    <3> QED
      BY <2>2, <3>1, <3>2 DEF CaptureStarts
  <2>3. ASSUME NEW t \in Threads,
               \/ Again(t) \/ Initialized(t) \/ InitFails(t) \/ FrameComes(t) \/ AccessLost(t)
               \/ AcquireFails(t) \/ CaptureThrows(t) \/ LoopEnds(t) \/ Judge(t) \/ RebuildIsDue(t)
               \/ ThreadEnds(t)
        PROVE  CaptureTellsItself'
    <3>1. \A u \in Threads : u # t => threads'[u] = threads[u]
      BY <2>3, OthersStay
    <3>2. Alive(t) /\ current' = current /\ overlapped' = overlapped
      BY <2>3 DEF Again, Initialized, InitFails, FrameComes, AccessLost, AcquireFails, CaptureThrows,
         LoopEnds, Judge, RebuildIsDue, ThreadEnds
    <3>3. ~overlapped => current = t /\ Alive(t)
      BY <3>2
    <3>4. CASE FrameComes(t)
      <4>1. /\ threads' = threads /\ statusTold' = statusTold /\ threads[t].pc = "capture"
            /\ strayed' = (strayed \/ statusTold # "capturing")
        BY <3>4 DEF FrameComes
      <4> QED
        BY <4>1, <3>3, <3>2
    <3>5. CASE ThreadEnds(t)
      <4>1. threads'[t].pc = "ended" /\ statusTold' = "stopped" /\ ~threadRunning' /\ strayed' = strayed
        BY <3>5 DEF ThreadEnds, Finally, ThreadTo, ThreadTypeOK
      <4> QED
        BY <4>1, <3>1, <3>2, <3>3
    <3>6. CASE Initialized(t)
      <4>1. threads'[t].pc = "capture" /\ statusTold' = "capturing" /\ strayed' = strayed
        BY <3>6 DEF Initialized, ThreadTypeOK
      <4> QED
        BY <4>1, <3>1, <3>2, <3>3
    <3>7. CASE \/ Again(t) \/ InitFails(t) \/ AccessLost(t) \/ AcquireFails(t) \/ CaptureThrows(t)
               \/ LoopEnds(t) \/ Judge(t) \/ RebuildIsDue(t)
      <4>1. threads'[t].pc \in {"init", "again", "judge", "backoff", "finally"} /\ strayed' = strayed
        BY <3>7 DEF Again, InitFails, AccessLost, AcquireFails, CaptureThrows, LoopEnds, Judge, RebuildIsDue,
           ThreadTo, ThreadTypeOK
      <4> QED
        BY <4>1, <3>1, <3>2, <3>3
    <3> QED
      BY <2>3, <3>4, <3>5, <3>6, <3>7
  <2> QED
    BY <2>1, <2>2, <2>3 DEF ThreadNext
<1> QED
  BY <1>1, <1>2, <1>3, ThreadsKeepType, PTL DEF ThreadSpec

-----------------------------------------------------------------------------
(* The foreground window *)

AttentionShape ==
  /\ desktop \in Windows /\ hooks \in Seq(Events) /\ pipe \in Seq(Lines \union {SnapshotLine})
  /\ survey \in {"asked", "listing", "written"} /\ start \in {"waiting", "answered", "done"}
  /\ answer \in Windows \union {NoWindow} /\ overheard \in Windows \union {NoWindow}
  /\ start = "waiting" => overheard = NoWindow
  /\ torn \in BOOLEAN /\ listed \in [Windows -> Flags]
  /\ known \in [Windows -> Flags] /\ foreground \in Windows \union {NoWindow}

\* The answer to list_windows is in the pipe between being written and being read, once.
OneSnapshot ==
  /\ start = "waiting" /\ survey = "written" => \E k \in 1..Len(pipe) : pipe[k] = SnapshotLine
  /\ start = "answered" => survey = "written"
  /\ \A i, j \in 1..Len(pipe) :
       /\ pipe[i] = SnapshotLine => survey = "written" /\ start # "answered"
       /\ pipe[i] = SnapshotLine /\ pipe[j] = SnapshotLine => i = j

\* A list during which the foreground did not change flags no other window.
ListsHonestly ==
  start # "done" =>
    /\ survey = "asked" => answer = NoWindow /\ \A w \in Windows : listed[w] # "foreground"
    /\ survey = "listing" /\ ~torn => answer \in {NoWindow, desktop}
    /\ ~torn => \A w \in Windows : listed[w] = "foreground" => w = answer

\* A callback about the window that is in the foreground is still to run.
CallbackComes == \E i \in 1..Len(hooks) : hooks[i].window = desktop
NamesForeground(l) == l # SnapshotLine /\ l.isForeground
Spoken == \E i \in 1..Len(pipe) : NamesForeground(pipe[i])
SpokenSinceSnapshot ==
  \E i, k \in 1..Len(pipe) : pipe[k] = SnapshotLine /\ i > k /\ NamesForeground(pipe[i])

\* The last line that names a foreground names the desktop's.
LastWord ==
  \A i \in 1..Len(pipe) :
    NamesForeground(pipe[i]) /\ (\A j \in 1..Len(pipe) : j > i => ~NamesForeground(pipe[j]))
      => pipe[i].window = desktop

\* What the engine goes by when no line is to name a foreground: the answer it has not read
\* or not applied yet, what it heard since, or its state.
GoesBy ==
  /\ start = "waiting" /\ survey = "written" => SpokenSinceSnapshot \/ torn \/ answer \in {NoWindow, desktop}
  /\ start = "answered" => \/ Spoken \/ torn \/ overheard = desktop
                           \/ overheard = NoWindow /\ answer \in {NoWindow, desktop}
  /\ start = "done" => Spoken \/ missed # {} \/ foreground = desktop

Flagged == "torn" \notin missed => \A w \in Windows : known[w] = "foreground" => w = foreground

Follows ==
  AttentionShape /\ OneSnapshot /\ ListsHonestly /\ Flagged /\ (CallbackComes \/ (LastWord /\ GoesBy))

LEMMA SnapshotIsNoEvent == SnapshotLine \notin Lines
  BY DEF SnapshotLine, Lines

LEMMA PipeAppend ==
  ASSUME AttentionShape, NEW l \in Lines \union {SnapshotLine}, pipe' = Append(pipe, l)
  PROVE  /\ pipe' \in Seq(Lines \union {SnapshotLine}) /\ Len(pipe') = Len(pipe) + 1 /\ Len(pipe) \in Nat
         /\ pipe'[Len(pipe) + 1] = l /\ \A i \in 1..Len(pipe) : pipe'[i] = pipe[i]
  BY DEF AttentionShape

LEMMA PipeTail ==
  ASSUME AttentionShape, pipe # <<>>, pipe' = Tail(pipe)
  PROVE  /\ pipe' \in Seq(Lines \union {SnapshotLine}) /\ Len(pipe') = Len(pipe) - 1 /\ Len(pipe) \in Nat \ {0}
         /\ Head(pipe) = pipe[1] /\ Head(pipe) \in Lines \union {SnapshotLine}
         /\ \A i \in 1..Len(pipe') : pipe'[i] = pipe[i + 1]
  BY DEF AttentionShape

LEMMA HooksTail ==
  ASSUME AttentionShape, hooks # <<>>, hooks' = Tail(hooks)
  PROVE  /\ hooks' \in Seq(Events) /\ Len(hooks') = Len(hooks) - 1 /\ Len(hooks) \in Nat \ {0}
         /\ Head(hooks) = hooks[1] /\ Head(hooks) \in Events
         /\ \A i \in 1..Len(hooks') : hooks'[i] = hooks[i + 1]
  BY DEF AttentionShape

LEMMA DesktopFollowed == ASSUME Follows, DesktopChanges PROVE Follows'
<1> USE DEF Follows
<1>1. PICK e \in Events : /\ desktop' = IF e.type = FocusChanged THEN e.window ELSE desktop
                          /\ hooks' = Append(hooks, e)
                          /\ torn' = (torn \/ (survey = "listing" /\ e.type = FocusChanged))
  BY DEF DesktopChanges
<1>2. UNCHANGED <<pipe, survey, listed, answer, start, known, foreground, overheard, missed>>
  BY DEF DesktopChanges, watcherVars, stateVars
<1>3. /\ hooks' \in Seq(Events) /\ Len(hooks') = Len(hooks) + 1 /\ Len(hooks) \in Nat
      /\ hooks'[Len(hooks) + 1] = e /\ \A i \in 1..Len(hooks) : hooks'[i] = hooks[i]
  BY <1>1 DEF AttentionShape
<1>4. AttentionShape' /\ OneSnapshot' /\ ListsHonestly' /\ Flagged'
  BY <1>1, <1>2, <1>3 DEF AttentionShape, OneSnapshot, ListsHonestly, Flagged, Events
<1>5. CASE e.type = FocusChanged
  <2>1. Len(hooks) + 1 \in 1..Len(hooks')
    BY <1>3
  <2>2. CallbackComes'
    BY <1>1, <1>3, <1>5, <2>1 DEF CallbackComes
  <2> QED
    BY <1>4, <2>2
<1>6. CASE e.type # FocusChanged
  <2>1. CallbackComes => CallbackComes'
    BY <1>1, <1>3, <1>6 DEF CallbackComes
  <2>2. LastWord /\ GoesBy => LastWord' /\ GoesBy'
    BY <1>1, <1>2, <1>6 DEF LastWord, GoesBy, Spoken, SpokenSinceSnapshot
  <2> QED
    BY <1>4, <2>1, <2>2
<1> QED
  BY <1>5, <1>6

LEMMA HookFollowed == ASSUME Follows, HookRuns PROVE Follows'
<1> USE DEF Follows
<1> DEFINE e == Head(hooks)
           l == [type |-> e.type, window |-> e.window, isForeground |-> e.window = desktop]
<1>1. /\ hooks # <<>> /\ hooks' = Tail(hooks) /\ pipe' = Append(pipe, l)
      /\ UNCHANGED <<desktop, survey, listed, answer, start, known, foreground, overheard, missed, torn>>
  BY DEF HookRuns, watcherVars, stateVars
<1>2. /\ hooks' \in Seq(Events) /\ Len(hooks') = Len(hooks) - 1 /\ Len(hooks) \in Nat \ {0}
      /\ e = hooks[1] /\ e \in Events
      /\ \A i \in 1..Len(hooks') : hooks'[i] = hooks[i + 1]
  BY <1>1, HooksTail
<1>3. l \in Lines /\ l # SnapshotLine /\ l.window = e.window /\ l.isForeground = (e.window = desktop)
  <2>1. l \in Lines
    BY <1>2 DEF Events, Lines
  <2> QED
    BY <2>1, SnapshotIsNoEvent
<1> HIDE DEF l, e
<1>4. /\ pipe' \in Seq(Lines \union {SnapshotLine}) /\ Len(pipe') = Len(pipe) + 1 /\ Len(pipe) \in Nat
      /\ pipe'[Len(pipe) + 1] = l /\ \A i \in 1..Len(pipe) : pipe'[i] = pipe[i]
  <2>1. PICK x \in Lines : x = l
    BY <1>3
  <2> QED
    BY <1>1, <2>1, PipeAppend
<1>5. NamesForeground(l) <=> e.window = desktop
  BY <1>3 DEF NamesForeground
<1>6. AttentionShape' /\ ListsHonestly' /\ Flagged'
  BY <1>1, <1>2, <1>4 DEF AttentionShape, ListsHonestly, Flagged
<1>7. OneSnapshot'
  <2>1. \A i \in 1..Len(pipe) : i \in 1..Len(pipe') /\ pipe'[i] = pipe[i]
    BY <1>4
  <2>2. ASSUME NEW i \in 1..Len(pipe'), pipe'[i] = SnapshotLine
        PROVE  i \in 1..Len(pipe) /\ pipe[i] = SnapshotLine
    <3>1. i # Len(pipe) + 1
      BY <1>3, <1>4, <2>2
    <3> QED
      BY <1>4, <2>1, <2>2, <3>1
  <2>3. OneSnapshot /\ UNCHANGED <<survey, start>>
    BY <1>1 DEF Follows
  <2> QED
    BY <2>1, <2>2, <2>3 DEF OneSnapshot
<1>8. CASE e.window = desktop
  <2>1. Len(pipe) + 1 \in 1..Len(pipe') /\ NamesForeground(pipe'[Len(pipe) + 1])
    BY <1>4, <1>5, <1>8
  <2>2. LastWord'
    <3>1. ASSUME NEW i \in 1..Len(pipe'), \A j \in 1..Len(pipe') : j > i => ~NamesForeground(pipe'[j])
          PROVE  i = Len(pipe) + 1
      BY <1>4, <2>1, <3>1
    <3> QED
      BY <1>1, <1>3, <1>4, <1>8, <3>1 DEF LastWord
  <2>3. GoesBy'
    <3>1. Spoken'
      BY <2>1 DEF Spoken
    <3>2. start = "waiting" /\ survey = "written" => SpokenSinceSnapshot'
      BY <1>4, <2>1 DEF OneSnapshot, SpokenSinceSnapshot
    <3> QED
      BY <1>1, <3>1, <3>2 DEF GoesBy
  <2> QED
    BY <1>6, <1>7, <2>2, <2>3
<1>9. CASE e.window # desktop
  <2>1. CallbackComes => CallbackComes'
    <3>1. ASSUME NEW i \in 1..Len(hooks), hooks[i].window = desktop
          PROVE  i - 1 \in 1..Len(hooks') /\ hooks'[i - 1] = hooks[i]
      BY <1>2, <1>9, <3>1
    <3> QED
      BY <1>1, <3>1 DEF CallbackComes
  <2>2. ~NamesForeground(pipe'[Len(pipe) + 1]) /\ Len(pipe) + 1 \in 1..Len(pipe')
    BY <1>4, <1>5, <1>9
  <2>3. LastWord => LastWord'
    <3>1. ASSUME LastWord, NEW i \in 1..Len(pipe'), NamesForeground(pipe'[i]),
                 \A j \in 1..Len(pipe') : j > i => ~NamesForeground(pipe'[j])
          PROVE  pipe'[i].window = desktop
      <4>1. i \in 1..Len(pipe) /\ pipe'[i] = pipe[i]
        BY <1>4, <2>2, <3>1
      <4>2. ASSUME NEW j \in 1..Len(pipe), j > i PROVE ~NamesForeground(pipe[j])
        <5>1. j \in 1..Len(pipe') /\ pipe'[j] = pipe[j]
          BY <1>4
        <5> QED
          BY <3>1, <4>2, <5>1
      <4> QED
        BY <3>1, <4>1, <4>2 DEF LastWord
    <3> QED
      BY <1>1, <3>1 DEF LastWord
  <2>4. /\ Spoken => Spoken'
        /\ SpokenSinceSnapshot => SpokenSinceSnapshot'
    BY <1>4 DEF Spoken, SpokenSinceSnapshot
  <2>5. GoesBy => GoesBy'
    BY <1>1, <2>4 DEF GoesBy
  <2> QED
    BY <1>6, <1>7, <2>1, <2>3, <2>5
<1> QED
  BY <1>8, <1>9

LEMMA EventFollowed == ASSUME Follows, ReadEvent PROVE Follows'
<1> USE DEF Follows
<1>1. /\ pipe # <<>> /\ Head(pipe) # SnapshotLine /\ pipe' = Tail(pipe)
      /\ overheard' = IF start = "answered" /\ Head(pipe).isForeground THEN Head(pipe).window ELSE overheard
      /\ UNCHANGED <<desktop, hooks, survey, listed, answer, start, torn>>
  BY DEF ReadEvent, watcherVars
<1>2. /\ pipe' \in Seq(Lines \union {SnapshotLine}) /\ Len(pipe') = Len(pipe) - 1 /\ Len(pipe) \in Nat \ {0}
      /\ Head(pipe) = pipe[1] /\ Head(pipe) \in Lines \union {SnapshotLine}
      /\ \A i \in 1..Len(pipe') : pipe'[i] = pipe[i + 1]
  BY <1>1, PipeTail
<1>3. PICK e \in Lines : e = Head(pipe)
  BY <1>1, <1>2
<1>4. e.window \in Windows /\ e.isForeground \in BOOLEAN /\ (NamesForeground(e) <=> e.isForeground)
  BY <1>1, <1>3 DEF Lines, NamesForeground
<1>5. /\ known' \in [Windows -> Flags] /\ foreground' \in Windows \union {NoWindow}
      /\ Flagged'
      /\ e.isForeground => foreground' = e.window \/ missed' # {}
      /\ ~e.isForeground => foreground' = foreground /\ missed' = missed
  <2>1. CASE Accept(e)
    BY <2>1, <1>4 DEF Accept, Upsert, Flagged, AttentionShape, Flags
  <2>2. CASE Drop(e)
    BY <2>2, <1>4 DEF Drop, Throttled, Flagged, AttentionShape
  <2> QED
    BY <1>3, <2>1, <2>2 DEF ReadEvent
<1>6. AttentionShape' /\ ListsHonestly'
  BY <1>1, <1>2, <1>3, <1>4, <1>5 DEF AttentionShape, ListsHonestly
<1>7. \A i \in 1..Len(pipe) : i # 1 => i - 1 \in 1..Len(pipe') /\ pipe'[i - 1] = pipe[i]
  BY <1>2
<1>8. OneSnapshot'
  <2>1. \A i \in 1..Len(pipe') : i + 1 \in 1..Len(pipe)
    BY <1>2
  <2>2. start = "waiting" /\ survey = "written" => \E k \in 1..Len(pipe') : pipe'[k] = SnapshotLine
    BY <1>1, <1>2, <1>7 DEF OneSnapshot
  <2>3. \A i, j \in 1..Len(pipe') :
          /\ pipe'[i] = SnapshotLine => survey = "written" /\ start # "answered"
          /\ pipe'[i] = SnapshotLine /\ pipe'[j] = SnapshotLine => i = j
    <3>1. ASSUME NEW i \in 1..Len(pipe'), NEW j \in 1..Len(pipe')
          PROVE  /\ pipe'[i] = SnapshotLine => survey = "written" /\ start # "answered"
                 /\ pipe'[i] = SnapshotLine /\ pipe'[j] = SnapshotLine => i + 1 = j + 1
      BY <1>2, <2>1 DEF OneSnapshot
    <3> QED
      BY <3>1
  <2> QED
    BY <1>1, <2>2, <2>3 DEF OneSnapshot
<1>9. CallbackComes => CallbackComes'
  BY <1>1 DEF CallbackComes
<1>10. LastWord => LastWord'
  <2>1. ASSUME LastWord, NEW i \in 1..Len(pipe'), NamesForeground(pipe'[i]),
               \A j \in 1..Len(pipe') : j > i => ~NamesForeground(pipe'[j])
        PROVE  pipe'[i].window = desktop
    <3>1. i + 1 \in 1..Len(pipe) /\ pipe'[i] = pipe[i + 1]
      BY <1>2
    <3>2. ASSUME NEW j \in 1..Len(pipe), j > i + 1 PROVE ~NamesForeground(pipe[j])
      <4>1. j - 1 \in 1..Len(pipe') /\ j - 1 > i /\ pipe'[j - 1] = pipe[j]
        BY <1>2, <1>7, <3>2
      <4> QED
        BY <2>1, <4>1
    <3> QED
      BY <2>1, <3>1, <3>2 DEF LastWord
  <2> QED
    BY <1>1, <2>1 DEF LastWord
<1>11. LastWord /\ NamesForeground(e) => Spoken' \/ e.window = desktop
  <2>1. ASSUME ~Spoken', NEW j \in 1..Len(pipe), j > 1 PROVE ~NamesForeground(pipe[j])
    BY <1>7, <2>1 DEF Spoken
  <2>2. 1 \in 1..Len(pipe)
    BY <1>2
  <2> QED
    BY <1>2, <1>3, <2>1, <2>2 DEF LastWord
<1>12. /\ SpokenSinceSnapshot => SpokenSinceSnapshot'
       /\ Spoken /\ ~NamesForeground(e) => Spoken'
  <2>1. ASSUME NEW i \in 1..Len(pipe), NEW k \in 1..Len(pipe), pipe[k] = SnapshotLine, i > k,
               NamesForeground(pipe[i])
        PROVE  SpokenSinceSnapshot'
    <3>1. k # 1 /\ i # 1
      BY <1>1, <1>2, <2>1
    <3>2. i - 1 \in 1..Len(pipe') /\ k - 1 \in 1..Len(pipe') /\ i - 1 > k - 1
      BY <1>7, <2>1, <3>1
    <3>3. pipe'[i - 1] = pipe[i] /\ pipe'[k - 1] = pipe[k]
      BY <1>7, <3>1
    <3> QED
      BY <2>1, <3>2, <3>3 DEF SpokenSinceSnapshot, NamesForeground
  <2>2. ASSUME NEW i \in 1..Len(pipe), NamesForeground(pipe[i]), ~NamesForeground(e) PROVE Spoken'
    <3>1. i # 1
      BY <1>2, <1>3, <2>2
    <3> QED
      BY <1>7, <2>2, <3>1 DEF Spoken
  <2> QED
    BY <2>1, <2>2 DEF Spoken, SpokenSinceSnapshot
<1>13. LastWord /\ GoesBy => GoesBy'
  <2>1. CASE e.isForeground
    <3>1. overheard' = IF start = "answered" THEN e.window ELSE overheard
      BY <1>1, <1>3, <2>1
    <3>2. e.window # NoWindow
      BY <1>4, AttentionAssumption
    <3>3. LastWord => Spoken' \/ e.window = desktop
      BY <1>4, <1>11, <2>1
    <3>4. SpokenSinceSnapshot => SpokenSinceSnapshot'
      BY <1>12
    <3>5. foreground' = e.window \/ missed' # {}
      BY <1>5, <2>1
    <3> QED
      BY <1>1, <3>1, <3>2, <3>3, <3>4, <3>5 DEF GoesBy
  <2>2. CASE ~e.isForeground
    BY <1>1, <1>3, <1>4, <1>5, <1>12, <2>2 DEF GoesBy
  <2> QED
    BY <2>1, <2>2
<1> QED
  BY <1>5, <1>6, <1>8, <1>9, <1>10, <1>13

LEMMA LookFollowed ==
  ASSUME Follows, ListingBegins \/ \E w \in Windows : Lists(w)
  PROVE  Follows'
<1> USE DEF Follows
<1>1. UNCHANGED <<desktop, hooks, pipe, start, known, foreground, overheard, missed, torn>>
  BY DEF ListingBegins, Lists, stateVars
<1>2. CASE ListingBegins
  <2>1. survey = "asked" /\ survey' = "listing" /\ UNCHANGED <<listed, answer>>
    BY <1>2 DEF ListingBegins
  <2>2. AttentionShape' /\ OneSnapshot' /\ ListsHonestly' /\ Flagged'
    BY <1>1, <2>1 DEF AttentionShape, OneSnapshot, ListsHonestly, Flagged
  <2>3. CallbackComes \/ (LastWord /\ GoesBy) => CallbackComes' \/ (LastWord' /\ GoesBy')
    BY <1>1, <2>1 DEF CallbackComes, LastWord, GoesBy, Spoken, SpokenSinceSnapshot
  <2> QED
    BY <2>2, <2>3
<1>3. ASSUME NEW w \in Windows, Lists(w) PROVE Follows'
  <2>1. /\ survey = "listing" /\ survey' = survey
        /\ listed' = [listed EXCEPT ![w] = IF w = desktop THEN "foreground" ELSE "known"]
        /\ answer' = IF w = desktop /\ answer = NoWindow THEN w ELSE answer
    BY <1>3 DEF Lists
  <2>2. AttentionShape' /\ OneSnapshot' /\ Flagged'
    BY <1>1, <2>1 DEF AttentionShape, OneSnapshot, Flagged, Flags
  <2>3. ListsHonestly'
    BY <1>1, <2>1, AttentionAssumption DEF AttentionShape, ListsHonestly
  <2>4. start # "answered"
    BY <2>1 DEF OneSnapshot
  <2>5. CallbackComes \/ (LastWord /\ GoesBy) => CallbackComes' \/ (LastWord' /\ GoesBy')
    BY <1>1, <2>1, <2>4 DEF CallbackComes, LastWord, GoesBy, Spoken, SpokenSinceSnapshot
  <2> QED
    BY <2>2, <2>3, <2>5
<1> QED
  BY <1>2, <1>3

LEMMA ListFollowed == ASSUME Follows, ListingEnds PROVE Follows'
<1> USE DEF Follows
<1>1. /\ survey = "listing" /\ survey' = "written" /\ start # "answered"
      /\ UNCHANGED <<desktop, hooks, listed, answer, start, known, foreground, overheard, missed, torn>>
  BY DEF ListingEnds, stateVars, OneSnapshot
<1>2. /\ pipe' \in Seq(Lines \union {SnapshotLine}) /\ Len(pipe') = Len(pipe) + 1 /\ Len(pipe) \in Nat
      /\ pipe'[Len(pipe) + 1] = SnapshotLine /\ \A i \in 1..Len(pipe) : pipe'[i] = pipe[i]
  BY PipeAppend DEF ListingEnds
<1>3. AttentionShape' /\ ListsHonestly' /\ Flagged'
  BY <1>1, <1>2 DEF AttentionShape, ListsHonestly, Flagged
<1>4. Len(pipe) + 1 \in 1..Len(pipe')
  BY <1>2
<1>5. OneSnapshot'
  BY <1>1, <1>2, <1>4 DEF OneSnapshot
<1>6. CallbackComes => CallbackComes'
  BY <1>1 DEF CallbackComes
<1>7. ~NamesForeground(pipe'[Len(pipe) + 1])
  BY <1>2 DEF NamesForeground
<1>8. LastWord => LastWord'
  <2>1. ASSUME LastWord, NEW i \in 1..Len(pipe'), NamesForeground(pipe'[i]),
               \A j \in 1..Len(pipe') : j > i => ~NamesForeground(pipe'[j])
        PROVE  pipe'[i].window = desktop
    <3>1. i \in 1..Len(pipe) /\ pipe'[i] = pipe[i]
      BY <1>2, <1>7, <2>1
    <3>2. ASSUME NEW j \in 1..Len(pipe), j > i PROVE ~NamesForeground(pipe[j])
      <4>1. j \in 1..Len(pipe') /\ pipe'[j] = pipe[j]
        BY <1>2
      <4> QED
        BY <2>1, <3>2, <4>1
    <3> QED
      BY <2>1, <3>1, <3>2 DEF LastWord
  <2> QED
    BY <1>1, <2>1 DEF LastWord
<1>9. GoesBy => GoesBy'
  <2>1. Spoken => Spoken'
    BY <1>2 DEF Spoken
  <2> QED
    BY <1>1, <2>1 DEF GoesBy, ListsHonestly, AttentionShape
<1> QED
  BY <1>3, <1>5, <1>6, <1>8, <1>9

LEMMA AnswerFollowed == ASSUME Follows, ReadSnapshot PROVE Follows'
<1> USE DEF Follows
<1>1. /\ pipe # <<>> /\ Head(pipe) = SnapshotLine /\ pipe' = Tail(pipe)
      /\ start' = IF start = "waiting" THEN "answered" ELSE start
      /\ UNCHANGED <<desktop, hooks, survey, listed, answer, known, foreground, overheard, missed, torn>>
  BY DEF ReadSnapshot, watcherVars, stateVars
<1>2. /\ pipe' \in Seq(Lines \union {SnapshotLine}) /\ Len(pipe') = Len(pipe) - 1 /\ Len(pipe) \in Nat \ {0}
      /\ pipe[1] = SnapshotLine /\ \A i \in 1..Len(pipe') : pipe'[i] = pipe[i + 1]
  BY <1>1, PipeTail
<1>3. /\ 1 \in 1..Len(pipe) /\ \A i \in 1..Len(pipe') : i + 1 \in 1..Len(pipe) /\ i + 1 # 1
      /\ \A i \in 1..Len(pipe) : i # 1 => i - 1 \in 1..Len(pipe') /\ pipe'[i - 1] = pipe[i]
  BY <1>2
<1>4. survey = "written" /\ start \in {"waiting", "done"}
  BY <1>2, <1>3 DEF OneSnapshot, AttentionShape
<1>5. AttentionShape' /\ ListsHonestly' /\ Flagged'
  BY <1>1, <1>2, <1>4 DEF AttentionShape, ListsHonestly, Flagged
<1>6. OneSnapshot'
  <2>1. \A i \in 1..Len(pipe') : pipe'[i] # SnapshotLine
    <3> SUFFICES ASSUME NEW i \in 1..Len(pipe'), pipe'[i] = SnapshotLine PROVE FALSE
      OBVIOUS
    <3>1. i + 1 \in 1..Len(pipe) /\ pipe[i + 1] = SnapshotLine /\ i + 1 # 1
      BY <1>2, <1>3
    <3>2. \A k, j \in 1..Len(pipe) : pipe[k] = SnapshotLine /\ pipe[j] = SnapshotLine => k = j
      BY DEF OneSnapshot
    <3> QED
      BY <1>2, <1>3, <3>1, <3>2
  <2>2. start' \in {"answered", "done"} /\ survey' = "written"
    BY <1>1, <1>4
  <2> QED
    BY <2>1, <2>2 DEF OneSnapshot
<1>7. CallbackComes => CallbackComes'
  BY <1>1 DEF CallbackComes
<1>8. LastWord => LastWord'
  <2>1. ASSUME LastWord, NEW i \in 1..Len(pipe'), NamesForeground(pipe'[i]),
               \A j \in 1..Len(pipe') : j > i => ~NamesForeground(pipe'[j])
        PROVE  pipe'[i].window = desktop
    <3>1. i + 1 \in 1..Len(pipe) /\ pipe'[i] = pipe[i + 1]
      BY <1>2
    <3>2. ASSUME NEW j \in 1..Len(pipe), j > i + 1 PROVE ~NamesForeground(pipe[j])
      <4>1. j - 1 \in 1..Len(pipe') /\ j - 1 > i /\ pipe'[j - 1] = pipe[j]
        BY <1>2, <1>3, <3>2
      <4> QED
        BY <2>1, <4>1
    <3> QED
      BY <2>1, <3>1, <3>2 DEF LastWord
  <2> QED
    BY <1>1, <2>1 DEF LastWord
<1>9. Spoken => Spoken'
  <2>1. ASSUME NEW i \in 1..Len(pipe), NamesForeground(pipe[i])
        PROVE  Spoken'
    <3>1. i # 1
      BY <1>2, <2>1 DEF NamesForeground
    <3> QED
      BY <1>3, <2>1, <3>1 DEF Spoken
  <2> QED
    BY <2>1 DEF Spoken
<1>10. GoesBy => GoesBy'
  <2>1. SpokenSinceSnapshot => Spoken
    BY DEF SpokenSinceSnapshot, Spoken
  <2>2. start = "waiting" => overheard' = NoWindow
    BY <1>1 DEF AttentionShape
  <2> QED
    BY <1>1, <1>4, <1>9, <2>1, <2>2 DEF GoesBy
<1> QED
  BY <1>5, <1>6, <1>7, <1>8, <1>10

LEMMA StartFollowed == ASSUME Follows, SnapshotApplies \/ SnapshotFails PROVE Follows'
<1> USE DEF Follows
<1>1. /\ start' = "done" /\ start \in {"answered", "waiting"}
      /\ UNCHANGED <<desktop, hooks, pipe, survey, listed, answer>>
  BY DEF SnapshotApplies, SnapshotFails, watcherVars
<1>2. AttentionShape' /\ Flagged'
  <2>1. CASE SnapshotApplies
    <3>1. /\ known' = listed /\ foreground' = answer /\ torn' = FALSE /\ overheard' = NoWindow
          /\ start = "answered" /\ ("torn" \notin missed' => ~torn)
      BY <2>1 DEF SnapshotApplies, Reasons
    <3> QED
      BY <1>1, <3>1 DEF AttentionShape, Flagged, ListsHonestly
  <2>2. CASE SnapshotFails
    BY <1>1, <2>2 DEF SnapshotFails, AttentionShape, Flagged
  <2> QED
    BY <2>1, <2>2
<1>3. OneSnapshot' /\ ListsHonestly'
  BY <1>1 DEF OneSnapshot, ListsHonestly
<1>4. (CallbackComes => CallbackComes') /\ (LastWord => LastWord') /\ (Spoken => Spoken')
  BY <1>1 DEF CallbackComes, LastWord, Spoken
<1>5. GoesBy => GoesBy'
  <2>1. CASE SnapshotApplies
    <3>1. /\ foreground' = answer /\ start = "answered"
          /\ torn => "torn" \in missed'
          /\ answer = NoWindow => "unlisted" \in missed'
          /\ overheard \notin {NoWindow, answer} => "overtaken" \in missed'
      BY <2>1 DEF SnapshotApplies, Reasons
    <3>2. desktop # NoWindow
      BY AttentionAssumption DEF AttentionShape
    <3>3. GoesBy => Spoken' \/ missed' # {} \/ foreground' = desktop
      BY <1>4, <3>1, <3>2 DEF GoesBy
    <3> QED
      BY <1>1, <3>3 DEF GoesBy
  <2>2. CASE SnapshotFails
    BY <1>1, <2>2 DEF SnapshotFails, GoesBy
  <2> QED
    BY <2>1, <2>2
<1> QED
  BY <1>2, <1>3, <1>4, <1>5

LEMMA FollowsKept == ASSUME Follows, [AttentionNext]_attentionVars PROVE Follows'
<1>1. CASE InstantPasses \/ UNCHANGED attentionVars
  <2>1. UNCHANGED <<desktop, hooks, pipe, survey, listed, answer, start, known, foreground, overheard,
                    missed, torn>>
    BY <1>1 DEF InstantPasses, attentionVars, watcherVars, stateVars
  <2> QED
    BY <2>1 DEF Follows, AttentionShape, OneSnapshot, ListsHonestly, Flagged, CallbackComes, LastWord,
                GoesBy, Spoken, SpokenSinceSnapshot
<1> QED
  BY <1>1, DesktopFollowed, HookFollowed, LookFollowed, ListFollowed, EventFollowed, AnswerFollowed, StartFollowed
  DEF AttentionNext

\* Once the watcher's callbacks have run and every line is read, the engine's foreground
\* window is the desktop's, whatever the windows did, however far the pipe and start's list
\* lagged and whichever windows it looked at, unless a throttled line, or a list that failed,
\* flagged no window, saw the foreground change or came after newer lines, left it behind:
\* attentionManager.ts, eyesWatcher.ps1 and start, for every set of windows and every throttle.
THEOREM ForegroundIsFollowed == AttentionSpec => []ForegroundFollows
<1>1. AttentionInit => Follows
  <2> SUFFICES ASSUME AttentionInit PROVE Follows
    OBVIOUS
  <2>1. hooks \in Seq(Events) /\ pipe \in Seq(Lines \union {SnapshotLine}) /\ Len(pipe) = 0
    BY DEF AttentionInit
  <2>2. AttentionShape
    BY <2>1 DEF AttentionInit, AttentionShape, Flags
  <2>3. OneSnapshot /\ LastWord
    BY <2>1 DEF AttentionInit, OneSnapshot, LastWord
  <2>4. ListsHonestly /\ Flagged /\ GoesBy
    BY DEF AttentionInit, ListsHonestly, Flagged, GoesBy
  <2> QED
    BY <2>2, <2>3, <2>4 DEF Follows
<1>2. Follows /\ [AttentionNext]_attentionVars => Follows'
  BY FollowsKept
<1>3. Follows => ForegroundFollows
  BY DEF Follows, ForegroundFollows, Flagged, CallbackComes, GoesBy, Spoken
<1> QED
  BY <1>1, <1>2, <1>3, PTL DEF AttentionSpec

-----------------------------------------------------------------------------
(* The capture rate *)

\* A window's verdict of "overloaded" takes the target back to this.
Backoff(achieved) == Clamp((High(achieved, MinRate) * 9) \div 10)

CapabilityShape ==
  /\ target \in MinRate..MaxRate /\ requested \in Nat /\ capacity \in Nat
  /\ sustained \in Nat /\ best \in Nat
  /\ raised \in BOOLEAN /\ ceilingFound \in BOOLEAN /\ restarted \in BOOLEAN /\ steady \in BOOLEAN

\* A rate that was just raised is what the source was asked for, or is so near the top
\* that the source is not restarted, or so low that it is not, and goes on as it was asked
\* after the last step back.
Raised ==
  \/ requested = target /\ target >= 40
  \/ requested < target /\ target = MaxRate /\ 100 * requested >= 85 * target
  \/ requested = Backoff(capacity) /\ requested <= target /\ target < 50

\* What an undisturbed machine's estimate has come to.
Climbing ==
  /\ ceilingFound => requested >= target /\ target <= High(capacity, MinRate)
                     /\ 100 * target >= 80 * Low(capacity, MaxRate) - 200
  /\ ~ceilingFound /\ ~raised => requested = target /\ target \in {Clamp(StartRate), Backoff(capacity)}
  /\ ~ceilingFound /\ raised => Raised

Measured ==
  /\ CapabilityShape
  /\ sustained <= High(best, MinRate)
  /\ steady /\ override = 0 => Climbing

\* A window that closed delivered, on a machine that was not disturbed, no more than the
\* machine can, and, when it was not idle, what was asked if it can.
Delivered(achieved) ==
  /\ achieved \in Nat /\ best' = High(best, achieved)
  /\ \/ RecordInconclusive
     \/ RecordSustained(achieved) /\ achieved * 100 >= target * 85
     \/ RecordOverloaded(achieved) /\ achieved * 100 < target * 85 /\ (steady' => achieved >= Low(requested, capacity))
  /\ steady' => steady /\ achieved <= capacity
  /\ Retune /\ UNCHANGED <<override, capacity>>
  /\ steady' \in BOOLEAN


\* What a window delivers.
LEMMA WindowDelivers ==
  ASSUME Measured, CloseWindow
  PROVE  \E achieved \in Nat : Delivered(achieved)
<1> DEFINE able(rate, cost) == (rate * (100 - cost)) \div 100
           asked(rate, cost) == able(Low(requested, rate), cost)
           Rates(rate, cost, idle) == {able(rate, cost), asked(rate, cost)}
                                        \union (IF idle THEN {asked(rate, cost) \div 2} ELSE {})
           Closes(rate, cost, idle, achieved) ==
             /\ rate <= capacity
             /\ \/ Classify(achieved, idle, FALSE) = "inconclusive" /\ RecordInconclusive
                \/ Classify(achieved, idle, FALSE) = "sustained" /\ RecordSustained(achieved)
                \/ Classify(achieved, idle, FALSE) = "overloaded" /\ RecordOverloaded(achieved)
             /\ best' = High(best, achieved)
             /\ steady' = (steady /\ rate = capacity /\ cost = 0)
<1>1. PICK rate \in {capacity} \union SlowRates, cost \in IF restarted THEN RestartCosts ELSE {0},
           idle \in BOOLEAN :
        \E achieved \in Rates(rate, cost, idle) : Closes(rate, cost, idle, achieved)
  BY Zenon DEF CloseWindow
<1>2. /\ rate \in Nat /\ cost \in 0..100 /\ requested \in Nat /\ capacity \in Nat /\ steady \in BOOLEAN
      /\ target \in Nat /\ Low(requested, rate) \in Nat
  BY CapabilityAssumption DEF Measured, CapabilityShape, Low
<1>3. ASSUME NEW r \in Nat
      PROVE  able(r, cost) \in Nat /\ able(r, cost) \div 2 \in Nat /\ (cost = 0 => able(r, cost) = r)
  <2>1. r * (100 - cost) \in Nat
    <3>1. \A m, n \in Nat : m * n \in Nat
      OBVIOUS
    <3> QED
      BY <1>2, <3>1
  <2>2. cost = 0 => able(r, cost) = r
    BY <1>2
  <2>3. able(r, cost) \in Nat
    BY <2>1
  <2> HIDE DEF able
  <2> QED
    BY <2>2, <2>3
<1>4. PICK achieved \in Rates(rate, cost, idle) : Closes(rate, cost, idle, achieved)
  BY <1>1
<1>5. /\ achieved \in Nat
      /\ cost = 0 => achieved <= rate
      /\ cost = 0 /\ ~idle => achieved >= Low(requested, rate)
  <2>1. PICK most \in Nat : most = able(rate, cost) /\ (cost = 0 => most = rate)
    BY <1>2, <1>3
  <2>2. PICK some \in Nat : some = asked(rate, cost) /\ some \div 2 \in Nat /\ (cost = 0 => some = Low(requested, rate))
    BY <1>2, <1>3
  <2> HIDE DEF able, asked
  <2>3. achieved \in {most, some} \/ (idle /\ achieved = some \div 2)
    BY <1>4, <2>1, <2>2
  <2>4. Low(requested, rate) <= rate
    BY <1>2 DEF Low
  <2> QED
    BY <1>2, <2>1, <2>2, <2>3, <2>4
<1>6. /\ steady' \in BOOLEAN
      /\ steady' => steady /\ rate = capacity /\ cost = 0
  BY <1>2, <1>4
<1>7. steady' => achieved <= capacity /\ (~idle => achieved >= Low(requested, capacity))
  BY <1>5, <1>6
<1>8. /\ Classify(achieved, idle, FALSE) = "sustained" => achieved * 100 >= target * 85
      /\ Classify(achieved, idle, FALSE) = "overloaded" => ~idle /\ achieved * 100 < target * 85
  BY <1>2, <1>5 DEF Classify
<1>9. Retune /\ UNCHANGED <<override, capacity>>
  BY DEF CloseWindow
<1> QED
  BY <1>4, <1>5, <1>6, <1>7, <1>8, <1>9 DEF Delivered

LEMMA Backs ==
  ASSUME NEW a \in Nat
  PROVE  /\ Backoff(a) \in MinRate..MaxRate /\ Backoff(a) <= High(a, MinRate)
         /\ a <= MinRate => Backoff(a) = MinRate
         /\ 100 * Backoff(a) >= 90 * Low(a, MaxRate) - 90
         /\ a >= Backoff(a) \/ a < MinRate
         /\ \A b \in Nat : a <= b => Backoff(a) <= Backoff(b)
BY CapabilityAssumption DEF Backoff, Clamp, High, Low


\* accumulateCapability: the source is restarted at the target or goes on as it was.
LEMMA Retuned ==
  ASSUME Retune
  PROVE  requested' \in {target', requested} /\ restarted' \in BOOLEAN
BY DEF Retune

\* The types, and the estimate no window showed.
LEMMA ShownByAWindow ==
  ASSUME Measured, NEW achieved \in Nat, Delivered(achieved)
  PROVE  CapabilityShape' /\ (sustained <= High(best, MinRate))'
<1>1. /\ target \in MinRate..MaxRate /\ MinRate \in Nat /\ MaxRate \in Nat /\ target \in Nat
      /\ requested \in Nat /\ sustained \in Nat /\ best \in Nat /\ sustained <= High(best, MinRate)
      /\ raised \in BOOLEAN /\ ceilingFound \in BOOLEAN /\ MinRate <= MaxRate
  BY CapabilityAssumption DEF Measured, CapabilityShape
<1>2. best' = High(best, achieved) /\ best' \in Nat /\ capacity' \in Nat /\ steady' \in BOOLEAN
  BY DEF Delivered, Measured, CapabilityShape, High
<1>3. /\ target' \in MinRate..MaxRate /\ raised' \in BOOLEAN /\ ceilingFound' \in BOOLEAN
      /\ sustained' \in Nat /\ sustained' <= High(best', MinRate)
  <2>1. CASE RecordInconclusive
    BY <1>1, <1>2, <2>1 DEF RecordInconclusive, High
  <2>2. CASE RecordSustained(achieved)
    <3>1. Clamp((target * 5) \div 4) \in MinRate..MaxRate
      BY <1>1 DEF Clamp, High, Low
    <3>2. /\ target' \in MinRate..MaxRate /\ raised' \in BOOLEAN /\ ceilingFound' \in BOOLEAN
          /\ sustained' = High(sustained, achieved)
      BY <1>1, <2>2, <3>1 DEF RecordSustained
    <3> QED
      BY <1>1, <1>2, <3>2 DEF High
  <2>3. CASE RecordOverloaded(achieved)
    <3>1. /\ target' = Low(target, Backoff(achieved)) /\ raised' = FALSE /\ ceilingFound' \in BOOLEAN
          /\ sustained' = IF sustained = 0 \/ target' < sustained THEN target' ELSE sustained
      BY <1>1, <2>3 DEF RecordOverloaded, Backoff
    <3>2. Backoff(achieved) \in MinRate..MaxRate /\ Backoff(achieved) <= High(achieved, MinRate)
      BY Backs
    <3>3. target' \in MinRate..MaxRate /\ target' <= Backoff(achieved)
      BY <1>1, <3>1, <3>2 DEF Low
    <3>4. High(achieved, MinRate) <= High(best', MinRate) /\ High(best, MinRate) <= High(best', MinRate)
      BY <1>1, <1>2 DEF High
    <3>5. /\ High(achieved, MinRate) \in Nat /\ High(best', MinRate) \in Nat /\ High(best, MinRate) \in Nat
          /\ target' \in Nat /\ Backoff(achieved) \in Nat
      BY <1>1, <1>2, <3>2, <3>3 DEF High
    <3>6. target' <= High(best', MinRate) /\ sustained <= High(best', MinRate)
      BY <1>1, <3>2, <3>3, <3>4, <3>5
    <3> QED
      BY <1>1, <3>1, <3>3, <3>5, <3>6
  <2> QED
    BY <2>1, <2>2, <2>3 DEF Delivered
<1>4. requested' \in Nat /\ restarted' \in BOOLEAN
  BY <1>1, <1>3, Retuned DEF Delivered
<1> QED
  BY <1>2, <1>3, <1>4 DEF CapabilityShape

\* An undisturbed machine's estimate when a window says nothing, or that the target is reached,
LEMMA ClimbsOn ==
  ASSUME Measured, NEW achieved \in Nat, Delivered(achieved),
         RecordInconclusive \/ (RecordSustained(achieved) /\ achieved * 100 >= target * 85),
         CapabilityShape', steady', override = 0
  PROVE  Climbing'
<1>1. /\ target \in MinRate..MaxRate /\ requested \in Nat /\ capacity \in Nat /\ capacity' = capacity
      /\ raised \in BOOLEAN /\ ceilingFound \in BOOLEAN /\ target' \in MinRate..MaxRate
  BY DEF Measured, CapabilityShape, Delivered
<1>2. Climbing
  BY DEF Delivered, Measured
<1>3. ASSUME target' = target, raised' = raised, ceilingFound' = ceilingFound
      PROVE  Climbing'
  <2>1. requested' = requested
    BY <1>1, <1>3, Retuned DEF Delivered, Retune, High
  <2> QED
    BY <1>1, <1>2, <1>3, <2>1 DEF Climbing, Raised, Backoff, Clamp, High, Low
<1>4. ASSUME achieved * 100 >= target * 85, RecordSustained(achieved), ~ceilingFound, target' # target \/ raised' # raised
      PROVE  Climbing'
  <2> DEFINE up == Clamp((target * 5) \div 4)
  <2>1. /\ target' = up /\ raised' = (raised \/ up > target) /\ ~ceilingFound'
    <3>1. CASE streak + 1 >= WindowsBeforeRaise
      BY <1>4, <3>1 DEF RecordSustained
    <3>2. CASE ~(streak + 1 >= WindowsBeforeRaise)
      BY <1>1, <1>4, <3>2 DEF RecordSustained
    <3> QED
      BY <3>1, <3>2
  <2>2. up # target
    BY <1>1, <1>4, <2>1
  <2>3. up > target /\ raised'
    <3>1. up >= target /\ up \in Nat /\ target \in Nat
      BY <1>1, CapabilityAssumption DEF Clamp, High, Low
    <3> HIDE DEF up
    <3>2. up > target
      BY <2>2, <3>1
    <3> QED
      BY <2>1, <3>2
  <2>4. target < MaxRate
    BY <1>1, <2>3, CapabilityAssumption DEF Clamp, High, Low
  <2>5. \/ requested = target
        \/ requested = Backoff(capacity) /\ requested <= target /\ target < 50
    BY <1>1, <1>2, <1>4, <2>4 DEF Climbing, Raised
  <2>6. requested' = IF up - target >= High(10, target \div 10) THEN up ELSE requested
    BY <1>1, <2>1, <2>3 DEF Delivered, Retune, High
  <2>7. CASE target >= 40 /\ requested = target
    <3>1. up = MaxRate \/ up = (target * 5) \div 4
      BY <1>1, <2>7, CapabilityAssumption DEF Clamp, High, Low
    <3> HIDE DEF up
    <3>2. Raised'
      BY <1>1, <2>1, <2>3, <2>4, <2>6, <2>7, <3>1, CapabilityAssumption DEF Raised, High
    <3> QED
      BY <2>1, <2>3, <3>2 DEF Climbing
  <2>8. CASE target >= 40 /\ target < 50 /\ requested # target
    <3>1. up = (target * 5) \div 4
      BY <1>1, <2>8, CapabilityAssumption DEF Clamp, High, Low
    <3> HIDE DEF up
    <3>2. requested' = up /\ up >= 40
      BY <1>1, <2>6, <2>8, <3>1 DEF High
    <3> QED
      BY <2>1, <2>3, <3>2 DEF Climbing, Raised
  <2>9. CASE target < 40
    <3>1. up = (target * 5) \div 4 /\ target >= 10
      BY <1>1, <2>9, CapabilityAssumption DEF Clamp, High, Low
    <3> HIDE DEF up
    <3>2. requested' = requested /\ up < 50
      BY <1>1, <2>6, <2>9, <3>1 DEF High
    <3>3. Clamp(StartRate) >= 50
      BY CapabilityAssumption DEF Clamp, High, Low
    <3>4. requested = Backoff(capacity) /\ requested <= target
      BY <1>1, <1>2, <1>4, <2>4, <2>9, <3>3, CapabilityAssumption DEF Climbing, Raised
    <3>5. Backoff(capacity)' = Backoff(capacity)
      BY <1>1 DEF Backoff, Clamp, High, Low
    <3>6. Raised'
      BY <1>1, <2>1, <2>3, <3>2, <3>4, <3>5 DEF Raised
    <3> QED
      BY <2>1, <2>3, <3>6 DEF Climbing
  <2> QED
    BY <1>1, <2>5, <2>7, <2>8, <2>9
<1>5. CASE RecordInconclusive
  BY <1>3, <1>5 DEF RecordInconclusive
<1>6. CASE RecordSustained(achieved) /\ achieved * 100 >= target * 85
  BY <1>1, <1>3, <1>4, <1>6 DEF RecordSustained
<1> QED
  BY <1>5, <1>6

\* and when the machine did not keep up.
LEMMA BacksOff ==
  ASSUME Measured, NEW achieved \in Nat, Delivered(achieved), RecordOverloaded(achieved),
         achieved * 100 < target * 85, achieved >= Low(requested, capacity),
         CapabilityShape', steady', override = 0
  PROVE  Climbing'
<1>1. /\ target \in MinRate..MaxRate /\ requested \in Nat /\ capacity \in Nat /\ capacity' = capacity
      /\ raised \in BOOLEAN /\ ceilingFound \in BOOLEAN /\ target' \in MinRate..MaxRate
      /\ MinRate \in Nat /\ MaxRate \in Nat /\ MinRate >= 10 /\ MaxRate >= 100 /\ 2 * MinRate <= MaxRate
      /\ requested' \in {target', requested} /\ achieved <= capacity
      /\ achieved >= requested \/ achieved = capacity
  BY CapabilityAssumption, Retuned DEF Measured, CapabilityShape, Delivered, Low
<1>2. Climbing
  BY DEF Delivered, Measured
<1>3. /\ target' = Low(target, Backoff(achieved)) /\ ~raised' /\ ceilingFound' = (ceilingFound \/ raised)
  BY DEF RecordOverloaded, Backoff
<1>4. Backoff(capacity)' = Backoff(capacity) /\ High(capacity, MinRate)' = High(capacity, MinRate)
      /\ Low(capacity, MaxRate)' = Low(capacity, MaxRate) /\ Clamp(StartRate)' = Clamp(StartRate)
  BY <1>1 DEF Backoff, Clamp, High, Low
<1>5. target' = target => requested' = requested
  BY <1>1 DEF Delivered, Retune, High
<1>6. CASE ceilingFound
  <2>1. requested >= target /\ target <= High(capacity, MinRate)
    BY <1>2, <1>6 DEF Climbing
  <2>2. achieved < MinRate /\ target = MinRate
    BY <1>1, <2>1 DEF High
  <2>3. target' = target
    BY <1>1, <1>3, <2>2, Backs DEF Low
  <2> QED
    BY <1>2, <1>3, <1>4, <1>5, <1>6, <2>3 DEF Climbing
<1>7. CASE ~ceilingFound /\ ~raised
  <2>1. requested = target /\ achieved = capacity /\ capacity < target
    BY <1>1, <1>2, <1>7 DEF Climbing
  <2>2. CASE target = Backoff(capacity)
    <3>1. capacity < MinRate /\ Backoff(capacity) = MinRate
      BY <1>1, <2>1, <2>2, Backs
    <3>2. target' = target
      BY <1>1, <1>3, <2>1, <2>2, <3>1 DEF Low
    <3> QED
      BY <1>2, <1>3, <1>4, <1>5, <1>7, <3>2 DEF Climbing
  <2>3. CASE target = Clamp(StartRate)
    <3>1. target = StartRate
      BY <2>3, CapabilityAssumption DEF Clamp, High, Low
    <3>2. 100 * (StartRate - Backoff(capacity)) >= 23 * StartRate
      <4>1. Backoff(capacity) = MinRate \/ 10 * Backoff(capacity) <= 9 * capacity
        BY <1>1 DEF Backoff, Clamp, High, Low
      <4> QED
        BY <1>1, <2>1, <3>1, <4>1, Backs, CapabilityAssumption
    <3>3. Backoff(capacity) \in Nat /\ StartRate \in Nat /\ StartRate >= 50
      BY <1>1, Backs, CapabilityAssumption
    <3>4. target' = Backoff(capacity)
      BY <1>1, <1>3, <2>1, <3>1, <3>2, <3>3 DEF Low
    <3>5. requested' = target'
      BY <1>1, <2>1, <3>1, <3>2, <3>3, <3>4 DEF Delivered, Retune, High
    <3> QED
      BY <1>3, <1>4, <1>7, <3>4, <3>5 DEF Climbing
  <2> QED
    BY <1>2, <1>7, <2>2, <2>3 DEF Climbing
<1>8. CASE ~ceilingFound /\ raised
  <2>1. Raised
    BY <1>2, <1>8 DEF Climbing
  <2>2. /\ Backoff(achieved) \in MinRate..MaxRate /\ Backoff(achieved) <= High(achieved, MinRate)
        /\ 100 * Backoff(achieved) >= 90 * Low(achieved, MaxRate) - 90
        /\ achieved <= MinRate => Backoff(achieved) = MinRate
        /\ Backoff(capacity) \in MinRate..MaxRate
        /\ 100 * Backoff(capacity) >= 90 * Low(capacity, MaxRate) - 90
        /\ capacity >= Backoff(capacity) \/ (capacity < MinRate /\ Backoff(capacity) = MinRate)
        /\ Backoff(achieved) <= Backoff(capacity)
    BY <1>1, Backs
  <2>3. requested >= MinRate
    BY <1>1, <2>1, <2>2 DEF Raised
  <2>4. \/ achieved = capacity /\ capacity < target /\ (capacity < requested \/ requested = target)
        \/ requested = Backoff(capacity) /\ requested <= target
    BY <1>1, <2>1 DEF Raised
  <2>5. target' <= High(capacity, MinRate) /\ target' <= requested
    BY <1>1, <1>3, <2>2, <2>3, <2>4 DEF High, Low
  <2>6. 100 * Backoff(achieved) >= 80 * Low(capacity, MaxRate) - 200
    <3>1. CASE achieved = capacity
      BY <1>1, <2>2, <3>1 DEF Low
    <3>2. CASE achieved # capacity
      BY <1>1, <2>2, <2>4, <3>2 DEF Low
    <3> QED
      BY <3>1, <3>2
  <2>7. 100 * target >= 80 * Low(capacity, MaxRate) - 200
    BY <1>1, <2>2, <2>4 DEF Low
  <2>8. 100 * target' >= 80 * Low(capacity, MaxRate) - 200
    BY <1>3, <2>6, <2>7 DEF Low
  <2>9. requested' >= target'
    BY <1>1, <2>5
  <2> QED
    BY <1>3, <1>4, <1>8, <2>5, <2>8, <2>9 DEF Climbing
<1> QED
  BY <1>6, <1>7, <1>8

\* captureCapability.ts: the rate it reports was shown by a window or is the floor, and
\* on an undisturbed machine in auto mode an estimate that has found its ceiling is just
\* below what the machine can do, for any rates that satisfy the assumption.
THEOREM EstimateHonest == CapabilitySpec => []EstimateIsHonest
<1>1. CapabilityInit => Measured
  <2> SUFFICES ASSUME CapabilityInit
               PROVE  Measured
    OBVIOUS
  <2>1. Clamp(StartRate) = StartRate
    BY CapabilityAssumption DEF Clamp, High, Low
  <2>2. CapabilityShape /\ sustained <= High(best, MinRate)
    <3>1. target \in MinRate..MaxRate /\ target \in Nat
      BY <2>1, CapabilityAssumption DEF CapabilityInit
    <3>2. requested \in Nat /\ capacity \in Nat
      BY <3>1, CapabilityAssumption DEF CapabilityInit
    <3>3. sustained <= High(best, MinRate)
      BY CapabilityAssumption DEF CapabilityInit, High
    <3> QED
      BY <3>1, <3>2, <3>3 DEF CapabilityInit, CapabilityShape
  <2>3. override = 0 => Climbing
    BY DEF CapabilityInit, Climbing
  <2> QED
    BY <2>2, <2>3 DEF Measured
<1>2. Measured /\ [CapabilityNext]_capabilityVars => Measured'
  <2> SUFFICES ASSUME Measured, [CapabilityNext]_capabilityVars
               PROVE  Measured'
    OBVIOUS
  <2>1. CASE CloseWindow
    <3>1. PICK achieved \in Nat : Delivered(achieved)
      BY <2>1, WindowDelivers
    <3>2. CapabilityShape' /\ (sustained <= High(best, MinRate))'
      BY <3>1, ShownByAWindow
    <3>3. ASSUME steady', override' = 0
          PROVE  Climbing'
      <4>1. override = 0
        BY <3>1, <3>3 DEF Delivered
      <4>2. CASE RecordInconclusive \/ (RecordSustained(achieved) /\ achieved * 100 >= target * 85)
        BY <3>1, <3>2, <3>3, <4>1, <4>2, ClimbsOn
      <4>3. CASE RecordOverloaded(achieved) /\ achieved * 100 < target * 85 /\ achieved >= Low(requested, capacity)
        BY <3>1, <3>2, <3>3, <4>1, <4>3, BacksOff
      <4> QED
        BY <3>1, <3>3, <4>2, <4>3 DEF Delivered
    <3> QED
      BY <3>2, <3>3 DEF Measured
  <2>2. CASE UNCHANGED capabilityVars
    BY <2>2 DEF capabilityVars, Measured, CapabilityShape, Climbing, Raised, Backoff, Clamp, High, Low
  <2> QED
    BY <2>1, <2>2 DEF CapabilityNext
<1>3. Measured => EstimateIsHonest
  BY DEF Measured, Climbing, EstimateIsHonest
<1> QED
  BY <1>1, <1>2, <1>3, PTL DEF CapabilitySpec

-----------------------------------------------------------------------------
(* What a model is shown *)

\* Of a finite set, fewer than n + 1 elements have fewer than n others above them, if of two
\* elements one is always above the other.
LEMMA FirstByRank ==
  ASSUME NEW S, IsFiniteSet(S), NEW n \in Nat, NEW above \in [S -> SUBSET S],
         \A i, j \in S : i # j => \/ above[i] \union {i} \subseteq above[j] /\ i \notin above[i]
                                  \/ above[j] \union {j} \subseteq above[i] /\ j \notin above[j],
         NEW first, first = {j \in S : Cardinality(above[j]) < n}
  PROVE  IsFiniteSet(first) /\ Cardinality(first) <= n
<1> DEFINE rank == [j \in first |-> Cardinality(above[j])]
<1>1. \A j \in S : IsFiniteSet(above[j]) /\ Cardinality(above[j]) \in Nat
  <2> SUFFICES ASSUME NEW j \in S PROVE IsFiniteSet(above[j]) /\ Cardinality(above[j]) \in Nat
    OBVIOUS
  <2>1. above[j] \in SUBSET S
    OBVIOUS
  <2>2. IsFiniteSet(above[j])
    BY <2>1, FS_Subset
  <2> QED
    BY <2>2, FS_CardinalityType
<1>2. ASSUME NEW i \in S, NEW j \in S, above[i] \union {i} \subseteq above[j], i \notin above[i]
      PROVE  Cardinality(above[i]) < Cardinality(above[j])
  <2>1. Cardinality(above[i] \union {i}) = Cardinality(above[i]) + 1
    BY <1>1, <1>2, FS_AddElement
  <2>2. Cardinality(above[i] \union {i}) <= Cardinality(above[j])
    BY <1>1, <1>2, FS_Subset
  <2> QED
    BY <1>1, <2>1, <2>2
<1>3. first \subseteq S /\ IsFiniteSet(first)
  BY FS_Subset
<1>4. rank \in [first -> 0 .. n - 1]
  BY <1>1
<1>5. IsInjective(rank)
  <2> SUFFICES ASSUME NEW i \in first, NEW j \in first, i # j PROVE rank[i] # rank[j]
    BY DEF IsInjective
  <2>1. i \in S /\ j \in S
    OBVIOUS
  <2>2. Cardinality(above[i]) < Cardinality(above[j]) \/ Cardinality(above[j]) < Cardinality(above[i])
    BY <1>2, <2>1
  <2>3. Cardinality(above[i]) # Cardinality(above[j])
    BY <1>1, <2>1, <2>2
  <2> QED
    BY <2>3
<1>6. IsFiniteSet(0 .. n - 1) /\ Cardinality(0 .. n - 1) = n
  <2>1. 0 \in Int /\ n - 1 \in Int
    OBVIOUS
  <2>2. IsFiniteSet(0 .. n - 1)
    BY <2>1, FS_Interval
  <2>3. Cardinality(0 .. n - 1) = IF 0 > n - 1 THEN 0 ELSE (n - 1) - 0 + 1
    BY <2>1, FS_Interval
  <2> QED
    BY <2>2, <2>3
<1> HIDE DEF rank
<1>7. rank \in Injection(first, 0 .. n - 1)
  BY <1>4, <1>5 DEF Injection
<1> QED
  BY <1>3, <1>6, <1>7, FS_Injection

\* A sequence of different elements of a finite set is no longer than the set is large.
LEMMA LengthBounded ==
  ASSUME NEW S, IsFiniteSet(S), NEW n \in Nat, NEW f \in [1 .. n -> S],
         \A i, j \in 1 .. n : i < j => f[i] # f[j]
  PROVE  n <= Cardinality(S)
<1>1. IsInjective(f)
  BY DEF IsInjective
<1>2. f \in Injection(1 .. n, S)
  BY <1>1 DEF Injection
<1>3. Cardinality(1 .. n) <= Cardinality(S)
  BY <1>2, FS_Injection
<1>4. Cardinality(1 .. n) = IF 1 > n THEN 0 ELSE n - 1 + 1
  BY FS_Interval
<1> QED
  BY <1>3, <1>4

\* The numbers up to n are finite, and n.
LEMMA FirstNumbers ==
  ASSUME NEW n \in Nat
  PROVE  IsFiniteSet(1 .. n) /\ Cardinality(1 .. n) = n
<1>1. 1 \in Int /\ n \in Int
  OBVIOUS
<1>2. IsFiniteSet(1 .. n)
  BY <1>1, FS_Interval
<1>3. Cardinality(1 .. n) = IF 1 > n THEN 0 ELSE n - 1 + 1
  BY <1>1, FS_Interval
<1> QED
  BY <1>2, <1>3


\* What is needed of a look.
SomeLook(l) == l.samples \in Seq([score : Nat, framed : BOOLEAN])

\* Of the samples in S, the n of the highest scores are at most n.
LEMMA MostSalientBounded ==
  ASSUME NEW l, SomeLook(l), NEW S \in SUBSET (DOMAIN l.samples), NEW n \in Nat
  PROVE  /\ IsFiniteSet(MostSalient(l, S, n)) /\ Cardinality(MostSalient(l, S, n)) <= n
         /\ MostSalient(l, S, n) \subseteq S
<1> DEFINE above == [j \in S |-> {i \in S : MoreSalient(l, i, j)}]
           first == {j \in S : Cardinality(above[j]) < n}
<1>0. DOMAIN l.samples = 1 .. Len(l.samples) /\ Len(l.samples) \in Nat
  BY DEF SomeLook
<1>1. \A i \in S : i \in Nat /\ l.samples[i].score \in Nat
  <2>1. PICK samples \in Seq([score : Nat, framed : BOOLEAN]) : samples = l.samples
    BY DEF SomeLook
  <2>2. \A i \in DOMAIN samples : i \in Nat /\ samples[i].score \in Nat
    <3> DEFINE R == [score : Nat, framed : BOOLEAN]
    <3>1. \A x \in R : x.score \in Nat
      OBVIOUS
    <3> HIDE DEF R
    <3>2. samples \in Seq(R)
      BY DEF R
    <3>3. \A i \in DOMAIN samples : i \in Nat /\ samples[i] \in R
      BY <3>2
    <3> QED
      BY <3>1, <3>3
  <2> QED
    BY <2>1, <2>2
<1>2. IsFiniteSet(S)
  <2>1. IsFiniteSet(DOMAIN l.samples)
    BY <1>0, FirstNumbers
  <2> QED
    BY <2>1, FS_Subset
<1>3. above \in [S -> SUBSET S]
  OBVIOUS
<1>4. ASSUME NEW i \in S, NEW j \in S, MoreSalient(l, i, j)
      PROVE  above[i] \union {i} \subseteq above[j] /\ i \notin above[i]
  <2>1. \A k \in S : MoreSalient(l, k, i) => MoreSalient(l, k, j)
    BY <1>1, <1>4 DEF MoreSalient
  <2>2. ~MoreSalient(l, i, i)
    BY <1>1 DEF MoreSalient
  <2> QED
    BY <1>4, <2>1, <2>2
<1>5. \A i, j \in S : i # j => MoreSalient(l, i, j) \/ MoreSalient(l, j, i)
  BY <1>1 DEF MoreSalient
<1>6. MostSalient(l, S, n) = first
  BY DEF MostSalient
<1>7. \A i, j \in S : i # j => \/ above[i] \union {i} \subseteq above[j] /\ i \notin above[i]
                               \/ above[j] \union {j} \subseteq above[i] /\ j \notin above[j]
  BY <1>4, <1>5
<1> HIDE DEF above
<1>8. first \subseteq S
  OBVIOUS
<1>9. IsFiniteSet(first) /\ Cardinality(first) <= n
  BY <1>2, <1>3, <1>7, FirstByRank
<1> QED
  BY <1>6, <1>8, <1>9

\* The samples told in order: as they stand in the context.
LEMMA ToldInOrder ==
  ASSUME NEW l, SomeLook(l), NEW places \in SUBSET (DOMAIN l.samples), NEW s, s = Told(l, places)
  PROVE  /\ s \in Seq(1 .. Len(l.samples))
         /\ \A i \in 1 .. Len(s) : s[i] \in places
         /\ \A i, j \in 1 .. Len(s) : i < j => s[i] < s[j]
         /\ \A k \in places : \E i \in 1 .. Len(s) : s[i] = k
<1>1. Len(l.samples) \in Nat /\ DOMAIN l.samples = 1 .. Len(l.samples)
  BY DEF SomeLook
<1>2. PICK N \in Nat : N = Len(l.samples)
  BY <1>1
<1>3. places \in SUBSET (1 .. N) /\ s = Filtered([i \in 1 .. N |-> i], places)
  BY <1>1, <1>2 DEF Told
<1>4. s \in Seq(1 .. N)
  BY <1>3, FilteredNumbers
<1>5. \A i \in 1 .. Len(s) : s[i] \in places
  BY <1>3, FilteredNumbers
<1>6. \A i, j \in 1 .. Len(s) : i < j => s[i] < s[j]
  BY <1>3, FilteredNumbers
<1>7. ASSUME NEW k \in places
      PROVE  \E i \in 1 .. Len(s) : s[i] = k
  <2>1. PICK ids : ids = [i \in 1 .. N |-> i]
    OBVIOUS
  <2>2. ids \in Seq(Nat) /\ Len(ids) = N /\ k \in 1 .. N /\ s = Filtered(ids, places) /\ ids[k] = k
    BY <1>3, <2>1
  <2>3. PICK e : Picks(s, e, ids, places, N)
    BY <2>2, FilterPicks
  <2>4. PICK i \in 1 .. Len(s) : e[i] = k
    BY <2>2, <2>3 DEF Picks
  <2> QED
    BY <2>2, <2>3, <2>4 DEF Picks
<1> QED
  BY <1>2, <1>4, <1>5, <1>6, <1>7

\* Images told in order, of the samples with a frame, the newest among them, no more than
\* n; where both is asked for, the oldest too.
TellTheStory(images, framed, n, both) ==
  /\ \A i \in 1 .. Len(images) - 1 : images[i] < images[i + 1]
  /\ \A i \in DOMAIN images : images[i] \in framed
  /\ \E k \in DOMAIN images : \A i \in framed : i <= images[k]
  /\ Len(images) <= n
  /\ both => \E k \in DOMAIN images : \A i \in framed : images[k] <= i

\* The frames of a look, from the oldest to the newest.
LEMMA FramedInOrder ==
  ASSUME NEW l, SomeLook(l), NEW f, f = Framed(l)
  PROVE  /\ f \in Seq(Nat)
         /\ \A i \in 1 .. Len(f) : f[i] \in InFrame(l)
         /\ \A i, j \in 1 .. Len(f) : i < j => f[i] < f[j]
         /\ \A k \in InFrame(l) : \E i \in 1 .. Len(f) : f[i] = k
<1> DEFINE places == InFrame(l)
<1>1. places \in SUBSET (DOMAIN l.samples) /\ f = Told(l, places)
  BY DEF InFrame, Framed
<1> HIDE DEF places
<1>2. f \in Seq(1 .. Len(l.samples))
  BY <1>1, ToldInOrder
<1>3. f \in Seq(Nat)
  BY <1>2
<1>4. \A i \in 1 .. Len(f) : f[i] \in places
  BY <1>1, ToldInOrder
<1>5. \A i, j \in 1 .. Len(f) : i < j => f[i] < f[j]
  BY <1>1, ToldInOrder
<1>6. \A k \in places : \E i \in 1 .. Len(f) : f[i] = k
  BY <1>1, ToldInOrder
<1> QED
  BY <1>3, <1>4, <1>5, <1>6 DEF places

\* visionTransportAdapter.ts: the latest frames tell the story.
LEMMA LatestTell ==
  ASSUME NEW l, SomeLook(l), NEW n \in Nat, NEW s, s = LatestFrames(l, n), s # <<>>
  PROVE  TellTheStory(s, InFrame(l), n, FALSE)
<1>1. PICK f : f = Framed(l)
  OBVIOUS
<1>2. f \in Seq(Nat)
  BY <1>1, FramedInOrder
<1>3. \A i \in 1 .. Len(f) : f[i] \in InFrame(l)
  BY <1>1, FramedInOrder
<1>4. \A i, j \in 1 .. Len(f) : i < j => f[i] < f[j]
  BY <1>1, FramedInOrder
<1>5. \A k \in InFrame(l) : \E i \in 1 .. Len(f) : f[i] = k
  BY <1>1, FramedInOrder
<1>6. PICK F \in Nat : F = Len(f)
  BY <1>2
<1>7. PICK places : places = {i \in 1 .. F : i > F - n}
  OBVIOUS
<1>8. s = Filtered(f, places)
  <2>1. s = Filtered(f, {i \in DOMAIN f : i > Len(f) - n})
    BY <1>1, Zenon DEF LatestFrames
  <2>2. DOMAIN f = 1 .. F
    BY <1>2, <1>6
  <2> QED
    BY <1>6, <1>7, <2>1, <2>2, Zenon
<1>9. s \in Seq(Nat)
  BY <1>2, <1>8, FilterPicks
<1>10. PICK e : Picks(s, e, f, places, F)
  BY <1>2, <1>6, <1>8, FilterPicks
<1>11. PICK L \in Nat : L = Len(s)
  BY <1>9
<1>12. /\ DOMAIN s = 1 .. L /\ e \in [1 .. L -> 1 .. F]
       /\ \A i \in 1 .. L : e[i] \in places /\ s[i] = f[e[i]]
       /\ \A i, j \in 1 .. L : i < j => e[i] < e[j]
       /\ \A k \in 1 .. F : k \in places => \E i \in 1 .. L : e[i] = k
  BY <1>9, <1>10, <1>11 DEF Picks
<1>13. \A i, j \in 1 .. L : i < j => s[i] < s[j]
  BY <1>4, <1>6, <1>12
<1>14. L <= n
  <2>1. places \subseteq (F - n) + 1 .. F /\ F - n + 1 \in Int /\ F \in Int
    BY <1>7
  <2>2. IsFiniteSet((F - n) + 1 .. F)
    BY <2>1, FS_Interval
  <2>3. Cardinality((F - n) + 1 .. F) = IF (F - n) + 1 > F THEN 0 ELSE F - ((F - n) + 1) + 1
    BY <2>1, FS_Interval
  <2>4. e \in [1 .. L -> (F - n) + 1 .. F] /\ \A i, j \in 1 .. L : i < j => e[i] # e[j]
    BY <1>12, <2>1
  <2>5. L <= Cardinality((F - n) + 1 .. F)
    BY <2>2, <2>4, LengthBounded
  <2> QED
    BY <2>3, <2>5
<1>15. 1 \in 1 .. L
  BY <1>9, <1>11
<1>16. PICK k \in 1 .. L : e[k] = F
  <2>1. F \in places /\ F \in 1 .. F
    BY <1>7, <1>12, <1>15
  <2> QED
    BY <1>12, <2>1
<1>17. \A i \in InFrame(l) : i <= s[k]
  <2> SUFFICES ASSUME NEW i \in InFrame(l) PROVE i <= s[k]
    OBVIOUS
  <2>1. PICK j \in 1 .. F : f[j] = i
    BY <1>5, <1>6
  <2>2. s[k] = f[F] /\ F \in 1 .. F
    BY <1>12, <1>16
  <2>3. f[j] \in Nat /\ f[F] \in Nat
    BY <1>2, <1>6, <2>2
  <2> QED
    BY <1>4, <1>6, <2>1, <2>2, <2>3
<1>18. \A i \in 1 .. L : s[i] \in InFrame(l)
  BY <1>3, <1>6, <1>12
<1>19. \A i \in 1 .. L - 1 : s[i] < s[i + 1]
  BY <1>13
<1> QED
  BY <1>11, <1>12, <1>14, <1>17, <1>18, <1>19 DEF TellTheStory

\* anthropicVisionAdapter.ts: the frames between the newest and the oldest tell the story.
LEMMA BookendedTell ==
  ASSUME NEW l, SomeLook(l), NEW n \in Nat, NEW s, s = BookendedFrames(l, n), s # <<>>
  PROVE  TellTheStory(s, InFrame(l), n, n > 1)
<1> DEFINE framed == InFrame(l)
<1>1. PICK f : f = Framed(l)
  OBVIOUS
<1>2. f \in Seq(Nat)
  BY <1>1, FramedInOrder
<1>3. \A i \in 1 .. Len(f) : f[i] \in framed
  BY <1>1, FramedInOrder
<1>4. \A i, j \in 1 .. Len(f) : i < j => f[i] < f[j]
  BY <1>1, FramedInOrder
<1>5. \A k \in framed : \E i \in 1 .. Len(f) : f[i] = k
  BY <1>1, FramedInOrder
<1>6. f # <<>> /\ n > 0
  BY <1>1 DEF BookendedFrames
<1>7. PICK F \in Nat : F = Len(f) /\ 1 \in 1 .. F /\ F \in 1 .. F
  BY <1>2, <1>6
<1>8. PICK ends : ends = {f[F]} \union (IF n > 1 THEN {f[1]} ELSE {})
  OBVIOUS
<1>9. PICK middle : middle = MostSalient(l, framed \ ends, n - Cardinality(ends))
  OBVIOUS
<1>10. s = Told(l, ends \union middle)
  BY <1>1, <1>6, <1>7, <1>8, <1>9 DEF BookendedFrames
<1>11. framed \in SUBSET (DOMAIN l.samples)
  BY DEF InFrame
<1> HIDE DEF framed
<1>12. /\ IsFiniteSet(ends) /\ Cardinality(ends) \in Nat
       /\ Cardinality(ends) <= n /\ n - Cardinality(ends) \in Nat
  <2>1. IsFiniteSet({f[F]}) /\ Cardinality({f[F]}) = 1
    BY FS_Singleton
  <2>2. IsFiniteSet({f[F]} \union {f[1]})
    BY <2>1, FS_AddElement
  <2>3. Cardinality({f[F]} \union {f[1]}) = IF f[1] \in {f[F]} THEN Cardinality({f[F]}) ELSE Cardinality({f[F]}) + 1
    BY <2>1, FS_AddElement
  <2>4. CASE n > 1
    <3>1. ends = {f[F]} \union {f[1]}
      BY <1>8, <2>4
    <3> QED
      BY <2>1, <2>2, <2>3, <2>4, <3>1
  <2>5. CASE ~(n > 1)
    <3>1. ends = {f[F]}
      BY <1>8, <2>5
    <3> QED
      BY <1>6, <2>1, <3>1
  <2> QED
    BY <2>4, <2>5
<1>13. framed \ ends \in SUBSET (DOMAIN l.samples)
  BY <1>11
<1>14. IsFiniteSet(middle) /\ Cardinality(middle) <= n - Cardinality(ends)
  BY <1>9, <1>12, <1>13, MostSalientBounded
<1>15. middle \subseteq framed
  <2>1. middle \subseteq framed \ ends
    BY <1>9, <1>12, <1>13, MostSalientBounded
  <2> QED
    BY <2>1
<1>16. ends \subseteq framed
  BY <1>3, <1>7, <1>8
<1>17. PICK places : places = ends \union middle
  OBVIOUS
<1>18. places \in SUBSET (DOMAIN l.samples) /\ s = Told(l, places) /\ places \subseteq framed
  BY <1>10, <1>11, <1>15, <1>16, <1>17
<1>19. IsFiniteSet(places) /\ Cardinality(places) <= n
  <2>1. IsFiniteSet(ends \union middle)
    BY <1>12, <1>14, FS_Union
  <2>2. Cardinality(ends \union middle) = Cardinality(ends) + Cardinality(middle) - Cardinality(ends \cap middle)
    BY <1>12, <1>14, FS_Union
  <2>3. IsFiniteSet(ends \cap middle)
    BY <1>12, FS_Intersection
  <2>4. Cardinality(ends \cap middle) \in Nat /\ Cardinality(middle) \in Nat
    BY <1>14, <2>3, FS_CardinalityType
  <2> QED
    BY <1>12, <1>14, <1>17, <2>1, <2>2, <2>4
<1>20. s \in Seq(1 .. Len(l.samples))
  BY <1>18, ToldInOrder
<1>21. \A i \in 1 .. Len(s) : s[i] \in places
  BY <1>18, ToldInOrder
<1>22. \A i, j \in 1 .. Len(s) : i < j => s[i] < s[j]
  BY <1>18, ToldInOrder
<1>23. \A k \in places : \E i \in 1 .. Len(s) : s[i] = k
  BY <1>18, ToldInOrder
<1>24. PICK L \in Nat : L = Len(s) /\ DOMAIN s = 1 .. L
  BY <1>20
<1>25. \A i \in 1 .. L : s[i] \in Nat /\ s[i] \in places /\ s[i] \in framed
  <2>1. Len(l.samples) \in Nat /\ \A i \in 1 .. L : s[i] \in 1 .. Len(l.samples)
    BY SMTT(30), <1>20, <1>24 DEF SomeLook
  <2> QED
    BY <1>18, <1>21, <1>24, <2>1
<1>26. L <= n
  <2>1. s \in [1 .. L -> places] /\ \A i, j \in 1 .. L : i < j => s[i] # s[j]
    <3>1. \A i, j \in 1 .. L : i < j => s[i] # s[j]
      BY <1>22, <1>24, <1>25
    <3>2. s = [i \in 1 .. L |-> s[i]]
      BY <1>20, <1>24
    <3> QED
      BY <1>25, <3>1, <3>2
  <2>2. L <= Cardinality(places)
    BY <1>19, <2>1, LengthBounded
  <2>3. Cardinality(places) \in Nat
    BY <1>19, FS_CardinalityType
  <2> QED
    BY <1>19, <2>2, <2>3
<1>27. \E k \in DOMAIN s : \A i \in framed : i <= s[k]
  <2>1. f[F] \in places
    BY <1>8, <1>17
  <2>2. PICK k \in 1 .. L : s[k] = f[F]
    BY <1>23, <1>24, <2>1
  <2>3. ASSUME NEW i \in framed
        PROVE  i <= s[k]
    <3>1. PICK j \in 1 .. F : f[j] = i
      BY <1>5, <1>7
    <3>2. f[j] \in Nat /\ f[F] \in Nat
      BY <1>2, <1>7
    <3> QED
      BY <1>4, <1>7, <2>2, <3>1, <3>2
  <2> QED
    BY <1>24, <2>3
<1>28. ASSUME n > 1
       PROVE  \E k \in DOMAIN s : \A i \in framed : s[k] <= i
  <2>1. f[1] \in places
    BY <1>8, <1>17, <1>28
  <2>2. PICK k \in 1 .. L : s[k] = f[1]
    BY <1>23, <1>24, <2>1
  <2>3. ASSUME NEW i \in framed
        PROVE  s[k] <= i
    <3>1. PICK j \in 1 .. F : f[j] = i
      BY <1>5, <1>7
    <3>2. f[j] \in Nat /\ f[1] \in Nat
      BY <1>2, <1>7
    <3> QED
      BY <1>4, <1>7, <2>2, <3>1, <3>2
  <2> QED
    BY <1>24, <2>3
<1>29. \A i \in 1 .. L - 1 : s[i] < s[i + 1]
  BY <1>22, <1>24
<1>30. TellTheStory(s, framed, n, n > 1)
  BY <1>24, <1>25, <1>26, <1>27, <1>28, <1>29 DEF TellTheStory
<1> QED
  BY <1>30 DEF framed

\* The promise of ImagesTellTheStory, for the images of a request to m about l.
Story(m, l, images) ==
  TellTheStory(images, InFrame(l), Budget(m, l), AdapterFor(m) = "anthropic" /\ Budget(m, l) > 1)

\* What is sent tells the story, and only a model that takes images gets one.
LEMMA CarriedTells ==
  ASSUME NEW m \in Models, NEW l \in Looks, NEW open \in BOOLEAN,
         Carried(m, l, open).images # <<>>
  PROVE  /\ CapsOf[m].image /\ InFrame(l) # {}
         /\ Story(m, l, Carried(m, l, open).images)
<1> USE SightAssumption
<1>1. CapsOf[m].image /\ AdapterFor(m) # "text-only" /\ Carried(m, l, open).images = Frames(m, l) /\ Framed(l) # <<>>
  BY DEF Carried
<1>2. AdapterFor(m) \in Adapters
  BY <1>1 DEF AdapterFor
<1>3. Budget(m, l) \in Nat
  BY <1>2 DEF Budget
<1>4. SomeLook(l)
  BY DEF SomeLook
<1>5. PICK s : s = Frames(m, l) /\ s # <<>>
  BY <1>1
<1>6. PICK n \in Nat : n = Budget(m, l)
  BY <1>3
<1>7. ASSUME AdapterFor(m) = "anthropic"
      PROVE  Story(m, l, s)
  <2>1. s = BookendedFrames(l, n)
    BY <1>5, <1>6, <1>7 DEF Frames
  <2>2. TellTheStory(s, InFrame(l), n, n > 1)
    BY <1>4, <1>5, <2>1, BookendedTell
  <2> QED
    BY <1>6, <1>7, <2>2 DEF Story
<1>8. ASSUME AdapterFor(m) # "anthropic"
      PROVE  Story(m, l, s)
  <2>1. s = LatestFrames(l, n)
    BY <1>5, <1>6, <1>8 DEF Frames
  <2>2. TellTheStory(s, InFrame(l), n, FALSE)
    BY <1>4, <1>5, <2>1, LatestTell
  <2> QED
    BY <1>6, <1>8, <2>2 DEF Story, TellTheStory
<1>9. InFrame(l) # {}
  <2>1. PICK f : f = Framed(l) /\ f # <<>>
    BY <1>1
  <2>2. f \in Seq(Nat)
    BY <1>4, <2>1, FramedInOrder
  <2>3. \A i \in 1 .. Len(f) : f[i] \in InFrame(l)
    BY <1>4, <2>1, FramedInOrder
  <2> QED
    BY SMTT(30), <2>1, <2>2, <2>3
<1> QED
  BY <1>1, <1>5, <1>7, <1>8, <1>9

\* Entries of a request, by what tells them apart.
Entries == [role : {"user", "assistant", "tool", "model"}, calls : Nat, answers : {0, 1}, visual : BOOLEAN]

\* Every call this turn announced is followed by its results, of which `outstanding` are still to come.
Followed(messages, loaded, outstanding) ==
  \A i \in DOMAIN messages :
    i > loaded /\ messages[i].calls > 0 =>
      /\ i + messages[i].calls <= Len(messages) + outstanding
      /\ \A k \in 1 .. messages[i].calls : i + k <= Len(messages) => messages[i + k].role = "tool"

\* ResultsStayTogether, of any messages and any request.
Together(messages, loaded, wire) ==
  \A i \in 1 .. Len(messages) :
    i > loaded \/ Answered(messages, i) =>
      /\ i <= Len(wire) /\ wire[i].calls = messages[i].calls
      /\ \A k \in 1 .. wire[i].calls : i + k <= Len(wire) /\ wire[i + k].answers = 1

\* A message's calls are counted.
LEMMA CallsCounted ==
  ASSUME NEW msg \in Messages
  PROVE  msg.calls \in Nat /\ (msg.role # "assistant" => msg.calls = 0) /\ msg.role \in {"user", "assistant", "tool"}
  BY SightAssumption DEF Messages

\* The entries of one message, for any provider: one, which keeps its calls and is the
\* answer of a tool's, and then perhaps another.
Converted(msg, entries) ==
  /\ entries \in Seq(Entries) /\ Len(entries) \in {1, 2}
  /\ entries[1].calls = msg.calls
  /\ msg.role = "tool" => entries[1].answers = 1

\* openAIProvider.ts: a tool's result is one message, what was seen with it another one.
LEMMA OpenAIConverts ==
  ASSUME NEW msg \in Messages, NEW visual \in BOOLEAN
  PROVE  /\ Converted(msg, OpenAIEntries(msg, visual))
         /\ ~visual => Len(OpenAIEntries(msg, visual)) = 1
<1> DEFINE own == Entry("tool", 0, 1, FALSE)
           seen == Entry("user", 0, 0, TRUE)
           plain == Entry(msg.role, msg.calls, 0, visual)
<1>0. msg.calls \in Nat /\ (msg.role = "tool" => msg.calls = 0) /\ msg.role \in {"user", "assistant", "tool"}
  BY CallsCounted
<1>1. own \in Entries /\ seen \in Entries /\ plain \in Entries
  BY <1>0 DEF Entry, Entries
<1>2. own.answers = 1 /\ own.calls = 0 /\ seen.calls = 0 /\ plain.calls = msg.calls
  BY DEF Entry
<1>3. OpenAIEntries(msg, visual) = IF msg.role = "tool" THEN <<own>> \o (IF visual THEN <<seen>> ELSE <<>>) ELSE <<plain>>
  BY DEF OpenAIEntries
<1> HIDE DEF own, seen, plain
<1>4. ASSUME NEW x \in Entries
      PROVE  <<x>> \in Seq(Entries) /\ Len(<<x>>) = 1 /\ <<x>>[1] = x /\ <<x>> \o <<>> = <<x>>
  <2> HIDE DEF Entries
  <2> QED
    OBVIOUS
<1>5. PICK a \in Seq(Entries) : a = <<own>> /\ Len(a) = 1 /\ a[1] = own
  BY <1>1, <1>4
<1>9. PICK b \in Seq(Entries) : b = <<seen>> /\ Len(b) = 1 /\ b[1] = seen
  BY <1>1, <1>4
<1>6. CASE msg.role = "tool" /\ visual
  <2>1. OpenAIEntries(msg, visual) = a \o b
    BY <1>3, <1>5, <1>6, <1>9
  <2>2. Len(a \o b) = 1 + Len(b)
    BY <1>5, JoinedOfLength
  <2>3. \A k \in 1 .. 1 : (a \o b)[k] = a[k]
    BY <1>5, JoinedOfLength
  <2>4. \A k \in 1 .. Len(b) : (a \o b)[1 + k] = b[k]
    BY <1>5, JoinedOfLength
  <2>5. Len(a \o b) = 2 /\ (a \o b)[1] = own /\ (a \o b)[2] = seen
    <3>0. 1 \in 1 .. Len(b)
      BY <1>9
    <3>1. (a \o b)[1 + 1] = b[1]
      BY <2>4, <3>0, Zenon
    <3> QED
      BY <1>5, <1>9, <2>2, <2>3, <3>1
  <2>6. a \o b \in Seq(Entries)
    <3> HIDE DEF Entries
    <3> QED
      BY JoinedAt
  <2> QED
    BY <1>0, <1>2, <1>6, <2>1, <2>5, <2>6 DEF Converted
<1>7. CASE msg.role = "tool" /\ ~visual
  <2>1. OpenAIEntries(msg, visual) = <<own>>
    BY <1>1, <1>3, <1>4, <1>7
  <2> QED
    BY <1>0, <1>1, <1>2, <1>4, <1>7, <2>1 DEF Converted
<1>8. CASE msg.role # "tool"
  <2>1. OpenAIEntries(msg, visual) = <<plain>>
    BY <1>3, <1>8
  <2> QED
    BY <1>1, <1>2, <1>4, <1>8, <2>1 DEF Converted
<1> QED
  BY <1>6, <1>7, <1>8

\* anthropicProvider.ts, geminiProvider.ts: what was seen is in the message's own entry.
LEMMA OthersConvert ==
  ASSUME NEW msg \in Messages, NEW visual \in BOOLEAN, NEW s, s \in {AnthropicEntries(msg, visual), GeminiEntries(msg, visual)}
  PROVE  Converted(msg, s) /\ Len(s) = 1
<1>1. PICK x \in Entries :
        /\ s = <<x>> /\ x.calls = msg.calls
        /\ msg.role = "tool" => x.answers = 1
  <2>1. ASSUME s = AnthropicEntries(msg, visual)
        PROVE  \E x \in Entries : s = <<x>> /\ x.calls = msg.calls /\ (msg.role = "tool" => x.answers = 1)
    <3> DEFINE x == Entry(IF msg.role = "tool" THEN "user" ELSE msg.role, msg.calls, IF msg.role = "tool" THEN 1 ELSE 0, visual)
    <3>1. x \in Entries /\ x.calls = msg.calls /\ (msg.role = "tool" => x.answers = 1)
      BY CallsCounted DEF Entry, Entries
    <3>2. s = <<x>>
      BY <2>1 DEF AnthropicEntries
    <3> HIDE DEF x
    <3> QED
      BY <3>1, <3>2
  <2>2. ASSUME s = GeminiEntries(msg, visual)
        PROVE  \E x \in Entries : s = <<x>> /\ x.calls = msg.calls /\ (msg.role = "tool" => x.answers = 1)
    <3> DEFINE x == Entry(IF msg.role = "assistant" THEN "model" ELSE "user", msg.calls, IF msg.role = "tool" THEN 1 ELSE 0, visual)
    <3>1. x \in Entries /\ x.calls = msg.calls /\ (msg.role = "tool" => x.answers = 1)
      BY CallsCounted DEF Entry, Entries
    <3>2. s = <<x>>
      BY <2>2 DEF GeminiEntries
    <3> HIDE DEF x
    <3> QED
      BY <3>1, <3>2
  <2> QED
    BY <2>1, <2>2
<1>2. <<x>> \in Seq(Entries) /\ Len(<<x>>) = 1 /\ <<x>>[1] = x
  <2> HIDE DEF Entries
  <2> QED
    OBVIOUS
<1> QED
  BY <1>1, <1>2 DEF Converted

\* Results stay together on the wire, whatever of the last message is shown.
LEMMA WireTogether ==
  ASSUME NEW messages \in Seq(Messages), messages # <<>>, NEW loaded, Followed(messages, loaded, 0), NEW m,
         NEW seen, seen \subseteq {Len(messages)}
  PROVE  Together(messages, loaded, OnTheWire(m, messages, seen))
<1> DEFINE entriesOf(i) == CASE ProviderOf[m] = "anthropic" -> AnthropicEntries(messages[i], i \in seen)
                             [] ProviderOf[m] = "gemini"    -> GeminiEntries(messages[i], i \in seen)
                             [] OTHER                       -> OpenAIEntries(messages[i], i \in seen)
           parts == [i \in 1 .. Len(messages) |-> entriesOf(i)]
<1>1. PICK N \in Nat \ {0} : N = Len(messages) /\ DOMAIN messages = 1 .. N
  <2> HIDE DEF Messages
  <2> QED
    OBVIOUS
<1>2. \A i \in 1 .. N : messages[i] \in Messages
  <2> HIDE DEF Messages
  <2> QED
    BY <1>1
<1>3. OnTheWire(m, messages, seen) = Joined(parts)
  BY DEF OnTheWire
<1>4. ASSUME NEW i \in 1 .. N
      PROVE  /\ parts[i] = entriesOf(i) /\ Converted(messages[i], parts[i])
             /\ i # N => Len(parts[i]) = 1
  <2>1. parts[i] = entriesOf(i) /\ (i \in seen) \in BOOLEAN /\ messages[i] \in Messages
    BY <1>1, <1>2
  <2>2. i # N => i \notin seen
    BY <1>1
  <2>3. CASE ProviderOf[m] \in {"anthropic", "gemini"}
    <3>1. entriesOf(i) \in {AnthropicEntries(messages[i], i \in seen), GeminiEntries(messages[i], i \in seen)}
      BY <2>3
    <3> QED
      BY <2>1, <3>1, OthersConvert
  <2>4. CASE ProviderOf[m] \notin {"anthropic", "gemini"}
    <3>1. entriesOf(i) = OpenAIEntries(messages[i], i \in seen)
      BY <2>4
    <3>2. Converted(messages[i], OpenAIEntries(messages[i], i \in seen))
      BY <2>1, OpenAIConverts
    <3>3. i \notin seen => Len(OpenAIEntries(messages[i], i \in seen)) = 1
      BY <2>1, OpenAIConverts
    <3> QED
      BY <2>1, <2>2, <3>1, <3>2, <3>3
  <2> QED
    BY <2>3, <2>4
<1>5. PICK p : p = parts
  OBVIOUS
<1>6. /\ \A i \in 1 .. N : Converted(messages[i], p[i]) /\ (i # N => Len(p[i]) = 1)
      /\ OnTheWire(m, messages, seen) = Joined(p)
  BY <1>3, <1>4, <1>5
<1>7. p \in Seq(Seq(Entries)) /\ Len(p) = N
  <2> DEFINE Q == Seq(Entries)
  <2>1. \A i \in 1 .. N : p[i] \in Q
    BY <1>6 DEF Converted
  <2>2. p = [i \in 1 .. N |-> p[i]]
    BY <1>1, <1>5
  <2> HIDE DEF Q
  <2>3. p \in Seq(Q) /\ Len(p) = N
    BY <2>1, <2>2
  <2> QED
    BY <2>3 DEF Q
<1> HIDE DEF parts
<1>8. PICK wire : wire = Joined(p)
  OBVIOUS
<1>9. SinglesThenLast(p, wire, N) /\ Len(wire) \in Nat
  <2>1. N \in {Len(p)} /\ N # 0 /\ \A k \in 1 .. N - 1 : Len(p[k]) = 1
    BY <1>6, <1>7
  <2>2. wire \in Seq(Entries) /\ SinglesThenLast(p, wire, N)
    BY <1>7, <1>8, <2>1, JoinedSingles
  <2> HIDE DEF Entries
  <2> QED
    BY <2>2
<1>10. /\ Len(p[N]) \in {1, 2} /\ Len(wire) = N - 1 + Len(p[N])
       /\ \A k \in 1 .. N - 1 : wire[k] = p[k][1]
       /\ \A k \in 1 .. Len(p[N]) : wire[N - 1 + k] = p[N][k]
  BY <1>6, <1>9 DEF SinglesThenLast, Converted
<1>11. \A i \in 1 .. N : wire[i] = p[i][1]
  <2>1. wire[N] = p[N][1]
    <3>1. 1 \in 1 .. Len(p[N]) /\ N - 1 + 1 = N
      BY <1>10
    <3> QED
      BY <1>10, <3>1
  <2>2. \A i \in 1 .. N : i = N \/ i \in 1 .. N - 1
    OBVIOUS
  <2> QED
    BY <1>10, <2>1, <2>2
<1>12. N <= Len(wire)
  <2>1. PICK more \in {1, 2} : more = Len(p[N])
    BY <1>10
  <2>2. PICK whole : whole = Len(wire)
    OBVIOUS
  <2>3. whole = N - 1 + more
    BY <1>10, <2>1, <2>2, Zenon
  <2>4. N <= whole
    BY <2>3
  <2> QED
    BY <2>2, <2>4
<1>13. ASSUME NEW i \in 1 .. N, i > loaded \/ Answered(messages, i)
       PROVE  /\ i <= Len(wire) /\ wire[i].calls = messages[i].calls
              /\ \A k \in 1 .. wire[i].calls : i + k <= Len(wire) /\ wire[i + k].answers = 1
  <2>1. PICK c \in Nat : c = messages[i].calls
    BY <1>2, CallsCounted
  <2>2. wire[i].calls = c
    BY <1>6, <1>11, <2>1 DEF Converted
  <2>3. ASSUME NEW k \in 1 .. c
        PROVE  i + k \in 1 .. N /\ messages[i + k].role = "tool"
    <3>1. CASE i > loaded
      <4>1. i \in DOMAIN messages /\ c > 0
        BY <1>1
      <4>2. i + c <= N + 0 /\ (i + k <= N => messages[i + k].role = "tool")
        BY <1>1, <2>1, <3>1, <4>1 DEF Followed
      <4> QED
        BY <4>2
    <3>2. CASE Answered(messages, i)
      <4>1. i + k <= N /\ messages[i + k].role = "tool"
        BY <1>1, <2>1, <3>2 DEF Answered
      <4> QED
        BY <4>1
    <3> QED
      BY <1>13, <3>1, <3>2
  <2>4. ASSUME NEW k \in 1 .. c
        PROVE  i + k <= Len(wire) /\ wire[i + k].answers = 1
    <3>1. i + k \in 1 .. N /\ messages[i + k].role = "tool"
      BY <2>3
    <3>2. wire[i + k].answers = 1
      BY <1>6, <1>11, <3>1 DEF Converted
    <3>3. PICK whole \in Nat : whole = Len(wire)
      BY <1>9
    <3> QED
      BY <1>12, <3>1, <3>2, <3>3
  <2>5. i <= Len(wire)
    BY <1>9, <1>12
  <2> QED
    BY <2>1, <2>2, <2>4, <2>5
<1> QED
  BY <1>1, <1>6, <1>8, <1>13 DEF Together

\* One more message, which answers a call if one is due and announces no more calls than are due then.
LEMMA FollowedOnward ==
  ASSUME NEW messages \in Seq(Messages), NEW msg \in Messages, NEW loaded, NEW due \in Nat, NEW still \in Nat,
         Followed(messages, loaded, due), due <= still + 1,
         due > 0 => msg.role = "tool",
         msg.calls <= still
  PROVE  Followed(Append(messages, msg), loaded, still) /\ Append(messages, msg) \in Seq(Messages) /\ Append(messages, msg) # <<>>
<1>1. PICK N \in Nat : N = Len(messages) /\ DOMAIN messages = 1 .. N
  <2> HIDE DEF Messages
  <2> QED
    OBVIOUS
<1>2. PICK s \in Seq(Messages) : s = Append(messages, msg)
  <2> HIDE DEF Messages
  <2>1. Append(messages, msg) \in Seq(Messages)
    BY AppendedAt
  <2> QED
    BY <2>1, Zenon
<1>3. Len(s) = N + 1 /\ DOMAIN s = 1 .. N + 1 /\ s[N + 1] = msg /\ \A i \in 1 .. N : s[i] = messages[i]
  <2> HIDE DEF Messages
  <2>1. DOMAIN Append(messages, msg) = 1 .. Len(messages) + 1
    BY AppendedAt
  <2>2. \A i \in DOMAIN messages : Append(messages, msg)[i] = messages[i]
    BY AppendedAt
  <2>3. Append(messages, msg)[Len(messages) + 1] = msg
    BY AppendedAt
  <2>4. Len(Append(messages, msg)) = Len(messages) + 1
    OBVIOUS
  <2> QED
    BY <1>1, <1>2, <2>1, <2>2, <2>3, <2>4
<1>4. \A i \in 1 .. N : messages[i].calls \in Nat
  <2> DEFINE R == Messages
  <2>1. \A x \in R : x.calls \in Nat
    BY CallsCounted
  <2> HIDE DEF R
  <2>2. \A i \in 1 .. N : messages[i] \in R
    BY <1>1 DEF R
  <2> QED
    BY <2>1, <2>2
<1>5. msg.calls \in Nat
  BY CallsCounted
<1>6. ASSUME NEW i \in 1 .. N + 1, i > loaded, s[i].calls > 0
      PROVE  /\ i + s[i].calls <= N + 1 + still
             /\ \A k \in 1 .. s[i].calls : i + k <= N + 1 => s[i + k].role = "tool"
  <2>1. CASE i = N + 1
    BY <1>3, <1>5, <1>6, <2>1
  <2>2. CASE i \in 1 .. N
    <3>1. PICK c \in Nat : c = messages[i].calls /\ c = s[i].calls /\ c > 0
      BY <1>3, <1>4, <1>6, <2>2
    <3>2. i + c <= N + due
      BY <1>1, <1>6, <2>2, <3>1 DEF Followed
    <3>3. \A k \in 1 .. c : i + k <= N => messages[i + k].role = "tool"
      BY <1>1, <1>6, <2>2, <3>1 DEF Followed
    <3>4. ASSUME NEW k \in 1 .. c, i + k <= N + 1
          PROVE  s[i + k].role = "tool"
      <4>1. CASE i + k <= N
        <5>1. i + k \in 1 .. N
          BY <2>2, <4>1
        <5>2. s[i + k] = messages[i + k]
          BY <1>3, <5>1, Zenon
        <5>3. messages[i + k].role = "tool"
          BY <3>3, <4>1, Zenon
        <5> QED
          BY <5>2, <5>3, Zenon
      <4>2. CASE i + k = N + 1
        <5>1. due > 0
          BY <3>2, <4>2
        <5> QED
          BY <1>3, <4>2, <5>1
      <4> QED
        BY <2>2, <3>4, <4>1, <4>2
    <3> QED
      BY <1>3, <2>2, <3>1, <3>2, <3>4
  <2> QED
    BY <2>1, <2>2
<1>7. Followed(s, loaded, still)
  BY <1>3, <1>6 DEF Followed
<1>8. s # <<>>
  BY <1>3
<1> QED
  BY <1>2, <1>7, <1>8

\* A call's result has come.
LEMMA ResultComes ==
  ASSUME NEW messages \in Seq(Messages), NEW batch \in Seq(CallKinds), batch # <<>>, NEW loaded,
         Followed(messages, loaded, Len(batch)), NEW longer, longer = Append(messages, [role |-> "tool", calls |-> 0])
  PROVE  /\ longer \in Seq(Messages) /\ longer # <<>> /\ Followed(longer, loaded, Len(Tail(batch)))
         /\ Len(batch) = 1 => Len(Tail(batch)) = 0
         /\ Len(batch) # 1 => Tail(batch) # <<>>
         /\ Tail(batch) \in Seq(CallKinds)
<1>1. Len(Tail(batch)) = Len(batch) - 1 /\ Len(batch) \in Nat \ {0} /\ Tail(batch) \in Seq(CallKinds)
  OBVIOUS
<1>2. PICK due \in Nat \ {0} : due = Len(batch)
  BY <1>1, Zenon
<1>3. PICK still \in Nat : still = Len(Tail(batch)) /\ due = still + 1
  <2>1. Len(Tail(batch)) = due - 1
    BY <1>1, <1>2, Zenon
  <2>2. due - 1 \in Nat /\ due = (due - 1) + 1
    OBVIOUS
  <2> QED
    BY <2>1, <2>2, Zenon
<1>4. PICK msg \in Messages : msg = [role |-> "tool", calls |-> 0]
  BY DEF Messages
<1>5. Followed(messages, loaded, due) /\ due <= still + 1 /\ msg.role = "tool" /\ msg.calls <= still
  BY <1>2, <1>3, <1>4
<1>6. /\ Followed(Append(messages, msg), loaded, still) /\ Append(messages, msg) \in Seq(Messages) /\ Append(messages, msg) # <<>>
  BY <1>5, FollowedOnward
<1>7. Len(batch) # 1 => Tail(batch) # <<>>
  <2>1. Len(<<>>) = 0
    OBVIOUS
  <2>2. due # 1 => still # 0
    BY <1>3
  <2> QED
    BY <1>2, <1>3, <2>1, <2>2, Zenon
<1> QED
  BY <1>1, <1>3, <1>4, <1>6, <1>7

\* eyesTools.ts, stripFrames: a stripped look has no frame.
LEMMA StrippedBare ==
  ASSUME NEW l \in Looks
  PROVE  InFrame(Stripped(l)) = {}
<1>1. PICK samples \in Seq([score : Nat, framed : BOOLEAN]) : samples = l.samples
  BY SightAssumption
<1>2. ASSUME Stripped(l).samples = [i \in 1 .. Len(samples) |-> [samples[i] EXCEPT !.framed = FALSE]]
      PROVE  InFrame(Stripped(l)) = {}
  <2> DEFINE R == [score : Nat, framed : BOOLEAN]
  <2>1. \A x \in R : ~[x EXCEPT !.framed = FALSE].framed
    OBVIOUS
  <2> HIDE DEF R
  <2>2. samples \in Seq(R)
    BY DEF R
  <2>3. \A i \in 1 .. Len(samples) : samples[i] \in R
    BY <2>2
  <2>4. \A i \in 1 .. Len(samples) : ~Stripped(l).samples[i].framed
    BY <1>2, <2>1, <2>3
  <2>5. DOMAIN Stripped(l).samples = 1 .. Len(samples)
    BY <1>2
  <2> QED
    BY <2>4, <2>5 DEF InFrame
<1>3. Stripped(l).samples = [i \in 1 .. Len(samples) |-> [samples[i] EXCEPT !.framed = FALSE]]
  BY <1>1, SightAssumption DEF Stripped
<1> QED
  BY <1>2, <1>3

-----------------------------------------------------------------------------

\* The turn's type.
TurnSet == [pc : {"idle", "started", "ready", "asked", "calls"}, model : Models,
            known : [enabled : BOOLEAN, allowed : SUBSET Providers], ambient : BOOLEAN,
            messages : Seq(Messages), loaded : Nat, calls : Seq(CallKinds), look : Looks \union {NoLook},
            pixels : BOOLEAN, asks : Nat]

\* The results still to come.
Due(t) == IF t.pc = "calls" THEN Len(t.calls) ELSE 0

\* The turn at work: what it may show, and that every call it has announced itself is followed
\* by its results, but for those that are due.
TurnSound(t, since) ==
  /\ t.pc # "idle" => Granted(t.known) \subseteq since
  /\ t.ambient => MayShow(t.known, t.model) /\ t.pc # "idle"
  /\ t.look # NoLook => ProviderOf[t.model] \in t.known.allowed
  /\ t.look # NoLook /\ ~t.pixels => InFrame(t.look) = {}
  /\ t.pc = "calls" => t.calls # <<>>
  /\ t.pc \in {"ready", "asked", "calls"} => t.messages # <<>>
  /\ Followed(t.messages, t.loaded, Due(t))

\* What holds of turns, and of what was sent last.
SightKept ==
  /\ sight \in [enabled : BOOLEAN, allowed : SUBSET Providers]
  /\ turn \in TurnSet
  /\ TurnSound(turn, allowedSince)
  /\ \/ sent = NoRequest /\ turn.pc # "asked"
     \/ turn.pc = "asked" /\ sent.model = turn.model /\ SightAsPromised

\* Nothing was sent: nothing to keep.
LEMMA NothingSent == ASSUME sent = NoRequest, turn.pc # "asked" PROVE SightAsPromised
<1>1. sent.ambient = FALSE /\ sent.look = NoLook /\ sent.images = <<>>
  BY DEF NoRequest
<1> QED
  BY <1>1 DEF SightAsPromised, SightIsPermitted, ImagesTellTheStory, ResultsStayTogether

\* updateUserSettings: a turn at work has read the settings, and goes by what it read.
LEMMA SettingsChange == ASSUME SightKept, PatchesSight PROVE SightKept'
<1> USE SightAssumption
<1>1. /\ turn' = turn /\ sent' = sent /\ allowedSince \subseteq allowedSince'
      /\ sight' \in [enabled : BOOLEAN, allowed : SUBSET Providers]
  BY DEF PatchesSight
<1>2. TurnSound(turn', allowedSince')
  BY <1>1 DEF SightKept, TurnSound
<1>3. SightIsPermitted => SightIsPermitted'
  BY <1>1 DEF SightIsPermitted
<1>4. (ImagesTellTheStory => ImagesTellTheStory') /\ (ResultsStayTogether => ResultsStayTogether')
  BY <1>1 DEF ImagesTellTheStory, ResultsStayTogether
<1> QED
  BY <1>1, <1>2, <1>3, <1>4 DEF SightKept, SightAsPromised

\* The engine comes and goes, or nothing happens.
LEMMA EngineOrNothing == ASSUME SightKept, EngineChanges \/ UNCHANGED sightVars PROVE SightKept'
<1>1. UNCHANGED <<sight, turn, sent, allowedSince>>
  BY DEF EngineChanges, sightVars
<1>2. SightAsPromised => SightAsPromised'
  BY <1>1 DEF SightAsPromised, SightIsPermitted, ImagesTellTheStory, ResultsStayTogether
<1> QED
  BY <1>1, <1>2 DEF SightKept

\* The turn's fields after a step, and nothing sent: what is left to show.
LEMMA NothingSentAfter ==
  ASSUME sight' \in [enabled : BOOLEAN, allowed : SUBSET Providers], turn' \in TurnSet,
         TurnSound(turn', allowedSince'), sent' = NoRequest, turn'.pc # "asked"
  PROVE  SightKept'
  BY DEF SightKept

\* The turn that is not there.
LEMMA NoTurnSound ==
  ASSUME NEW since
  PROVE  NoTurn \in TurnSet /\ TurnSound(NoTurn, since)
<1>1. \A s : s = <<>> => s \in Seq(Messages) /\ s \in Seq(CallKinds) /\ DOMAIN s = {}
  <2> HIDE DEF Messages
  <2> QED
    OBVIOUS
<1>2. (CHOOSE m \in Models : TRUE) \in Models
  BY SightAssumption
<1>3. NoTurn \in TurnSet
  BY <1>1, <1>2 DEF NoTurn, TurnSet
<1>4. Followed(<<>>, 0, 0)
  BY <1>1 DEF Followed
<1>5. TurnSound(NoTurn, since)
  BY <1>4 DEF NoTurn, TurnSound, Due
<1> QED
  BY <1>3, <1>5

\* executeLoop begins.
LEMMA TurnBegins == ASSUME SightKept, NEW m \in Models, TurnStarts(m) PROVE SightKept'
<1>1. PICK t : t = [NoTurn EXCEPT !.pc = "started", !.model = m, !.known = sight]
  OBVIOUS
<1>2. turn' = t /\ sent' = NoRequest /\ allowedSince' = Granted(sight) /\ sight' = sight
  BY <1>1 DEF TurnStarts
<1>3. NoTurn \in TurnSet
  BY NoTurnSound
<1>4. /\ t \in TurnSet /\ t.pc = "started" /\ t.known = sight
      /\ t.ambient = NoTurn.ambient /\ t.look = NoTurn.look /\ t.messages = NoTurn.messages
      /\ t.loaded = NoTurn.loaded
  <2> HIDE DEF NoTurn
  <2> QED
    BY <1>1, <1>3 DEF TurnSet, SightKept
<1>5. Followed(t.messages, t.loaded, 0)
  BY <1>4, NoTurnSound DEF TurnSound, Due, NoTurn
<1>6. TurnSound(t, Granted(sight))
  BY <1>4, <1>5 DEF TurnSound, Due, NoTurn
<1> QED
  BY <1>2, <1>4, <1>6, NothingSentAfter DEF SightKept

\* The conversation is loaded and the ambient text added.
LEMMA PreparedKept == ASSUME SightKept, Prepared PROVE SightKept'
<1>1. PICK past \in Pasts :
        turn' = [turn EXCEPT !.pc = "ready", !.ambient = MayShow(turn.known, turn.model) /\ eyes = "seeing",
                             !.messages = past, !.loaded = Len(past)]
  BY DEF Prepared
<1>2. PICK n \in Nat : n = Len(past) /\ past \in Seq(Messages) /\ past # <<>> /\ Followed(past, n, 0)
  <2> DEFINE R == Messages
  <2>1. past \in Seq(R) /\ past # <<>>
    BY SightAssumption
  <2> HIDE DEF R
  <2>2. Len(past) \in Nat /\ DOMAIN past = 1 .. Len(past)
    BY <2>1
  <2>3. \A i \in DOMAIN past : ~(i > Len(past))
    BY <2>2
  <2>4. Followed(past, Len(past), 0)
    BY <2>3, Zenon DEF Followed
  <2> QED
    BY <2>1, <2>2, <2>4 DEF R
<1>3. PICK shows \in BOOLEAN : shows = (MayShow(turn.known, turn.model) /\ eyes = "seeing")
  OBVIOUS
<1>4. /\ turn.pc = "started"
      /\ turn' = [turn EXCEPT !.pc = "ready", !.ambient = shows, !.messages = past, !.loaded = n]
      /\ UNCHANGED <<sight, sent, allowedSince>>
  BY <1>1, <1>2, <1>3 DEF Prepared
<1>5. /\ turn' \in TurnSet /\ turn'.pc = "ready" /\ turn'.ambient = shows /\ turn'.messages = past
      /\ turn'.loaded = n
      /\ turn'.known = turn.known /\ turn'.model = turn.model /\ turn'.look = turn.look /\ turn'.pixels = turn.pixels
  BY <1>2, <1>4 DEF SightKept, TurnSet
<1>6. TurnSound(turn', allowedSince')
  BY <1>2, <1>3, <1>4, <1>5 DEF SightKept, TurnSound, Due
<1>7. sent' = NoRequest
  BY <1>4 DEF SightKept
<1> QED
  BY <1>4, <1>5, <1>6, <1>7, NothingSentAfter DEF SightKept

\* The model answers: calls are announced, or the turn is over.
LEMMA AnswerKept == ASSUME SightKept, ModelAnswers PROVE SightKept'
<1>1. turn.pc = "asked" /\ sent' = NoRequest /\ UNCHANGED <<sight, allowedSince>>
  BY DEF ModelAnswers
<1>2. CASE turn' = NoTurn
  <2>1. turn' \in TurnSet /\ TurnSound(turn', allowedSince') /\ turn'.pc # "asked"
    BY <1>2, NoTurnSound DEF NoTurn
  <2> QED
    BY <1>1, <2>1, NothingSentAfter DEF SightKept
<1>3. CASE turn' # NoTurn
  <2>0. PICK n \in 1 .. MaxBatchOfCalls : \E batch \in [1 .. n -> CallKinds] :
          turn' = [turn EXCEPT !.pc = "calls", !.calls = batch,
                               !.messages = Append(@, [role |-> "assistant", calls |-> n])]
    BY <1>3 DEF ModelAnswers
  <2>1. PICK batch \in [1 .. n -> CallKinds] :
          turn' = [turn EXCEPT !.pc = "calls", !.calls = batch,
                               !.messages = Append(@, [role |-> "assistant", calls |-> n])]
    BY <2>0
  <2>2. n \in Nat /\ n > 0 /\ batch \in Seq(CallKinds) /\ Len(batch) = n /\ batch # <<>>
    <3> HIDE DEF CallKinds
    <3>1. n \in Nat /\ n > 0
      OBVIOUS
    <3>2. batch \in Seq(CallKinds) /\ Len(batch) = n
      BY <3>1
    <3> QED
      BY <3>1, <3>2
  <2>3. PICK msg \in Messages : msg = [role |-> "assistant", calls |-> n]
    <3>1. n \in 0 .. MaxBatchOfCalls
      BY SightAssumption
    <3> QED
      BY <3>1 DEF Messages
  <2>4. PICK msgs \in Seq(Messages) : msgs = turn.messages /\ Followed(msgs, turn.loaded, 0)
    BY <1>1 DEF SightKept, TurnSet, TurnSound, Due
  <2>5. PICK longer : longer = Append(msgs, msg)
    OBVIOUS
  <2>6. Followed(longer, turn.loaded, n) /\ longer \in Seq(Messages) /\ longer # <<>>
    <3>1. /\ n \in Nat /\ 0 \in Nat /\ 0 <= n + 1 /\ (0 > 0 => msg.role = "tool")
          /\ msg.calls <= n
      BY <2>2, <2>3
    <3> QED
      BY <2>4, <2>5, <3>1, FollowedOnward
  <2>7. turn' = [turn EXCEPT !.pc = "calls", !.calls = batch, !.messages = longer]
    BY <2>1, <2>3, <2>4, <2>5
  <2>8. /\ turn' \in TurnSet /\ turn'.pc = "calls" /\ turn'.calls = batch /\ turn'.messages = longer
        /\ turn'.known = turn.known /\ turn'.model = turn.model /\ turn'.look = turn.look /\ turn'.pixels = turn.pixels
        /\ turn'.ambient = turn.ambient /\ turn'.loaded = turn.loaded
    BY <2>2, <2>6, <2>7 DEF SightKept, TurnSet
  <2>9. TurnSound(turn', allowedSince')
    BY <1>1, <2>2, <2>6, <2>8 DEF SightKept, TurnSound, Due
  <2> QED
    BY <1>1, <2>8, <2>9, NothingSentAfter DEF SightKept
<1> QED
  BY <1>2, <1>3

\* A call waits too long for its approval.
LEMMA ParkedKept == ASSUME SightKept, CallParks PROVE SightKept'
<1>1. turn' = NoTurn /\ UNCHANGED <<sight, sent, allowedSince>> /\ sent' = NoRequest
  BY DEF CallParks, SightKept
<1>2. turn' \in TurnSet /\ TurnSound(turn', allowedSince') /\ turn'.pc # "asked"
  BY <1>1, NoTurnSound DEF NoTurn
<1> QED
  BY <1>1, <1>2, NothingSentAfter DEF SightKept

\* After a call the turn is sound, with the same to be shown as before.
LEMMA AfterCallSound ==
  ASSUME SightKept, turn.pc = "calls", NEW t \in {AfterCall}
  PROVE  /\ t \in TurnSet /\ TurnSound(t, allowedSince) /\ t.pc \in {"ready", "calls"}
         /\ t.known = turn.known /\ t.model = turn.model /\ t.look = turn.look /\ t.pixels = turn.pixels
<1>1. PICK msgs \in Seq(Messages) : msgs = turn.messages
  BY DEF SightKept, TurnSet
<1>2. PICK batch \in Seq(CallKinds) : batch = turn.calls /\ batch # <<>> /\ Followed(msgs, turn.loaded, Len(batch))
  BY <1>1 DEF SightKept, TurnSet, TurnSound, Due
<1>3. PICK longer : longer = Append(msgs, [role |-> "tool", calls |-> 0])
  OBVIOUS
<1>4. longer \in Seq(Messages) /\ longer # <<>> /\ Followed(longer, turn.loaded, Len(Tail(batch))) /\ Tail(batch) \in Seq(CallKinds)
  BY <1>2, <1>3, ResultComes
<1>5. (Len(batch) = 1 => Len(Tail(batch)) = 0) /\ (Len(batch) # 1 => Tail(batch) # <<>>)
  BY <1>2, <1>3, ResultComes
<1>6. PICK left \in Seq(CallKinds) : left = Tail(batch)
  BY <1>4
<1>7. PICK next \in {"ready", "calls"} :
        next = (IF Len(batch) = 1 THEN "ready" ELSE "calls") /\ (next = "ready" <=> Len(batch) = 1)
  OBVIOUS
<1>8. t = [turn EXCEPT !.calls = left, !.pc = next, !.messages = longer]
  BY <1>1, <1>2, <1>3, <1>6, <1>7 DEF AfterCall
<1>9. /\ t \in TurnSet /\ t.pc = next /\ t.calls = left /\ t.messages = longer /\ t.ambient = turn.ambient
      /\ t.known = turn.known /\ t.model = turn.model /\ t.look = turn.look /\ t.pixels = turn.pixels
      /\ t.loaded = turn.loaded
  BY <1>4, <1>8 DEF SightKept, TurnSet
<1>10. Followed(longer, turn.loaded, Due(t))
  <2>1. Due(t) = Len(left)
    BY <1>5, <1>6, <1>7, <1>9 DEF Due
  <2> QED
    BY <1>4, <1>6, <2>1
<1>11. TurnSound(t, allowedSince)
  BY <1>4, <1>5, <1>6, <1>7, <1>9, <1>10 DEF SightKept, TurnSound
<1> QED
  BY <1>9, <1>11

\* A call is answered with text.
LEMMA CallKept == ASSUME SightKept, CallAnswered PROVE SightKept'
<1>1. turn' = AfterCall /\ turn.pc = "calls" /\ UNCHANGED <<sight, sent, allowedSince>> /\ sent' = NoRequest
  BY DEF CallAnswered, SightKept
<1>2. PICK t : t = AfterCall
  OBVIOUS
<1>3. t \in TurnSet /\ TurnSound(t, allowedSince) /\ t.pc # "asked"
  BY <1>1, <1>2, AfterCallSound
<1> QED
  BY <1>1, <1>2, <1>3, NothingSentAfter DEF SightKept

\* An Eyes tool gives its look.
LEMMA LookedKept == ASSUME SightKept, NEW l \in Looks, Looked(l) PROVE SightKept'
<1>1. PICK pixels \in BOOLEAN : pixels = (Head(turn.calls) = "look_with_pixels")
  OBVIOUS
<1>2. PICK given \in {StateGiven(l, pixels), HistoryGiven(l, pixels)} :
        /\ given \in Looks
        /\ turn' = [AfterCall EXCEPT !.look = Shown(turn.model, given, turn.look),
                                     !.pixels = IF Shown(turn.model, given, turn.look) = turn.look THEN @ ELSE pixels]
  BY <1>1 DEF Looked
<1>3. turn.pc = "calls" /\ UNCHANGED <<sight, sent, allowedSince>> /\ sent' = NoRequest
  BY DEF Looked, SightKept
<1>4. ~pixels => InFrame(given) = {}
  BY <1>2, StrippedBare DEF StateGiven, HistoryGiven
<1>5. PICK t : t = AfterCall
  OBVIOUS
<1>6. t \in TurnSet
  BY <1>3, <1>5, AfterCallSound
<1>7. TurnSound(t, allowedSince)
  BY <1>3, <1>5, AfterCallSound
<1>8. /\ t.known = turn.known /\ t.model = turn.model /\ t.look = turn.look /\ t.pixels = turn.pixels
      /\ t.pc \in {"ready", "calls"}
  BY <1>3, <1>5, AfterCallSound
<1>9. PICK shown : shown = Shown(turn.model, given, turn.look)
  OBVIOUS
<1>10. (shown = given /\ ProviderOf[turn.model] \in turn.known.allowed) \/ shown = turn.look
  BY <1>9 DEF Shown
<1>11. PICK asked : asked = (IF shown = turn.look THEN t.pixels ELSE pixels)
  OBVIOUS
<1>12. /\ shown \in Looks \union {NoLook} /\ asked \in BOOLEAN
       /\ shown # NoLook => ProviderOf[turn.model] \in turn.known.allowed
       /\ shown # NoLook /\ ~asked => InFrame(shown) = {}
  <2>1. t.pixels \in BOOLEAN /\ t.look \in Looks \union {NoLook}
    BY <1>6 DEF TurnSet
  <2>2. CASE shown = turn.look
    BY <1>7, <1>8, <1>11, <2>1, <2>2 DEF TurnSound
  <2>3. CASE shown # turn.look
    BY <1>2, <1>4, <1>10, <1>11, <2>3
  <2> QED
    BY <2>2, <2>3
<1>13. turn' = [t EXCEPT !.look = shown, !.pixels = asked]
  BY <1>2, <1>5, <1>6, <1>9, <1>11 DEF TurnSet
<1>14. /\ turn' \in TurnSet /\ turn'.look = shown /\ turn'.pixels = asked
       /\ turn'.pc = t.pc /\ turn'.known = t.known /\ turn'.model = t.model /\ turn'.ambient = t.ambient
       /\ turn'.messages = t.messages /\ turn'.calls = t.calls /\ turn'.loaded = t.loaded
  BY <1>6, <1>12, <1>13 DEF TurnSet
<1>15. TurnSound(turn', allowedSince')
  BY <1>3, <1>7, <1>8, <1>12, <1>14 DEF TurnSound, Due
<1> QED
  BY <1>3, <1>8, <1>14, <1>15, NothingSentAfter DEF SightKept

\* What a request carries, of the look that waits.
LEMMA AskedKept == ASSUME SightKept, Asks PROVE SightKept'
<1> DEFINE seen == IF turn.look = NoLook THEN {} ELSE AttachTo(turn.messages)
           carries(open) == IF turn.look = NoLook THEN [strategy |-> "none", images |-> <<>>]
                            ELSE Carried(turn.model, turn.look, open)
<1>1. PICK open \in BOOLEAN :
        sent' = [model |-> turn.model, ambient |-> turn.ambient, strategy |-> carries(open).strategy,
                 images |-> carries(open).images, look |-> turn.look, pixels |-> turn.pixels,
                 wire |-> OnTheWire(turn.model, turn.messages, seen)]
  BY DEF Asks
<1>2. /\ turn.pc = "ready" /\ turn' = [turn EXCEPT !.pc = "asked", !.look = NoLook, !.asks = @ + 1]
      /\ UNCHANGED <<sight, allowedSince>>
  BY DEF Asks
<1>3. /\ turn' \in TurnSet /\ turn'.pc = "asked" /\ turn'.look = NoLook /\ turn'.calls = turn.calls
      /\ turn'.known = turn.known /\ turn'.model = turn.model /\ turn'.pixels = turn.pixels
      /\ turn'.ambient = turn.ambient /\ turn'.messages = turn.messages /\ turn'.loaded = turn.loaded
  <2>1. PICK asks \in Nat : asks = turn.asks + 1
    BY DEF SightKept, TurnSet
  <2>2. turn' = [turn EXCEPT !.pc = "asked", !.look = NoLook, !.asks = asks]
    BY <1>2, <2>1
  <2>3. turn \in TurnSet
    BY DEF SightKept
  <2> HIDE DEF Messages
  <2> QED
    BY <2>2, <2>3 DEF TurnSet
<1>4. TurnSound(turn', allowedSince')
  BY <1>2, <1>3 DEF SightKept, TurnSound, Due
<1>5. PICK carried : carried = carries(open)
  OBVIOUS
<1>6. PICK wire : wire = OnTheWire(turn.model, turn.messages, seen)
  OBVIOUS
<1>7. /\ sent'.model = turn.model /\ sent'.ambient = turn.ambient /\ sent'.images = carried.images
      /\ sent'.look = turn.look /\ sent'.pixels = turn.pixels /\ sent'.wire = wire
  BY <1>1, <1>5, <1>6
<1>8. ASSUME carried.images # <<>>
      PROVE  /\ turn.look \in Looks /\ CapsOf[turn.model].image /\ turn.pixels
             /\ Story(turn.model, turn.look, carried.images)
  <2>1. PICK m \in Models : m = turn.model
    BY DEF SightKept, TurnSet
  <2>2. turn.look # NoLook
    BY <1>5, <1>8
  <2>3. PICK l \in Looks : l = turn.look
    BY <2>2 DEF SightKept, TurnSet
  <2>4. carried = Carried(m, l, open)
    BY <1>5, <2>1, <2>2, <2>3
  <2>5. CapsOf[m].image /\ InFrame(l) # {}
    BY <1>8, <2>4, CarriedTells
  <2>6. Story(m, l, carried.images)
    BY <1>8, <2>4, CarriedTells
  <2>7. turn.pixels
    BY <2>2, <2>3, <2>5 DEF SightKept, TurnSound, TurnSet
  <2> QED
    BY <2>1, <2>3, <2>5, <2>6, <2>7
<1>9. SightIsPermitted'
  <2>1. turn.ambient => ProviderOf[turn.model] \in allowedSince
    BY <1>2 DEF SightKept, TurnSound, MayShow, Granted
  <2>2. turn.look # NoLook => ProviderOf[turn.model] \in turn.known.allowed
    BY DEF SightKept, TurnSound
  <2> HIDE DEF carries
  <2> QED
    BY <1>2, <1>3, <1>7, <1>8, <2>1, <2>2 DEF SightIsPermitted
<1>10. ImagesTellTheStory'
  <2> SUFFICES ASSUME carried.images # <<>> PROVE ImagesTellTheStory'
    BY <1>7 DEF ImagesTellTheStory
  <2>1. PICK images : images = carried.images /\ images = sent'.images
    BY <1>7
  <2>2. PICK l : l = turn.look /\ l = sent'.look
    BY <1>7
  <2>3. PICK m : m = turn.model /\ m = sent'.model
    BY <1>7
  <2>4. TellTheStory(images, InFrame(l), Budget(m, l), AdapterFor(m) = "anthropic" /\ Budget(m, l) > 1)
    BY <1>8, <2>1, <2>2, <2>3 DEF Story
  <2>5. LET shown == {images[i] : i \in DOMAIN images}
        IN /\ \A i \in 1..Len(images) - 1 : images[i] < images[i + 1]
           /\ shown \subseteq InFrame(l) /\ \E top \in shown : \A i \in InFrame(l) : i <= top
           /\ Len(images) <= Budget(m, l)
           /\ (AdapterFor(m) = "anthropic" /\ Budget(m, l) > 1)
                => \E oldest \in shown : \A i \in InFrame(l) : oldest <= i
    BY <2>4 DEF TellTheStory
  <2> QED
    BY <2>1, <2>2, <2>3, <2>5 DEF ImagesTellTheStory
<1>11. ResultsStayTogether'
  <2>1. Together(turn.messages, turn.loaded, wire)
    <3>1. PICK msgs \in Seq(Messages) : msgs = turn.messages /\ msgs # <<>> /\ Followed(msgs, turn.loaded, 0)
      BY <1>2 DEF SightKept, TurnSet, TurnSound, Due
    <3>2. seen \subseteq {Len(msgs)} /\ wire = OnTheWire(turn.model, msgs, seen)
      BY <1>6, <3>1 DEF AttachTo
    <3> QED
      BY <3>1, <3>2, WireTogether
  <2> QED
    BY <1>3, <1>7, <2>1 DEF ResultsStayTogether, Together
<1> QED
  BY <1>2, <1>3, <1>4, <1>7, <1>9, <1>10, <1>11 DEF SightKept, SightAsPromised

\* eyesVisionAccess.ts, the adapters of eyes/transport/ and the providers: a model is shown
\* only what the user's list allowed it to see, the images it gets tell the story of the
\* look it asked for, and, whatever a conversation loaded before the turn, nothing comes
\* between a call of the turn and its results, nor parts what was stored together.
THEOREM SightPromised == SightSpec => []SightAsPromised
<1>1. SightInit => SightKept
  <2> SUFFICES ASSUME SightInit PROVE SightKept
    OBVIOUS
  <2>1. /\ turn = NoTurn /\ turn.pc = "idle" /\ sent = NoRequest
        /\ sight \in [enabled : BOOLEAN, allowed : SUBSET Providers]
    BY SightAssumption DEF SightInit, NoTurn
  <2>2. NoTurn \in TurnSet /\ TurnSound(NoTurn, allowedSince)
    BY NoTurnSound
  <2> QED
    BY <2>1, <2>2 DEF SightKept
<1>2. SightKept /\ [SightNext]_sightVars => SightKept'
  BY SettingsChange, EngineOrNothing, TurnBegins, PreparedKept, AskedKept, AnswerKept, ParkedKept, CallKept, LookedKept
     DEF SightNext
<1>3. SightKept => SightAsPromised
  BY NothingSent DEF SightKept
<1> QED
  BY <1>1, <1>2, <1>3, PTL DEF SightSpec

-----------------------------------------------------------------------------
(* What the perception engine remembers, and what a context shows of it *)

\* The order of places by a key is total, and those before a place are before those after it.
LEMMA BeforeIsTotal ==
  ASSUME NEW places \in SUBSET Int, NEW key, \A i \in places : key[i] \in Int
  PROVE  /\ \A i \in places : ~Before(key, i, i)
         /\ \A i, j \in places : i # j => Before(key, i, j) \/ Before(key, j, i)
         /\ \A i, j, k \in places : Before(key, i, j) /\ Before(key, j, k) => Before(key, i, k)
  BY DEF Before

\* Sorting gives each number of the order a place.
LEMMA SortedInPlaces ==
  ASSUME NEW places \in SUBSET Int, IsFiniteSet(places), NEW key, \A i \in places : key[i] \in Int
  PROVE  /\ Cardinality(places) \in Nat
         /\ DOMAIN Sorted(places, key) = 1 .. Cardinality(places)
         /\ \A k \in 1 .. Cardinality(places) : Sorted(places, key)[k] \in places
<1> DEFINE n == Cardinality(places)
           Below(i) == {j \in places : Before(key, j, i)}
           r == [i \in places |-> Cardinality(Below(i))]
           Im == {r[i] : i \in places}
<1>1. n \in Nat
  BY FS_CardinalityType
<1>2. /\ \A i \in places : i \notin Below(i)
      /\ \A i, j \in places : i # j => i \in Below(j) \/ j \in Below(i)
      /\ \A i, j \in places : i \in Below(j) => Below(i) \union {i} \subseteq Below(j)
  <2>1. \A i, j \in places : i \in Below(j) => \A k \in Below(i) : k \in Below(j)
    BY BeforeIsTotal
  <2> QED
    BY <2>1, BeforeIsTotal
<1>3. ASSUME NEW i \in places
      PROVE  IsFiniteSet(Below(i)) /\ r[i] = Cardinality(Below(i)) /\ r[i] \in Nat /\ r[i] <= n - 1
  <2>1. Below(i) \in SUBSET (places \ {i})
    BY <1>2
  <2>2. IsFiniteSet(places \ {i}) /\ Cardinality(places \ {i}) = n - 1
    BY FS_RemoveElement
  <2>3. IsFiniteSet(Below(i)) /\ Cardinality(Below(i)) <= n - 1
    BY <2>1, <2>2, FS_Subset
  <2>4. Cardinality(Below(i)) \in Nat
    BY <2>3, FS_CardinalityType
  <2> QED
    BY <2>3, <2>4
<1> HIDE DEF r
<1>4. ASSUME NEW i \in places, NEW j \in places, i \in Below(j)
      PROVE  r[i] < r[j]
  <2>1. Below(i) \union {i} \in SUBSET Below(j)
    BY <1>2, <1>4
  <2>2. Cardinality(Below(i) \union {i}) = r[i] + 1
    BY <1>2, <1>3, FS_AddElement
  <2>3. IsFiniteSet(Below(j)) /\ r[j] = Cardinality(Below(j)) /\ r[i] \in Nat /\ r[j] \in Nat
    BY <1>3
  <2> HIDE DEF Below
  <2>4. Cardinality(Below(i) \union {i}) <= r[j]
    BY <2>1, <2>3, FS_Subset
  <2> QED
    BY <2>2, <2>3, <2>4
<1>5. \A i, j \in places : i # j => r[i] # r[j]
  <2> HIDE DEF Below
  <2> SUFFICES ASSUME NEW i \in places, NEW j \in places, i # j PROVE r[i] # r[j]
    OBVIOUS
  <2>1. r[i] < r[j] \/ r[j] < r[i]
    BY <1>2, <1>4
  <2>2. r[i] \in Nat /\ r[j] \in Nat
    BY <1>3
  <2> QED
    BY <2>1, <2>2
<1>6. Cardinality(Im) = n /\ IsFiniteSet(Im)
  <2>1. DOMAIN r = places
    BY DEF r
  <2>2. r \in [places -> Im]
    <3>1. r = [i \in places |-> r[i]]
      BY DEF r
    <3> QED
      BY <3>1
  <2>3. r \in Injection(places, Im)
    BY <1>5, <2>2 DEF Injection, IsInjective
  <2>5. r \in Surjection(places, Im)
    BY <2>2 DEF Surjection
  <2>6. r \in Bijection(places, Im)
    BY <2>3, <2>5 DEF Bijection
  <2>4. ExistsBijection(places, Im)
    BY <2>6 DEF ExistsBijection
  <2> QED
    BY <2>4, FS_Bijection
<1>7. Im \in SUBSET (0 .. n - 1)
  <2> SUFFICES ASSUME NEW i \in places PROVE r[i] \in 0 .. n - 1
    OBVIOUS
  <2>1. r[i] \in Nat /\ r[i] <= n - 1
    BY <1>3
  <2> HIDE DEF n
  <2> QED
    BY <1>1, <2>1
<1>8. Im = 0 .. n - 1
  <2> HIDE DEF n, Im
  <2>1. IsFiniteSet(0 .. n - 1) /\ Cardinality(0 .. n - 1) = n
    BY <1>1, FS_Interval
  <2> QED
    BY <1>6, <1>7, <2>1, FS_Subset
<1>9. ASSUME NEW k \in 1 .. n
      PROVE  Sorted(places, key)[k] \in places
  <2>1. k - 1 \in 0 .. n - 1
    BY <1>1
  <2>2. PICK i \in places : r[i] = k - 1
    BY <1>8, <2>1
  <2>3. Cardinality(Below(i)) = k - 1
    BY <1>3, <2>2
  <2>4. Sorted(places, key)[k] = CHOOSE j \in places : Cardinality(Below(j)) = k - 1
    BY DEF Sorted
  <2> HIDE DEF Below
  <2> QED
    BY <2>3, <2>4
<1>10. DOMAIN Sorted(places, key) = 1 .. n
  BY DEF Sorted
<1> QED
  BY <1>1, <1>9, <1>10

\* A finite chain of sets that is not empty has a largest one.
LEMMA LargestOfChain ==
  ASSUME NEW U, IsFiniteSet(U), NEW sets \in SUBSET SUBSET U, sets # {},
         \A Q, R \in sets : Q \subseteq R \/ R \subseteq Q
  PROVE  Largest(sets) \in sets /\ \A Q \in sets : Q \subseteq Largest(sets)
<1> DEFINE N == Cardinality(U)
           short == {N - Cardinality(R) : R \in sets}
<1>1. N \in Nat
  BY FS_CardinalityType
<1>2. ASSUME NEW R \in sets
      PROVE  IsFiniteSet(R) /\ Cardinality(R) \in Nat /\ Cardinality(R) <= N
  <2>1. IsFiniteSet(R) /\ Cardinality(R) <= N
    BY FS_Subset
  <2> QED
    BY <2>1, FS_CardinalityType
<1>3. short \in SUBSET Nat /\ short # {}
  <2> HIDE DEF N
  <2> QED
    BY <1>1, <1>2
<1>4. PICK x \in short : \A y \in short : x <= y
  <2> HIDE DEF short
  <2> QED
    BY <1>3, LeastNatural
<1>5. PICK R \in sets : x = N - Cardinality(R)
  OBVIOUS
<1>6. ASSUME NEW Q \in sets
      PROVE  Q \subseteq R
  <2>1. CASE R \subseteq Q
    <3>1. N - Cardinality(R) <= N - Cardinality(Q)
      BY <1>4, <1>5
    <3>2. Cardinality(Q) <= Cardinality(R)
      <4> HIDE DEF N, short
      <4> QED
        BY <1>1, <1>2, <3>1
    <3>3. R \in SUBSET Q /\ Cardinality(R) <= Cardinality(Q)
      BY <1>2, <2>1, FS_Subset
    <3>4. Cardinality(Q) = Cardinality(R)
      BY <1>2, <3>2, <3>3
    <3> QED
      BY <1>2, <3>3, <3>4, FS_Subset
  <2> QED
    BY <2>1
<1> QED
  BY <1>6 DEF Largest

\* No two of some samples have the same number.
OneEachNumber(samples) == \A s, t \in samples : s.id = t.id => s = t

\* The sum of the sizes up to a number.
SumTo(samples) ==
  LET sum[n \in 0..MaxRecorded] == IF n = 0 THEN 0 ELSE sum[n - 1] + SizeOf(samples, n) IN sum

LEMMA SizesAreNumbers ==
  ASSUME NEW samples \in SUBSET Samples, NEW id
  PROVE  SizeOf(samples, id) \in Nat
<1>0. FrameSizes \subseteq Nat
  BY MemoryAssumption DEF MemoryAssumption
<1>1. ASSUME NEW s \in samples
      PROVE  s.size \in Nat
  <2>1. s \in Samples
    OBVIOUS
  <2>2. s.size \in FrameSizes \union {0}
    BY <2>1 DEF Samples
  <2>3. s.size \in FrameSizes \/ s.size = 0
    BY <2>2
  <2>4. CASE s.size \in FrameSizes
    BY <1>0, <2>4
  <2> QED
    BY <2>3, <2>4
<1>2. CASE \E s \in samples : s.id = id
  <2>1. (CHOOSE s \in samples : s.id = id) \in samples
    BY <1>2
  <2> QED
    BY <1>1, <1>2, <2>1 DEF SizeOf
<1> QED
  BY <1>2 DEF SizeOf

LEMMA BytesUnfold ==
  ASSUME NEW samples \in SUBSET Samples
  PROVE  /\ Bytes(samples) = SumTo(samples)[MaxRecorded]
         /\ \A k \in 0 .. MaxRecorded : SumTo(samples)[k] \in Nat
         /\ SumTo(samples)[0] = 0
         /\ \A k \in 1 .. MaxRecorded : SumTo(samples)[k] = SumTo(samples)[k - 1] + SizeOf(samples, k)
<1> DEFINE N == MaxRecorded
           Rec(f) == [n \in 0 .. N |-> IF n = 0 THEN 0 ELSE f[n - 1] + SizeOf(samples, n)]
           sum == CHOOSE f : f = Rec(f)
           step == [k \in Nat |-> [m \in Nat |-> m + SizeOf(samples, k)]]
<1>0. N \in Nat
  BY MemoryAssumption DEF MemoryAssumption
<1>1. SumTo(samples) = sum /\ Bytes(samples) = SumTo(samples)[N]
  BY Zenon DEF SumTo, Bytes
<1>2. step \in [Nat -> [Nat -> Nat]]
  BY SizesAreNumbers
<1>3. PICK f : Recursion(Nat, f, 0, step, N)
  <2> HIDE DEF step, N
  <2> QED
    BY <1>0, <1>2, RecursionExists
<1>4. f = Rec(f)
  <2>1. f \in [0 .. N -> Nat]
    BY <1>3 DEF Recursion
  <2>2. ASSUME NEW k \in 0 .. N
        PROVE  f[k] = IF k = 0 THEN 0 ELSE f[k - 1] + SizeOf(samples, k)
    <3>1. CASE k = 0
      BY <1>3, <3>1 DEF Recursion
    <3>2. CASE k # 0
      <4>1. k \in Nat /\ k - 1 \in 0 .. N
        BY <1>0, <3>2
      <4>2. f[k - 1] \in Nat
        BY <2>1, <4>1
      <4>3. step[k][f[k - 1]] = f[k - 1] + SizeOf(samples, k)
        BY <4>1, <4>2
      <4>4. f[k] = step[k][f[k - 1]]
        BY <1>3, <3>2 DEF Recursion
      <4> QED
        BY <3>2, <4>3, <4>4
    <3> QED
      BY <3>1, <3>2
  <2> QED
    BY <2>1, <2>2
<1>5. sum = Rec(sum)
  <2> HIDE DEF Rec
  <2> QED
    BY <1>4, Zenon
<1> DEFINE T == {n \in Nat : n \in 0 .. N => sum[n] \in Nat}
<1> HIDE DEF sum, step
<1>6. \A n \in 0 .. N : sum[n] = IF n = 0 THEN 0 ELSE sum[n - 1] + SizeOf(samples, n)
  BY <1>5
<1> HIDE DEF N
<1>7. 0 \in T
  <2>1. 0 \in 0 .. N
    BY <1>0
  <2> QED
    BY <1>6, <2>1
<1>8. ASSUME NEW n \in Nat, n \in T
      PROVE  n + 1 \in T
  <2> SUFFICES ASSUME n + 1 \in 0 .. N PROVE sum[n + 1] \in Nat
    OBVIOUS
  <2>1. n \in 0 .. N /\ sum[n] \in Nat /\ n + 1 # 0 /\ (n + 1) - 1 = n
    BY <1>0, <1>8
  <2>2. sum[n + 1] = sum[n] + SizeOf(samples, n + 1)
    BY <1>6, <2>1
  <2> QED
    BY <2>1, <2>2, SizesAreNumbers
<1> HIDE DEF T
<1>9. Nat \subseteq T
  BY <1>7, <1>8, SetInduction
<1>10. \A n \in 0 .. N : sum[n] \in Nat
  BY <1>0, <1>9 DEF T
<1>11. sum[0] = 0
  <2>1. 0 \in 0 .. N
    BY <1>0
  <2> QED
    BY <1>6, <2>1
<1>12. ASSUME NEW k \in 1 .. N
       PROVE  sum[k] = sum[k - 1] + SizeOf(samples, k)
  <2>1. k \in 0 .. N /\ k # 0
    BY <1>0
  <2> QED
    BY <1>6, <2>1
<1> QED
  BY <1>1, <1>10, <1>11, <1>12 DEF N

\* Fewer samples, no more bytes.
LEMMA FewerBytes ==
  ASSUME NEW more \in SUBSET Samples, NEW fewer \in SUBSET more, OneEachNumber(more)
  PROVE  Bytes(fewer) \in Nat /\ Bytes(more) \in Nat /\ Bytes(fewer) <= Bytes(more)
<1>0. MaxRecorded \in Nat
  BY MemoryAssumption DEF MemoryAssumption
<1>1. ASSUME NEW id
      PROVE  SizeOf(fewer, id) <= SizeOf(more, id)
  <2>0. SizeOf(more, id) \in Nat /\ SizeOf(fewer, id) \in Nat
    BY SizesAreNumbers
  <2>1. CASE \E s \in fewer : s.id = id
    <3>1. PICK s \in fewer : s.id = id
      BY <2>1
    <3>2. \A t \in more : t.id = id => t = s
      BY <3>1 DEF OneEachNumber
    <3>3. (CHOOSE t \in fewer : t.id = id) = s
      BY <3>1, <3>2
    <3>4. (CHOOSE t \in more : t.id = id) = s
      BY <3>1, <3>2
    <3>5. SizeOf(fewer, id) = s.size /\ SizeOf(more, id) = s.size
      BY <3>1, <3>3, <3>4 DEF SizeOf
    <3> QED
      BY <2>0, <3>5
  <2>2. CASE ~ \E s \in fewer : s.id = id
    BY <2>0, <2>2 DEF SizeOf
  <2> QED
    BY <2>1, <2>2
<1> DEFINE T == {n \in Nat : n \in 0 .. MaxRecorded => SumTo(fewer)[n] <= SumTo(more)[n]}
<1>2. 0 \in T
  BY BytesUnfold
<1>3. ASSUME NEW n \in Nat, n \in T
      PROVE  n + 1 \in T
  <2> SUFFICES ASSUME n + 1 \in 0 .. MaxRecorded PROVE SumTo(fewer)[n + 1] <= SumTo(more)[n + 1]
    OBVIOUS
  <2>1. n \in 0 .. MaxRecorded /\ n + 1 \in 1 .. MaxRecorded /\ (n + 1) - 1 = n
    BY <1>0
  <2>2. SumTo(fewer)[n] <= SumTo(more)[n] /\ SumTo(fewer)[n] \in Nat /\ SumTo(more)[n] \in Nat
    BY <1>3, <2>1, BytesUnfold
  <2>3. /\ SumTo(fewer)[n + 1] = SumTo(fewer)[n] + SizeOf(fewer, n + 1)
        /\ SumTo(more)[n + 1] = SumTo(more)[n] + SizeOf(more, n + 1)
    BY <2>1, BytesUnfold
  <2>4. SizeOf(fewer, n + 1) \in Nat /\ SizeOf(more, n + 1) \in Nat
    BY SizesAreNumbers
  <2> QED
    BY <1>1, <2>2, <2>3, <2>4
<1> HIDE DEF T
<1>4. MaxRecorded \in T
  BY <1>0, <1>2, <1>3, SetInduction
<1>5. MaxRecorded \in 0 .. MaxRecorded
  BY <1>0
<1>6. SumTo(fewer)[MaxRecorded] <= SumTo(more)[MaxRecorded]
  BY <1>4, <1>5 DEF T
<1> QED
  BY <1>5, <1>6, BytesUnfold

\* Fewer samples fit where more do.
LEMMA FewerFit ==
  ASSUME NEW more \in SUBSET Samples, IsFiniteSet(more), NEW fewer \in SUBSET more, OneEachNumber(more),
         NEW l \in LimitChoices, Fits(more, l)
  PROVE  Fits(fewer, l)
<1>1. Cardinality(fewer) <= Cardinality(more) /\ Cardinality(fewer) \in Nat /\ Cardinality(more) \in Nat
  BY FS_Subset, FS_CardinalityType
<1>2. l.maxFrames \in Nat /\ MaxFrameBytes \in Nat
  BY MemoryAssumption DEF MemoryAssumption
<1> QED
  BY <1>1, <1>2, FewerBytes DEF Fits

LEMMA NothingFits ==
  ASSUME NEW l \in LimitChoices
  PROVE  Fits({}, l)
<1>0. MaxRecorded \in Nat /\ MaxFrameBytes \in Nat /\ l.maxFrames \in Nat
  BY MemoryAssumption DEF MemoryAssumption
<1> DEFINE T == {n \in Nat : n \in 0 .. MaxRecorded => SumTo({})[n] = 0}
<1>1. \A id : SizeOf({}, id) = 0
  BY DEF SizeOf
<1>2. 0 \in T
  BY BytesUnfold
<1>3. ASSUME NEW n \in Nat, n \in T
      PROVE  n + 1 \in T
  <2> SUFFICES ASSUME n + 1 \in 0 .. MaxRecorded PROVE SumTo({})[n + 1] = 0
    OBVIOUS
  <2>1. n \in 0 .. MaxRecorded /\ n + 1 \in 1 .. MaxRecorded /\ (n + 1) - 1 = n
    BY <1>0
  <2>2. SumTo({})[n + 1] = SumTo({})[n] + SizeOf({}, n + 1)
    BY <2>1, BytesUnfold
  <2> QED
    BY <1>1, <1>3, <2>1, <2>2
<1> HIDE DEF T
<1>4. MaxRecorded \in T
  BY <1>0, <1>2, <1>3, SetInduction
<1>5. Bytes({}) = 0
  <2>1. MaxRecorded \in 0 .. MaxRecorded
    BY <1>0
  <2> QED
    BY <1>4, <2>1, BytesUnfold DEF T
<1> QED
  BY <1>0, <1>5, FS_EmptySet DEF Fits

LEMMA PlacesFinite ==
  ASSUME NEW seq \in Seq(Samples)
  PROVE  /\ Len(seq) \in Nat /\ DOMAIN seq = 1 .. Len(seq) /\ DOMAIN seq \in SUBSET Int
         /\ IsFiniteSet(DOMAIN seq) /\ Distinct(seq) \subseteq DOMAIN seq
         /\ \A i \in DOMAIN seq : seq[i] \in Samples /\ Ages(seq)[i] = seq[i].at /\ seq[i].at \in Int
<1>1. Len(seq) \in Nat /\ DOMAIN seq = 1 .. Len(seq) /\ \A i \in DOMAIN seq : seq[i] \in Samples
  OBVIOUS
<1>2. \A s \in Samples : s.at \in Int
  BY MemoryAssumption DEF MemoryAssumption, Samples
<1>3. IsFiniteSet(1 .. Len(seq))
  BY <1>1, FS_Interval
<1> QED
  BY <1>1, <1>2, <1>3 DEF Distinct, Ages

\* Every element is met first somewhere.
LEMMA MetFirst ==
  ASSUME NEW seq \in Seq(Samples), NEW s \in Elements(seq)
  PROVE  \E i \in Distinct(seq) : seq[i] = s
<1> DEFINE T == {i \in DOMAIN seq : seq[i] = s}
<1>0. Len(seq) \in Nat /\ DOMAIN seq = 1 .. Len(seq)
  OBVIOUS
<1>1. T \in SUBSET Nat /\ T # {}
  BY <1>0 DEF Elements
<1>2. PICK i \in T : \A j \in T : i <= j
  <2> HIDE DEF T
  <2> QED
    BY <1>1, LeastNatural
<1>3. \A j \in 1 .. (i - 1) : j \in DOMAIN seq /\ ~(i <= j)
  BY <1>0
<1> QED
  BY <1>2, <1>3 DEF Distinct

\* enforceFrameBudget: of the samples that keep their pixels, none is new, and together they
\* fit the budget.
LEMMA OldestGo ==
  ASSUME NEW seq \in Seq(Samples), OneEachNumber(Elements(seq)), NEW pics, NEW l \in LimitChoices
  PROVE  /\ WithoutOldest(seq, pics, l) \subseteq pics
         /\ Fits(WithPixels(seq, WithoutOldest(seq, pics, l)), l)
<1> DEFINE framed == {i \in Distinct(seq) : seq[i].id \in pics}
           Part(i) == {seq[j] : j \in {k \in framed : ~Before(Ages(seq), k, i)}}
           U == {seq[i] : i \in framed}
           fitting == {R \in Rests(seq, framed) : Fits(R, l)}
           rest == Largest(fitting)
           left == WithoutOldest(seq, pics, l)
<1>1. left = pics \ {s.id : s \in U \ rest}
  BY DEF WithoutOldest
<1>2. framed \in SUBSET (DOMAIN seq) /\ IsFiniteSet(framed)
  BY PlacesFinite, FS_Subset
<1>3. U \in SUBSET Samples /\ IsFiniteSet(U) /\ U \subseteq Elements(seq)
  <2>1. U = {seq[i] : i \in framed}
    OBVIOUS
  <2> HIDE DEF framed, U
  <2>2. IsFiniteSet(U)
    <3> DEFINE f == [i \in framed |-> seq[i]]
    <3>1. f \in Surjection(framed, U)
      BY <2>1 DEF Surjection
    <3> HIDE DEF f
    <3> QED
      BY <1>2, <3>1, FS_Surjection
  <2>3. \A i \in framed : seq[i] \in Samples /\ seq[i] \in Elements(seq)
    BY <1>2, PlacesFinite DEF Elements
  <2> QED
    BY <2>1, <2>2, <2>3
<1>4. Rests(seq, framed) = {{}} \union {Part(i) : i \in framed}
  BY Zenon DEF Rests
<1>5. \A i, j \in framed : Part(i) \subseteq Part(j) \/ Part(j) \subseteq Part(i)
  <2>1. \A i \in framed : Ages(seq)[i] \in Int /\ i \in Int
    BY <1>2, PlacesFinite
  <2> HIDE DEF framed
  <2> SUFFICES ASSUME NEW i \in framed, NEW j \in framed
               PROVE  Part(i) \subseteq Part(j) \/ Part(j) \subseteq Part(i)
    OBVIOUS
  <2>2. \/ \A k \in framed : ~Before(Ages(seq), k, i) => ~Before(Ages(seq), k, j)
        \/ \A k \in framed : ~Before(Ages(seq), k, j) => ~Before(Ages(seq), k, i)
    BY <2>1 DEF Before
  <2> QED
    BY <2>2
<1>6. fitting \in SUBSET SUBSET U /\ {} \in fitting /\ \A Q, R \in fitting : Q \subseteq R \/ R \subseteq Q
  <2>1. {} \in fitting
    BY <1>4, NothingFits
  <2>2. \A i \in framed : Part(i) \subseteq U
    OBVIOUS
  <2> HIDE DEF Part, U
  <2> QED
    BY <1>4, <1>5, <2>1, <2>2
<1>7. rest \in fitting
  <2> HIDE DEF fitting, U
  <2> QED
    BY <1>3, <1>6, LargestOfChain
<1>8. Fits(rest, l) /\ rest \subseteq U
  BY <1>6, <1>7
<1> HIDE DEF rest, fitting
<1>9. WithPixels(seq, left) \subseteq rest
  <2> SUFFICES ASSUME NEW s \in Elements(seq), s.id \in left
               PROVE  s \in rest
    BY DEF WithPixels
  <2>1. s.id \in pics /\ s.id \notin {t.id : t \in U \ rest}
    BY <1>1
  <2>2. s \in U
    BY <2>1, MetFirst
  <2> HIDE DEF U
  <2> QED
    BY <2>1, <2>2
<1>10. IsFiniteSet(rest) /\ rest \in SUBSET Samples /\ OneEachNumber(rest)
  <2> HIDE DEF U
  <2>1. rest \in SUBSET U
    BY <1>8
  <2>2. IsFiniteSet(rest)
    BY <1>3, <2>1, FS_Subset
  <2> QED
    BY <1>3, <2>1, <2>2 DEF OneEachNumber
<1>11. left \subseteq pics
  BY <1>1
<1> HIDE DEF left
<1> QED
  BY <1>8, <1>9, <1>10, <1>11, FewerFit DEF left

\* A later sample of a tier is no older than an earlier one, but for the time a frame was late.
LateOrdered(seq) == \A i, j \in DOMAIN seq : i < j => seq[j].at >= seq[i].at - MaxLag

\* What a tier holds at some time, of so many samples recorded.
Tier(seq, now, last) ==
  /\ seq \in Seq(Samples) /\ LateOrdered(seq)
  /\ \A s \in Elements(seq) : s.at <= now /\ s.id \in 1..last

Tiers == Tier(hot, clock, recorded) /\ Tier(warm, clock, recorded) /\ Tier(keyframes, clock, recorded)

\* The inductive invariant of the engine's memory.
MemoryKept ==
  /\ MemoryTypeOK
  /\ Tiers
  /\ OneEachNumber(Elements(hot) \union Elements(warm) \union Elements(keyframes))
  /\ FramesWithinBudget
  /\ recorded \in 1..(MaxRecorded - 1) => newest # NoSample

LEMMA MemoryNumbers ==
  /\ MaxLag \in Nat /\ MaxTime \in Nat /\ MaxRecorded \in Nat /\ HotAge \in Nat
  /\ \A l \in LimitChoices : l.maxSamples \in Nat /\ l.maxAge \in Nat /\ l.maxFrames \in Nat /\ l.hotMax \in Nat
  /\ \A s \in Samples : s.at \in Int /\ s.id \in 1..MaxRecorded /\ s.score \in Scores
  /\ \A x \in Scores : x \in 0..10
<1>1. /\ MaxLag \in Nat /\ MaxTime \in Nat /\ MaxRecorded \in Nat /\ HotAge \in Nat
      /\ LimitChoices \subseteq [maxSamples : Nat, maxAge : Nat, maxFrames : Nat, hotMax : Nat]
      /\ \A x \in Scores : x \in 0..10
  BY MemoryAssumption DEF MemoryAssumption
<1>2. \A s \in Samples : s.at \in -MaxLag..MaxTime /\ s.id \in 1..MaxRecorded /\ s.score \in Scores
  BY DEF Samples
<1> QED
  BY <1>1, <1>2

\* Elements of a sequence, of one with one more, and of three in a row.
LEMMA ElementsOfThree ==
  ASSUME NEW a \in Seq(Samples), NEW b \in Seq(Samples), NEW c \in Seq(Samples)
  PROVE  /\ a \o b \o c \in Seq(Samples)
         /\ Elements(a \o b \o c) = Elements(a) \union Elements(b) \union Elements(c)
<1>1. ASSUME NEW x \in Seq(Samples), NEW y \in Seq(Samples)
      PROVE  x \o y \in Seq(Samples) /\ Elements(x \o y) = Elements(x) \union Elements(y)
  <2>1. /\ x \o y \in Seq(Samples) /\ Len(x) \in Nat /\ Len(y) \in Nat
        /\ DOMAIN (x \o y) = 1 .. Len(x) + Len(y) /\ DOMAIN x = 1 .. Len(x) /\ DOMAIN y = 1 .. Len(y)
        /\ \A i \in DOMAIN x : (x \o y)[i] = x[i]
        /\ \A i \in DOMAIN y : (x \o y)[Len(x) + i] = y[i]
    BY JoinedAt
  <2>2. ASSUME NEW i \in DOMAIN (x \o y)
        PROVE  (x \o y)[i] \in Elements(x) \union Elements(y)
    <3>1. CASE i <= Len(x)
      BY <2>1, <3>1 DEF Elements
    <3>2. CASE ~(i <= Len(x))
      <4>1. i - Len(x) \in DOMAIN y /\ Len(x) + (i - Len(x)) = i
        BY <2>1, <3>2
      <4>2. (x \o y)[i] = y[i - Len(x)]
        BY <2>1, <4>1
      <4> QED
        BY <4>1, <4>2 DEF Elements
    <3> QED
      BY <3>1, <3>2
  <2>3. ASSUME NEW i \in DOMAIN x
        PROVE  x[i] \in Elements(x \o y)
    <3>1. i \in DOMAIN (x \o y) /\ (x \o y)[i] = x[i]
      BY <2>1
    <3> QED
      BY <3>1 DEF Elements
  <2>4. ASSUME NEW i \in DOMAIN y
        PROVE  y[i] \in Elements(x \o y)
    <3>1. Len(x) + i \in DOMAIN (x \o y) /\ (x \o y)[Len(x) + i] = y[i]
      BY <2>1
    <3> QED
      BY <3>1 DEF Elements
  <2>5. Elements(x \o y) \subseteq Elements(x) \union Elements(y)
    BY <2>2 DEF Elements
  <2>6. Elements(x) \subseteq Elements(x \o y) /\ Elements(y) \subseteq Elements(x \o y)
    BY <2>3, <2>4 DEF Elements
  <2> QED
    BY <2>1, <2>5, <2>6
<1>2. a \o b \in Seq(Samples) /\ Elements(a \o b) = Elements(a) \union Elements(b)
  BY <1>1
<1>3. (a \o b) \o c \in Seq(Samples) /\ Elements((a \o b) \o c) = Elements(a \o b) \union Elements(c)
  BY <1>1, <1>2
<1> QED
  BY <1>2, <1>3

LEMMA ElementsFinite ==
  ASSUME NEW seq \in Seq(Samples)
  PROVE  Elements(seq) \in SUBSET Samples /\ IsFiniteSet(Elements(seq))
         /\ Cardinality(Elements(seq)) <= Len(seq)
<1> DEFINE f == [i \in DOMAIN seq |-> seq[i]]
<1>1. f \in Surjection(DOMAIN seq, Elements(seq))
  BY DEF Surjection, Elements
<1>2. IsFiniteSet(DOMAIN seq) /\ Cardinality(DOMAIN seq) = Len(seq)
  <2>1. Len(seq) \in Nat /\ DOMAIN seq = 1 .. Len(seq)
    OBVIOUS
  <2> QED
    BY <2>1, FS_Interval
<1> HIDE DEF f
<1>3. IsFiniteSet(Elements(seq)) /\ Cardinality(Elements(seq)) <= Len(seq)
  BY <1>1, <1>2, FS_Surjection
<1>4. Elements(seq) \in SUBSET Samples
  BY PlacesFinite DEF Elements
<1> QED
  BY <1>3, <1>4

\* What part of a tier is left, in the same order.
Within(part, seq) ==
  /\ part \in Seq(Samples)
  /\ \E e \in [DOMAIN part -> DOMAIN seq] :
       /\ \A i \in DOMAIN part : part[i] = seq[e[i]]
       /\ \A i, j \in DOMAIN part : i < j => e[i] < e[j]

LEMMA WithinIsOrdered ==
  ASSUME NEW seq \in Seq(Samples), LateOrdered(seq), NEW part, Within(part, seq)
  PROVE  part \in Seq(Samples) /\ LateOrdered(part) /\ Elements(part) \subseteq Elements(seq)
<1>1. PICK e \in [DOMAIN part -> DOMAIN seq] :
        /\ \A i \in DOMAIN part : part[i] = seq[e[i]]
        /\ \A i, j \in DOMAIN part : i < j => e[i] < e[j]
  BY DEF Within
<1>2. Elements(part) \subseteq Elements(seq)
  BY <1>1 DEF Elements
<1>3. LateOrdered(part)
  BY <1>1 DEF LateOrdered
<1> QED
  BY <1>2, <1>3 DEF Within

LEMMA LastOfWithin ==
  ASSUME NEW seq \in Seq(Samples), NEW n \in Nat
  PROVE  Within(LastOf(seq, n), seq)
<1>0. Len(seq) \in Nat /\ DOMAIN seq = 1 .. Len(seq) /\ \A i \in DOMAIN seq : seq[i] \in Samples
  OBVIOUS
<1>1. CASE Len(seq) <= n
  <2> DEFINE e == [i \in DOMAIN seq |-> i]
  <2>1. e \in [DOMAIN seq -> DOMAIN seq]
    OBVIOUS
  <2>2. LastOf(seq, n) = seq
    BY <1>1 DEF LastOf
  <2>3. /\ \A i \in DOMAIN seq : seq[i] = seq[e[i]]
        /\ \A i, j \in DOMAIN seq : i < j => e[i] < e[j]
    OBVIOUS
  <2> HIDE DEF e
  <2> QED
    BY <2>1, <2>2, <2>3 DEF Within
<1>2. CASE ~(Len(seq) <= n)
  <2> DEFINE d == Len(seq) - n
             part == SubSeq(seq, Len(seq) - n + 1, Len(seq))
             e == [i \in 1 .. n |-> i + d]
  <2>1. LastOf(seq, n) = part
    BY <1>2 DEF LastOf
  <2>2. d \in Nat /\ d + 1 = Len(seq) - n + 1 /\ Len(seq) = n + d
    BY <1>0, <1>2
  <2>3. part \in Seq(Samples) /\ Len(part) = n /\ \A i \in 1 .. n : part[i] = seq[i + d]
    BY <1>0, <2>2
  <2>4. DOMAIN part = 1 .. n
    BY <2>3
  <2>5. /\ e \in [1 .. n -> DOMAIN seq]
        /\ \A i \in 1 .. n : part[i] = seq[e[i]]
        /\ \A i, j \in 1 .. n : i < j => e[i] < e[j]
    BY <1>0, <2>2, <2>3
  <2> HIDE DEF e, part
  <2> QED
    BY <2>1, <2>3, <2>4, <2>5 DEF Within
<1> QED
  BY <1>1, <1>2

LEMMA FilteredWithin ==
  ASSUME NEW seq \in Seq(Samples), NEW places
  PROVE  /\ Within(Filtered(seq, places), seq)
         /\ \A s \in Elements(Filtered(seq, places)) : \E i \in DOMAIN seq : i \in places /\ s = seq[i]
<1> DEFINE part == Filtered(seq, places)
<1>1. part \in Seq(Samples) /\ \E e : Picks(part, e, seq, places, Len(seq))
  BY FilterPicks
<1>2. PICK e : Picks(part, e, seq, places, Len(seq))
  BY <1>1
<1> HIDE DEF part
<1>3. DOMAIN part = 1 .. Len(part) /\ DOMAIN seq = 1 .. Len(seq)
  BY <1>1
<1>4. /\ e \in [DOMAIN part -> DOMAIN seq]
      /\ \A i \in DOMAIN part : e[i] \in places /\ part[i] = seq[e[i]]
      /\ \A i, j \in DOMAIN part : i < j => e[i] < e[j]
  BY <1>2, <1>3 DEF Picks
<1>5. Within(part, seq)
  BY <1>1, <1>4 DEF Within
<1>6. \A s \in Elements(part) : \E i \in DOMAIN seq : i \in places /\ s = seq[i]
  BY <1>4 DEF Elements
<1> QED
  BY <1>5, <1>6 DEF part

\* RingTier.evict: nothing new, in order; and what is left is no older than the tier keeps,
\* but for the time the first of it was late.
LEMMA EvictKeeps ==
  ASSUME NEW seq \in Seq(Samples), LateOrdered(seq), NEW now \in Int, NEW maxCount \in Nat, NEW maxAge \in Nat
  PROVE  LET part == Evict(seq, now, maxCount, maxAge)
         IN  /\ part \in Seq(Samples) /\ LateOrdered(part) /\ Elements(part) \subseteq Elements(seq)
             /\ \A s \in Elements(part) : s.at >= now - maxAge - MaxLag
<1> DEFINE old == seq # <<>> /\ seq[1].at < now - maxAge
           places == {i \in DOMAIN seq : seq[i].at >= now - maxAge}
           young == IF old THEN Filtered(seq, places) ELSE seq
           part == Evict(seq, now, maxCount, maxAge)
<1>1. part = LastOf(young, maxCount)
  BY DEF Evict
<1>2. Len(seq) \in Nat /\ DOMAIN seq = 1 .. Len(seq) /\ \A i \in DOMAIN seq : seq[i].at \in Int
  BY PlacesFinite
<1>3. /\ young \in Seq(Samples) /\ LateOrdered(young) /\ Elements(young) \subseteq Elements(seq)
      /\ \A s \in Elements(young) : s.at >= now - maxAge - MaxLag
  <2>1. CASE old
    <3>1. young = Filtered(seq, places)
      BY <2>1
    <3>2. /\ young \in Seq(Samples) /\ LateOrdered(young) /\ Elements(young) \subseteq Elements(seq)
      BY <3>1, FilteredWithin, WithinIsOrdered
    <3>3. \A s \in Elements(young) : \E i \in DOMAIN seq : i \in places /\ s = seq[i]
      <4> HIDE DEF places
      <4> QED
        BY <3>1, FilteredWithin
    <3> HIDE DEF young
    <3>4. \A s \in Elements(young) : s.at >= now - maxAge /\ s.at \in Int
      BY <1>2, <3>3
    <3> QED
      BY <3>2, <3>4, MemoryNumbers
  <2>2. CASE ~old
    <3>1. young = seq
      BY <2>2
    <3>2. ASSUME NEW i \in DOMAIN seq
          PROVE  seq[i].at >= now - maxAge - MaxLag
      <4>1. seq # <<>> /\ 1 \in DOMAIN seq
        BY <1>2
      <4>2. seq[1].at >= now - maxAge
        BY <1>2, <2>2, <4>1
      <4>3. i = 1 \/ seq[i].at >= seq[1].at - MaxLag
        BY <1>2, <4>1 DEF LateOrdered
      <4> QED
        BY <1>2, <4>1, <4>2, <4>3, MemoryNumbers
    <3> QED
      BY <3>1, <3>2 DEF Elements
  <2> QED
    BY <2>1, <2>2
<1> HIDE DEF young, part
<1>4. part \in Seq(Samples) /\ LateOrdered(part) /\ Elements(part) \subseteq Elements(young)
  BY <1>1, <1>3, LastOfWithin, WithinIsOrdered
<1> QED
  BY <1>3, <1>4 DEF part

\* Keep after enforceFrameBudget leaves a budget that is kept, and no new pixels.
LEMMA BudgetKept ==
  ASSUME NEW a \in Seq(Samples), NEW b \in Seq(Samples), NEW c \in Seq(Samples),
         OneEachNumber(Elements(a) \union Elements(b) \union Elements(c)),
         NEW pics, NEW l \in LimitChoices, l = limits', NEW new,
         Keep(<<a, b, c>>, new, StripOldest(<<a, b, c>>, pics, l))
  PROVE  /\ hot' = a /\ warm' = b /\ keyframes' = c /\ newest' = new
         /\ FramesWithinBudget' /\ pictured' \subseteq pics
<1> DEFINE all == a \o b \o c
           left == WithoutOldest(all, pics, l)
<1>1. all \in Seq(Samples) /\ Elements(all) = Elements(a) \union Elements(b) \union Elements(c)
  BY ElementsOfThree
<1>2. StripOldest(<<a, b, c>>, pics, l) = left
  BY DEF StripOldest
<1>3. hot' = a /\ warm' = b /\ keyframes' = c /\ newest' = new
  BY DEF Keep
<1>4. pictured' = left \intersect Held(<<a, b, c>>, new)
  BY <1>2 DEF Keep
<1>5. left \subseteq pics /\ Fits(WithPixels(all, left), l)
  <2>1. all \in Seq(Samples) /\ OneEachNumber(Elements(all))
    BY <1>1
  <2> HIDE DEF all
  <2> QED
    BY <2>1, OldestGo
<1> HIDE DEF left, all
<1>6. Fits(WithPixels(all, pictured'), l)
  <2> DEFINE more == WithPixels(all, left)
             fewer == WithPixels(all, pictured')
  <2>1. fewer \in SUBSET more
    BY <1>4 DEF WithPixels
  <2>2. more \in SUBSET Elements(all)
    BY DEF WithPixels
  <2>3. more \in SUBSET Samples /\ IsFiniteSet(more) /\ OneEachNumber(more)
    <3>1. Elements(all) \in SUBSET Samples /\ IsFiniteSet(Elements(all)) /\ OneEachNumber(Elements(all))
      BY <1>1, ElementsFinite
    <3> HIDE DEF more
    <3>2. IsFiniteSet(more)
      BY <2>2, <3>1, FS_Subset
    <3>3. OneEachNumber(more)
      BY <2>2, <3>1 DEF OneEachNumber
    <3> QED
      BY <2>2, <3>1, <3>2, <3>3
  <2> HIDE DEF more, fewer
  <2>4. Fits(more, l)
    BY <1>5 DEF more
  <2>5. Fits(fewer, l)
    BY <2>1, <2>3, <2>4, FewerFit
  <2> QED
    BY <2>5 DEF fewer
<1>7. FramesWithinBudget'
  BY <1>3, <1>6 DEF FramesWithinBudget, all
<1> QED
  BY <1>3, <1>4, <1>5, <1>7

\* A tier that takes one sample more, or none, and then evicts.
LEMMA TierGrows ==
  ASSUME MemoryKept, NEW seq, Tier(seq, clock, recorded), NEW s \in Samples, s.id = recorded + 1,
         s.at <= clock, s.at >= clock - MaxLag, NEW maxCount \in Nat, NEW maxAge \in Nat,
         NEW part \in {seq, Evict(Append(seq, s), s.at, maxCount, maxAge)}
  PROVE  Tier(part, clock, recorded + 1) /\ Elements(part) \subseteq Elements(seq) \union {s}
<1>0. clock \in Int /\ recorded \in Nat /\ s.at \in Int
  BY MemoryNumbers DEF MemoryKept, MemoryTypeOK
<1>1. CASE part = seq
  BY <1>0, <1>1 DEF Tier, LateOrdered
<1>2. CASE part = Evict(Append(seq, s), s.at, maxCount, maxAge)
  <2> DEFINE more == Append(seq, s)
  <2>1. /\ more \in Seq(Samples) /\ Len(seq) \in Nat
        /\ DOMAIN more = 1 .. Len(seq) + 1 /\ DOMAIN seq = 1 .. Len(seq)
        /\ \A i \in DOMAIN seq : more[i] = seq[i]
        /\ more[Len(seq) + 1] = s
    BY AppendedAt DEF Tier
  <2>2. \A i \in DOMAIN seq : seq[i].at \in Int /\ seq[i].at <= clock /\ seq[i].id \in 1..recorded
    BY PlacesFinite DEF Tier, Elements
  <2> HIDE DEF more
  <2>3. LateOrdered(more)
    <3> SUFFICES ASSUME NEW i \in DOMAIN more, NEW j \in DOMAIN more, i < j
                 PROVE  more[j].at >= more[i].at - MaxLag
      BY DEF LateOrdered
    <3>1. i \in DOMAIN seq /\ more[i] = seq[i]
      BY <2>1
    <3>2. CASE j \in DOMAIN seq
      BY <2>1, <3>1, <3>2 DEF Tier, LateOrdered
    <3>3. CASE j \notin DOMAIN seq
      <4>1. more[j] = s
        BY <2>1, <3>3
      <4> QED
        BY <1>0, <2>2, <3>1, <4>1, MemoryNumbers
    <3> QED
      BY <3>2, <3>3
  <2>4. Elements(more) \subseteq Elements(seq) \union {s}
    BY <2>1 DEF Elements
  <2>5. part \in Seq(Samples) /\ LateOrdered(part) /\ Elements(part) \subseteq Elements(more)
    BY <1>0, <1>2, <2>1, <2>3, EvictKeeps DEF more
  <2>6. ASSUME NEW t \in Elements(seq) \union {s}
        PROVE  t.at <= clock /\ t.id \in 1..recorded + 1
    BY <1>0, <2>6 DEF Tier
  <2>7. \A t \in Elements(part) : t.at <= clock /\ t.id \in 1..recorded + 1
    BY <2>4, <2>5, <2>6
  <2>8. Tier(part, clock, recorded + 1)
    BY <2>5, <2>7 DEF Tier
  <2> QED
    BY <2>4, <2>5, <2>8
<1> QED
  BY <1>1, <1>2

\* A tier that only evicts.
LEMMA TierShrinks ==
  ASSUME MemoryKept, NEW seq, Tier(seq, clock, recorded), NEW maxCount \in Nat, NEW maxAge \in Nat,
         NEW part, part = Evict(seq, clock, maxCount, maxAge)
  PROVE  /\ Tier(part, clock, recorded) /\ Elements(part) \subseteq Elements(seq) /\ part \in Seq(Samples)
         /\ \A s \in Elements(part) : s.at >= clock - maxAge - MaxLag
<1>0. clock \in Int
  BY MemoryNumbers DEF MemoryKept, MemoryTypeOK
<1>1. /\ part \in Seq(Samples) /\ LateOrdered(part) /\ Elements(part) \subseteq Elements(seq)
      /\ \A s \in Elements(part) : s.at >= clock - maxAge - MaxLag
  BY <1>0, EvictKeeps DEF Tier
<1>2. Tier(part, clock, recorded)
  BY <1>1 DEF Tier
<1> QED
  BY <1>1, <1>2

\* VisualHistory.record.
LEMMA RecordKept ==
  ASSUME MemoryKept, recorded < MaxRecorded, NEW s \in Samples, s.id = recorded + 1,
         s.at <= clock, s.at >= clock - MaxLag, NEW picture \in BOOLEAN, Record(s, picture),
         clock' = clock, limits' = limits, lastMaterialized' \in -MaxLag..MaxTime
  PROVE  MemoryKept'
<1> DEFINE due == warm = <<>> \/ s.at - warm[Len(warm)].at >= WarmBucket \/ s.score >= WarmFloor
           pics == IF picture THEN pictured \union {s.id} ELSE pictured
           a == EvictHot(Append(hot, s), limits, s.at)
           b == IF due THEN EvictWarm(Append(warm, s), limits, s.at) ELSE warm
           c == IF picture /\ s.score >= KeyframeFloor
                THEN EvictKeyframes(Append(keyframes, s), limits, s.at) ELSE keyframes
<1>1. Keep(<<a, b, c>>, s, StripOldest(<<a, b, c>>, pics, limits)) /\ recorded' = recorded + 1
  BY DEF Record
<1>2. limits \in LimitChoices /\ recorded \in Nat /\ pictured \subseteq 1..recorded
  BY MemoryNumbers DEF MemoryKept, MemoryTypeOK
<1>3. /\ limits.hotMax \in Nat /\ limits.maxSamples \in Nat /\ limits.maxFrames * 4 \in Nat
      /\ HotAge \in Nat /\ limits.maxAge \in Nat
  BY <1>2, MemoryNumbers
<1>4. /\ a \in {hot, Evict(Append(hot, s), s.at, limits.hotMax, HotAge)}
      /\ b \in {warm, Evict(Append(warm, s), s.at, limits.maxSamples, limits.maxAge)}
      /\ c \in {keyframes, Evict(Append(keyframes, s), s.at, limits.maxFrames * 4, limits.maxAge)}
  BY DEF EvictHot, EvictWarm, EvictKeyframes
<1>5. Tier(hot, clock, recorded) /\ Tier(warm, clock, recorded) /\ Tier(keyframes, clock, recorded)
  BY DEF MemoryKept, Tiers
<1> HIDE DEF a, b, c
<1>6. /\ Tier(a, clock, recorded + 1) /\ Elements(a) \subseteq Elements(hot) \union {s}
      /\ Tier(b, clock, recorded + 1) /\ Elements(b) \subseteq Elements(warm) \union {s}
      /\ Tier(c, clock, recorded + 1) /\ Elements(c) \subseteq Elements(keyframes) \union {s}
  <2>1. Tier(a, clock, recorded + 1) /\ Elements(a) \subseteq Elements(hot) \union {s}
    BY <1>1, <1>3, <1>4, <1>5, TierGrows
  <2>2. Tier(b, clock, recorded + 1) /\ Elements(b) \subseteq Elements(warm) \union {s}
    BY <1>1, <1>3, <1>4, <1>5, TierGrows
  <2>3. Tier(c, clock, recorded + 1) /\ Elements(c) \subseteq Elements(keyframes) \union {s}
    BY <1>1, <1>3, <1>4, <1>5, TierGrows
  <2> QED
    BY <2>1, <2>2, <2>3
<1>7. OneEachNumber(Elements(a) \union Elements(b) \union Elements(c))
  <2> DEFINE old == Elements(hot) \union Elements(warm) \union Elements(keyframes)
  <2>1. OneEachNumber(old)
    BY DEF MemoryKept
  <2>2. \A t \in old : t.id \in 1..recorded
    BY <1>5 DEF Tier
  <2>3. Elements(a) \union Elements(b) \union Elements(c) \subseteq old \union {s}
    BY <1>6
  <2> HIDE DEF old
  <2>4. OneEachNumber(old \union {s})
    BY <1>2, <2>1, <2>2 DEF OneEachNumber
  <2> QED
    BY <2>3, <2>4 DEF OneEachNumber
<1>8. a \in Seq(Samples) /\ b \in Seq(Samples) /\ c \in Seq(Samples)
  BY <1>6 DEF Tier
<1> HIDE DEF pics
<1>9. /\ hot' = a /\ warm' = b /\ keyframes' = c /\ newest' = s
      /\ FramesWithinBudget' /\ pictured' \subseteq pics
  BY <1>1, <1>2, <1>7, <1>8, BudgetKept
<1>10. pics \subseteq 1..recorded'
  BY <1>1, <1>2 DEF pics
<1>11. recorded' \in 0..MaxRecorded
  BY <1>1, <1>2, MemoryNumbers
<1>12. MemoryTypeOK'
  BY <1>8, <1>9, <1>10, <1>11 DEF MemoryKept, MemoryTypeOK
<1>13. s # NoSample
  BY <1>2 DEF NoSample
<1>14. Tiers'
  BY <1>1, <1>6, <1>9 DEF Tiers
<1>15. OneEachNumber(Elements(hot') \union Elements(warm') \union Elements(keyframes'))
  BY <1>7, <1>9
<1> QED
  BY <1>9, <1>12, <1>13, <1>14, <1>15 DEF MemoryKept, OneEachNumber, Elements

\* setLimits, and the eviction a query begins with.
LEMMA ShrinkKept ==
  ASSUME MemoryKept, NEW l \in LimitChoices, limits' = l, recorded' = recorded, clock' = clock,
         lastMaterialized' = lastMaterialized,
         NEW a, NEW b, NEW c,
         a = EvictHot(hot, l, clock), b = EvictWarm(warm, l, clock), c = EvictKeyframes(keyframes, l, clock),
         \/ Keep(<<a, b, c>>, newest, StripOldest(<<a, b, c>>, pictured, l))
         \/ Keep(<<a, b, c>>, newest, pictured) /\ l = limits
  PROVE  MemoryKept'
<1>2. recorded \in Nat /\ pictured \subseteq 1..recorded
  BY MemoryNumbers DEF MemoryKept, MemoryTypeOK
<1>3. /\ l.hotMax \in Nat /\ l.maxSamples \in Nat /\ l.maxFrames * 4 \in Nat
      /\ HotAge \in Nat /\ l.maxAge \in Nat
  BY MemoryNumbers
<1>4. /\ a = Evict(hot, clock, l.hotMax, HotAge)
      /\ b = Evict(warm, clock, l.maxSamples, l.maxAge)
      /\ c = Evict(keyframes, clock, l.maxFrames * 4, l.maxAge)
  BY DEF EvictHot, EvictWarm, EvictKeyframes
<1>5. Tier(hot, clock, recorded) /\ Tier(warm, clock, recorded) /\ Tier(keyframes, clock, recorded)
  BY DEF MemoryKept, Tiers
<1>6. /\ Tier(a, clock, recorded) /\ Elements(a) \subseteq Elements(hot) /\ a \in Seq(Samples)
      /\ Tier(b, clock, recorded) /\ Elements(b) \subseteq Elements(warm) /\ b \in Seq(Samples)
      /\ Tier(c, clock, recorded) /\ Elements(c) \subseteq Elements(keyframes) /\ c \in Seq(Samples)
  <2>1. Tier(a, clock, recorded) /\ Elements(a) \subseteq Elements(hot) /\ a \in Seq(Samples)
    BY <1>3, <1>4, <1>5, TierShrinks
  <2>2. Tier(b, clock, recorded) /\ Elements(b) \subseteq Elements(warm) /\ b \in Seq(Samples)
    BY <1>3, <1>4, <1>5, TierShrinks
  <2>3. Tier(c, clock, recorded) /\ Elements(c) \subseteq Elements(keyframes) /\ c \in Seq(Samples)
    BY <1>3, <1>4, <1>5, TierShrinks
  <2> QED
    BY <2>1, <2>2, <2>3
<1> DEFINE old == Elements(hot) \union Elements(warm) \union Elements(keyframes)
           new == Elements(a) \union Elements(b) \union Elements(c)
<1>7. OneEachNumber(old) /\ new \subseteq old /\ OneEachNumber(new)
  <2>1. OneEachNumber(old)
    BY DEF MemoryKept
  <2>2. new \subseteq old
    BY <1>6
  <2> QED
    BY <2>1, <2>2 DEF OneEachNumber
<1>8. hot' = a /\ warm' = b /\ keyframes' = c /\ newest' = newest
  BY DEF Keep
<1>9. FramesWithinBudget' /\ pictured' \subseteq pictured
  <2>1. CASE Keep(<<a, b, c>>, newest, StripOldest(<<a, b, c>>, pictured, l))
    BY <1>6, <1>7, <2>1, BudgetKept
  <2>2. CASE Keep(<<a, b, c>>, newest, pictured) /\ l = limits
    <3>1. pictured' \subseteq pictured
      BY <2>2 DEF Keep
    <3>2. /\ hot \o warm \o keyframes \in Seq(Samples)
          /\ Elements(hot \o warm \o keyframes) = old
          /\ Elements(a \o b \o c) = new
      BY <1>5, <1>6, ElementsOfThree DEF Tier
    <3> DEFINE more == WithPixels(hot \o warm \o keyframes, pictured)
               fewer == WithPixels(a \o b \o c, pictured')
    <3>3. fewer \in SUBSET more
      BY <1>7, <3>1, <3>2 DEF WithPixels
    <3>4. old \in SUBSET Samples /\ IsFiniteSet(old)
      BY <3>2, ElementsFinite
    <3>5. more \in SUBSET old
      BY <3>2 DEF WithPixels
    <3>6. Fits(more, l)
      BY <2>2, <3>2 DEF MemoryKept, FramesWithinBudget
    <3> HIDE DEF old, new, more, fewer
    <3>7. OneEachNumber(more)
      BY <1>7, <3>5 DEF OneEachNumber
    <3>8. IsFiniteSet(more) /\ more \in SUBSET Samples
      BY <3>4, <3>5, FS_Subset
    <3>9. Fits(fewer, l)
      BY <3>3, <3>6, <3>7, <3>8, FewerFit
    <3>10. FramesWithinBudget'
      BY <1>8, <3>2, <3>9 DEF FramesWithinBudget, fewer
    <3> QED
      BY <3>1, <3>10
  <2> QED
    BY <2>1, <2>2
<1>10. MemoryTypeOK'
  BY <1>2, <1>6, <1>8, <1>9 DEF MemoryKept, MemoryTypeOK
<1>11. Tiers'
  BY <1>6, <1>8 DEF Tiers
<1>12. OneEachNumber(Elements(hot') \union Elements(warm') \union Elements(keyframes'))
  BY <1>7, <1>8
<1> HIDE DEF old, new
<1>13. recorded' \in 1..(MaxRecorded - 1) => newest' # NoSample
  BY <1>8 DEF MemoryKept
<1> QED
  BY <1>9, <1>10, <1>11, <1>12, <1>13 DEF MemoryKept, OneEachNumber, Elements

LEMMA MemoryStarts == ASSUME MemoryInit PROVE MemoryKept
<1>1. <<>> \in Seq(Samples) /\ Elements(<<>>) = {} /\ LateOrdered(<<>>)
  BY DEF Elements, LateOrdered
<1>2. MemoryTypeOK
  BY <1>1, MemoryNumbers DEF MemoryInit, MemoryTypeOK
<1>3. Tiers
  BY <1>1 DEF MemoryInit, Tiers, Tier
<1>4. WithPixels(hot \o warm \o keyframes, pictured) = {}
  BY DEF MemoryInit, WithPixels
<1>5. FramesWithinBudget
  BY <1>2, <1>4, NothingFits DEF FramesWithinBudget, MemoryTypeOK
<1>6. OneEachNumber(Elements(hot) \union Elements(warm) \union Elements(keyframes))
  BY <1>1 DEF MemoryInit, OneEachNumber
<1> QED
  BY <1>2, <1>3, <1>5, <1>6 DEF MemoryKept, MemoryInit

LEMMA MemoryStep == ASSUME MemoryKept, [MemoryNext]_memoryVars PROVE MemoryKept'
<1>0. /\ clock \in 0..MaxTime /\ recorded \in 0..MaxRecorded /\ lastMaterialized \in -MaxLag..MaxTime
      /\ limits \in LimitChoices
      /\ MaxLag \in Nat /\ MaxTime \in Nat /\ MaxRecorded \in Nat
  BY MemoryNumbers DEF MemoryKept, MemoryTypeOK
<1>1. CASE RecordEvent
  <2>1. PICK score \in Scores, transition \in BOOLEAN :
          Record([id |-> recorded + 1, at |-> clock, score |-> score, size |-> 0,
                  transition |-> transition], FALSE)
    BY <1>1 DEF RecordEvent
  <2> DEFINE s == [id |-> recorded + 1, at |-> clock, score |-> score, size |-> 0, transition |-> transition]
  <2>2. recorded < MaxRecorded /\ UNCHANGED <<clock, limits, lastMaterialized>>
    BY <1>1 DEF RecordEvent
  <2>3. s \in Samples
    <3>1. recorded + 1 \in 1..MaxRecorded /\ clock \in -MaxLag..MaxTime
      BY <1>0, <2>2
    <3> QED
      BY <3>1 DEF Samples
  <2>4. s.id = recorded + 1 /\ s.at <= clock /\ s.at >= clock - MaxLag
    BY <1>0
  <2> HIDE DEF s
  <2>5. Record(s, FALSE)
    BY <2>1 DEF s
  <2> QED
    BY <1>0, <2>2, <2>3, <2>4, <2>5, RecordKept
<1>2. CASE RecordFrame
  <2>1. PICK score \in Scores, lag \in 0..MaxLag, size \in FrameSizes :
          LET at == clock - lag
              materialize == at - lastMaterialized >= MaterializeEvery \/ score >= WarmFloor
          IN  /\ recorded < MaxRecorded
              /\ Record([id |-> recorded + 1, at |-> at, score |-> score,
                         size |-> IF materialize THEN size ELSE 0, transition |-> FALSE], materialize)
              /\ lastMaterialized' = IF materialize THEN at ELSE lastMaterialized
              /\ UNCHANGED <<clock, limits>>
    BY <1>2 DEF RecordFrame
  <2> DEFINE at == clock - lag
             materialize == at - lastMaterialized >= MaterializeEvery \/ score >= WarmFloor
             s == [id |-> recorded + 1, at |-> at, score |-> score,
                   size |-> IF materialize THEN size ELSE 0, transition |-> FALSE]
  <2>2. /\ recorded < MaxRecorded /\ UNCHANGED <<clock, limits>>
        /\ lastMaterialized' = IF materialize THEN at ELSE lastMaterialized
    BY <2>1
  <2>3. at \in -MaxLag..MaxTime /\ at <= clock /\ at >= clock - MaxLag
    BY <1>0
  <2>4. Record(s, materialize)
    BY <2>1
  <2> HIDE DEF materialize, at
  <2>5. s \in Samples
    <3>1. recorded + 1 \in 1..MaxRecorded
      BY <1>0, <2>2
    <3> QED
      BY <2>3, <3>1 DEF Samples
  <2>6. s.id = recorded + 1 /\ s.at <= clock /\ s.at >= clock - MaxLag
    BY <2>3
  <2>7. lastMaterialized' \in -MaxLag..MaxTime
    BY <1>0, <2>2, <2>3
  <2>8. materialize \in BOOLEAN
    BY DEF materialize
  <2> HIDE DEF s
  <2> QED
    BY <2>2, <2>4, <2>5, <2>6, <2>7, <2>8, RecordKept
<1>3. CASE SetLimits
  <2>1. PICK l \in LimitChoices :
          LET tiers == <<EvictHot(hot, l, clock), EvictWarm(warm, l, clock), EvictKeyframes(keyframes, l, clock)>>
          IN  /\ limits' = l
              /\ Keep(tiers, newest, StripOldest(tiers, pictured, l))
              /\ UNCHANGED <<clock, recorded, lastMaterialized>>
    BY <1>3 DEF SetLimits
  <2> QED
    BY <2>1, ShrinkKept
<1>4. CASE Query
  <2>1. Keep(<<EvictHot(hot, limits, clock), EvictWarm(warm, limits, clock), EvictKeyframes(keyframes, limits, clock)>>,
             newest, pictured)
    BY <1>4 DEF Query, Fresh
  <2>2. UNCHANGED <<clock, limits, recorded, lastMaterialized>>
    BY <1>4 DEF Query
  <2> QED
    BY <1>0, <2>1, <2>2, ShrinkKept
<1>5. CASE Clear
  <2>1. /\ hot' = <<>> /\ warm' = <<>> /\ keyframes' = <<>> /\ newest' = NoSample /\ pictured' = {}
        /\ recorded = MaxRecorded /\ UNCHANGED <<clock, limits, recorded, lastMaterialized>>
    BY <1>5 DEF Clear, Keep
  <2>2. <<>> \in Seq(Samples) /\ Elements(<<>>) = {} /\ LateOrdered(<<>>)
    BY DEF Elements, LateOrdered
  <2>3. MemoryTypeOK'
    BY <1>0, <2>1, <2>2 DEF MemoryTypeOK
  <2>4. Tiers'
    BY <2>1, <2>2 DEF Tiers, Tier
  <2>5. WithPixels(hot' \o warm' \o keyframes', pictured') = {}
    BY <2>1 DEF WithPixels
  <2>6. FramesWithinBudget'
    BY <1>0, <2>1, <2>5, NothingFits DEF FramesWithinBudget
  <2>7. OneEachNumber(Elements(hot') \union Elements(warm') \union Elements(keyframes'))
    BY <2>1, <2>2 DEF OneEachNumber
  <2>8. ~(recorded' \in 1..(MaxRecorded - 1))
    BY <1>0, <2>1
  <2> QED
    BY <2>3, <2>4, <2>6, <2>7, <2>8 DEF MemoryKept, OneEachNumber, Elements
<1>6. CASE TimePasses
  <2>1. /\ clock' \in 0..MaxTime /\ clock' >= clock
        /\ UNCHANGED <<limits, hot, warm, keyframes, newest, pictured, recorded, lastMaterialized>>
    BY <1>0, <1>6 DEF TimePasses
  <2>2. Tiers'
    <3>1. ASSUME NEW seq, Tier(seq, clock, recorded) PROVE Tier(seq, clock', recorded)
      <4>1. \A s \in Elements(seq) : s.at <= clock => s.at <= clock'
        <5>1. \A s \in Elements(seq) : s.at \in Int
          BY <3>1, ElementsFinite, MemoryNumbers DEF Tier
        <5> QED
          BY <1>0, <2>1, <5>1
      <4> QED
        BY <3>1, <4>1 DEF Tier
    <3>2. Tier(hot, clock', recorded) /\ Tier(warm, clock', recorded) /\ Tier(keyframes, clock', recorded)
      BY <3>1 DEF MemoryKept, Tiers
    <3> QED
      BY <2>1, <3>2 DEF Tiers
  <2>3. MemoryTypeOK'
    BY <2>1 DEF MemoryKept, MemoryTypeOK
  <2>4. FramesWithinBudget'
    BY <2>1 DEF MemoryKept, FramesWithinBudget
  <2>5. OneEachNumber(Elements(hot') \union Elements(warm') \union Elements(keyframes'))
    BY <2>1 DEF MemoryKept
  <2> QED
    BY <2>1, <2>2, <2>3, <2>4, <2>5 DEF MemoryKept, OneEachNumber, Elements
<1>7. CASE UNCHANGED memoryVars
  BY <1>7 DEF memoryVars, MemoryKept, MemoryTypeOK, Tiers, FramesWithinBudget, OneEachNumber, Elements
<1> QED
  BY <1>1, <1>2, <1>3, <1>4, <1>5, <1>6, <1>7 DEF MemoryNext

LEMMA MemoryIsKept == MemorySpec => []MemoryKept
<1>1. MemoryInit => MemoryKept
  BY MemoryStarts
<1>2. MemoryKept /\ [MemoryNext]_memoryVars => MemoryKept'
  BY MemoryStep
<1> QED
  BY <1>1, <1>2, PTL DEF MemorySpec

\* What a query reads is in a tier that has just been rid of what was too old.
LEMMA QueryReads ==
  ASSUME MemoryKept, NEW since, NEW minScore
  PROVE  /\ QueryResult(since, minScore) \in Seq(Samples)
         /\ \A s \in Elements(QueryResult(since, minScore)) :
              \/ s.at >= clock - HotAge - MaxLag
              \/ s.at >= clock - limits.maxAge - MaxLag
<1> DEFINE a == EvictHot(hot, limits, clock)
           b == EvictWarm(warm, limits, clock)
           c == EvictKeyframes(keyframes, limits, clock)
           all == a \o b \o c
           matched == {i \in Distinct(all) : all[i].at >= since /\ all[i].at <= clock /\ all[i].score >= minScore}
           order == Sorted(matched, Ages(all))
           result == [k \in DOMAIN order |-> all[order[k]]]
<1>1. QueryResult(since, minScore) = result
  BY DEF QueryResult, Fresh
<1>2. /\ limits.hotMax \in Nat /\ limits.maxSamples \in Nat /\ limits.maxFrames * 4 \in Nat
      /\ HotAge \in Nat /\ limits.maxAge \in Nat
  <2>1. limits \in LimitChoices
    BY DEF MemoryKept, MemoryTypeOK
  <2> QED
    BY <2>1, MemoryNumbers
<1>3. /\ a = Evict(hot, clock, limits.hotMax, HotAge)
      /\ b = Evict(warm, clock, limits.maxSamples, limits.maxAge)
      /\ c = Evict(keyframes, clock, limits.maxFrames * 4, limits.maxAge)
  BY DEF EvictHot, EvictWarm, EvictKeyframes
<1> HIDE DEF a, b, c
<1>4. a \in Seq(Samples) /\ \A s \in Elements(a) : s.at >= clock - HotAge - MaxLag
  BY <1>2, <1>3, TierShrinks DEF MemoryKept, Tiers
<1>5. b \in Seq(Samples) /\ \A s \in Elements(b) : s.at >= clock - limits.maxAge - MaxLag
  BY <1>2, <1>3, TierShrinks DEF MemoryKept, Tiers
<1>6. c \in Seq(Samples) /\ \A s \in Elements(c) : s.at >= clock - limits.maxAge - MaxLag
  BY <1>2, <1>3, TierShrinks DEF MemoryKept, Tiers
<1>7. all \in Seq(Samples) /\ Elements(all) = Elements(a) \union Elements(b) \union Elements(c)
  BY <1>4, <1>5, <1>6, ElementsOfThree
<1> HIDE DEF all
<1>8. /\ matched \in SUBSET Int /\ IsFiniteSet(matched) /\ matched \subseteq DOMAIN all
      /\ \A i \in matched : Ages(all)[i] \in Int
  <2>1. matched \in SUBSET DOMAIN all
    BY <1>7, PlacesFinite
  <2>2. IsFiniteSet(matched)
    BY <1>7, <2>1, PlacesFinite, FS_Subset
  <2> HIDE DEF matched
  <2> QED
    BY <1>7, <2>1, <2>2, PlacesFinite
<1> HIDE DEF matched
<1>9. /\ Cardinality(matched) \in Nat /\ DOMAIN order = 1 .. Cardinality(matched)
      /\ \A k \in 1 .. Cardinality(matched) : order[k] \in matched
  BY <1>8, SortedInPlaces
<1> HIDE DEF order
<1>10. \A k \in 1 .. Cardinality(matched) : all[order[k]] \in Samples /\ all[order[k]] \in Elements(all)
  BY <1>7, <1>8, <1>9, PlacesFinite DEF Elements
<1>11. result \in Seq(Samples)
  BY <1>9, <1>10
<1>12. Elements(result) \subseteq Elements(all)
  BY <1>9, <1>10 DEF Elements
<1> HIDE DEF result
<1> QED
  BY <1>1, <1>4, <1>5, <1>6, <1>7, <1>11, <1>12

\* The perception engine's memory (eyes/visualHistory.ts), for any limits a user may choose and
\* change and any frames and events: all tiers together never hold more pictures or bytes than
\* the limits in force allow.
THEOREM BudgetHolds == MemorySpec => []FramesWithinBudget
<1>1. MemoryKept => FramesWithinBudget
  BY DEF MemoryKept
<1> QED
  BY <1>1, MemoryIsKept, PTL

\* A query of it answers nothing older than the user's window or the age of the hot tier.
THEOREM NothingTooOld == MemorySpec => []RetentionWindow
<1>1. MemoryKept => RetentionWindow
  <2> SUFFICES ASSUME MemoryKept, NEW s \in Elements(QueryResult(-MaxLag, 0))
               PROVE  s.at >= clock - MaxLag - (IF limits.maxAge > HotAge THEN limits.maxAge ELSE HotAge)
    BY DEF RetentionWindow
  <2>1. \/ s.at >= clock - HotAge - MaxLag
        \/ s.at >= clock - limits.maxAge - MaxLag
    BY QueryReads
  <2>2. clock \in Int /\ limits \in LimitChoices
    BY MemoryNumbers DEF MemoryKept, MemoryTypeOK
  <2>3. s.at \in Int
    BY QueryReads, ElementsFinite, MemoryNumbers
  <2> QED
    BY <2>1, <2>2, <2>3, MemoryNumbers
<1> QED
  BY <1>1, MemoryIsKept, PTL

LEMMA RankIsNumber == ASSUME NEW s \in Samples PROVE Rank(s) \in 0 .. 150
<1>1. s.score \in 0..10
  BY MemoryNumbers
<1> QED
  BY <1>1 DEF Rank

LEMMA RanksAreNumbers ==
  ASSUME NEW pool \in Seq(Samples)
  PROVE  \A i \in DOMAIN pool : Rank(pool[i]) \in 0 .. 150
<1> SUFFICES ASSUME NEW i \in DOMAIN pool PROVE Rank(pool[i]) \in 0 .. 150
  OBVIOUS
<1>1. pool[i] \in Samples
  OBVIOUS
<1> QED
  BY <1>1, RankIsNumber

\* Of some numbers with bounded values, the first one with the highest.
LEMMA FirstHighest ==
  ASSUME NEW D \in SUBSET Nat, D # {}, NEW r \in [D -> 0 .. 150]
  PROVE  \E i \in D : \A j \in D : r[j] < r[i] \/ (r[j] = r[i] /\ j >= i)
<1> DEFINE below == {150 - r[i] : i \in D}
<1>0. \A i \in D : r[i] \in 0 .. 150 /\ 150 - r[i] \in Nat
  <2> SUFFICES ASSUME NEW i \in D PROVE r[i] \in 0 .. 150 /\ 150 - r[i] \in Nat
    OBVIOUS
  <2>1. r[i] \in 0 .. 150
    OBVIOUS
  <2>2. \A n \in 0 .. 150 : 150 - n \in Nat
    OBVIOUS
  <2> QED
    BY <2>1, <2>2
<1>1. below \in SUBSET Nat /\ below # {}
  <2>1. \A x \in below : x \in Nat
    BY <1>0
  <2>2. PICK i \in D : TRUE
    OBVIOUS
  <2>3. 150 - r[i] \in below
    BY <2>2
  <2> HIDE DEF below
  <2> QED
    BY <2>1, <2>3
<1>2. \E x \in below : \A y \in below : x <= y
  <2> HIDE DEF below
  <2> QED
    BY <1>1, LeastNatural
<1>3. PICK h \in D : \A j \in D : 150 - r[h] <= 150 - r[j]
  BY <1>2
<1>4. ASSUME NEW j \in D PROVE r[j] <= r[h]
  <2>1. r[j] \in 0 .. 150 /\ r[h] \in 0 .. 150 /\ 150 - r[h] <= 150 - r[j]
    BY <1>0, <1>3
  <2>2. \A m, n \in 0 .. 150 : 150 - n <= 150 - m => m <= n
    OBVIOUS
  <2> QED
    BY <2>1, <2>2
<1> DEFINE top == {i \in D : r[i] = r[h]}
<1>5. \E i \in top : \A j \in top : i <= j
  <2>1. top \in SUBSET Nat /\ top # {}
    OBVIOUS
  <2> HIDE DEF top
  <2> QED
    BY <2>1, LeastNatural
<1>6. PICK i \in D : r[i] = r[h] /\ \A j \in D : r[j] = r[h] => i <= j
  BY <1>5
<1> HIDE DEF below, top
<1>7. ASSUME NEW j \in D
      PROVE  r[j] < r[i] \/ (r[j] = r[i] /\ j >= i)
  <2>1. r[j] \in 0 .. 150 /\ r[i] \in 0 .. 150 /\ r[j] <= r[i]
    BY <1>0, <1>4, <1>6
  <2>2. j \in Nat /\ i \in Nat /\ (r[j] = r[i] => i <= j)
    BY <1>6
  <2>3. \A m, n \in 0 .. 150 : m <= n => m < n \/ m = n
    OBVIOUS
  <2>4. \A m, n \in Nat : m <= n => n >= m
    OBVIOUS
  <2> QED
    BY <2>1, <2>2, <2>3, <2>4
<1> QED
  BY <1>7

\* The first of the samples nothing outranks.
IsPeak(pool, i) ==
  \A j \in DOMAIN pool : Rank(pool[j]) < Rank(pool[i]) \/ (Rank(pool[j]) = Rank(pool[i]) /\ j >= i)

LEMMA PeakExists ==
  ASSUME NEW pool \in Seq(Samples), pool # <<>>
  PROVE  \E i \in DOMAIN pool : IsPeak(pool, i)
<1> DEFINE D == DOMAIN pool
           r == [i \in D |-> Rank(pool[i])]
<1>1. D \in SUBSET Nat /\ D # {}
  OBVIOUS
<1>2. r \in [D -> 0 .. 150]
  BY RanksAreNumbers
<1>3. \A i \in D : r[i] = Rank(pool[i])
  OBVIOUS
<1> HIDE DEF D, r
<1>4. \E i \in D : \A j \in D : r[j] < r[i] \/ (r[j] = r[i] /\ j >= i)
  BY <1>1, <1>2, FirstHighest
<1> QED
  BY <1>3, <1>4 DEF IsPeak, D

LEMMA PeakIsTop ==
  ASSUME NEW pool \in Seq(Samples), NEW i \in DOMAIN pool, IsPeak(pool, i)
  PROVE  \A j \in DOMAIN pool : Rank(pool[j]) <= Rank(pool[i])
<1>1. \A j \in DOMAIN pool : Rank(pool[j]) \in 0 .. 150
  BY RanksAreNumbers
<1>2. ASSUME NEW a \in 0 .. 150, NEW b \in 0 .. 150, a < b \/ a = b PROVE a <= b
  BY <1>2
<1> QED
  BY <1>1, <1>2 DEF IsPeak

LEMMA RankKeys ==
  ASSUME NEW pool \in Seq(Samples)
  PROVE  \A i \in DOMAIN pool : [k \in DOMAIN pool |-> -Rank(pool[k])][i] \in Int
<1>1. \A i \in DOMAIN pool : Rank(pool[i]) \in 0 .. 150
  BY RanksAreNumbers
<1>2. \A n \in 0 .. 150 : -n \in Int
  OBVIOUS
<1> QED
  BY <1>1, <1>2

\* The peak and what was before it are claimed first, and no more than there is room for.
LEMMA FirstPicked ==
  ASSUME NEW pool \in Seq(Samples), pool # <<>>, NEW max \in Nat \ {0},
         NEW peak, peak = CHOOSE i \in DOMAIN pool : IsPeak(pool, i)
  PROVE  LET picks == FirstPicks(pool, max, TRUE)
         IN  /\ peak \in DOMAIN pool /\ IsPeak(pool, peak)
             /\ IsFiniteSet(picks) /\ Cardinality(picks) <= max
             /\ pool[peak] \in picks
             /\ peak > 1 /\ max > 1 => pool[peak - 1] \in picks
<1> DEFINE before == IF peak > 1 /\ max > 1 THEN {pool[peak - 1]} ELSE {}
           pairPicks == {pool[peak]} \union before
           picks == IF Cardinality(pairPicks) < max THEN pairPicks \union {pool[Len(pool)]} ELSE pairPicks
<1>1. peak \in DOMAIN pool /\ IsPeak(pool, peak)
  BY PeakExists
<1>2. FirstPicks(pool, max, TRUE) = picks
  BY Zenon DEF FirstPicks, IsPeak
<1>3. IsFiniteSet(pairPicks) /\ Cardinality(pairPicks) \in Nat /\ Cardinality(pairPicks) <= max
  <2>1. IsFiniteSet({pool[peak]}) /\ Cardinality({pool[peak]}) = 1
    BY FS_Singleton
  <2>2. CASE peak > 1 /\ max > 1
    <3>1. pairPicks = {pool[peak]} \union {pool[peak - 1]}
      BY <2>2
    <3>2. IsFiniteSet({pool[peak]} \union {pool[peak - 1]}) /\ Cardinality({pool[peak]} \union {pool[peak - 1]}) \in {1, 2}
      <4> DEFINE one == {pool[peak]}
      <4> HIDE DEF one
      <4>1. /\ IsFiniteSet(one \union {pool[peak - 1]})
            /\ Cardinality(one \union {pool[peak - 1]}) = IF pool[peak - 1] \in one THEN Cardinality(one) ELSE Cardinality(one) + 1
        <5>1. IsFiniteSet(one)
          BY <2>1 DEF one
        <5> QED
          BY <5>1, FS_AddElement
      <4> QED
        BY <2>1, <4>1 DEF one
    <3> HIDE DEF pairPicks
    <3> QED
      BY <2>2, <3>1, <3>2
  <2>3. CASE ~(peak > 1 /\ max > 1)
    <3>1. pairPicks = {pool[peak]}
      BY <2>3
    <3> HIDE DEF pairPicks
    <3> QED
      BY <2>1, <3>1
  <2> QED
    BY <2>2, <2>3
<1>4. IsFiniteSet(picks) /\ Cardinality(picks) <= max
  <2> HIDE DEF pairPicks
  <2>1. CASE Cardinality(pairPicks) < max
    <3>1. IsFiniteSet(pairPicks \union {pool[Len(pool)]})
          /\ Cardinality(pairPicks \union {pool[Len(pool)]}) \in {Cardinality(pairPicks), Cardinality(pairPicks) + 1}
      BY <1>3, FS_AddElement
    <3> QED
      BY <1>3, <2>1, <3>1
  <2> QED
    BY <1>3, <2>1
<1>5. pool[peak] \in picks /\ (peak > 1 /\ max > 1 => pool[peak - 1] \in picks)
  <2>1. pool[peak] \in pairPicks /\ (peak > 1 /\ max > 1 => pool[peak - 1] \in pairPicks)
    <3>1. \A x, y : x \in {x} \union y
      OBVIOUS
    <3>2. peak > 1 /\ max > 1 => before = {pool[peak - 1]}
      OBVIOUS
    <3>3. before = {pool[peak - 1]} => pool[peak - 1] \in {pool[peak]} \union before
      BY Zenon
    <3> HIDE DEF before
    <3> QED
      BY <3>1, <3>2, <3>3, Zenon
  <2> HIDE DEF pairPicks
  <2> QED
    BY <2>1
<1> HIDE DEF picks
<1> QED
  BY <1>1, <1>2, <1>4, <1>5

\* What is chosen after them is added, while there is room.
LEMMA PickedOn ==
  ASSUME NEW pool \in Seq(Samples), NEW max \in Nat, NEW picks, IsFiniteSet(picks),
         Cardinality(picks) <= max, NEW rest \in Seq(DOMAIN pool)
  PROVE  picks \subseteq PickMore(pool, max, picks, rest) /\ Cardinality(PickMore(pool, max, picks, rest)) <= max
<1> DEFINE N == Len(rest)
           more(got, k) == WithRoom(got, pool[rest[k]], max)
           Rec(f) == [k \in 0 .. N |-> IF k = 0 THEN picks ELSE more(f[k - 1], k)]
           picked == CHOOSE f : f = Rec(f)
           S == {got \in SUBSET (picks \union Samples) :
                   picks \subseteq got /\ IsFiniteSet(got) /\ Cardinality(got) <= max}
           step == [k \in Nat |-> [got \in S |-> IF k \in 1 .. N THEN more(got, k) ELSE got]]
<1>1. PickMore(pool, max, picks, rest) = picked[N]
  BY Zenon DEF PickMore
<1>2. N \in Nat /\ \A k \in 1 .. N : pool[rest[k]] \in Samples
  OBVIOUS
<1>3. ASSUME NEW got \in S, NEW k \in 1 .. N
      PROVE  more(got, k) \in S
  <2> DEFINE s == pool[rest[k]]
  <2>1. s \in Samples
    BY <1>2
  <2> HIDE DEF s
  <2>2. CASE ~(Cardinality(got) >= max)
    <3>1. Cardinality(got) \in Nat
      BY FS_CardinalityType
    <3>2. IsFiniteSet(got \union {s})
          /\ Cardinality(got \union {s}) \in {Cardinality(got), Cardinality(got) + 1}
      BY FS_AddElement
    <3>3. Cardinality(got \union {s}) <= max
      BY <2>2, <3>1, <3>2
    <3>4. got \union {s} \in S
      BY <2>1, <3>2, <3>3
    <3> HIDE DEF S
    <3> QED
      BY <3>4 DEF WithRoom, s
  <2>3. CASE Cardinality(got) >= max
    BY <2>3 DEF WithRoom
  <2> QED
    BY <2>2, <2>3
<1>4. picks \in S
  OBVIOUS
<1> HIDE DEF S, N, more
<1>5. step \in [Nat -> [S -> S]]
  BY <1>3
<1>6. PICK f : Recursion(S, f, picks, step, N)
  <2> HIDE DEF step
  <2> QED
    BY <1>2, <1>4, <1>5, RecursionExists DEF N
<1>7. f \in [0 .. N -> S]
  BY <1>6 DEF Recursion
<1>8. ASSUME NEW k \in 0 .. N
      PROVE  f[k] = IF k = 0 THEN picks ELSE more(f[k - 1], k)
  <2>0. N \in Nat
    BY <1>2 DEF N
  <2>1. CASE k = 0
    BY <1>6, <2>1 DEF Recursion
  <2>2. CASE k # 0
    <3>1. k \in Nat /\ k \in 1 .. N /\ k - 1 \in 0 .. N
      BY <2>0, <2>2
    <3>2. f[k - 1] \in S
      BY <1>7, <3>1
    <3>3. step[k][f[k - 1]] = more(f[k - 1], k)
      BY <3>1, <3>2
    <3>4. f[k] = step[k][f[k - 1]]
      BY <1>6, <2>2 DEF Recursion
    <3> QED
      BY <2>2, <3>3, <3>4
  <2> QED
    BY <2>1, <2>2
<1>9. f = Rec(f)
  BY <1>7, <1>8
<1>10. picked = Rec(picked)
  <2> HIDE DEF Rec
  <2> QED
    BY <1>9, Zenon
<1>11. \A k \in 0 .. N : picked[k] = IF k = 0 THEN picks ELSE more(picked[k - 1], k)
  <2> HIDE DEF picked
  <2> QED
    BY <1>10
<1> HIDE DEF picked, step
<1> DEFINE T == {k \in Nat : k \in 0 .. N => picked[k] \in S}
<1>12. N \in Nat
  BY <1>2 DEF N
<1>13. 0 \in T
  <2>1. 0 \in 0 .. N
    BY <1>12
  <2> QED
    BY <1>4, <1>11, <2>1
<1>14. ASSUME NEW k \in Nat, k \in T
       PROVE  k + 1 \in T
  <2> SUFFICES ASSUME k + 1 \in 0 .. N PROVE picked[k + 1] \in S
    OBVIOUS
  <2>1. k \in 0 .. N /\ picked[k] \in S /\ k + 1 # 0 /\ (k + 1) - 1 = k /\ k + 1 \in 1 .. N
    BY <1>12, <1>14
  <2>2. picked[k + 1] = more(picked[k], k + 1)
    BY <1>11, <2>1
  <2> QED
    BY <1>3, <2>1, <2>2
<1> HIDE DEF T
<1>15. N \in T
  BY <1>12, <1>13, <1>14, SetInduction
<1>16. picked[N] \in S
  BY <1>12, <1>15 DEF T
<1> QED
  BY <1>1, <1>16 DEF S

LEMMA SortedIsSequence ==
  ASSUME NEW places \in SUBSET Int, IsFiniteSet(places), NEW key, \A i \in places : key[i] \in Int
  PROVE  Sorted(places, key) \in Seq(places)
<1> DEFINE n == Cardinality(places)
           at(k) == CHOOSE i \in places : Cardinality({j \in places : Before(key, j, i)}) = k - 1
<1>1. n \in Nat /\ \A k \in 1 .. n : Sorted(places, key)[k] \in places
  BY SortedInPlaces
<1>2. Sorted(places, key) = [k \in 1 .. n |-> at(k)]
  BY Zenon DEF Sorted
<1> HIDE DEF n, at
<1>3. \A k \in 1 .. n : at(k) \in places
  BY <1>1, <1>2
<1> QED
  BY <1>1, <1>2, <1>3

\* buildVisualContext, for any pool and any room for at least one sample.
LEMMA ShowsThePeak ==
  ASSUME NEW pool \in Seq(Samples), pool # <<>>, NEW max \in Nat \ {0}
  PROVE  LET shown == SelectSamples(pool, max, TRUE)
         IN  /\ Cardinality(shown) <= max
             /\ \E i \in DOMAIN pool :
                  /\ \A j \in DOMAIN pool : Rank(pool[j]) <= Rank(pool[i])
                  /\ pool[i] \in shown
                  /\ i > 1 /\ max > 1 => pool[i - 1] \in shown
<1> DEFINE peak == CHOOSE i \in DOMAIN pool : IsPeak(pool, i)
           picks == FirstPicks(pool, max, TRUE)
           shown == SelectSamples(pool, max, TRUE)
<1>1. /\ peak \in DOMAIN pool /\ IsPeak(pool, peak)
      /\ IsFiniteSet(picks) /\ Cardinality(picks) <= max
      /\ pool[peak] \in picks
      /\ peak > 1 /\ max > 1 => pool[peak - 1] \in picks
  BY FirstPicked
<1> HIDE DEF peak
<1>2. \A j \in DOMAIN pool : Rank(pool[j]) <= Rank(pool[peak])
  BY <1>1, PeakIsTop
<1>3. Len(pool) \in Nat /\ DOMAIN pool = 1 .. Len(pool)
  OBVIOUS
<1> HIDE DEF picks
<1>4. CASE Len(pool) <= max
  <2>1. shown = Elements(pool)
    BY <1>4 DEF SelectSamples
  <2>2. IsFiniteSet(Elements(pool)) /\ Cardinality(Elements(pool)) <= Len(pool)
    BY ElementsFinite
  <2>3. Cardinality(Elements(pool)) \in Nat
    BY <2>2, FS_CardinalityType
  <2> HIDE DEF shown
  <2>4. Cardinality(shown) <= max
    BY <1>3, <1>4, <2>1, <2>2, <2>3
  <2>5. \A i \in DOMAIN pool : pool[i] \in shown
    BY <2>1 DEF Elements
  <2>6. peak > 1 => peak - 1 \in DOMAIN pool
    BY <1>1, <1>3
  <2> QED
    BY <1>1, <1>2, <2>4, <2>5, <2>6 DEF shown
<1>5. CASE ~(Len(pool) <= max)
  <2> DEFINE left == {i \in DOMAIN pool : pool[i] \notin picks}
             key == [i \in DOMAIN pool |-> -Rank(pool[i])]
             rest == Sorted(left, key)
  <2>1. shown = PickMore(pool, max, picks, rest)
    BY <1>5 DEF SelectSamples, picks
  <2>2. left \in SUBSET Int /\ IsFiniteSet(left) /\ left \subseteq DOMAIN pool
    <3>1. left \in SUBSET DOMAIN pool /\ IsFiniteSet(DOMAIN pool)
      BY PlacesFinite
    <3> HIDE DEF left
    <3>2. IsFiniteSet(left)
      BY <3>1, FS_Subset
    <3> QED
      BY <1>3, <3>1, <3>2
  <2>3. \A i \in DOMAIN pool : key[i] \in Int
    BY RankKeys
  <2> HIDE DEF left, key
  <2>4. /\ Cardinality(left) \in Nat
        /\ \A k \in 1 .. Cardinality(left) : rest[k] \in left
    BY <2>2, <2>3, SortedInPlaces
  <2>5. rest \in Seq(left)
    BY <2>2, <2>3, SortedIsSequence
  <2> HIDE DEF rest
  <2>6. rest \in Seq(DOMAIN pool)
    <3>1. \A S, T : S \subseteq T => Seq(S) \subseteq Seq(T)
      OBVIOUS
    <3>2. left \subseteq DOMAIN pool
      BY <2>2
    <3> QED
      BY <2>5, <3>1, <3>2, Zenon
  <2> HIDE DEF shown
  <2>7. picks \subseteq shown /\ Cardinality(shown) <= max
    BY <1>1, <2>1, <2>6, PickedOn
  <2> QED
    BY <1>1, <1>2, <2>7 DEF shown
<1> QED
  BY <1>4, <1>5

\* buildVisualContext, after any behaviour of the memory: a context about changes shows a
\* sample nothing outranks and, with room for two, the one before it; never more than was
\* asked for; and something while anything is remembered.
THEOREM ChangeIsShown == MemorySpec => []ContextShowsTheChange
<1>1. MemoryKept => ContextShowsTheChange
  <2> SUFFICES ASSUME MemoryKept, NEW minScore \in {0, 4},
                      NEW pool, pool = ContextPool(clock - 4, minScore)
               PROVE  /\ recorded \in 1..(MaxRecorded - 1) => pool # <<>>
                      /\ pool # <<>> => \A max \in 1..3 :
                           LET shown == SelectSamples(pool, max, TRUE)
                           IN  /\ Cardinality(shown) <= max
                               /\ \E i \in {k \in DOMAIN pool : \A j \in DOMAIN pool : Rank(pool[j]) <= Rank(pool[k])} :
                                    /\ pool[i] \in shown
                                    /\ i > 1 /\ max > 1 => pool[i - 1] \in shown
    BY DEF ContextShowsTheChange
  <2>1. pool \in Seq(Samples)
    <3>1. QueryResult(clock - 4, minScore) \in Seq(Samples)
      BY QueryReads
    <3>2. newest \in Samples \union {NoSample}
      BY DEF MemoryKept, MemoryTypeOK
    <3>3. newest \in Samples => <<newest>> \in Seq(Samples)
      OBVIOUS
    <3> QED
      BY <3>1, <3>2, <3>3 DEF ContextPool
  <2>2. recorded \in 1..(MaxRecorded - 1) => pool # <<>>
    <3>1. recorded \in 1..(MaxRecorded - 1) => newest # NoSample
      BY DEF MemoryKept
    <3>2. <<newest>> # <<>>
      OBVIOUS
    <3> QED
      BY <3>1, <3>2 DEF ContextPool
  <2> SUFFICES ASSUME pool # <<>>, NEW max \in 1..3
               PROVE  LET shown == SelectSamples(pool, max, TRUE)
                      IN  /\ Cardinality(shown) <= max
                          /\ \E i \in {k \in DOMAIN pool : \A j \in DOMAIN pool : Rank(pool[j]) <= Rank(pool[k])} :
                               /\ pool[i] \in shown
                               /\ i > 1 /\ max > 1 => pool[i - 1] \in shown
    BY <2>2
  <2>3. max \in Nat \ {0}
    OBVIOUS
  <2> QED
    BY <2>1, <2>3, ShowsThePeak
<1> QED
  BY <1>1, MemoryIsKept, PTL
=============================================================================
