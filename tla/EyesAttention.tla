---------------------------- MODULE EyesAttention ----------------------------
(***************************************************************************)
(* How a perception engine follows the desktop's foreground window:        *)
(* Windows queues its hook callbacks, eyesWatcher.ps1 writes a line for    *)
(* each and says whether the window is in the foreground when the callback *)
(* runs, AttentionManager drops what repeats too soon, ingestEvent merges  *)
(* the rest, and start replaces all of it by one snapshot, for which the   *)
(* watcher looks at one window after the other, and each time at which of  *)
(* them is in the foreground.                                              *)
(***************************************************************************)
EXTENDS Integers, Sequences

CONSTANTS
  Windows, NoWindow,
  EventTypes, FocusChanged,
  ThrottleOf,   \* EventTypes -> ticks, the latency policy's factor included
  MaxChanges, MaxInstant  \* bounds

ASSUME AttentionAssumption ==
  /\ NoWindow \notin Windows /\ FocusChanged \in EventTypes
  /\ ThrottleOf \in [EventTypes -> Nat] /\ {MaxChanges, MaxInstant} \subseteq Nat

VARIABLES
  desktop,     \* the window in the foreground
  changes,     \* window events so far
  hooks,       \* callbacks Windows has queued in the watcher
  pipe,        \* lines of the watcher's stdout not yet read
  survey,      \* the watcher's list_windows: "asked", "listing", "written"
  remaining,   \* windows found and not yet looked at
  listed,      \* what the list says of each window, as `known`
  answer,      \* the first window it flags
  start,       \* "waiting" for the list, "answered" (its line is read, start not resumed), "done"
  known,       \* state.windows: window -> is it flagged as the foreground window
  foreground,  \* state.foregroundWindow
  primaryFocus,
  lastAcceptedAt,
  instant,
  torn,        \* history: the foreground changed while the windows were looked at, not yet applied
  overheard,   \* history: the foreground a line named between the answer's being read and applied
  missed       \* history: why the engine may be behind the desktop

watcherVars == <<survey, remaining, listed, answer>>
stateVars == <<known, foreground, primaryFocus, lastAcceptedAt, overheard, missed>>
attentionVars == <<desktop, changes, hooks, pipe, watcherVars, start, stateVars, instant, torn>>

Events == [type : EventTypes, window : Windows]
Lines == [type : EventTypes, window : Windows, isForeground : BOOLEAN]
Reasons == {"throttled", "overtaken", "failed", "torn", "unlisted"}
Flags == {"unknown", "known", "foreground"}
Never == -100
SnapshotLine == [type |-> "list_windows"]

AttentionTypeOK ==
  /\ desktop \in Windows /\ changes \in 0..MaxChanges
  /\ hooks \in Seq(Events) /\ pipe \in Seq(Lines \union {SnapshotLine})
  /\ survey \in {"asked", "listing", "written"} /\ remaining \subseteq Windows
  /\ start \in {"waiting", "answered", "done"} /\ torn \in BOOLEAN
  /\ {listed, known} \subseteq [Windows -> Flags] /\ {answer, overheard} \subseteq Windows \union {NoWindow}
  /\ {foreground, primaryFocus} \subseteq Windows \union {NoWindow}
  /\ lastAcceptedAt \in [EventTypes \X Windows -> {Never} \union 0..MaxInstant]
  /\ instant \in 0..MaxInstant /\ missed \subseteq Reasons

\* provider.start has returned and start, of a new engine, asks for the snapshot.
AttentionInit ==
  /\ desktop \in Windows /\ changes = 0 /\ hooks = <<>> /\ pipe = <<>>
  /\ survey = "asked" /\ remaining = {} /\ listed = [w \in Windows |-> "unknown"] /\ answer = NoWindow
  /\ start = "waiting" /\ torn = FALSE /\ overheard = NoWindow
  /\ known = [w \in Windows |-> "unknown"] /\ foreground = NoWindow /\ primaryFocus = NoWindow
  /\ lastAcceptedAt = [k \in EventTypes \X Windows |-> Never] /\ instant = 0 /\ missed = {}

-----------------------------------------------------------------------------
(* The desktop and the watcher *)

\* A window comes to the foreground, or is moved where it is.
DesktopChanges ==
  /\ changes < MaxChanges
  /\ \E e \in Events :
       /\ e.type = FocusChanged => e.window # desktop
       /\ desktop' = IF e.type = FocusChanged THEN e.window ELSE desktop
       /\ hooks' = Append(hooks, e)
       /\ torn' = (torn \/ (survey = "listing" /\ e.type = FocusChanged))
  /\ changes' = changes + 1
  /\ UNCHANGED <<pipe, watcherVars, start, stateVars, instant>>

\* The message loop runs a callback, or, while windows are looked at, a call of UI
\* Automation that waits may.
HookRuns ==
  /\ hooks # <<>>
  /\ LET e == Head(hooks)
     IN  pipe' = Append(pipe, [type |-> e.type, window |-> e.window, isForeground |-> e.window = desktop])
  /\ hooks' = Tail(hooks)
  /\ UNCHANGED <<desktop, changes, watcherVars, start, stateVars, instant, torn>>

\* Handle-Command list_windows: FindAll, of which what is visible is listed; a window that
\* is hidden, or no child of the root, is not.
ListingBegins ==
  /\ survey = "asked"
  /\ survey' = "listing" /\ remaining' \in SUBSET Windows
  /\ UNCHANGED <<desktop, changes, hooks, pipe, listed, answer, start, stateVars, instant, torn>>

\* Get-WindowSummary asks for the foreground window again for every window.
Lists(w) ==
  /\ survey = "listing" /\ w \in remaining
  /\ remaining' = remaining \ {w}
  /\ listed' = [listed EXCEPT ![w] = IF w = desktop THEN "foreground" ELSE "known"]
  /\ answer' = IF w = desktop /\ answer = NoWindow THEN w ELSE answer
  /\ UNCHANGED <<desktop, changes, hooks, pipe, survey, start, stateVars, instant, torn>>

ListingEnds ==
  /\ survey = "listing" /\ remaining = {}
  /\ survey' = "written" /\ pipe' = Append(pipe, SnapshotLine)
  /\ UNCHANGED <<desktop, changes, hooks, remaining, listed, answer, start, stateVars, instant, torn>>

-----------------------------------------------------------------------------
(* The engine *)

Throttled_AnyWindow(e) ==
  \E w \in Windows : instant - lastAcceptedAt[<<e.type, w>>] < ThrottleOf[e.type]

\* isThrottled: the same kind of event about the same window.
Throttled(e) == instant - lastAcceptedAt[<<e.type, e.window>>] < ThrottleOf[e.type]

\* upsertWindow
Upsert(e) ==
  [w \in Windows |->
     IF w = e.window THEN (IF e.isForeground THEN "foreground" ELSE "known")
     ELSE IF e.isForeground /\ known[w] = "foreground" THEN "known" ELSE known[w]]

\* evaluate accepts and ingestEvent merges.
Accept(e) ==
  /\ ~Throttled(e)
  /\ known' = Upsert(e)
  /\ foreground' = IF e.isForeground THEN e.window ELSE foreground
  /\ primaryFocus' = IF e.type = FocusChanged /\ e.window # foreground THEN e.window ELSE primaryFocus
  /\ lastAcceptedAt' = [lastAcceptedAt EXCEPT ![<<e.type, e.window>>] = instant]
  /\ missed' = IF e.isForeground THEN {} ELSE missed

\* A line that says where the foreground is, dropped because the same window's
\* last event of that type is too near, leaves the engine behind.
Drop(e) ==
  /\ Throttled(e)
  /\ missed' = IF e.isForeground /\ e.window # foreground
                  /\ instant - lastAcceptedAt[<<e.type, e.window>>] < ThrottleOf[e.type]
               THEN missed \union {"throttled"} ELSE missed
  /\ UNCHANGED <<known, foreground, primaryFocus, lastAcceptedAt>>

\* handleStdout, one line of a chunk.
ReadEvent ==
  /\ pipe # <<>> /\ Head(pipe) # SnapshotLine
  /\ Accept(Head(pipe)) \/ Drop(Head(pipe))
  /\ pipe' = Tail(pipe)
  /\ overheard' = IF start = "answered" /\ Head(pipe).isForeground THEN Head(pipe).window ELSE overheard
  /\ UNCHANGED <<desktop, changes, hooks, watcherVars, start, instant, torn>>

\* Nobody waits any more for an answer that comes after the time-out.
ReadSnapshot ==
  /\ pipe # <<>> /\ Head(pipe) = SnapshotLine
  /\ start' = IF start = "waiting" THEN "answered" ELSE start
  /\ pipe' = Tail(pipe)
  /\ UNCHANGED <<desktop, changes, hooks, watcherVars, stateVars, instant, torn>>

\* start goes on after its await: the list replaces the windows and the first it flags the
\* foreground, what lines of the answer's chunk said since included; and all else is, by the
\* spread before the await, what it was when start asked.
SnapshotApplies ==
  /\ start = "answered"
  /\ start' = "done"
  /\ known' = listed /\ foreground' = answer /\ primaryFocus' = NoWindow
  /\ missed' = {r \in Reasons : \/ (r = "torn" /\ torn)
                                 \/ (r = "unlisted" /\ answer = NoWindow)
                                 \/ (r = "overtaken" /\ overheard \notin {NoWindow, answer})}
  /\ torn' = FALSE /\ overheard' = NoWindow
  /\ UNCHANGED <<desktop, changes, hooks, pipe, watcherVars, lastAcceptedAt, instant>>

\* The catch of start, after an error or a time-out: the events are all there is.
SnapshotFails ==
  /\ start = "waiting"
  /\ start' = "done" /\ missed' = missed \union {"failed"}
  /\ UNCHANGED <<desktop, changes, hooks, pipe, watcherVars, known, foreground, primaryFocus, lastAcceptedAt,
                 instant, torn, overheard>>

InstantPasses ==
  /\ instant < MaxInstant /\ instant' = instant + 1
  /\ UNCHANGED <<desktop, changes, hooks, pipe, watcherVars, start, stateVars, torn>>

AttentionNext ==
  \/ DesktopChanges \/ HookRuns \/ ListingBegins \/ ListingEnds
  \/ \E w \in Windows : Lists(w)
  \/ ReadEvent \/ ReadSnapshot \/ SnapshotApplies \/ SnapshotFails
  \/ InstantPasses

AttentionSpec == AttentionInit /\ [][AttentionNext]_attentionVars

-----------------------------------------------------------------------------
(* Properties *)

\* VisualState is "a live, in-memory, event-updated structure": once every callback has run
\* and every line is read, the engine's foreground window is the desktop's, unless a line
\* dropped less than a throttle after its like left it behind, or the list that start applied:
\* there was none, it flags no window, the foreground changed while it was made, or it came
\* after newer lines.  One accepted line about the foreground mends all of these.  And windows
\* are flagged besides only by a list during which the foreground changed.
ForegroundFollows ==
  /\ "torn" \notin missed => \A w \in Windows : known[w] = "foreground" => w = foreground
  /\ start = "done" /\ hooks = <<>> /\ pipe = <<>> /\ missed = {} => foreground = desktop
=============================================================================
