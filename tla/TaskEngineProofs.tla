-------------------------- MODULE TaskEngineProofs --------------------------
(***************************************************************************)
(* Theorems about TaskEngine, for any number of tasks, schedules and call  *)
(* chains, any number of restarts and any clients the properties admit.    *)
(***************************************************************************)
EXTENDS TaskEngine, TLAPS

USE SetsAssumption

-----------------------------------------------------------------------------
(* How an actor moves *)

LEMMA IdleLocals == Idle \in Locals /\ Idle.task = NoTask /\ Idle.schedule = NoTask
  BY DEF Idle, Locals, TaskStatus

LEMMA GotoMoves ==
  ASSUME TypeOK, NEW a \in Actors, NEW from, NEW to \in PCs, Goto(a, from, to)
  PROVE  /\ pc[a] = from /\ pc'[a] = to /\ pc' \in [Actors -> PCs]
         /\ \A b \in Actors : b # a => pc'[b] = pc[b]
  BY DEF TypeOK, Goto

LEMMA DoneMoves ==
  ASSUME TypeOK, NEW a \in Actors, NEW from, Done(a, from)
  PROVE  /\ pc[a] = from /\ pc'[a] = "idle" /\ pc' \in [Actors -> PCs]
         /\ at'[a] = Idle /\ at' \in [Actors -> Locals]
         /\ \A b \in Actors : b # a => pc'[b] = pc[b] /\ at'[b] = at[b]
  BY GotoMoves, IdleLocals DEF Done, TypeOK, PCs

\* An actor that starts a transition holds its task, goal and continuations.
LEMMA TransitionMoves ==
  ASSUME TypeOK, NEW a \in Actors, NEW from, NEW t \in Tasks \union {NoTask},
         NEW goal \in TaskStatus, NEW next \in {"idle", "agent"}, NEW catch \in {"idle", "fail"},
         Transition(a, from, t, goal, next, catch)
  PROVE  /\ pc[a] = from /\ pc'[a] = "read" /\ pc' \in [Actors -> PCs]
         /\ at'[a].task = t /\ at'[a].goal = goal /\ at'[a].next = next
         /\ at'[a].catch = catch /\ at'[a].schedule = NoTask
         /\ at' \in [Actors -> Locals]
         /\ \A b \in Actors : b # a => pc'[b] = pc[b] /\ at'[b] = at[b]
<1> DEFINE l == [Idle EXCEPT !.task = t, !.goal = goal, !.next = next, !.catch = catch]
<1>1. /\ l.task = t /\ l.goal = goal /\ l.next = next /\ l.catch = catch /\ l.schedule = NoTask
      /\ l \in Locals
  BY DEF Idle, Locals
<1>2. Goto(a, from, "read") /\ at' = [at EXCEPT ![a] = l]
  BY DEF Transition
<1> HIDE DEF l
<1>3. /\ at'[a] = l /\ at' \in [Actors -> Locals]
      /\ \A b \in Actors : b # a => at'[b] = at[b]
  BY <1>1, <1>2 DEF TypeOK
<1> QED
  BY <1>1, <1>2, <1>3, GotoMoves DEF PCs

\* So does one that goes on with the task it has.
Again(a, from, goal, next, catch) == Transition(a, from, at[a].task, goal, next, catch)

LEMMA AgainMoves ==
  ASSUME TypeOK, NEW a \in Actors, NEW from,
         NEW goal \in TaskStatus, NEW next \in {"idle", "agent"}, NEW catch \in {"idle", "fail"},
         Again(a, from, goal, next, catch)
  PROVE  /\ pc[a] = from /\ pc'[a] = "read" /\ pc' \in [Actors -> PCs]
         /\ at'[a].task = at[a].task /\ at'[a].goal = goal /\ at'[a].next = next
         /\ at'[a].catch = catch /\ at'[a].schedule = NoTask
         /\ at' \in [Actors -> Locals]
         /\ \A b \in Actors : b # a => pc'[b] = pc[b] /\ at'[b] = at[b]
<1> DEFINE l == [Idle EXCEPT !.task = at[a].task, !.goal = goal, !.next = next, !.catch = catch]
<1>1. /\ l.task = at[a].task /\ l.goal = goal /\ l.next = next /\ l.catch = catch
      /\ l.schedule = NoTask /\ l \in Locals
  <2>1. at[a].task \in Tasks \union {NoTask}
    BY DEF TypeOK, Locals
  <2> QED
    BY <2>1 DEF Idle, Locals
<1>2. Goto(a, from, "read") /\ at' = [at EXCEPT ![a] = l]
  BY DEF Again, Transition
<1> HIDE DEF l
<1>3. /\ at'[a] = l /\ at' \in [Actors -> Locals]
      /\ \A b \in Actors : b # a => at'[b] = at[b]
  BY <1>1, <1>2 DEF TypeOK
<1> QED
  BY <1>1, <1>2, <1>3, GotoMoves DEF PCs

\* A transition that returns lets its actor go on, or ends it.
LEMMA ContinueMoves ==
  ASSUME TypeOK, NEW a \in Actors, NEW from, Continue(a, from)
  PROVE  /\ pc[a] = from /\ pc' \in [Actors -> PCs] /\ at' \in [Actors -> Locals]
         /\ \/ at[a].next = "agent" /\ pc'[a] = "agent" /\ at' = at
            \/ at[a].next = "idle" /\ pc'[a] = "idle" /\ at'[a] = Idle
         /\ \A b \in Actors : b # a => pc'[b] = pc[b] /\ at'[b] = at[b]
<1>1. at[a].next \in {"idle", "agent"} /\ at \in [Actors -> Locals]
  BY DEF TypeOK, Locals
<1>2. CASE at[a].next = "agent"
  <2>1. Goto(a, from, "agent") /\ at' = at
    BY <1>2 DEF Continue
  <2> QED
    BY <1>1, <1>2, <2>1, GotoMoves DEF PCs
<1>3. CASE at[a].next # "agent"
  <2>1. Done(a, from)
    BY <1>3 DEF Continue
  <2> QED
    BY <1>1, <1>3, <2>1, DoneMoves
<1> QED
  BY <1>2, <1>3

\* A request about a schedule, or a cron job, holds that schedule and no task.
LEMMA ScheduleMoves ==
  ASSUME TypeOK, NEW a \in Actors, NEW s \in Schedules, NEW to \in PCs,
         Goto(a, "idle", to), at' = [at EXCEPT ![a] = [Idle EXCEPT !.schedule = s]]
  PROVE  /\ pc[a] = "idle" /\ pc'[a] = to /\ pc' \in [Actors -> PCs]
         /\ at'[a].schedule = s /\ at'[a].task = NoTask /\ at' \in [Actors -> Locals]
         /\ \A b \in Actors : b # a => pc'[b] = pc[b] /\ at'[b] = at[b]
<1>1. /\ [Idle EXCEPT !.schedule = s] \in Locals
      /\ [Idle EXCEPT !.schedule = s].schedule = s
      /\ [Idle EXCEPT !.schedule = s].task = NoTask
  BY DEF Idle, Locals, TaskStatus
<1> QED
  BY <1>1, GotoMoves DEF TypeOK

\* So does the creation of a task with a plan hold its task.
LEMMA PlanMoves ==
  ASSUME TypeOK, NEW a \in Actors, NEW t \in Tasks,
         Goto(a, "idle", "plan"), at' = [at EXCEPT ![a] = [Idle EXCEPT !.task = t]]
  PROVE  /\ pc[a] = "idle" /\ pc'[a] = "plan" /\ pc' \in [Actors -> PCs]
         /\ at'[a].task = t /\ at'[a].schedule = NoTask /\ at' \in [Actors -> Locals]
         /\ \A b \in Actors : b # a => pc'[b] = pc[b] /\ at'[b] = at[b]
<1>1. /\ [Idle EXCEPT !.task = t] \in Locals
      /\ [Idle EXCEPT !.task = t].task = t
      /\ [Idle EXCEPT !.task = t].schedule = NoTask
  BY DEF Idle, Locals, TaskStatus
<1> QED
  BY <1>1, GotoMoves DEF TypeOK, PCs

\* A refused transition ends its actor or makes it try "failed".
LEMMA RefusedMoves ==
  ASSUME TypeOK, NEW a \in Actors, Refused(a)
  PROVE  /\ pc[a] = "read" /\ pc' \in [Actors -> PCs] /\ at' \in [Actors -> Locals]
         /\ \/ /\ at[a].catch = "fail" /\ pc'[a] = "read" /\ at'[a].task = at[a].task
               /\ at'[a].goal = "failed" /\ at'[a].next = "idle" /\ at'[a].catch = "idle"
               /\ at'[a].schedule = NoTask
            \/ at[a].catch = "idle" /\ pc'[a] = "idle" /\ at'[a] = Idle
         /\ \A b \in Actors : b # a => pc'[b] = pc[b] /\ at'[b] = at[b]
<1>1. at[a].catch \in {"idle", "fail"} /\ at[a].task \in Tasks \union {NoTask}
  BY DEF TypeOK, Locals
<1>2. CASE at[a].catch = "fail"
  <2>1. Again(a, "read", "failed", "idle", "idle")
    BY <1>2 DEF Refused, Again
  <2>2. "failed" \in TaskStatus
    BY DEF TaskStatus, Terminal
  <2> QED
    BY <1>1, <1>2, <2>1, <2>2, AgainMoves
<1>3. CASE at[a].catch # "fail"
  <2>1. Done(a, "read")
    BY <1>3 DEF Refused
  <2> QED
    BY <1>1, <1>3, <2>1, DoneMoves
<1> QED
  BY <1>2, <1>3

-----------------------------------------------------------------------------
(* Where an actor is and what it holds *)

HasTask(a) == at[a].task \in Tasks /\ at[a].schedule = NoTask
HasSchedule(a) == at[a].schedule \in Schedules /\ at[a].task = NoTask

\* What a transition is for: to begin a run, to cancel, to tell how a run ended.
WantsRun(a) ==
  at[a].goal = "running" /\ at[a].next = "agent" /\ at[a].catch = "idle" /\ a \in Runners
WantsCancel(a) == at[a].goal = "cancelled" /\ at[a].next = "idle" /\ at[a].catch = "idle"
Tells(a) == at[a].goal \in Outcomes /\ at[a].next = "idle" /\ a \in Runners

Transiting == {"read", "write"}
Scheduling == {"arm", "disarm", "disable"}

Place(a) ==
  \/ pc[a] = "idle" /\ at[a] = Idle
  \/ pc[a] \in Transiting /\ HasTask(a) /\ (WantsRun(a) \/ WantsCancel(a) \/ Tells(a))
  \/ pc[a] \in {"agent", "working"} /\ HasTask(a) /\ WantsRun(a)
  \/ pc[a] = "plan" /\ HasTask(a) /\ a \in Requests
  \/ pc[a] \in Scheduling /\ HasSchedule(a) /\ a \in Requests
  \/ pc[a] \in {"fireRead", "fireCreate"} /\ HasSchedule(a) /\ a \in Runners
Places == \A a \in Actors : Place(a)

LEMMA PlaceFacts ==
  ASSUME Places, NEW a \in Actors
  PROVE  /\ pc[a] = "idle" => at[a] = Idle
         /\ pc[a] \in Transiting => HasTask(a) /\ (WantsRun(a) \/ WantsCancel(a) \/ Tells(a))
         /\ pc[a] \in {"agent", "working"} => HasTask(a) /\ WantsRun(a)
         /\ pc[a] = "plan" => HasTask(a) /\ a \in Requests
         /\ pc[a] \in Scheduling => HasSchedule(a) /\ a \in Requests
         /\ pc[a] \in {"fireRead", "fireCreate"} => HasSchedule(a) /\ a \in Runners
         /\ at[a].task \in Tasks => pc[a] \in {"read", "write", "agent", "working", "plan"}
  BY IdleLocals DEF Places, Place, Transiting, Scheduling, HasSchedule

LEMMA OthersStay ==
  ASSUME Places, NEW a \in Actors, Place(a)',
         \A b \in Actors : b # a => pc'[b] = pc[b] /\ at'[b] = at[b]
  PROVE  Places'
<1> SUFFICES ASSUME NEW b \in Actors, b # a PROVE Place(b)'
  BY DEF Places
<1> QED
  BY DEF Places, Place, HasTask, HasSchedule, WantsRun, WantsCancel, Tells

-----------------------------------------------------------------------------
(* Type correctness *)

LEMMA TypeStep == TypeOK /\ Places /\ [Next]_vars => TypeOK'
<1> SUFFICES ASSUME TypeOK, Places, [Next]_vars PROVE TypeOK'
  OBVIOUS
<1>1. CASE UNCHANGED vars
  BY <1>1 DEF vars, rows, cancellation, environment, TypeOK
<1>2. CASE Crash
  BY <1>2, IdleLocals DEF Crash, TypeOK, rows, PCs
<1>3. ASSUME NEW a \in Actors, TransitionStep(a) PROVE TypeOK'
  <2>0. at[a] \in Locals /\ at[a].goal \in TaskStatus
    BY DEF TypeOK, Locals
  <2>1. CASE ReadStatus(a)
    <3>1. pc' \in [Actors -> PCs]
      BY <2>1, GotoMoves DEF ReadStatus, PCs
    <3> QED
      BY <2>1, <3>1 DEF ReadStatus, TypeOK, rows, cancellation, environment
  <2>2. CASE AlreadyThere(a)
    <3>1. pc' \in [Actors -> PCs] /\ at' \in [Actors -> Locals]
      BY <2>2, ContinueMoves DEF AlreadyThere
    <3> QED
      BY <2>2, <3>1 DEF AlreadyThere, TypeOK, rows, cancellation, environment
  <2>3. CASE WriteStatus(a)
    <3>1. pc' \in [Actors -> PCs] /\ at' \in [Actors -> Locals]
      BY <2>3, ContinueMoves DEF WriteStatus
    <3>2. status' \in [Tasks -> TaskStatus]
      BY <2>0, <2>3 DEF WriteStatus, TypeOK
    <3> QED
      BY <2>3, <3>1, <3>2 DEF WriteStatus, TypeOK, cancellation, environment
  <2>4. CASE Refused(a)
    <3>1. pc' \in [Actors -> PCs] /\ at' \in [Actors -> Locals]
      BY <2>4, RefusedMoves
    <3> QED
      BY <2>4, <3>1 DEF Refused, TypeOK, rows, cancellation, environment
  <2> QED
    BY <1>3, <2>1, <2>2, <2>3, <2>4 DEF TransitionStep
<1>4. ASSUME NEW a \in Runners, NEW t \in Tasks, Start(a, t) PROVE TypeOK'
  <2>1. pc' \in [Actors -> PCs] /\ at' \in [Actors -> Locals]
    BY <1>4, TransitionMoves DEF Start, Actors, TaskStatus
  <2> QED
    BY <1>4, <2>1 DEF Start, TypeOK, rows, cancellation, environment
<1>5. ASSUME NEW a \in Runners, NEW s \in Schedules, Fire(a, s) PROVE TypeOK'
  <2>1. pc' \in [Actors -> PCs] /\ at' \in [Actors -> Locals]
    BY <1>5, ScheduleMoves DEF Fire, Actors, PCs
  <2> QED
    BY <1>5, <2>1 DEF Fire, TypeOK, rows, cancellation, environment
<1>6. ASSUME NEW a \in Runners, NoProvider(a) \/ BeginRun(a) \/ FireRead(a) \/ FireDropped(a)
      PROVE  TypeOK'
  <2>1. pc' \in [Actors -> PCs] /\ at' \in [Actors -> Locals]
    <3>1. CASE NoProvider(a) \/ FireDropped(a)
      BY <3>1, DoneMoves DEF NoProvider, FireDropped, Actors
    <3>2. CASE BeginRun(a) \/ FireRead(a)
      BY <3>2, GotoMoves DEF BeginRun, FireRead, Actors, PCs, TypeOK
    <3> QED
      BY <1>6, <3>1, <3>2
  <2> QED
    BY <1>6, <2>1 DEF NoProvider, BeginRun, FireRead, FireDropped, TypeOK, rows, cancellation,
       environment
<1>7. ASSUME NEW a \in Runners, NEW result \in Outcomes, EndRun(a, result) PROVE TypeOK'
  <2>1. at[a].task \in Tasks \union {NoTask} /\ result \in TaskStatus
    BY DEF TypeOK, Locals, Actors, Outcomes, TaskStatus, Terminal
  <2>2. pc' \in [Actors -> PCs] /\ at' \in [Actors -> Locals]
    <3>1. Again(a, "working", result, "idle", "fail")
      BY <1>7 DEF EndRun, Again
    <3> QED
      BY <2>1, <3>1, AgainMoves DEF Actors
  <2>3. outcome' \in [Tasks -> {"none"} \union Outcomes]
    BY <1>7 DEF EndRun, TypeOK
  <2> QED
    BY <1>7, <2>2, <2>3 DEF EndRun, TypeOK, rows, environment
<1>8. ASSUME NEW a \in Runners, NEW t \in Tasks, FireCreate(a, t) PROVE TypeOK'
  <2>1. pc' \in [Actors -> PCs] /\ at' \in [Actors -> Locals]
    BY <1>8, TransitionMoves DEF FireCreate, Actors, TaskStatus
  <2> QED
    BY <1>8, <2>1 DEF FireCreate, TypeOK, TaskStatus, cancellation, environment
<1>9. ASSUME NEW a \in Requests, NEW t \in Tasks, Create(a, t) PROVE TypeOK'
  <2>1. pc' \in [Actors -> PCs] /\ at' \in [Actors -> Locals]
    BY <1>9, PlanMoves DEF Create, Actors, TypeOK
  <2> QED
    BY <1>9, <2>1 DEF Create, TypeOK, TaskStatus, cancellation, environment
<1>10. ASSUME NEW a \in Requests, NEW t \in Tasks, Cancel(a, t) PROVE TypeOK'
  <2>1. pc' \in [Actors -> PCs] /\ at' \in [Actors -> Locals]
    BY <1>10, TransitionMoves DEF Cancel, Actors, TaskStatus, Terminal
  <2> QED
    BY <1>10, <2>1 DEF Cancel, AbortById, TypeOK, rows, environment
<1>11. ASSUME NEW a \in Requests, NEW s \in Schedules, Register(a, s) \/ Unregister(a, s)
       PROVE  TypeOK'
  <2>1. pc' \in [Actors -> PCs] /\ at' \in [Actors -> Locals]
    BY <1>11, ScheduleMoves DEF Register, Unregister, Actors, PCs
  <2> QED
    BY <1>11, <2>1 DEF Register, Unregister, TypeOK, rows, cancellation, environment
<1>12. ASSUME NEW a \in Requests, SetPlan(a) \/ Arm(a) \/ Disable(a) PROVE TypeOK'
  <2>1. pc' \in [Actors -> PCs] /\ at' \in [Actors -> Locals] /\ pc[a] \in {"plan", "arm", "disable"}
    BY <1>12, DoneMoves DEF SetPlan, Arm, Disable, Actors, TypeOK
  <2>2. CASE SetPlan(a)
    BY <2>1, <2>2 DEF SetPlan, TypeOK, TaskStatus, cancellation, environment
  <2>3. CASE Disable(a)
    BY <2>1, <2>3 DEF Disable, TypeOK, cancellation, environment
  <2>4. CASE Arm(a)
    <3>1. at[a].schedule \in Schedules
      BY <2>4, PlaceFacts DEF Arm, Done, Goto, HasSchedule, Scheduling, Actors
    <3> QED
      BY <2>1, <2>4, <3>1 DEF Arm, TypeOK, rows, cancellation, environment
  <2> QED
    BY <1>12, <2>2, <2>3, <2>4
<1>13. ASSUME NEW a \in Requests, Disarm(a) PROVE TypeOK'
  <2>1. pc' \in [Actors -> PCs]
    BY <1>13, GotoMoves DEF Disarm, Actors, PCs
  <2> QED
    BY <1>13, <2>1 DEF Disarm, TypeOK, rows, cancellation, environment
<1> QED
  BY <1>1, <1>2, <1>3, <1>4, <1>5, <1>6, <1>7, <1>8, <1>9, <1>10, <1>11, <1>12, <1>13
     DEF Next, RunnerStep, RequestStep, Actors

LEMMA PlacesStep == TypeOK /\ Places /\ [Next]_vars => Places'
<1> SUFFICES ASSUME TypeOK, Places, [Next]_vars PROVE Places'
  OBVIOUS
<1> USE DEF Transiting, Scheduling
<1>1. CASE UNCHANGED vars
  BY <1>1 DEF vars, Places, Place, HasTask, HasSchedule, WantsRun, WantsCancel, Tells
<1>2. CASE Crash
  BY <1>2 DEF Crash, Places, Place
<1>3. ASSUME NEW a \in Actors, TransitionStep(a) PROVE Places'
  <2>0. /\ pc[a] \in Transiting
           => HasTask(a) /\ (WantsRun(a) \/ WantsCancel(a) \/ Tells(a))
    BY PlaceFacts
  <2>1. CASE ReadStatus(a)
    <3>1. pc[a] = "read" /\ pc'[a] = "write" /\ at' = at
          /\ \A b \in Actors : b # a => pc'[b] = pc[b]
      BY <2>1, GotoMoves DEF ReadStatus, PCs
    <3>2. Place(a)'
      BY <2>0, <3>1 DEF Place, HasTask, WantsRun, WantsCancel, Tells
    <3> QED
      BY <3>1, <3>2, OthersStay
  <2>2. CASE AlreadyThere(a) \/ WriteStatus(a)
    <3>0. PICK from \in {"read", "write"} : Continue(a, from)
      BY <2>2 DEF AlreadyThere, WriteStatus
    <3>1. /\ pc[a] = from
          /\ \/ at[a].next = "agent" /\ pc'[a] = "agent" /\ at' = at
             \/ at[a].next = "idle" /\ pc'[a] = "idle" /\ at'[a] = Idle
          /\ \A b \in Actors : b # a => pc'[b] = pc[b] /\ at'[b] = at[b]
      BY <3>0, ContinueMoves
    <3>2. Place(a)'
      BY <2>0, <3>1 DEF Place, HasTask, WantsRun, WantsCancel, Tells
    <3> QED
      BY <3>1, <3>2, OthersStay
  <2>3. CASE Refused(a)
    <3>1. /\ pc[a] = "read"
          /\ \/ /\ at[a].catch = "fail" /\ pc'[a] = "read" /\ at'[a].task = at[a].task
                /\ at'[a].goal = "failed" /\ at'[a].next = "idle" /\ at'[a].catch = "idle"
                /\ at'[a].schedule = NoTask
             \/ at[a].catch = "idle" /\ pc'[a] = "idle" /\ at'[a] = Idle
          /\ \A b \in Actors : b # a => pc'[b] = pc[b] /\ at'[b] = at[b]
      BY <2>3, RefusedMoves
    <3>2. Place(a)'
      BY <2>0, <3>1 DEF Place, HasTask, WantsRun, WantsCancel, Tells, Outcomes
    <3> QED
      BY <3>1, <3>2, OthersStay
  <2> QED
    BY <1>3, <2>1, <2>2, <2>3 DEF TransitionStep
<1>4. ASSUME NEW a \in Runners, NEW t \in Tasks,
             Start(a, t) \/ FireCreate(a, t)
      PROVE  Places'
  <2>1. /\ pc'[a] = "read" /\ at'[a].task = t /\ at'[a].goal = "running"
        /\ at'[a].next = "agent" /\ at'[a].catch = "idle" /\ at'[a].schedule = NoTask
        /\ \A b \in Actors : b # a => pc'[b] = pc[b] /\ at'[b] = at[b]
    BY ZenonT(60), <1>4, TransitionMoves DEF Start, FireCreate, Actors, TaskStatus
  <2>2. Place(a)'
    BY <2>1 DEF Place, HasTask, WantsRun
  <2> QED
    BY <2>1, <2>2, OthersStay DEF Actors
<1>5. ASSUME NEW a \in Requests, NEW t \in Tasks, Cancel(a, t) PROVE Places'
  <2>1. /\ pc'[a] = "read" /\ at'[a].task = t /\ at'[a].goal = "cancelled"
        /\ at'[a].next = "idle" /\ at'[a].catch = "idle" /\ at'[a].schedule = NoTask
        /\ \A b \in Actors : b # a => pc'[b] = pc[b] /\ at'[b] = at[b]
    BY <1>5, TransitionMoves DEF Cancel, Actors, TaskStatus, Terminal
  <2>2. Place(a)'
    BY <2>1 DEF Place, HasTask, WantsCancel
  <2> QED
    BY <2>1, <2>2, OthersStay DEF Actors
<1>6. ASSUME NEW a \in Runners, NEW result \in Outcomes, EndRun(a, result) PROVE Places'
  <2>0. pc[a] = "working" /\ Again(a, "working", result, "idle", "fail")
    BY <1>6 DEF EndRun, Again, Transition, Goto
  <2>1. /\ pc'[a] = "read" /\ at'[a].task = at[a].task /\ at'[a].goal = result
        /\ at'[a].next = "idle" /\ at'[a].schedule = NoTask
        /\ \A b \in Actors : b # a => pc'[b] = pc[b] /\ at'[b] = at[b]
    BY <2>0, AgainMoves DEF Actors, Outcomes, TaskStatus, Terminal
  <2>2. Place(a)'
    BY <2>0, <2>1, PlaceFacts DEF Place, HasTask, Tells, Actors
  <2> QED
    BY <2>1, <2>2, OthersStay DEF Actors
<1>7. ASSUME NEW a \in Actors, NEW from, Done(a, from) PROVE Places'
  <2>1. /\ pc'[a] = "idle" /\ at'[a] = Idle
        /\ \A b \in Actors : b # a => pc'[b] = pc[b] /\ at'[b] = at[b]
    BY <1>7, DoneMoves
  <2>2. Place(a)'
    BY <2>1 DEF Place
  <2> QED
    BY <2>1, <2>2, OthersStay
<1>8. ASSUME NEW a \in Actors, BeginRun(a) \/ FireRead(a) \/ Disarm(a) PROVE Places'
  <2>1. /\ at' = at /\ \A b \in Actors : b # a => pc'[b] = pc[b]
        /\ \/ pc[a] = "agent" /\ pc'[a] = "working"
           \/ pc[a] = "fireRead" /\ pc'[a] = "fireCreate"
           \/ pc[a] = "disarm" /\ pc'[a] = "disable"
    BY <1>8, GotoMoves DEF BeginRun, FireRead, Disarm, PCs
  <2>2. Place(a)'
    BY <2>1, PlaceFacts DEF Place, HasTask, HasSchedule, WantsRun
  <2> QED
    BY <2>1, <2>2, OthersStay
<1>9. ASSUME NEW a \in Requests, NEW t \in Tasks, Create(a, t) PROVE Places'
  <2>1. CASE pc[a] = "idle" /\ UNCHANGED <<pc, at>>
    BY <2>1 DEF Places, Place, HasTask, HasSchedule, WantsRun, WantsCancel, Tells
  <2>2. CASE Goto(a, "idle", "plan") /\ at' = [at EXCEPT ![a] = [Idle EXCEPT !.task = t]]
    <3>0. a \in Actors
      BY DEF Actors
    <3>1. /\ pc'[a] = "plan" /\ at'[a].task = t /\ at'[a].schedule = NoTask
          /\ \A b \in Actors : b # a => pc'[b] = pc[b] /\ at'[b] = at[b]
      BY <2>2, <3>0, PlanMoves
    <3>2. Place(a)'
      BY <3>1 DEF Place, HasTask
    <3> QED
      BY <3>0, <3>1, <3>2, OthersStay
  <2> QED
    BY <1>9, <2>1, <2>2 DEF Create
<1>10. ASSUME NEW a \in Actors, NEW s \in Schedules,
              (a \in Runners /\ Fire(a, s))
                \/ (a \in Requests /\ (Register(a, s) \/ Unregister(a, s)))
       PROVE  Places'
  <2>1. /\ \/ a \in Runners /\ pc'[a] = "fireRead"
           \/ a \in Requests /\ pc'[a] \in {"arm", "disarm"}
        /\ at'[a].schedule = s /\ at'[a].task = NoTask
        /\ \A b \in Actors : b # a => pc'[b] = pc[b] /\ at'[b] = at[b]
    BY <1>10, ScheduleMoves DEF Fire, Register, Unregister, PCs
  <2>2. Place(a)'
    BY <2>1 DEF Place, HasSchedule
  <2> QED
    BY <2>1, <2>2, OthersStay
<1>11. ASSUME NEW a \in Runners, RunnerStep(a) PROVE Places'
  BY <1>11, <1>3, <1>4, <1>6, <1>7, <1>8
     DEF RunnerStep, NoProvider, FireDropped, Actors
<1>12. ASSUME NEW a \in Requests, RequestStep(a) PROVE Places'
  BY <1>12, <1>3, <1>7, <1>8 DEF RequestStep, SetPlan, Arm, Disable, Actors
<1> QED
  BY <1>1, <1>2, <1>4, <1>5, <1>9, <1>10, <1>11, <1>12 DEF Next, Actors

\* Every variable keeps its type: a task only ever takes a status of the state
\* machine, and an aborted handle is a registered one.
THEOREM TypeCorrect == Spec => []TypeOK
<1>1. Init => TypeOK /\ Places
  BY IdleLocals DEF Init, TypeOK, TaskStatus, PCs, Places, Place
<1>2. TypeOK /\ Places /\ [Next]_vars => (TypeOK /\ Places)'
  BY TypeStep, PlacesStep
<1> QED
  BY <1>1, <1>2, PTL DEF Spec

LEMMA PlacesHold == Spec => []Places
<1>1. Init => TypeOK /\ Places
  BY IdleLocals DEF Init, TypeOK, TaskStatus, PCs, Places, Place
<1>2. TypeOK /\ Places /\ [Next]_vars => (TypeOK /\ Places)'
  BY TypeStep, PlacesStep
<1> QED
  BY <1>1, <1>2, PTL DEF Spec

-----------------------------------------------------------------------------
(* One actor at a time *)

StepOf(a) ==
  \/ /\ a \in Runners
     /\ \/ \E t \in Tasks : Start(a, t)
        \/ \E s \in Schedules : Fire(a, s)
        \/ RunnerStep(a)
  \/ /\ a \in Requests
     /\ \/ \E t \in Tasks : Create(a, t) \/ Cancel(a, t)
        \/ \E s \in Schedules : Register(a, s) \/ Unregister(a, s)
        \/ RequestStep(a)

LEMMA NextSteps ==
  [Next]_vars <=> (\E a \in Actors : StepOf(a)) \/ Crash \/ UNCHANGED vars
  BY DEF Next, StepOf, Actors

\* An actor's step moves no other actor.
LEMMA StepMovesOne ==
  ASSUME TypeOK, NEW a \in Actors, StepOf(a)
  PROVE  /\ \A b \in Actors : b # a => pc'[b] = pc[b] /\ at'[b] = at[b]
         /\ UNCHANGED environment
<1>1. ASSUME NEW from, NEW to, Goto(a, from, to)
      PROVE  \A b \in Actors : b # a => pc'[b] = pc[b]
  BY <1>1 DEF Goto, TypeOK
<1>2. ASSUME NEW from, Done(a, from)
      PROVE  \A b \in Actors : b # a => pc'[b] = pc[b] /\ at'[b] = at[b]
  BY <1>2 DEF Done, Goto, TypeOK
<1>3. CASE TransitionStep(a)
  <2>1. CASE ReadStatus(a)
    BY <2>1 DEF ReadStatus, Goto, TypeOK, environment
  <2>2. CASE AlreadyThere(a) \/ WriteStatus(a)
    BY <2>2, ContinueMoves DEF AlreadyThere, WriteStatus, environment
  <2>3. CASE Refused(a)
    BY <2>3, RefusedMoves DEF Refused, environment
  <2> QED
    BY <1>3, <2>1, <2>2, <2>3 DEF TransitionStep
<1>4. CASE a \in Runners /\ RunnerStep(a)
  <2>1. CASE NoProvider(a) \/ FireDropped(a)
    BY <2>1, <1>2 DEF NoProvider, FireDropped, environment
  <2>2. CASE BeginRun(a) \/ FireRead(a)
    BY <2>2 DEF BeginRun, FireRead, Goto, TypeOK, environment
  <2>3. CASE (\E result \in Outcomes : EndRun(a, result)) \/ (\E t \in Tasks : FireCreate(a, t))
    BY ZenonT(60), <2>3 DEF EndRun, FireCreate, Transition, Goto, TypeOK, environment
  <2> QED
    BY <1>3, <1>4, <2>1, <2>2, <2>3 DEF RunnerStep
<1>5. CASE a \in Requests /\ RequestStep(a)
  <2>1. CASE SetPlan(a) \/ Arm(a) \/ Disable(a)
    BY <2>1, <1>2 DEF SetPlan, Arm, Disable, environment
  <2>2. CASE Disarm(a)
    BY <2>2 DEF Disarm, Goto, TypeOK, environment
  <2> QED
    BY <1>3, <1>5, <2>1, <2>2 DEF RequestStep
<1>6. CASE \E t \in Tasks : Start(a, t) \/ Create(a, t) \/ Cancel(a, t)
  BY <1>6 DEF Start, Create, Cancel, Transition, Goto, TypeOK, environment
<1>7. CASE \E s \in Schedules : Fire(a, s) \/ Register(a, s) \/ Unregister(a, s)
  BY <1>7 DEF Fire, Register, Unregister, Goto, TypeOK, environment
<1> QED
  BY <1>4, <1>5, <1>6, <1>7 DEF StepOf

-----------------------------------------------------------------------------
(* Schedules *)

\* A request is between the row of a schedule and its cron job.
BusyWith(a, s) == pc[a] \in Scheduling /\ at[a].schedule = s
Armed ==
  \A s \in Schedules :
    schedule[s] = "enabled" => s \in jobs \/ \E a \in Actors : BusyWith(a, s)

\* Only requests about schedules touch the rows and the jobs.
LEMMA SchedulesQuiet ==
  ASSUME TypeOK, NEW a \in Actors, StepOf(a)
  PROVE  \/ pc[a] \notin Scheduling /\ UNCHANGED <<schedule, jobs>>
         \/ a \in Requests /\ (Arm(a) \/ Disarm(a) \/ Disable(a))
         \/ a \in Requests /\ \E s \in Schedules : Register(a, s)
         \/ a \in Requests /\ \E s \in Schedules : Unregister(a, s)
<1> USE DEF Scheduling, rows
<1>1. CASE TransitionStep(a)
  BY <1>1 DEF TransitionStep, ReadStatus, AlreadyThere, WriteStatus, Refused, Continue, Done, Goto
<1>2. CASE RunnerStep(a)
  BY <1>1, <1>2 DEF RunnerStep, NoProvider, BeginRun, EndRun, FireRead, FireDropped, FireCreate,
     Transition, Done, Goto
<1>3. CASE a \in Requests /\ RequestStep(a)
  BY <1>1, <1>3 DEF RequestStep, SetPlan, Done, Goto
<1>4. CASE \E t \in Tasks : Start(a, t) \/ Create(a, t) \/ Cancel(a, t)
  BY <1>4 DEF Start, Create, Cancel, Transition, Goto
<1>5. CASE \E s \in Schedules : Fire(a, s)
  BY <1>5 DEF Fire, Goto
<1> QED
  BY <1>2, <1>3, <1>4, <1>5 DEF StepOf

LEMMA ArmedStep == TypeOK /\ Places /\ Armed /\ [Next]_vars => Armed'
<1> SUFFICES ASSUME TypeOK, Places, Armed, [Next]_vars PROVE Armed'
  OBVIOUS
<1>1. CASE UNCHANGED vars
  BY <1>1 DEF vars, rows, Armed, BusyWith
<1>2. CASE Crash
  BY <1>2 DEF Crash, rows, Armed
<1>3. ASSUME NEW a \in Actors, StepOf(a) PROVE Armed'
  <2>0. \A b \in Actors, s \in Schedules : b # a /\ BusyWith(b, s) => BusyWith(b, s)'
    BY <1>3, StepMovesOne DEF BusyWith
  <2>1. CASE pc[a] \notin Scheduling /\ UNCHANGED <<schedule, jobs>>
    <3>1. \A b \in Actors, s \in Schedules : BusyWith(b, s) => BusyWith(b, s)'
      BY <2>0, <2>1 DEF BusyWith
    <3> QED
      BY <2>1, <3>1 DEF Armed
  <2>2. CASE Arm(a)
    BY <2>0, <2>2 DEF Arm, rows, Armed, BusyWith
  <2>3. CASE Disarm(a)
    <3>1. at' = at /\ pc[a] = "disarm" /\ pc'[a] = "disable"
      BY <2>3, GotoMoves DEF Disarm, PCs
    <3>2. \A s \in Schedules : BusyWith(a, s) => BusyWith(a, s)'
      BY <3>1 DEF BusyWith, Scheduling
    <3>3. BusyWith(a, at[a].schedule)'
      BY <3>1 DEF BusyWith, Scheduling
    <3> QED
      BY <2>0, <2>3, <3>1, <3>2, <3>3 DEF Disarm, rows, Armed, BusyWith
  <2>4. CASE Disable(a)
    BY <2>0, <2>4 DEF Disable, Armed, BusyWith, TypeOK
  <2>5. ASSUME NEW s \in Schedules, Register(a, s) PROVE Armed'
    <3>1. pc'[a] = "arm" /\ at'[a].schedule = s /\ pc[a] = "idle"
      BY <2>5, ScheduleMoves DEF Register, PCs
    <3>2. BusyWith(a, s)' /\ \A r \in Schedules : ~BusyWith(a, r)
      BY <3>1 DEF BusyWith, Scheduling
    <3>3. /\ \A r \in Schedules : r # s => schedule'[r] = schedule[r]
          /\ jobs' = jobs
      BY <2>5 DEF Register, TypeOK
    <3> QED
      BY <2>0, <3>2, <3>3 DEF Armed
  <2>6. ASSUME NEW s \in Schedules, Unregister(a, s) PROVE Armed'
    <3>1. pc[a] = "idle" /\ UNCHANGED <<schedule, jobs>>
      BY <2>6 DEF Unregister, Goto, rows
    <3>2. \A r \in Schedules : ~BusyWith(a, r)
      BY <3>1 DEF BusyWith, Scheduling
    <3> QED
      BY <2>0, <3>1, <3>2 DEF Armed
  <2> QED
    BY <1>3, <2>1, <2>2, <2>3, <2>4, <2>5, <2>6, SchedulesQuiet
<1> QED
  BY <1>1, <1>2, <1>3, NextSteps

\* An enabled schedule that no request is busy with has its cron job armed, however
\* registrations, cancellations and restarts interleave.
THEOREM EnabledIsArmed == Spec => []ScheduleIsArmed
<1>1. Init => Armed
  BY DEF Init, Armed
<1>2. TypeOK /\ Places /\ Armed => ScheduleIsArmed
  <2> SUFFICES ASSUME Places, Armed, NEW s \in Schedules, schedule[s] = "enabled",
                      \A a \in Requests : at[a].schedule # s
               PROVE  s \in jobs
    BY DEF ScheduleIsArmed
  <2>1. \A a \in Actors : ~BusyWith(a, s)
    BY PlaceFacts DEF BusyWith
  <2> QED
    BY <2>1 DEF Armed
<1> QED
  BY <1>1, <1>2, ArmedStep, TypeCorrect, PlacesHold, PTL DEF Spec

-----------------------------------------------------------------------------
(* What a step does to the tasks *)

\* Requests about schedules, and cron jobs until they create a task, hold no task
\* and leave the tasks alone.
ScheduleStep(a) ==
  /\ at[a].task = NoTask /\ at'[a].task = NoTask
  /\ pc'[a] \in Scheduling \union {"idle", "fireRead", "fireCreate"}
  /\ UNCHANGED <<status, outcome>>

LEMMA StepKinds ==
  ASSUME TypeOK, Places, NEW a \in Actors, StepOf(a)
  PROVE  \/ ReadStatus(a) \/ AlreadyThere(a) \/ WriteStatus(a) \/ Refused(a)
         \/ a \in Runners /\ (NoProvider(a) \/ BeginRun(a))
         \/ a \in Runners /\ \E result \in Outcomes : EndRun(a, result)
         \/ a \in Runners /\ \E t \in Tasks : Start(a, t)
         \/ a \in Runners /\ \E t \in Tasks : FireCreate(a, t)
         \/ a \in Requests /\ \E t \in Tasks : Create(a, t)
         \/ a \in Requests /\ \E t \in Tasks : Cancel(a, t)
         \/ a \in Requests /\ SetPlan(a)
         \/ ScheduleStep(a)
<1>1. ASSUME \/ \E s \in Schedules : Fire(a, s) \/ Register(a, s) \/ Unregister(a, s)
      PROVE  ScheduleStep(a)
  <2>1. PICK s \in Schedules : Fire(a, s) \/ Register(a, s) \/ Unregister(a, s)
    BY <1>1
  <2>2. /\ pc[a] = "idle" /\ pc'[a] \in {"fireRead", "arm", "disarm"}
        /\ at'[a].task = NoTask
    BY <2>1, ScheduleMoves DEF Fire, Register, Unregister, PCs
  <2>3. at[a].task = NoTask
    BY <2>2, PlaceFacts, IdleLocals
  <2> QED
    BY <2>1, <2>2, <2>3 DEF ScheduleStep, Fire, Register, Unregister, Scheduling, rows
<1>2. ASSUME FireRead(a) \/ FireDropped(a) \/ Arm(a) \/ Disarm(a) \/ Disable(a)
      PROVE  ScheduleStep(a)
  <2>1. pc[a] \in {"fireRead", "arm", "disarm", "disable"}
    BY <1>2 DEF FireRead, FireDropped, Arm, Disarm, Disable, Done, Goto
  <2>2. at[a].task = NoTask
    BY <2>1, PlaceFacts DEF HasSchedule, Scheduling
  <2>3. CASE FireRead(a) \/ Disarm(a)
    <3>1. pc'[a] \in {"fireCreate", "disable"} /\ at' = at
      BY <2>3, GotoMoves DEF FireRead, Disarm, PCs
    <3> QED
      BY <2>2, <2>3, <3>1 DEF ScheduleStep, FireRead, Disarm, Scheduling, rows
  <2>4. CASE FireDropped(a) \/ Arm(a) \/ Disable(a)
    <3>1. pc'[a] = "idle" /\ at'[a] = Idle
      BY <2>4, DoneMoves DEF FireDropped, Arm, Disable
    <3> QED
      BY <2>2, <2>4, <3>1, IdleLocals DEF ScheduleStep, FireDropped, Arm, Disable, rows
  <2> QED
    BY <1>2, <2>3, <2>4
<1> QED
  BY <1>1, <1>2 DEF StepOf, RunnerStep, RequestStep, TransitionStep

\* The steps that write a status, and the one that notes an outcome.
LEMMA StatusWrites ==
  ASSUME TypeOK, Places, NEW a \in Actors, StepOf(a)
  PROVE  /\ \/ UNCHANGED status
            \/ WriteStatus(a)
            \/ a \in Requests /\ SetPlan(a)
            \/ \E t \in Tasks : status[t] = "none" /\ status' = [status EXCEPT ![t] = "queued"]
         /\ \/ UNCHANGED outcome
            \/ a \in Runners /\ \E result \in Outcomes : EndRun(a, result)
  BY StepKinds DEF ReadStatus, AlreadyThere, WriteStatus, Refused, NoProvider, BeginRun, EndRun,
     Start, FireCreate, Create, Cancel, SetPlan, ScheduleStep, rows

\* Rows are never removed.
LEMMA RowsStay ==
  ASSUME TypeOK, Places, NEW a \in Actors, StepOf(a), NEW t \in Tasks, status[t] # "none"
  PROVE  status'[t] # "none"
<1>1. CASE WriteStatus(a)
  <2>1. pc[a] \in Transiting
    BY <1>1, ContinueMoves DEF WriteStatus, Transiting
  <2>2. at[a].goal # "none"
    BY <2>1, PlaceFacts DEF WantsRun, WantsCancel, Tells, Outcomes
  <2> QED
    BY <1>1, <2>2 DEF WriteStatus, TypeOK
<1>2. CASE SetPlan(a)
  BY <1>2 DEF SetPlan, TypeOK
<1> QED
  BY <1>1, <1>2, StatusWrites DEF TypeOK

-----------------------------------------------------------------------------
(* A running task has its runner *)

LEMMA TellerGoesOn ==
  ASSUME TypeOK, Places, NEW a \in Actors, StepOf(a), providerReady, NEW t \in Tasks,
         WillTell(a, t), status[t] = "running", status'[t] = "running"
  PROVE  WillTell(a, t)'
<1> USE DEF WillTell
<1>0. /\ at[a].task = t
      /\ pc[a] \in {"agent", "working"} \/ (pc[a] \in {"read", "write"} /\ at[a].goal \in Outcomes)
  OBVIOUS
<1>1. CASE ReadStatus(a)
  BY <1>1, GotoMoves DEF ReadStatus, PCs
<1>2. CASE AlreadyThere(a)
  BY <1>0, <1>2 DEF AlreadyThere, Continue, Done, Goto, Outcomes
<1>3. CASE WriteStatus(a)
  <2>1. status'[t] = at[a].goal /\ pc[a] = "write"
    BY <1>0, <1>3 DEF WriteStatus, Continue, Done, Goto, TypeOK
  <2> QED
    BY <1>0, <2>1 DEF Outcomes
<1>4. CASE Refused(a)
  <2>1. at[a].goal \in Outcomes /\ pc[a] = "read" /\ ~MayTransition(a)
    BY <1>0, <1>4 DEF Refused
  <2>2. Outcomes \subseteq Allowed["running"]
    BY DEF Outcomes, Allowed
  <2> QED
    BY <1>0, <2>1, <2>2 DEF MayTransition
<1>5. CASE BeginRun(a)
  BY <1>0, <1>5, GotoMoves DEF BeginRun, PCs
<1>6. ASSUME NEW result \in Outcomes, EndRun(a, result) PROVE WillTell(a, t)'
  <2>1. Again(a, "working", result, "idle", "fail") /\ result \in TaskStatus
    BY <1>6 DEF EndRun, Again, Outcomes, TaskStatus, Terminal
  <2> QED
    BY <1>0, <2>1, AgainMoves
<1>7. ASSUME \/ NoProvider(a) \/ SetPlan(a) \/ ScheduleStep(a)
             \/ \E u \in Tasks : Start(a, u) \/ FireCreate(a, u) \/ Create(a, u) \/ Cancel(a, u)
      PROVE  FALSE
  <2>1. \/ NoProvider(a) \/ at[a].task = NoTask
        \/ pc[a] \in {"plan", "idle", "fireCreate"}
    BY <1>7 DEF SetPlan, Start, FireCreate, Create, Cancel, Transition, Done, Goto, ScheduleStep
  <2> QED
    BY <1>0, <2>1 DEF NoProvider
<1> QED
  BY <1>1, <1>2, <1>3, <1>4, <1>5, <1>6, <1>7, StepKinds

LEMMA RunnerStays ==
  TypeOK /\ Places /\ RunningTaskHasRunner /\ [Next]_vars => RunningTaskHasRunner'
<1> SUFFICES ASSUME TypeOK, Places, RunningTaskHasRunner, [Next]_vars,
                    crashes' = 0, providerReady',
                    NEW t \in Tasks, status'[t] = "running"
             PROVE  \E b \in Runners : WillTell(b, t)'
  BY DEF RunningTaskHasRunner
<1>1. CASE UNCHANGED vars
  BY <1>1 DEF vars, rows, environment, RunningTaskHasRunner, WillTell
<1>2. CASE Crash
  BY <1>2 DEF Crash, TypeOK
<1>3. ASSUME NEW a \in Actors, StepOf(a) PROVE \E b \in Runners : WillTell(b, t)'
  <2>0. crashes = 0 /\ providerReady
    BY <1>3, StepMovesOne DEF environment
  <2>1. CASE status[t] = "running"
    <3>1. PICK b \in Runners : WillTell(b, t)
      BY <2>0, <2>1 DEF RunningTaskHasRunner
    <3>2. CASE b = a
      BY <1>3, <2>0, <2>1, <3>1, <3>2, TellerGoesOn
    <3>3. CASE b # a
      BY <1>3, <3>1, <3>3, StepMovesOne DEF WillTell, Actors
    <3> QED
      BY <3>2, <3>3
  <2>2. CASE status[t] # "running"
    <3>1. WriteStatus(a)
      BY <1>3, <2>2, StatusWrites DEF SetPlan, TypeOK
    <3>2. at[a].task = t /\ at[a].goal = "running" /\ Continue(a, "write")
      BY <2>2, <3>1 DEF WriteStatus, TypeOK
    <3>3. pc[a] = "write"
      BY <3>2, ContinueMoves
    <3>4. WantsRun(a)
      BY <3>2, <3>3, PlaceFacts DEF Transiting, WantsCancel, Tells, Outcomes
    <3>5. pc'[a] = "agent" /\ at' = at
      BY <3>2, <3>4, ContinueMoves DEF WantsRun
    <3> QED
      BY <3>2, <3>4, <3>5 DEF WillTell, WantsRun
  <2> QED
    BY <2>1, <2>2
<1> QED
  BY <1>1, <1>2, <1>3, NextSteps

\* While no restart comes between and a provider is configured, a task shown as
\* running has a live runner that will tell how the run ended, whatever requests
\* overlap and whether clients wait for each other or not.
THEOREM RunningHasRunner == Spec => []RunningTaskHasRunner
<1>1. Init => RunningTaskHasRunner
  BY DEF Init, RunningTaskHasRunner
<1> QED
  BY <1>1, RunnerStays, TypeCorrect, PlacesHold, PTL DEF Spec

-----------------------------------------------------------------------------
(* Patient clients *)

\* An actor only holds a task that exists.
Exists == \A a \in Actors : at[a].task \in Tasks => status[at[a].task] # "none"

\* Where the task an actor holds comes from.
LEMMA TaskTaken ==
  ASSUME TypeOK, Places, NEW a \in Actors, StepOf(a)
  PROVE  \/ at'[a].task = at[a].task
         \/ at'[a].task = NoTask
         \/ \E t \in Tasks : at'[a].task = t /\ status[t] # "none" /\ ClientMayAsk(t)
         \/ \E t \in Tasks : at'[a].task = t /\ status[t] = "none" /\ status'[t] = "queued"
<1>1. CASE ReadStatus(a) \/ BeginRun(a)
  BY <1>1 DEF ReadStatus, BeginRun
<1>2. CASE AlreadyThere(a) \/ WriteStatus(a)
  BY <1>2, ContinueMoves, IdleLocals DEF AlreadyThere, WriteStatus
<1>3. CASE Refused(a)
  BY <1>3, RefusedMoves, IdleLocals
<1>4. CASE NoProvider(a) \/ SetPlan(a)
  BY <1>4, DoneMoves, IdleLocals DEF NoProvider, SetPlan
<1>5. ASSUME NEW result \in Outcomes, EndRun(a, result) PROVE at'[a].task = at[a].task
  <2>1. Again(a, "working", result, "idle", "fail") /\ result \in TaskStatus
    BY <1>5 DEF EndRun, Again, Outcomes, TaskStatus, Terminal
  <2> QED
    BY <2>1, AgainMoves
<1>6. ASSUME NEW t \in Tasks, Start(a, t) \/ Cancel(a, t)
      PROVE  at'[a].task = t /\ status[t] # "none" /\ ClientMayAsk(t)
  BY <1>6, TransitionMoves DEF Start, Cancel, TaskStatus, Terminal
<1>7. ASSUME NEW t \in Tasks, FireCreate(a, t)
      PROVE  at'[a].task = t /\ status[t] = "none" /\ status'[t] = "queued"
  <2>1. at'[a].task = t
    BY <1>7, TransitionMoves DEF FireCreate, TaskStatus
  <2> QED
    BY <1>7, <2>1 DEF FireCreate, TypeOK
<1>8. ASSUME NEW t \in Tasks, Create(a, t)
      PROVE  \/ at'[a].task = at[a].task
             \/ at'[a].task = t /\ status[t] = "none" /\ status'[t] = "queued"
  BY <1>8, PlanMoves DEF Create, TypeOK
<1> QED
  BY <1>1, <1>2, <1>3, <1>4, <1>5, <1>6, <1>7, <1>8, StepKinds DEF ScheduleStep

LEMMA ExistsStep == TypeOK /\ Places /\ Exists /\ [Next]_vars => Exists'
<1> SUFFICES ASSUME TypeOK, Places, Exists, [Next]_vars PROVE Exists'
  OBVIOUS
<1>1. CASE UNCHANGED vars
  BY <1>1 DEF vars, rows, Exists
<1>2. CASE Crash
  BY <1>2, IdleLocals DEF Crash, Exists
<1>3. ASSUME NEW a \in Actors, StepOf(a), NEW b \in Actors, at'[b].task \in Tasks
      PROVE  status'[at'[b].task] # "none"
  <2>1. CASE b # a
    BY <1>3, <2>1, StepMovesOne, RowsStay DEF Exists
  <2>2. CASE b = a
    BY <1>3, <2>2, TaskTaken, RowsStay DEF Exists
  <2> QED
    BY <2>1, <2>2
<1> QED
  BY <1>1, <1>2, <1>3, NextSteps DEF Exists

\* With patient clients nothing is done to a task by two actors at once, so what
\* an actor has read about its task still holds when it writes.
Alone == \A a, b \in Actors : at[a].task = at[b].task /\ at[a].task \in Tasks => a = b
Justified(a) ==
  /\ pc[a] = "write" => MayTransition(a)
  /\ pc[a] = "plan" => status[at[a].task] = "queued"
Patience == discipline = "patient" => Alone /\ \A a \in Actors : Justified(a)

LEMMA AloneStep ==
  ASSUME TypeOK, Places, Exists, Alone, discipline = "patient", NEW a \in Actors, StepOf(a)
  PROVE  Alone'
<1>1. ASSUME NEW c \in Actors, c # a, at'[a].task \in Tasks, at'[a].task = at[c].task
      PROVE  FALSE
  <2>1. at[a].task # at'[a].task
    BY <1>1 DEF Alone
  <2>2. ~ClientMayAsk(at[c].task)
    BY DEF ClientMayAsk
  <2>3. status[at[c].task] # "none"
    BY <1>1 DEF Exists
  <2> QED
    BY <1>1, <2>1, <2>2, <2>3, TaskTaken DEF ClientMayAsk
<1>2. ASSUME NEW b \in Actors, NEW c \in Actors, at'[b].task = at'[c].task, at'[b].task \in Tasks,
             b # c
      PROVE  FALSE
  <2>1. \A d \in Actors : d # a => at'[d] = at[d]
    BY StepMovesOne
  <2> QED
    BY <1>1, <1>2, <2>1 DEF Alone
<1> QED
  BY <1>2 DEF Alone

\* Nobody but its actor changes a task.
LEMMA OthersTaskKept ==
  ASSUME TypeOK, Places, Exists, Alone, NEW a \in Actors, StepOf(a),
         NEW b \in Actors, b # a, NEW t \in Tasks, at[b].task = t
  PROVE  status'[t] = status[t] /\ outcome'[t] = outcome[t]
<1>1. at[a].task # t /\ status[t] # "none"
  BY DEF Alone, Exists
<1>2. status'[t] = status[t]
  BY <1>1, StatusWrites DEF WriteStatus, SetPlan, TypeOK
<1>3. outcome'[t] = outcome[t]
  BY <1>1, StatusWrites DEF EndRun, TypeOK
<1> QED
  BY <1>2, <1>3

LEMMA JustifiedStep ==
  ASSUME TypeOK, Places, Exists, Alone, NEW a \in Actors, StepOf(a),
         NEW b \in Actors, Justified(b)
  PROVE  Justified(b)'
<1>1. CASE b # a
  <2>1. pc'[b] = pc[b] /\ at'[b] = at[b]
    BY <1>1, StepMovesOne
  <2>2. CASE pc[b] \in {"write", "plan"}
    <3>1. at[b].task \in Tasks
      BY <2>2, PlaceFacts DEF Transiting, HasTask
    <3>2. status'[at[b].task] = status[at[b].task]
      BY <1>1, <3>1, OthersTaskKept
    <3> QED
      BY <2>1, <3>2 DEF Justified, MayTransition
  <2>3. CASE pc[b] \notin {"write", "plan"}
    BY <2>1, <2>3 DEF Justified
  <2> QED
    BY <2>2, <2>3
<1>2. CASE b = a
  <2>1. CASE ReadStatus(a)
    <3>1. pc'[a] = "write" /\ at' = at
      BY <2>1, GotoMoves DEF ReadStatus, PCs
    <3> QED
      BY <1>2, <2>1, <3>1 DEF ReadStatus, rows, Justified, MayTransition
  <2>2. ASSUME NEW t \in Tasks, Create(a, t) PROVE Justified(a)'
    <3>1. CASE pc[a] = "idle" /\ UNCHANGED <<pc, at>>
      BY <3>1 DEF Justified
    <3>2. CASE Goto(a, "idle", "plan") /\ at' = [at EXCEPT ![a] = [Idle EXCEPT !.task = t]]
      <4>1. pc'[a] = "plan" /\ at'[a].task = t
        BY <3>2, PlanMoves
      <4>2. status'[t] = "queued"
        BY <2>2 DEF Create, TypeOK
      <4> QED
        BY <4>1, <4>2 DEF Justified
    <3> QED
      BY <2>2, <3>1, <3>2 DEF Create
  <2>3. CASE AlreadyThere(a) \/ WriteStatus(a)
    BY <1>2, <2>3, ContinueMoves DEF AlreadyThere, WriteStatus, Justified
  <2>4. CASE Refused(a)
    BY <1>2, <2>4, RefusedMoves DEF Justified
  <2>5. CASE NoProvider(a) \/ SetPlan(a) \/ BeginRun(a)
    BY <1>2, <2>5, DoneMoves, GotoMoves DEF NoProvider, SetPlan, BeginRun, Justified, PCs
  <2>6. ASSUME NEW result \in Outcomes, EndRun(a, result) PROVE Justified(a)'
    <3>1. Again(a, "working", result, "idle", "fail") /\ result \in TaskStatus
      BY <2>6 DEF EndRun, Again, Outcomes, TaskStatus, Terminal
    <3> QED
      BY <3>1, AgainMoves DEF Justified
  <2>7. ASSUME NEW t \in Tasks, Start(a, t) \/ FireCreate(a, t) \/ Cancel(a, t)
        PROVE  Justified(a)'
    BY <2>7, TransitionMoves DEF Start, FireCreate, Cancel, Justified, TaskStatus, Terminal
  <2>8. CASE ScheduleStep(a)
    BY <1>2, <2>8 DEF ScheduleStep, Justified, Scheduling
  <2> QED
    BY <1>2, <2>1, <2>2, <2>3, <2>4, <2>5, <2>6, <2>7, <2>8, StepKinds
<1> QED
  BY <1>1, <1>2

LEMMA PatienceStep == TypeOK /\ Places /\ Exists /\ Patience /\ [Next]_vars => Patience'
<1> SUFFICES ASSUME TypeOK, Places, Exists, Patience, [Next]_vars, discipline' = "patient"
             PROVE  Alone' /\ \A b \in Actors : Justified(b)'
  BY DEF Patience
<1>1. CASE UNCHANGED vars
  BY <1>1 DEF vars, rows, environment, Patience, Alone, Justified, MayTransition
<1>2. CASE Crash
  BY <1>2, IdleLocals DEF Crash, Alone, Justified
<1>3. ASSUME NEW a \in Actors, StepOf(a) PROVE Alone' /\ \A b \in Actors : Justified(b)'
  <2>1. discipline = "patient" /\ Alone /\ \A b \in Actors : Justified(b)
    BY <1>3, StepMovesOne DEF environment, Patience
  <2> QED
    BY <1>3, <2>1, AloneStep, JustifiedStep
<1> QED
  BY <1>1, <1>2, <1>3, NextSteps

LEMMA PatienceHolds == Spec => [](Exists /\ Patience)
<1>1. Init => Exists /\ Patience
  BY IdleLocals DEF Init, Exists, Patience, Alone, Justified
<1> QED
  BY <1>1, ExistsStep, PatienceStep, TypeCorrect, PlacesHold, PTL DEF Spec

\* With patient clients every change of a task's status is one ALLOWED_TRANSITIONS
\* admits, although the status is read and written in two steps and setPlan does
\* not read it at all.
THEOREM LegalMoves == Spec => LegalTransitions
<1>1. TypeOK /\ Places /\ Patience /\ [Next]_vars
        => [discipline = "patient" => \A t \in Tasks :
              status'[t] # status[t] /\ status[t] # "none"
                => status'[t] \in Allowed[status[t]]]_vars
  <2> SUFFICES ASSUME TypeOK, Places, Patience, Next, discipline = "patient", NEW t \in Tasks,
                      status'[t] # status[t], status[t] # "none"
               PROVE  status'[t] \in Allowed[status[t]]
    OBVIOUS
  <2>1. CASE Crash
    BY <2>1 DEF Crash, rows
  <2>2. ASSUME NEW a \in Actors, StepOf(a) PROVE status'[t] \in Allowed[status[t]]
    <3>0. Justified(a)
      BY DEF Patience
    <3>1. CASE WriteStatus(a)
      <4>1. pc[a] = "write"
        BY <3>1, ContinueMoves DEF WriteStatus
      <4>2. at[a].task = t /\ status'[t] = at[a].goal
        BY <3>1 DEF WriteStatus, TypeOK
      <4> QED
        BY <3>0, <4>1, <4>2 DEF Justified, MayTransition
    <3>2. CASE SetPlan(a)
      <4>1. pc[a] = "plan" /\ at[a].task = t /\ status'[t] = "planning"
        BY <3>2 DEF SetPlan, Done, Goto, TypeOK
      <4>2. "planning" \in Allowed["queued"]
        BY DEF Allowed
      <4> QED
        BY <3>0, <4>1, <4>2 DEF Justified
    <3> QED
      BY <2>2, <3>1, <3>2, StatusWrites DEF TypeOK
  <2> QED
    BY <2>1, <2>2 DEF Next, StepOf, Actors
<1> QED
  BY <1>1, TypeCorrect, PlacesHold, PatienceHolds, PTL DEF Spec, LegalTransitions

-----------------------------------------------------------------------------
(* What a task shows of its last run *)

\* How the actor of a task agrees with what the last run of it came to.
Told(a) ==
  LET t == at[a].task IN
  /\ pc[a] \in Transiting /\ ~Tells(a)
       => outcome[t] = "none" \/ status[t] \in {outcome[t], "cancelled"}
  /\ pc[a] \in Transiting /\ Tells(a) => status[t] = "running" /\ at[a].goal = outcome[t]
  /\ pc[a] \in {"agent", "working"} => status[t] = "running"
  /\ pc[a] = "working" => providerReady
  /\ pc[a] = "plan" => outcome[t] = "none"

Untended(t) == \A a \in Actors : at[a].task # t
Shows(t) == outcome[t] = "none" \/ status[t] \in {outcome[t], "cancelled"}
Ran(t) == outcome[t] # "none" => providerReady /\ status[t] # "none"

Telling ==
  discipline = "patient" /\ crashes = 0 =>
    /\ \A a \in Actors : Told(a)
    /\ \A t \in Tasks : Ran(t) /\ (Untended(t) => Shows(t))

\* An actor without a task has nothing to tell.
LEMMA ToldByOthers ==
  ASSUME TypeOK, Places, Exists, Alone, NEW a \in Actors, StepOf(a),
         NEW b \in Actors, b # a, Told(b)
  PROVE  Told(b)'
<1>1. pc'[b] = pc[b] /\ at'[b] = at[b] /\ providerReady' = providerReady
  BY StepMovesOne DEF environment
<1>2. CASE at[b].task \in Tasks
  <2>1. status'[at[b].task] = status[at[b].task] /\ outcome'[at[b].task] = outcome[at[b].task]
    BY <1>2, OthersTaskKept
  <2> QED
    BY <1>1, <2>1 DEF Told, Tells
<1>3. CASE at[b].task \notin Tasks
  <2>1. pc[b] \notin {"read", "write", "agent", "working", "plan"}
    BY <1>3, PlaceFacts DEF Transiting, HasTask
  <2> QED
    BY <1>1, <2>1 DEF Told, Transiting
<1> QED
  BY <1>2, <1>3

LEMMA RanStep ==
  ASSUME TypeOK, Places, Exists, NEW a \in Actors, StepOf(a), Told(a),
         NEW t \in Tasks, Ran(t)
  PROVE  Ran(t)'
<1>0. providerReady' = providerReady
  BY StepMovesOne DEF environment
<1>1. CASE outcome'[t] = outcome[t]
  BY <1>0, <1>1, RowsStay DEF Ran
<1>2. CASE outcome'[t] # outcome[t]
  <2>1. at[a].task = t /\ pc[a] = "working"
    <3>1. PICK result \in Outcomes : EndRun(a, result)
      BY <1>2, StatusWrites
    <3>2. pc[a] = "working"
      BY <3>1 DEF EndRun, Transition, Goto
    <3>3. at[a].task = t
      BY <1>2, <3>1 DEF EndRun, TypeOK
    <3> QED
      BY <3>2, <3>3
  <2> QED
    BY <1>0, <2>1, RowsStay DEF Ran, Told, Exists
<1> QED
  BY <1>1, <1>2

\* What the acting actor leaves behind: it goes on with its task, or takes one, and
\* agrees with it; or it is done and the task it had shows its last run.
LEMMA ToldByActor ==
  ASSUME TypeOK, Places, Exists, NEW a \in Actors, StepOf(a), Told(a), Justified(a),
         discipline = "patient",
         \A t \in Tasks : Ran(t) /\ (Untended(t) => Shows(t))
  PROVE  /\ Told(a)'
         /\ \A t \in Tasks : at[a].task = t /\ at'[a].task # t => Shows(t)'
<1> USE DEF Transiting
<1>1. CASE ReadStatus(a)
  <2>1. pc[a] = "read" /\ pc'[a] = "write" /\ at' = at /\ UNCHANGED <<status, outcome>>
    BY <1>1, GotoMoves DEF ReadStatus, PCs, rows
  <2> QED
    BY <2>1 DEF Told, Tells
<1>2. CASE AlreadyThere(a)
  <2>1. /\ pc[a] = "read" /\ status[at[a].task] = at[a].goal /\ UNCHANGED <<status, outcome>>
        /\ \/ at[a].next = "agent" /\ pc'[a] = "agent" /\ at' = at
           \/ at[a].next = "idle" /\ pc'[a] = "idle" /\ at'[a] = Idle
    BY <1>2, ContinueMoves DEF AlreadyThere, rows
  <2>2. HasTask(a) /\ (WantsRun(a) \/ WantsCancel(a) \/ Tells(a))
    BY <2>1, PlaceFacts
  <2>3. ~Tells(a)
    BY <2>1 DEF Told, Tells, Outcomes
  <2> QED
    BY <2>1, <2>2, <2>3 DEF Told, WantsRun, WantsCancel, Shows
<1>3. CASE WriteStatus(a)
  <2>1. /\ pc[a] = "write" /\ outcome' = outcome
        /\ \/ at[a].next = "agent" /\ pc'[a] = "agent" /\ at' = at
           \/ at[a].next = "idle" /\ pc'[a] = "idle" /\ at'[a] = Idle
    BY <1>3, ContinueMoves DEF WriteStatus
  <2>2. HasTask(a) /\ (WantsRun(a) \/ WantsCancel(a) \/ Tells(a))
    BY <2>1, PlaceFacts
  <2>3. status'[at[a].task] = at[a].goal
    BY <1>3, <2>2 DEF WriteStatus, HasTask, TypeOK
  <2> QED
    BY <2>1, <2>2, <2>3 DEF Told, WantsRun, WantsCancel, Tells, Shows
<1>4. CASE Refused(a)
  <2>1. pc[a] = "read" /\ ~MayTransition(a) /\ UNCHANGED <<status, outcome>>
    BY <1>4 DEF Refused, rows
  <2>2. HasTask(a) /\ (WantsRun(a) \/ WantsCancel(a) \/ Tells(a))
    BY <2>1, PlaceFacts
  <2>3. ~Tells(a)
    <3>1. Outcomes \subseteq Allowed["running"]
      BY DEF Outcomes, Allowed
    <3> QED
      BY <2>1, <3>1 DEF Told, Tells, MayTransition
  <2>4. pc'[a] = "idle" /\ at'[a] = Idle
    BY <1>4, <2>2, <2>3, RefusedMoves DEF WantsRun, WantsCancel
  <2> QED
    BY <2>1, <2>3, <2>4 DEF Told, Shows
<1>5. CASE NoProvider(a)
  <2>1. pc[a] = "agent" /\ pc'[a] = "idle" /\ at'[a] = Idle
        /\ ~providerReady /\ UNCHANGED <<status, outcome>>
    BY <1>5, DoneMoves DEF NoProvider, rows
  <2> QED
    BY <2>1 DEF Told, Shows, Ran
<1>6. CASE BeginRun(a)
  <2>1. pc[a] = "agent" /\ pc'[a] = "working" /\ at' = at /\ UNCHANGED <<status, outcome>>
        /\ providerReady /\ providerReady' = providerReady
    BY <1>6, GotoMoves DEF BeginRun, PCs, rows, environment
  <2> QED
    BY <2>1 DEF Told
<1>7. ASSUME NEW result \in Outcomes, EndRun(a, result)
      PROVE  Told(a)' /\ at'[a].task = at[a].task
  <2>0. Again(a, "working", result, "idle", "fail") /\ result \in TaskStatus
    BY <1>7 DEF EndRun, Again, Outcomes, TaskStatus, Terminal
  <2>1. pc[a] = "working" /\ pc'[a] = "read" /\ at'[a].task = at[a].task /\ at'[a].goal = result
        /\ at'[a].next = "idle"
    BY <2>0, AgainMoves
  <2>2. at[a].task \in Tasks /\ a \in Runners
    BY <2>1, PlaceFacts DEF HasTask, WantsRun
  <2>3. outcome'[at[a].task] = result /\ status' = status
    BY <1>7, <2>2 DEF EndRun, TypeOK, rows
  <2> QED
    BY <2>1, <2>2, <2>3 DEF Told, Tells
<1>8. ASSUME NEW t \in Tasks, Start(a, t) \/ Cancel(a, t)
      PROVE  Told(a)' /\ at[a].task = NoTask
  <2>1. /\ pc[a] = "idle" /\ pc'[a] = "read" /\ at'[a].task = t
        /\ at'[a].goal \in {"running", "cancelled"} /\ UNCHANGED <<status, outcome>>
    BY <1>8, TransitionMoves DEF Start, Cancel, TaskStatus, Terminal, rows
  <2>2. Untended(t)
    BY <1>8 DEF Start, Cancel, ClientMayAsk, Untended
  <2>3. at[a].task = NoTask
    BY <2>1, PlaceFacts, IdleLocals
  <2> QED
    BY <2>1, <2>2, <2>3 DEF Told, Tells, Shows, Outcomes
<1>9. ASSUME NEW t \in Tasks, FireCreate(a, t)
      PROVE  Told(a)' /\ at[a].task = NoTask
  <2>1. /\ pc[a] = "fireCreate" /\ pc'[a] = "read" /\ at'[a].task = t /\ at'[a].goal = "running"
    BY <1>9, TransitionMoves DEF FireCreate, TaskStatus
  <2>2. status[t] = "none" /\ outcome' = outcome
    BY <1>9 DEF FireCreate
  <2>3. at[a].task = NoTask
    BY <2>1, PlaceFacts DEF HasSchedule
  <2> QED
    BY <2>1, <2>2, <2>3 DEF Told, Tells, Ran, Outcomes
<1>10. ASSUME NEW t \in Tasks, Create(a, t)
       PROVE  Told(a)' /\ at[a].task = NoTask
  <2>1. pc[a] = "idle" /\ status[t] = "none" /\ outcome' = outcome
    BY <1>10 DEF Create, Goto
  <2>2. at[a].task = NoTask
    BY <2>1, PlaceFacts, IdleLocals
  <2>3. CASE UNCHANGED <<pc, at>>
    BY <2>1, <2>2, <2>3 DEF Told
  <2>4. CASE Goto(a, "idle", "plan") /\ at' = [at EXCEPT ![a] = [Idle EXCEPT !.task = t]]
    <3>1. pc'[a] = "plan" /\ at'[a].task = t
      BY <2>4, PlanMoves
    <3> QED
      BY <2>1, <2>2, <3>1 DEF Told, Ran
  <2> QED
    BY <1>10, <2>3, <2>4 DEF Create
<1>11. CASE SetPlan(a)
  <2>1. pc[a] = "plan" /\ pc'[a] = "idle" /\ at'[a] = Idle /\ outcome' = outcome
    BY <1>11, DoneMoves DEF SetPlan
  <2> QED
    BY <2>1 DEF Told, Shows
<1>12. CASE ScheduleStep(a)
  BY <1>12 DEF ScheduleStep, Told, Scheduling
<1> QED
  BY <1>1, <1>2, <1>3, <1>4, <1>5, <1>6, <1>7, <1>8, <1>9, <1>10, <1>11, <1>12, StepKinds

LEMMA TellingStep ==
  TypeOK /\ Places /\ Exists /\ Patience /\ Telling /\ [Next]_vars => Telling'
<1> SUFFICES ASSUME TypeOK, Places, Exists, Patience, Telling, [Next]_vars,
                    discipline' = "patient", crashes' = 0
             PROVE  /\ \A b \in Actors : Told(b)'
                    /\ \A t \in Tasks : Ran(t)' /\ (Untended(t)' => Shows(t)')
  BY DEF Telling
<1>1. CASE UNCHANGED vars
  BY <1>1 DEF vars, rows, environment, Telling, Told, Tells, Ran, Untended, Shows
<1>2. CASE Crash
  BY <1>2 DEF Crash, TypeOK
<1>3. ASSUME NEW a \in Actors, StepOf(a)
      PROVE  /\ \A b \in Actors : Told(b)'
             /\ \A t \in Tasks : Ran(t)' /\ (Untended(t)' => Shows(t)')
  <2>1. discipline = "patient" /\ crashes = 0
    BY <1>3, StepMovesOne DEF environment
  <2>2. /\ Alone /\ Justified(a) /\ \A b \in Actors : Told(b)
        /\ \A t \in Tasks : Ran(t) /\ (Untended(t) => Shows(t))
    BY <2>1 DEF Patience, Telling
  <2>3. /\ Told(a)'
        /\ \A t \in Tasks : at[a].task = t /\ at'[a].task # t => Shows(t)'
    BY <1>3, <2>1, <2>2, ToldByActor
  <2>4. \A b \in Actors : Told(b)'
    BY <1>3, <2>2, <2>3, ToldByOthers
  <2>5. \A t \in Tasks : Ran(t)'
    BY <1>3, <2>2, RanStep
  <2>6. ASSUME NEW t \in Tasks, Untended(t)' PROVE Shows(t)'
    <3>1. CASE at[a].task = t
      BY <2>3, <2>6, <3>1 DEF Untended
    <3>2. CASE at[a].task # t
      <4>1. Untended(t)
        BY <1>3, <2>6, <3>2, StepMovesOne DEF Untended
      <4>2. outcome'[t] = outcome[t]
        BY <1>3, <3>2, StatusWrites DEF EndRun, TypeOK
      <4>3. status'[t] = status[t] \/ status[t] = "none"
        BY <1>3, <3>2, StatusWrites DEF WriteStatus, SetPlan, TypeOK
      <4> QED
        BY <2>2, <4>1, <4>2, <4>3 DEF Ran, Shows
    <3> QED
      BY <3>1, <3>2
  <2> QED
    BY <2>4, <2>5, <2>6
<1> QED
  BY <1>1, <1>2, <1>3, NextSteps

\* With patient clients and no restart, a task nobody is busy with shows how its
\* last run ended, or that it was cancelled since.
THEOREM TellsOutcome == Spec => []TaskTellsOutcome
<1>1. Init => Telling
  BY DEF Init, Telling, Told, Ran, Shows, Transiting
<1>2. Telling => TaskTellsOutcome
  BY DEF Telling, TaskTellsOutcome, Untended, Shows
<1> QED
  BY <1>1, <1>2, TellingStep, TypeCorrect, PlacesHold, PatienceHolds, PTL DEF Spec
=============================================================================
