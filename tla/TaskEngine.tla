----------------------------- MODULE TaskEngine -----------------------------
(***************************************************************************)
(* Tasks: the state machine of tasks/taskService.ts, the runner that puts  *)
(* one through the agent (tasks/taskRunner.ts), the cron scheduler that    *)
(* creates tasks (scheduler/scheduler.ts), and the requests of             *)
(* api/routes/taskRoutes.ts.                                               *)
(*                                                                         *)
(* An actor is one asynchronous call chain: a runTask started by a request *)
(* or by a cron job, or a request that creates, cancels or schedules.      *)
(* transitionTask reads the status and writes it in a later step, and so   *)
(* does everything else that waits for the database in between.            *)
(*                                                                         *)
(* The agent run of a task (module AgentRun) appears here by its outcome.  *)
(* Left out: the conversation a first run creates, notifications, events.  *)
(* An operator named Op_Mistake is Op with a mistake a programmer could    *)
(* make; no formula uses it.                                               *)
(***************************************************************************)
EXTENDS Integers, FiniteSets

CONSTANTS
  Tasks,       \* Task rows
  Schedules,   \* ScheduledTask rows
  Runners,     \* call chains that may be a runTask
  Requests,    \* call chains that may be another request
  NoTask,
  MaxCrashes,  \* bound: restarts of the server
  Disciplines  \* how clients behave: a subset of {"patient", "any"}

ASSUME SetsAssumption ==
  /\ Tasks \intersect Runners = {}
  /\ NoTask \notin Tasks /\ NoTask \notin Schedules
  /\ MaxCrashes \in Nat /\ Disciplines \subseteq {"patient", "any"}

Actors == Runners \union Requests

VARIABLES
  status,      \* Task.status; "none" before the row exists
  schedule,    \* ScheduledTask: "none", "enabled" or "disabled"
  jobs,        \* activeJobs: the schedules whose cron job is armed
  pc, at,      \* the actors: where each is, and its local variables
  activeControllers,  \* ids under which a cancellation handle is registered
  aborted,     \* ids whose handle was aborted
  providerReady,      \* the default provider is configured
  crashes,
  discipline,  \* this behaviour's clients
  outcome      \* history: how the last agent run of a task ended

rows == <<status, schedule>>
cancellation == <<activeControllers, aborted>>
environment == <<providerReady, crashes, discipline>>
vars == <<rows, jobs, pc, at, cancellation, environment, outcome>>

Outcomes == {"completed", "failed", "waiting_for_approval"}
Terminal == {"completed", "failed", "cancelled"}
TaskStatus == {"none", "queued", "planning", "running", "waiting_for_approval", "paused"}
                \union Terminal

\* ALLOWED_TRANSITIONS
Allowed ==
  [queued |-> {"planning", "running", "cancelled"},
   planning |-> {"running", "failed", "cancelled"},
   running |-> {"waiting_for_approval", "paused", "completed", "failed", "cancelled"},
   waiting_for_approval |-> {"running", "cancelled", "failed"},
   paused |-> {"running", "cancelled"},
   completed |-> {}, failed |-> {}, cancelled |-> {}]

PCs == {"idle", "read", "write", "agent", "working",
        "fireRead", "fireCreate", "plan", "arm", "disarm", "disable"}
\* goal: the status a transition wants; next: where the actor goes when
\* transitionTask returns; catch: where it goes when it throws.
Locals == [task : Tasks \union {NoTask}, schedule : Schedules \union {NoTask},
           goal : TaskStatus, next : {"idle", "agent"}, catch : {"idle", "fail"}]
Idle == [task |-> NoTask, schedule |-> NoTask, goal |-> "none", next |-> "idle", catch |-> "idle"]

TypeOK ==
  /\ status \in [Tasks -> TaskStatus]
  /\ schedule \in [Schedules -> {"none", "enabled", "disabled"}]
  /\ jobs \subseteq Schedules
  /\ pc \in [Actors -> PCs]
  /\ at \in [Actors -> Locals]
  /\ activeControllers \subseteq Tasks \union Runners
  /\ aborted \subseteq activeControllers
  /\ providerReady \in BOOLEAN
  /\ crashes \in 0..MaxCrashes
  /\ discipline \in Disciplines
  /\ outcome \in [Tasks -> {"none"} \union Outcomes]

Init ==
  /\ status = [t \in Tasks |-> "none"]
  /\ schedule = [s \in Schedules |-> "none"]
  /\ jobs = {}
  /\ pc = [a \in Actors |-> "idle"]
  /\ at = [a \in Actors |-> Idle]
  /\ activeControllers = {} /\ aborted = {}
  /\ providerReady \in BOOLEAN
  /\ crashes = 0
  /\ discipline \in Disciplines
  /\ outcome = [t \in Tasks |-> "none"]

\* Control moves to a program point; an actor that is done forgets its locals.
Goto(a, from, to) ==
  /\ pc[a] = from
  /\ pc' = [pc EXCEPT ![a] = to]
Done(a, from) ==
  /\ Goto(a, from, "idle")
  /\ at' = [at EXCEPT ![a] = Idle]

\* A patient client asks for something about a task only when nothing it asked
\* for before is still being done to it.
ClientMayAsk(t) ==
  discipline = "patient" => \A a \in Actors : at[a].task # t

-----------------------------------------------------------------------------
(* transitionTask *)

\* The actor is about to read the status, wanting to make it goal.
Transition(a, from, t, goal, next, catch) ==
  /\ Goto(a, from, "read")
  /\ at' = [at EXCEPT ![a] = [Idle EXCEPT !.task = t, !.goal = goal, !.next = next,
                                          !.catch = catch]]

MayTransition(a) == at[a].goal \in Allowed[status[at[a].task]]

ReadStatus_Unchecked(a) ==
  /\ Goto(a, "read", "write")
  /\ status[at[a].task] # at[a].goal
  /\ UNCHANGED <<rows, jobs, at, cancellation, environment, outcome>>

ReadStatus(a) ==
  /\ Goto(a, "read", "write")
  /\ status[at[a].task] # at[a].goal
  /\ MayTransition(a)
  /\ UNCHANGED <<rows, jobs, at, cancellation, environment, outcome>>

\* It returns: at once when the task already has the status it wants, or after
\* the write, which does not look at the status again.
Continue(a, from) ==
  IF at[a].next = "agent"
    THEN Goto(a, from, "agent") /\ UNCHANGED at
    ELSE Done(a, from)

AlreadyThere(a) ==
  /\ Continue(a, "read")
  /\ status[at[a].task] = at[a].goal
  /\ UNCHANGED <<rows, jobs, cancellation, environment, outcome>>

WriteStatus(a) ==
  /\ Continue(a, "write")
  /\ status' = [status EXCEPT ![at[a].task] = at[a].goal]
  /\ UNCHANGED <<schedule, jobs, cancellation, environment, outcome>>

\* It throws.  runTask answers a failed final transition by another, to
\* "failed", and only logs what that one throws.
Refused(a) ==
  /\ pc[a] = "read"
  /\ status[at[a].task] # at[a].goal /\ ~MayTransition(a)
  /\ IF at[a].catch = "fail"
       THEN Transition(a, "read", at[a].task, "failed", "idle", "idle")
       ELSE Done(a, "read")
  /\ UNCHANGED <<rows, jobs, cancellation, environment, outcome>>

-----------------------------------------------------------------------------
(* runTask *)

\* POST /tasks/:id/start, which is answered before anything happens.
Start(a, t) ==
  /\ status[t] # "none"
  /\ ClientMayAsk(t)
  /\ Transition(a, "idle", t, "running", "agent", "idle")
  /\ UNCHANGED <<rows, jobs, cancellation, environment, outcome>>

\* getDefaultProvider throws outside the try block.
NoProvider(a) ==
  /\ Done(a, "agent")
  /\ ~providerReady
  /\ UNCHANGED <<rows, jobs, cancellation, environment, outcome>>

\* runAgent registers the run's handle under the run's own id, which the model
\* identifies with the runner's.
BeginRun(a) ==
  /\ Goto(a, "agent", "working")
  /\ providerReady
  /\ activeControllers' = activeControllers \union {a}
  /\ UNCHANGED <<rows, jobs, at, aborted, environment, outcome>>

EndRun_WaitIsFailure(a, result) ==
  /\ result = "completed" => a \notin aborted
  /\ Transition(a, "working", at[a].task,
                IF result = "completed" THEN "completed" ELSE "failed", "idle", "fail")
  /\ activeControllers' = activeControllers \ {a}
  /\ aborted' = aborted \ {a}
  /\ outcome' = [outcome EXCEPT ![at[a].task] = result]
  /\ UNCHANGED <<rows, jobs, environment>>

EndRun_WaitNotTold(a, result) ==
  /\ result = "completed" => a \notin aborted
  /\ IF result = "waiting_for_approval"
       THEN Done(a, "working")
       ELSE Transition(a, "working", at[a].task, result, "idle", "fail")
  /\ activeControllers' = activeControllers \ {a}
  /\ aborted' = aborted \ {a}
  /\ outcome' = [outcome EXCEPT ![at[a].task] = result]
  /\ UNCHANGED <<rows, jobs, environment>>

\* The run ends (an aborted one cannot complete) and the task is told how.
EndRun(a, result) ==
  /\ result = "completed" => a \notin aborted
  /\ Transition(a, "working", at[a].task, result, "idle", "fail")
  /\ activeControllers' = activeControllers \ {a}
  /\ aborted' = aborted \ {a}
  /\ outcome' = [outcome EXCEPT ![at[a].task] = result]
  /\ UNCHANGED <<rows, jobs, environment>>

-----------------------------------------------------------------------------
(* The other requests about tasks *)

\* POST /tasks: createTask, and setPlan when a plan came with it.
Create(a, t) ==
  /\ status[t] = "none"
  /\ status' = [status EXCEPT ![t] = "queued"]
  /\ \/ /\ Goto(a, "idle", "plan")
        /\ at' = [at EXCEPT ![a] = [Idle EXCEPT !.task = t]]
     \/ pc[a] = "idle" /\ UNCHANGED <<pc, at>>
  /\ UNCHANGED <<schedule, jobs, cancellation, environment, outcome>>

\* setPlan writes the status whatever it is by now.
SetPlan(a) ==
  /\ Done(a, "plan")
  /\ status' = [status EXCEPT ![at[a].task] = "planning"]
  /\ UNCHANGED <<schedule, jobs, cancellation, environment, outcome>>

AbortById(id) ==
  /\ aborted' = aborted \union (activeControllers \intersect {id})
  /\ UNCHANGED activeControllers

Cancel_OtherSpelling(a, t) ==
  /\ status[t] # "none"
  /\ ClientMayAsk(t)
  /\ AbortById(t)
  /\ Transition(a, "idle", t, "canceled", "idle", "idle")
  /\ UNCHANGED <<rows, jobs, environment, outcome>>

\* POST /tasks/:id/cancel: the handle registered under the task's id, then the row.
Cancel(a, t) ==
  /\ status[t] # "none"
  /\ ClientMayAsk(t)
  /\ AbortById(t)
  /\ Transition(a, "idle", t, "cancelled", "idle", "idle")
  /\ UNCHANGED <<rows, jobs, environment, outcome>>

-----------------------------------------------------------------------------
(* The scheduler *)

\* registerScheduledTask: the row, then the cron job.
Register(a, s) ==
  /\ Goto(a, "idle", "arm")
  /\ schedule[s] = "none"
  /\ schedule' = [schedule EXCEPT ![s] = "enabled"]
  /\ at' = [at EXCEPT ![a] = [Idle EXCEPT !.schedule = s]]
  /\ UNCHANGED <<status, jobs, cancellation, environment, outcome>>

Arm(a) ==
  /\ Done(a, "arm")
  /\ jobs' = jobs \union {at[a].schedule}
  /\ UNCHANGED <<rows, cancellation, environment, outcome>>

\* unregisterScheduledTask: finds the row, stops the job, then disables the row.
Unregister(a, s) ==
  /\ Goto(a, "idle", "disarm")
  /\ schedule[s] # "none"
  /\ at' = [at EXCEPT ![a] = [Idle EXCEPT !.schedule = s]]
  /\ UNCHANGED <<rows, jobs, cancellation, environment, outcome>>

Disarm(a) ==
  /\ Goto(a, "disarm", "disable")
  /\ jobs' = jobs \ {at[a].schedule}
  /\ UNCHANGED <<rows, at, cancellation, environment, outcome>>

Disable(a) ==
  /\ Done(a, "disable")
  /\ schedule' = [schedule EXCEPT ![at[a].schedule] = "disabled"]
  /\ UNCHANGED <<status, jobs, cancellation, environment, outcome>>

\* fireScheduledTask, called by the cron job: reads the row, and when it is
\* enabled and its template and user are there, creates a task and runs it.
Fire(a, s) ==
  /\ Goto(a, "idle", "fireRead")
  /\ s \in jobs
  /\ at' = [at EXCEPT ![a] = [Idle EXCEPT !.schedule = s]]
  /\ UNCHANGED <<rows, jobs, cancellation, environment, outcome>>

FireRead(a) ==
  /\ Goto(a, "fireRead", "fireCreate")
  /\ schedule[at[a].schedule] = "enabled"
  /\ UNCHANGED <<rows, jobs, at, cancellation, environment, outcome>>

FireDropped(a) ==
  /\ Done(a, "fireRead")
  /\ UNCHANGED <<rows, jobs, cancellation, environment, outcome>>

FireCreate(a, t) ==
  /\ status[t] = "none"
  /\ status' = [status EXCEPT ![t] = "queued"]
  /\ Transition(a, "fireCreate", t, "running", "agent", "idle")
  /\ UNCHANGED <<schedule, jobs, cancellation, environment, outcome>>

-----------------------------------------------------------------------------
Crash_NothingRestored ==
  /\ crashes < MaxCrashes
  /\ crashes' = crashes + 1
  /\ pc' = [a \in Actors |-> "idle"]
  /\ at' = [a \in Actors |-> Idle]
  /\ activeControllers' = {} /\ aborted' = {}
  /\ jobs' = {}
  /\ UNCHANGED <<rows, providerReady, discipline, outcome>>

\* The server dies and starts again: restoreScheduledJobs arms every enabled
\* schedule before the first request is served; nothing looks at the tasks.
Crash ==
  /\ crashes < MaxCrashes
  /\ crashes' = crashes + 1
  /\ pc' = [a \in Actors |-> "idle"]
  /\ at' = [a \in Actors |-> Idle]
  /\ activeControllers' = {} /\ aborted' = {}
  /\ jobs' = {s \in Schedules : schedule[s] = "enabled"}
  /\ UNCHANGED <<rows, providerReady, discipline, outcome>>

TransitionStep(a) == ReadStatus(a) \/ AlreadyThere(a) \/ WriteStatus(a) \/ Refused(a)

RunnerStep(a) ==
  \/ TransitionStep(a) \/ NoProvider(a) \/ BeginRun(a)
  \/ \E result \in Outcomes : EndRun(a, result)
  \/ FireRead(a) \/ FireDropped(a)
  \/ \E t \in Tasks : FireCreate(a, t)

RequestStep(a) == TransitionStep(a) \/ SetPlan(a) \/ Arm(a) \/ Disarm(a) \/ Disable(a)

Next ==
  \/ \E a \in Runners :
       \/ \E t \in Tasks : Start(a, t)
       \/ \E s \in Schedules : Fire(a, s)
       \/ RunnerStep(a)
  \/ \E a \in Requests :
       \/ \E t \in Tasks : Create(a, t) \/ Cancel(a, t)
       \/ \E s \in Schedules : Register(a, s) \/ Unregister(a, s)
       \/ RequestStep(a)
  \/ Crash

Spec == Init /\ [][Next]_vars

\* The event loop runs the continuations of calls in progress, and an agent run
\* ends (module AgentRun, RequestsEnd).  Nobody has to ask for anything.
Fairness ==
  /\ \A a \in Runners : WF_vars(RunnerStep(a))
  /\ \A a \in Requests : WF_vars(RequestStep(a))

FairSpec == Spec /\ Fairness

-----------------------------------------------------------------------------
(* What must hold *)

\* A task shown as running is being run: whatever requests overlap, its runner
\* is alive, and on its way to tell how the run ended.  (A restart leaves tasks
\* "running", and so does a server without a provider; see the README.)
WillTell(a, t) ==
  /\ at[a].task = t
  /\ \/ pc[a] \in {"agent", "working"}
     \/ pc[a] \in {"read", "write"} /\ at[a].goal \in Outcomes
RunningTaskHasRunner ==
  (crashes = 0 /\ providerReady) => \A t \in Tasks :
    status[t] = "running" => \E a \in Runners : WillTell(a, t)

\* With patient clients a task nobody is busy with shows how its last run ended,
\* unless it was cancelled since.
TaskTellsOutcome ==
  \A t \in Tasks :
    /\ discipline = "patient" /\ crashes = 0 /\ outcome[t] # "none"
         /\ (\A a \in Actors : at[a].task # t)
       => status[t] \in {outcome[t], "cancelled"}

\* With patient clients the status of a task only moves along ALLOWED_TRANSITIONS.
LegalTransitions ==
  [][discipline = "patient" => \A t \in Tasks :
       status'[t] # status[t] /\ status[t] # "none" => status'[t] \in Allowed[status[t]]]_vars

\* A schedule that is shown as enabled fires: its job is armed unless a request is
\* busy with it, after a restart too; a job without an enabled row comes to nothing.
ScheduleIsArmed ==
  \A s \in Schedules :
    schedule[s] = "enabled" /\ (\A a \in Requests : at[a].schedule # s) => s \in jobs

\* A task that was put to running, by a user or a schedule, does not stay so.
RunningTaskSettles ==
  [](crashes = 0 /\ providerReady) =>
    \A t \in Tasks : status[t] = "running" ~> status[t] # "running"

-----------------------------------------------------------------------------
(* What the repository says and the code does not do *)

\* Cancelling a task reaches the provider call or the tool its run is waiting for
\* (taskService.ts: rather than merely flipping a DB flag).
CancelStopsTheRun ==
  \A a \in Runners :
    pc[a] = "working" /\ status[at[a].task] = "cancelled" => a \in aborted
=============================================================================
