------------------------------ MODULE AgentRun ------------------------------
(***************************************************************************)
(* The agent orchestrator (agent/orchestrator.ts) with the approval engine *)
(* (approvals/approvalService.ts) and the cancellation registry            *)
(* (tasks/taskService.ts), as the concurrent requests of a server share    *)
(* them.                                                                   *)
(*                                                                         *)
(* A worker is one request being served: a runAgent call, or a             *)
(* resumeAgentRun call.  JavaScript runs one continuation at a time, so    *)
(* between two awaits a worker is atomic, and every action below is the    *)
(* code from one await to the next.  Two awaits share an action only when  *)
(* the second is the append of a transcript message or of a timestamp that *)
(* no other request reads before it is written.                            *)
(*                                                                         *)
(* The rows of the database survive Crash; workers, cancellation handles   *)
(* and plugin tools do not.                                                *)
(*                                                                         *)
(* An operator named Op_Mistake is Op with a mistake a programmer could make. *)
(* No formula uses it: the model is also checked with Op so replaced, to   *)
(* see that a property notices.                                            *)
(***************************************************************************)
EXTENDS Integers, FiniteSets

CONSTANTS
  Runs,          \* AgentRun rows
  Workers,       \* requests being served at a time
  Resolvers,     \* POST /approvals/:id/resolve requests at a time
  Tools,         \* tool names the model may ask for
  Gated,         \* tools whose resolved risk or declaration needs approval
  Forbidden,     \* tools that need a permission the role does not hold
  Pluggable,     \* tools of plugins: they come and go while the server runs
  NoTool, NoRun, NoWorker

CONSTANTS
  MaxSteps,      \* AGENT_MAX_STEPS
  MaxToolCalls,  \* AGENT_MAX_TOOL_CALLS
  MaxBatch,      \* bound: tool calls in one model response
  MaxAnnounced,  \* bound: tool calls a model asks for in one run, ever
  MaxCalls,      \* bound: ToolCallRecord rows
  MaxCrashes,    \* bound: restarts of the server
  Disciplines    \* how clients behave: a subset of {"serial", "overlapping"}

ASSUME SetsAssumption ==
  /\ Gated \subseteq Tools /\ Forbidden \subseteq Tools /\ Pluggable \subseteq Tools
  /\ NoTool \notin Tools /\ NoRun \notin Runs /\ NoWorker \notin Workers
  /\ Disciplines \subseteq {"serial", "overlapping"}

ASSUME BoundsAssumption ==
  /\ MaxSteps \in Nat /\ MaxToolCalls \in Nat /\ MaxBatch \in Nat
  /\ MaxAnnounced \in Nat /\ MaxCalls \in Nat /\ MaxCrashes \in Nat

Call == 1..MaxCalls

VARIABLES
  runStatus,   \* AgentRun.status
  rec,         \* ToolCallRecord rows, in the order they were created
  nRecords,    \* how many there are
  approval,    \* Approval.status of the request made for a record
  announced,   \* tool calls the run's transcript announces
  answered,    \* of those, the ones a tool message answers under their own id
  pc, wk,      \* the workers: where each is, and its local variables
  controller,  \* activeControllers: whose signal abortById(run) would abort
  registered,  \* toolRegistry
  rv,          \* the resolve requests
  crashes,
  discipline,  \* this behaviour's clients
  granted,     \* history: records whose approval was ever written "approved"
  effects      \* history: how many times a record's tool.execute was called

rows == <<runStatus, rec, nRecords, approval, announced, answered>>
memory == <<pc, wk, controller, registered, rv>>
vars == <<rows, memory, crashes, discipline, granted, effects>>

RunStatus == {"none", "running", "waiting_for_approval", "completed", "failed"}
RecordStatus == {"none", "pending", "denied", "executing", "succeeded", "failed"}
Records == [run : Runs \union {NoRun}, tool : Tools \union {NoTool},
            status : RecordStatus, linked : BOOLEAN]
NoRecord == [run |-> NoRun, tool |-> NoTool, status |-> "none", linked |-> FALSE]

\* The inside of executeLoop and executeToolCall.
LoopPCs == {"loop", "model", "answer", "call", "check", "link", "poll", "mark",
            "execute", "settle", "park", "fail", "leave"}
\* What resumeAgentRun does before its try block, and inside it.
LookupPCs == {"findCall", "readApproval"}
ResumePCs == {"deny", "reopen"}
PCs == {"idle"} \union LoopPCs \union LookupPCs \union ResumePCs

Locals == [run : Runs \union {NoRun}, entry : {"run", "resume"}, parked : BOOLEAN,
           call : {0} \union Call, left : Nat, step : Nat, calls : Nat, aborted : BOOLEAN]
Idle == [run |-> NoRun, entry |-> "run", parked |-> FALSE, call |-> 0, left |-> 0,
         step |-> 0, calls |-> 0, aborted |-> FALSE]

NoDecision == [call |-> 0, decision |-> "none"]
Decisions == {"approved", "denied"}
Decisive == {NoDecision} \union [call : Call, decision : Decisions]

TypeOK ==
  /\ runStatus \in [Runs -> RunStatus]
  /\ rec \in [Call -> Records]
  /\ nRecords \in 0..MaxCalls
  /\ approval \in [Call -> {"none", "pending"} \union Decisions]
  /\ announced \in [Runs -> Nat]
  /\ answered \in [Runs -> Nat]
  /\ pc \in [Workers -> PCs]
  /\ wk \in [Workers -> Locals]
  /\ controller \in [Runs -> Workers \union {NoWorker}]
  /\ registered \subseteq Tools
  /\ rv \in [Resolvers -> Decisive]
  /\ crashes \in 0..MaxCrashes
  /\ discipline \in Disciplines
  /\ granted \subseteq Call
  /\ effects \in [Call -> Nat]

Init ==
  /\ runStatus = [r \in Runs |-> "none"]
  /\ rec = [c \in Call |-> NoRecord]
  /\ nRecords = 0
  /\ approval = [c \in Call |-> "none"]
  /\ announced = [r \in Runs |-> 0]
  /\ answered = [r \in Runs |-> 0]
  /\ pc = [w \in Workers |-> "idle"]
  /\ wk = [w \in Workers |-> Idle]
  /\ controller = [r \in Runs |-> NoWorker]
  /\ registered \in {Tools, Tools \ Pluggable}
  /\ rv = [v \in Resolvers |-> NoDecision]
  /\ crashes = 0
  /\ discipline \in Disciplines
  /\ granted = {}
  /\ effects = [c \in Call |-> 0]

Goto(w, from, to) == pc[w] = from /\ pc' = [pc EXCEPT ![w] = to]
RunOf(w) == wk[w].run
Current(w) == wk[w].call
SetRecord(w, status) == rec' = [rec EXCEPT ![Current(w)].status = status]
\* The tool message of a call of the current batch carries that call's own id.
AnswerCall(w) == answered' = [answered EXCEPT ![RunOf(w)] = @ + 1]

environment == <<registered, rv, crashes, discipline>>
history == <<granted, effects>>
transcript == <<announced, answered>>

-----------------------------------------------------------------------------
(* runAgent and executeLoop *)

\* runAgent: the run's row, its cancellation handle, and into the loop.
StartRun(w, r) ==
  /\ Goto(w, "idle", "loop")
  /\ runStatus[r] = "none"
  /\ wk' = [wk EXCEPT ![w] = [Idle EXCEPT !.run = r]]
  /\ runStatus' = [runStatus EXCEPT ![r] = "running"]
  /\ controller' = [controller EXCEPT ![r] = w]
  /\ UNCHANGED <<rec, nRecords, approval, transcript, environment, history>>

TakeStep(w) ==
  /\ Goto(w, "loop", "model")
  /\ wk[w].step < MaxSteps
  /\ wk' = [wk EXCEPT ![w].step = @ + 1]
  /\ UNCHANGED <<rows, controller, environment, history>>

StepLimit(w) ==
  /\ Goto(w, "loop", "fail")
  /\ wk[w].step >= MaxSteps
  /\ UNCHANGED <<rows, wk, controller, environment, history>>

\* Providers and their retries give up on a request whose signal is aborted.
AbortedRequest(w) ==
  /\ Goto(w, "model", "fail")
  /\ wk[w].aborted
  /\ UNCHANGED <<rows, wk, controller, environment, history>>

\* The time limit, or a provider error.
LoopThrows(w) ==
  /\ \/ Goto(w, "loop", "fail")
     \/ Goto(w, "model", "fail")
  /\ UNCHANGED <<rows, wk, controller, environment, history>>

ModelAnswers(w) ==
  /\ Goto(w, "model", "answer")
  /\ ~wk[w].aborted
  /\ UNCHANGED <<rows, wk, controller, environment, history>>

ModelCallsTools(w, n) ==
  /\ Goto(w, "model", "call")
  /\ ~wk[w].aborted
  /\ announced[RunOf(w)] + n <= MaxAnnounced
  /\ wk' = [wk EXCEPT ![w].left = n]
  /\ announced' = [announced EXCEPT ![RunOf(w)] = @ + n]
  /\ UNCHANGED <<runStatus, rec, nRecords, approval, answered, controller, environment, history>>

\* The loop's outcome is written to the run's row ...
SetRun(w, status) ==
  /\ runStatus' = [runStatus EXCEPT ![RunOf(w)] = status]
  /\ UNCHANGED <<rec, nRecords, approval, transcript, wk, controller, environment, history>>

Complete(w) == Goto(w, "answer", "leave") /\ SetRun(w, "completed")

Park(w) == Goto(w, "park", "leave") /\ SetRun(w, "waiting_for_approval")

Fail(w) ==
  /\ Goto(w, "fail", "leave")
  /\ wk[w].entry = "run"
  /\ SetRun(w, "failed")

\* ... and the finally block drops whatever handle is registered under its id.
Leave(w, from) ==
  /\ Goto(w, from, "idle")
  /\ controller' = [controller EXCEPT ![RunOf(w)] = NoWorker]
  /\ wk' = [wk EXCEPT ![w] = Idle]
  /\ UNCHANGED <<rows, environment, history>>

Return(w) == Leave(w, "leave")

\* resumeAgentRun catches nothing: what its loop throws leaves the row alone.
Rethrow(w) == wk[w].entry = "resume" /\ Leave(w, "fail")

BatchDone(w) ==
  /\ Goto(w, "call", "loop")
  /\ wk[w].left = 0
  /\ UNCHANGED <<rows, wk, controller, environment, history>>

ToolCallLimit(w) ==
  /\ Goto(w, "call", "fail")
  /\ wk[w].left > 0 /\ wk[w].calls >= MaxToolCalls
  /\ UNCHANGED <<rows, wk, controller, environment, history>>

-----------------------------------------------------------------------------
(* executeToolCall *)

CreateRecord(w, t) ==
  /\ Goto(w, "call", "check")
  /\ wk[w].left > 0 /\ wk[w].calls < MaxToolCalls
  /\ nRecords < MaxCalls
  /\ nRecords' = nRecords + 1
  /\ rec' = [rec EXCEPT ![nRecords + 1] =
               [run |-> RunOf(w), tool |-> t, status |-> "pending", linked |-> FALSE]]
  /\ wk' = [wk EXCEPT ![w].call = nRecords + 1, ![w].left = @ - 1, ![w].calls = @ + 1]
  /\ UNCHANGED <<runStatus, approval, transcript, controller, environment, history>>

\* The call goes no further: unknown tool or arguments the schema rejects
\* ("failed"), or a permission the role does not hold ("denied").
Refuse(w) ==
  /\ Goto(w, "check", "call")
  /\ \/ SetRecord(w, "failed")
     \/ /\ rec[Current(w)].tool \in registered \intersect Forbidden
        /\ SetRecord(w, "denied")
  /\ AnswerCall(w)
  /\ UNCHANGED <<runStatus, nRecords, approval, announced, wk, controller, environment, history>>

MayProceed_NoPermissionCheck(w) == rec[Current(w)].tool \in registered
MayProceed(w) == rec[Current(w)].tool \in registered \ Forbidden

ProceedUngated(w) ==
  /\ Goto(w, "check", "mark")
  /\ MayProceed(w) /\ rec[Current(w)].tool \notin Gated
  /\ UNCHANGED <<rows, wk, controller, environment, history>>

\* requestApproval creates the Approval row ...
RequestApproval(w) ==
  /\ Goto(w, "check", "link")
  /\ MayProceed(w) /\ rec[Current(w)].tool \in Gated
  /\ approval' = [approval EXCEPT ![Current(w)] = "pending"]
  /\ UNCHANGED <<runStatus, rec, nRecords, transcript, wk, controller, environment, history>>

LinkApproval_LinkForgotten(w) ==
  /\ Goto(w, "link", "poll")
  /\ SetRecord(w, "pending")
  /\ UNCHANGED <<runStatus, nRecords, approval, transcript, wk, controller, environment, history>>

\* ... and only then does the record point to it.
LinkApproval(w) ==
  /\ Goto(w, "link", "poll")
  /\ rec' = [rec EXCEPT ![Current(w)].status = "pending", ![Current(w)].linked = TRUE]
  /\ UNCHANGED <<runStatus, nRecords, approval, transcript, wk, controller, environment, history>>

\* waitForApprovalResolution: one poll that finds a decision, or the deadline,
\* which may pass after a decision that no poll has seen.
SeeApproved(w) ==
  /\ Goto(w, "poll", "mark")
  /\ approval[Current(w)] = "approved"
  /\ UNCHANGED <<rows, wk, controller, environment, history>>

SeeDenied(w) ==
  /\ Goto(w, "poll", "call")
  /\ approval[Current(w)] = "denied"
  /\ SetRecord(w, "denied")
  /\ AnswerCall(w)
  /\ UNCHANGED <<runStatus, nRecords, approval, announced, wk, controller, environment, history>>

WaitTimesOut_OnlyIfDecided(w) ==
  /\ Goto(w, "poll", "park")
  /\ approval[Current(w)] # "pending"
  /\ UNCHANGED <<rows, wk, controller, environment, history>>

WaitTimesOut(w) ==
  /\ Goto(w, "poll", "park")
  /\ UNCHANGED <<rows, wk, controller, environment, history>>

MarkExecuting_WrongStatus(w) ==
  /\ Goto(w, "mark", "execute")
  /\ SetRecord(w, "running")
  /\ UNCHANGED <<runStatus, nRecords, approval, transcript, wk, controller, environment, history>>

MarkExecuting_Skipped(w) ==
  /\ Goto(w, "mark", "execute")
  /\ UNCHANGED <<rows, wk, controller, environment, history>>

MarkExecuting(w) ==
  /\ Goto(w, "mark", "execute")
  /\ SetRecord(w, "executing")
  /\ UNCHANGED <<runStatus, nRecords, approval, transcript, wk, controller, environment, history>>

Execute(w) ==
  /\ Goto(w, "execute", "settle")
  /\ effects' = [effects EXCEPT ![Current(w)] = @ + 1]
  /\ UNCHANGED <<rows, wk, controller, environment, granted>>

\* The tool returned or threw.  In a resume the tool message carries the
\* record's id, which answers none of the announced calls.
Settle(w, status) ==
  /\ \/ Goto(w, "settle", "call") /\ ~wk[w].parked /\ AnswerCall(w)
     \/ Goto(w, "settle", "reopen") /\ wk[w].parked /\ UNCHANGED answered
  /\ SetRecord(w, status)
  /\ UNCHANGED <<runStatus, nRecords, approval, announced, wk, controller, environment, history>>

-----------------------------------------------------------------------------
(* resumeAgentRun *)

\* A serial client asks only when no request of its own is working on the run.
ClientMayAsk(r) == discipline = "serial" => \A w \in Workers : RunOf(w) # r

StartResume(w, r) ==
  /\ Goto(w, "idle", "findCall")
  /\ ClientMayAsk(r)
  /\ runStatus[r] = "waiting_for_approval"
  /\ wk' = [wk EXCEPT ![w] = [Idle EXCEPT !.run = r, !.entry = "resume", !.parked = TRUE]]
  /\ UNCHANGED <<rows, controller, environment, history>>

PendingOf_OrInterrupted(r) ==
  {c \in Call : rec[c].run = r /\ rec[c].status \in {"pending", "executing"}}
PendingOf(r) == {c \in Call : rec[c].run = r /\ rec[c].status = "pending"}
IsNewestPending(c, r) == c \in PendingOf(r) /\ \A d \in PendingOf(r) : d <= c

FindCall(w) ==
  /\ \E c \in Call :
       /\ IsNewestPending(c, RunOf(w)) /\ rec[c].linked
       /\ Goto(w, "findCall", "readApproval")
       /\ wk' = [wk EXCEPT ![w].call = c]
  /\ UNCHANGED <<rows, controller, environment, history>>

\* The request is rejected before resumeAgentRun's try block: nothing changes.
NoCallToResume(w) ==
  /\ Goto(w, "findCall", "idle")
  /\ \A c \in Call : ~(IsNewestPending(c, RunOf(w)) /\ rec[c].linked)
  /\ wk' = [wk EXCEPT ![w] = Idle]
  /\ UNCHANGED <<rows, controller, environment, history>>

StillPending(w) ==
  /\ Goto(w, "readApproval", "idle")
  /\ approval[Current(w)] = "pending"
  /\ wk' = [wk EXCEPT ![w] = Idle]
  /\ UNCHANGED <<rows, controller, environment, history>>

ReadDecision_AnyVerdict(w) ==
  /\ Goto(w, "readApproval", "mark")
  /\ approval[Current(w)] # "pending"
  /\ rec[Current(w)].tool \in registered
  /\ controller' = [controller EXCEPT ![RunOf(w)] = w]
  /\ UNCHANGED <<rows, wk, environment, history>>

ReadDecision_NoHandle(w) ==
  /\ \/ /\ Goto(w, "readApproval", "deny")
        /\ approval[Current(w)] = "denied"
     \/ /\ Goto(w, "readApproval", "mark")
        /\ approval[Current(w)] = "approved" /\ rec[Current(w)].tool \in registered
  /\ UNCHANGED <<rows, wk, controller, environment, history>>

\* Registers a new cancellation handle, replacing any; the run's tool is
\* looked up again, but neither the permission nor the status is.
ReadDecision(w) ==
  /\ \/ /\ Goto(w, "readApproval", "deny")
        /\ approval[Current(w)] = "denied"
     \/ /\ Goto(w, "readApproval", "mark")
        /\ approval[Current(w)] = "approved" /\ rec[Current(w)].tool \in registered
  /\ controller' = [controller EXCEPT ![RunOf(w)] = w]
  /\ UNCHANGED <<rows, wk, environment, history>>

\* toolRegistry.get throws, and the finally block runs.
ToolIsGone(w) ==
  /\ Leave(w, "readApproval")
  /\ approval[Current(w)] = "approved" /\ rec[Current(w)].tool \notin registered

RecordDenial(w) ==
  /\ Goto(w, "deny", "reopen")
  /\ SetRecord(w, "denied")
  /\ UNCHANGED <<runStatus, nRecords, approval, transcript, wk, controller, environment, history>>

Reopen_StatusKept(w) ==
  /\ Goto(w, "reopen", "loop")
  /\ wk' = [wk EXCEPT ![w].parked = FALSE, ![w].call = 0]
  /\ UNCHANGED <<rows, controller, environment, history>>

\* executeLoop starts over with its own step and tool-call counters.
Reopen(w) ==
  /\ Goto(w, "reopen", "loop")
  /\ runStatus' = [runStatus EXCEPT ![RunOf(w)] = "running"]
  /\ wk' = [wk EXCEPT ![w].parked = FALSE, ![w].call = 0]
  /\ UNCHANGED <<rec, nRecords, approval, transcript, controller, environment, history>>

-----------------------------------------------------------------------------
(* The requests and events around the loop *)

\* abortById: a disconnected stream or a barge-in.
Abort(r) ==
  /\ controller[r] # NoWorker
  /\ wk' = [wk EXCEPT ![controller[r]].aborted = TRUE]
  /\ UNCHANGED <<rows, pc, controller, environment, history>>

\* resolveApproval reads, and writes what it decided whatever it finds then.
ReadPending(v, c, d) ==
  /\ rv[v] = NoDecision
  /\ approval[c] = "pending"
  /\ rv' = [rv EXCEPT ![v] = [call |-> c, decision |-> d]]
  /\ UNCHANGED <<rows, pc, wk, controller, registered, crashes, discipline, history>>

WriteDecision(v) ==
  /\ rv[v] # NoDecision
  /\ approval' = [approval EXCEPT ![rv[v].call] = rv[v].decision]
  /\ granted' = IF rv[v].decision = "approved" THEN granted \union {rv[v].call} ELSE granted
  /\ rv' = [rv EXCEPT ![v] = NoDecision]
  /\ UNCHANGED <<runStatus, rec, nRecords, transcript, pc, wk, controller, registered,
                 crashes, discipline, effects>>

LoadPlugin(t) ==
  /\ registered' = registered \union {t}
  /\ UNCHANGED <<rows, pc, wk, controller, rv, crashes, discipline, history>>

DisablePlugin(t) ==
  /\ registered' = registered \ {t}
  /\ UNCHANGED <<rows, pc, wk, controller, rv, crashes, discipline, history>>

\* The process dies and is started again: nothing at startup looks at the rows.
Crash ==
  /\ crashes < MaxCrashes
  /\ crashes' = crashes + 1
  /\ pc' = [w \in Workers |-> "idle"]
  /\ wk' = [w \in Workers |-> Idle]
  /\ controller' = [r \in Runs |-> NoWorker]
  /\ rv' = [v \in Resolvers |-> NoDecision]
  /\ registered' = Tools \ Pluggable
  /\ UNCHANGED <<rows, discipline, history>>

-----------------------------------------------------------------------------
LoopStep(w) ==
  \/ TakeStep(w) \/ StepLimit(w) \/ ModelAnswers(w) \/ AbortedRequest(w)
  \/ \E n \in 1..MaxBatch : ModelCallsTools(w, n)
  \/ Complete(w) \/ Park(w) \/ Fail(w) \/ Return(w) \/ Rethrow(w)
  \/ BatchDone(w) \/ ToolCallLimit(w)

CallStep(w) ==
  \/ \E t \in Tools : CreateRecord(w, t)
  \/ Refuse(w) \/ ProceedUngated(w) \/ RequestApproval(w) \/ LinkApproval(w)
  \/ SeeApproved(w) \/ SeeDenied(w) \/ WaitTimesOut(w)
  \/ MarkExecuting(w) \/ Execute(w)
  \/ \E status \in {"succeeded", "failed"} : Settle(w, status)

ResumeStep(w) ==
  \/ FindCall(w) \/ NoCallToResume(w) \/ StillPending(w) \/ ReadDecision(w)
  \/ ToolIsGone(w) \/ RecordDenial(w) \/ Reopen(w)

WorkerStep(w) == LoopStep(w) \/ CallStep(w) \/ ResumeStep(w) \/ LoopThrows(w)

Request(w) == \E r \in Runs : StartRun(w, r) \/ StartResume(w, r)

Resolve(v) ==
  \/ \E c \in Call, d \in Decisions : ReadPending(v, c, d)
  \/ WriteDecision(v)

Next ==
  \/ \E w \in Workers : Request(w) \/ WorkerStep(w)
  \/ \E r \in Runs : Abort(r)
  \/ \E v \in Resolvers : Resolve(v)
  \/ \E t \in Pluggable : LoadPlugin(t) \/ DisablePlugin(t)
  \/ Crash

Spec == Init /\ [][Next]_vars

\* A request being served goes on: the event loop runs its continuations, model
\* calls and tools return or throw, and the deadline of a wait passes.  Nothing
\* is assumed of people, of plugins or of errors; a client that was told a run
\* waits asks to resume it until it does.
Fairness ==
  /\ \A w \in Workers : WF_vars(LoopStep(w) \/ CallStep(w) \/ ResumeStep(w))
  /\ \A r \in Runs : WF_vars(\E w \in Workers : StartResume(w, r))

FairSpec == Spec /\ Fairness

-----------------------------------------------------------------------------
(* What must hold *)

\* No tool call takes effect without the permission it needs, and no gated one
\* before a human approved that very call - however the requests of clients,
\* the decisions of users, plugin reloads and restarts fall between its steps.
OnlyAuthorisedEffects ==
  \A c \in Call : effects[c] > 0 =>
    /\ rec[c].tool \notin Forbidden
    /\ rec[c].tool \in Gated => c \in granted

\* With clients that do not overlap their requests on a run, a recorded call is
\* carried out at most once, also when the server dies between its execution and
\* the record of its outcome and the run is resumed afterwards.
AtMostOneEffect ==
  discipline = "serial" => \A c \in Call : effects[c] <= 1

\* With such clients the record tells what happened: a call shown as waiting or
\* denied has had no effect, one shown as succeeded has had exactly one.
RecordTellsEffect ==
  discipline = "serial" => \A c \in Call :
    /\ rec[c].status \in {"none", "pending", "denied"} => effects[c] = 0
    /\ rec[c].status = "succeeded" => effects[c] = 1

\* A run that is left waiting can be resumed: the record resumeAgentRun will look
\* up is there, points to its approval, and that approval was put to the user.
\* (A restart in the middle of a resume breaks this; see the README.)
WaitingRunCanResume ==
  (discipline = "serial" /\ crashes = 0) => \A r \in Runs :
    (runStatus[r] = "waiting_for_approval" /\ \A w \in Workers : RunOf(w) # r) =>
      \E c \in Call : /\ IsNewestPending(c, r) /\ rec[c].linked
                     /\ approval[c] # "none" /\ rec[c].tool \in Gated

\* With such clients, aborting a run by its id reaches the request that is working
\* on it, for as long as it works on it.
InTry(w) == pc[w] \in LoopPCs \union ResumePCs
AbortReachesTheLoop ==
  discipline = "serial" => \A w \in Workers : InTry(w) => controller[RunOf(w)] = w

\* Every request on a run is answered: neither a human who never decides nor a
\* model that never stops asking for tools keeps it open.
RequestsEnd ==
  \A w \in Workers : pc[w] # "idle" ~> pc[w] = "idle"

\* Once the call a run waits for is decided, the run goes on - unless the server
\* was restarted, or the tool never stays registered.
Decided(r) == /\ runStatus[r] = "waiting_for_approval"
              /\ \E c \in PendingOf(r) : approval[c] \in Decisions
DecidedRunGoesOn ==
  ([](discipline = "serial" /\ crashes = 0) /\ <>[](registered = Tools)) =>
    \A r \in Runs : Decided(r) ~> runStatus[r] # "waiting_for_approval"

\* The orchestrator implements the gate the approval engine promises.
Gate == INSTANCE ApprovalGate WITH
  exclusive <- discipline = "serial",
  tool <- [c \in Call |-> rec[c].tool],
  asked <- {c \in Call : approval[c] # "none"}

ImplementsGate == Gate!GateSpec

-----------------------------------------------------------------------------
(* What the repository says and the code does not do *)

\* Each approval lets the call it names run once (approvalService.ts: never a
\* generic grant).  Two resumes of one run both pass the status check.
OneEffectPerApproval == \A c \in Call : effects[c] <= 1

\* The transcript handed to the model answers every tool call it announces
\* (ARCHITECTURE.md: a complete, replayable record).
TranscriptIsComplete ==
  \A w \in Workers : pc[w] = "model" => answered[RunOf(w)] = announced[RunOf(w)]
=============================================================================
