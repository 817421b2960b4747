# A TLA+ verification of the Jarvis backend

The repository is the backend of a personal assistant: a Fastify server in
TypeScript that puts chat turns, background tasks and voice conversations
through one agent loop, with tools, approvals by a human, and a screen
perception engine ("Eyes"). This directory holds TLA+ modules of its stateful
parts, TLC configurations that check them on small instances, and proofs that
TLAPS checks for every instance. Everything is translated from the source.
`PROJECT.json` maps each definition to the lines it stands for.

## 1. The system

The server is one Node process over one relational database (Prisma). Code
between two `await`s is atomic; everything else interleaves: HTTP requests,
WebSocket messages, cron jobs, timers, child-process output. Rows survive a
restart, maps and session objects do not, and `server.ts` restores only cron
jobs and Eyes engines.

| component | source (under `src/src/`) | state | operations | what makes it correct |
|---|---|---|---|---|
| agent orchestrator | `agent/orchestrator.ts` | `AgentRun`, `ToolCallRecord` rows; per-request loop counters | `runAgent`, `executeLoop`, `executeToolCall`, `resumeAgentRun` | no tool runs without permission and approval; a call runs once; the rows tell what happened; requests end |
| approval engine | `approvals/approvalService.ts` | `Approval` rows | `requestApproval`, `resolveApproval`, `waitForApprovalResolution` | a grant answers a question that was put, for one call |
| cancellation registry | `tasks/taskService.ts` | `activeControllers` map | register, clear, `abortById` | an abort reaches whoever works on the id |
| tasks | `tasks/taskService.ts`, `tasks/taskRunner.ts`, `api/routes/taskRoutes.ts` | `Task` rows | create, plan, `transitionTask`, `runTask`, cancel | legal transitions; a running task is being run and settles; status tells outcome |
| scheduler | `scheduler/scheduler.ts` | `ScheduledTask` rows, `activeJobs` | register, fire, unregister, restore | enabled schedules are armed, also after a restart |
| conversation log | `conversation/conversationService.ts` | `Message` rows | append, `getHistory` | the transcript a model sees is complete and recent |
| tool registry, plugins, MCP | `tools/registry.ts`, `plugins/`, `mcp/` | registry map, names per plugin, MCP clients | load, disable, enable, connect, disconnect | disabling one source removes its tools and no other's |
| AI router and providers | `ai/` | the reply being assembled; attempts | `chat`, `chatStream`, `withRetry` | a streamed reply is the reply; calls keep their arguments; retries stop on abort |
| memory | `memory/memoryService.ts` | `MemoryItem` rows | remember, edit, retrieve | one live row per key, saying what was told last; what fits best is found |
| authentication, connections | `auth/`, `realtime/gateway.ts`, `api/routes/realtimeRoute.ts` | `User`, `Session` rows; sockets per user | register, login, logout, connect, emit, close | one owner; events reach the tabs of their user only |
| activation | `activation/` | config per user, clap counters | hydrate, PATCH, audio chunks | the stored mode is in force; a clap pattern is what its definition says |
| voice relay, VAD | `voice/` | per-connection session, counters | audio chunks, barge-in, replies | a reply is spoken once, stops when told to; utterances begin and end where they should |
| native voice | `voice/realtime/` | session, lazily created run | provider events, tool calls | each call gets one answer; calls keep the approval path |
| Eyes engine and service | `eyes/visualPerceptionEngine.ts`, `eyes/eyesService.ts` | engines per user, capture stream | start, stop, retune, settings | engines follow the setting; no stray process; no pixels unless asked for |
| Eyes attention, history, capability | `eyes/attentionManager.ts`, `eyes/visualHistory.ts`, `eyes/captureCapability.ts` | desktop picture, bounded tiers, estimator | event, record, query, measure | the picture follows the desktop; bounds are kept; estimates are shown, not guessed |
| Eyes transport and context | `eyes/transport/`, `eyes/visualContext.ts`, `agent/orchestrator.ts` | pending slot, sessions, the context that waits | offer, flush, ensure, select, attach | rates are kept; one live path; sight only as permitted |
| Eyes on Windows | `eyes/providers/windows/` | child process, capture threads | commands, lines | status lines tell what runs |
| browser manager | `browser/browserManager.ts` | browser, sessions | get, use, reap, close | what runs can be found and closed |
| applications, calculator | `computer/appDiscovery.ts`, `computer/appLauncher.ts`, `tools/builtin/calculatorTool.ts` | cache of a scan; operator stacks | find, launch; evaluate | what is opened fits; the value is the expression's |
| other computer control, credentials, integrations, notifications | `computer/`, `security/`, `integrations/`, ... | none or one row | calls to the OS or to services | left out (section 6) |

How they interact: routes call services directly; the orchestrator calls the
registry, the approval engine and the cancellation registry; the runner and the
voice sessions call the orchestrator; cron jobs call the runner; everything
reports on the event bus, which the gateway and the voice session listen to.

What is hard here: two requests about the same row with a read before an
`await` and a write after it (runs, approvals, tasks); a decision racing the
deadline of a wait; a restart between two writes; plugins reloaded under a
parked call; in voice, a superseded reply that is still winding down; in Eyes, a retune, a
stop and a dying child process, each across awaits. The full
list, line by line, is under `hazards` in `PROJECT.json`.

## 2. What is modelled

### AgentRun (`agent/orchestrator.ts`, `approvals/approvalService.ts`, part of `tasks/taskService.ts`)

A *worker* is a request being served, either `runAgent` or `resumeAgentRun`;
`pc[w]` is the `await` it stands at and `wk[w]` its locals. An action is the
code from one `await` to the next. Rows are functions (`runStatus`, `rec`,
`approval`); `controller` is `activeControllers`; `registered` is the tool
registry, from which plugin tools come and go; `rv` are resolve requests that
have read and not yet written. `Crash` forgets all but the rows, as startup
does. Tools are classified by result: `Gated` (needs approval), `Forbidden`
(permission missing), `Pluggable`. `resumeAgentRun` shares the actions
`MarkExecuting`, `Execute` and `Settle` with the loop; the local `parked` tells
the two apart until the resumed call is settled.

Clients come in two disciplines, chosen initially: `serial` (does not ask to
resume a run while its own request on it is open) and `overlapping` (anything
goes). Where a property needs the first, it says so in its formula.

### ApprovalGate

The abstract specification: calls are proposed, put to the user, granted and
carried out; a gated call is carried out only if granted, a forbidden one
never, and with exclusive clients no call twice. `AgentRun` is shown to
implement it (`ImplementsGate`): loops, rows, parking, resuming, restarts and
plugin reloads are all stuttering or one of its four steps.

### TaskEngine (`tasks/`, `scheduler/`, `api/routes/taskRoutes.ts`)

An *actor* is an asynchronous call chain: a `runTask` started by a request or a
cron job, or another request. `transitionTask`'s read (`ReadStatus`,
`AlreadyThere`, `Refused`) and write (`WriteStatus`) are separate steps,
`Refused` being the exception and where its caller catches it. The agent run of
a task appears by its outcome; `outcome` remembers the last. Handles are
registered under the runner's identity, which stands for the run's id, and
looked up by `Cancel` under the task's.

### RelayVoice (`voice/realtimeSession.ts`, `voice/activationGate.ts`, the relay part of `api/routes/realtimeVoiceRoute.ts`)

One session. A *turn* is an utterance or a text and all it starts; `pc[t]` is the
`await` it stands at, `draining` holds the turns whose `drainQueue` is speaking.
The session's fields (`activeAgentRunId`, `unsubscribeDelta`,
`ttsAbortController`) each name a turn. `responseGeneration` is only ever compared
with a captured value, so `current` names the turn that captured the present one,
and an interrupt's increment sets it to nobody. Audio appears by the VAD events
in a chunk. A *patient* user waits for a reply to end or talks over it while the
state tells that there is one; any user does anything at any time.

### EyesCapture (`eyes/eyesService.ts`, `eyes/visualPerceptionEngine.ts`, `eyes/providers/windows/`, PATCH of `api/routes/settingsRoutes.ts`)

One user's Eyes as a distributed system: node and the watcher process, joined by
stdin (`commands`) and stdout (`lines`), both in order. An *actor* awaits the
provider: a request (a PATCH, or the restore at startup) or the engine itself, for
the retune it fires and forgets. An engine and its provider have one name, so that
engines left behind stay visible. `Answered` is the resolution of a command's promise, by its
response or by `CommandTimesOut`; `ReadLine` is `handleLine` for every kind of
line. `upsets` remembers what went wrong, for properties that set such cases aside
by name.

### The companions

Eighteen smaller modules, one per part, each with its own prefix of names
(`MemoryInit`, `MemoryNext`, ...):

| module | source | an action is |
|---|---|---|
| `VisualMemory` | `visualHistory.ts`, `visualContext.ts`, `ingestContinuousFrame` | a frame, an event, a change of limits, time; queries and `SelectSamples` are operators. A tier is a sequence of samples, `pictured` the set that still has pixels, because tiers share samples |
| `EyesAttention` | `attentionManager.ts`, `ingestEvent` and the snapshot of the engine, `list_windows` and the hook callback of `eyesWatcher.ps1` | a desktop change, a callback, the look at one of the windows that are listed, a line read, the snapshot applied or failed |
| `CaptureCapability` | `captureCapability.ts` | a closed measurement window, with the machine's true capacity and disturbances as environment; a window may deliver more than the requested rate, which is only the time the source waits for a frame |
| `CaptureThread` | `eyesWatcher.ps1` | a step of a capture thread or of the command thread between two accesses of the static fields |
| `VisualSessions` | `realtimeVisualTransport.ts`, `geminiLiveVisualSink.ts`, live hooks of `eyesService.ts` | a sample offered, a send done, the flush timer, a turn's `ensureSession`, an engine started or stopped |
| `SightToModel` | `orchestrator.ts`, `eyesVisionAccess.ts`, `eyesTools.ts`, the vision adapters, message conversion of the providers | a turn's gates, the history it loads (any messages, with calls that an earlier turn left unanswered), a look, an approval, a request |
| `ProviderStreams` | `ai/providers/*.ts`, `ai/retry.ts` | an attempt, a stream event, an abort |
| `UtteranceSegmenter`, `ClapDetector` | `voice/vad.ts`, `activation/clapDetector.ts` | a frame or a chunk by its energy; history is kept beside the counters as the reference |
| `ActivationSettings` | `activationManager.ts`, `settingsRoutes.ts`, `realtimeRoute.ts`, gates | a read, a write and the push into the manager, apart |
| `NativeVoice` | `voice/realtime/` | an event of the service, a step of a tool call, an interrupt, either side closing |
| `ToolSources` | `tools/registry.ts`, `pluginManager.ts`, `mcpClientManager.ts` | each of load, disable, connect, disconnect up to its next await |
| `RememberedFacts`, `MemoryRetrieval` | `memoryService.ts`, `memoryRoutes.ts` | `rememberFact`'s read, its write; a retrieval's pool, choice and write of `lastUsedAt` |
| `UserConnections` | `auth/`, `gateway.ts`, `realtimeRoute.ts` | a step of a registration or login, a tab's sign-in, an emit |
| `BrowserSessions` | `browserManager.ts` | a step of `getSession`, a use, the reaper, shutdown |
| `AppLauncher` | `appDiscovery.ts`, `appLauncher.ts` | a scan, a choice by scores, a launch |
| `Calculator` | `calculatorTool.ts` | one token of the shunting yard, then the evaluation |

`Selections` has no state: it is `Array.filter`, and the loop that pushes several elements
for one, as the modules use them whose selections are proved about (`ClapDetector`, `EyesCapture`,
`ProviderStreams`, `SightToModel`, `VisualMemory`), each a recursive function on data that is
finite.  `VisualMemory` sorts places by a key (`Sorted`: at a place stands what as many
come before), strips pictures by choosing the largest rest that fits, and adds up bytes and
picks samples by recursive functions, for the same reason.

`MCCompanions` puts them into one instance: `focus` chooses which of them moves.
That loses nothing. They have no variable in common and none reads another's, so
a behaviour of all of them is an interleaving of independent behaviours; an
invariant or an action property about one part holds in it if and only if it holds
while that part moves alone. Neither deadlock nor liveness is asked of this
instance, for which the argument would not do. Where two parts do interact, that is
inside a module: the memory and the engine's ingest, the feed and the engine,
retune and settings.

In these modules an operator named `Op_Mistake` is `Op` with a plausible bug.
No formula uses it; replacing `Op` by it must break the property `PROJECT.json`
names, which shows that the property says something about that code.

## 3. Runs

| run | instance | shows |
|---|---|---|
| `agent_safety` | 1 run, 2 workers, 1 resolver, 3 tools, 2 calls, 1 restart | types; `OnlyAuthorisedEffects`; `AtMostOneEffect`, `RecordTellsEffect`, `WaitingRunCanResume`, `AbortReachesTheLoop` for serial clients; `ImplementsGate` |
| `agent_liveness` | 1 worker, 2 resolvers | `RequestsEnd`; `DecidedRunGoesOn` |
| `agent_overlap` | overlapping clients | two resumes execute one approved call: `OneEffectPerApproval` fails |
| `agent_transcript` | 1 of everything | a resumed run asks the model with an unanswered call: `TranscriptIsComplete` fails |
| `tasks` | 1 task, 1 schedule, 3 call chains, 1 restart | types; `RunningTaskHasRunner`, `TaskTellsOutcome`, `ScheduleIsArmed`; `LegalTransitions`; `RunningTaskSettles` |
| `task_cancel` | 1 task | cancelling a task leaves its run at work: `CancelStopsTheRun` fails |
| `relay` | 2 turns of at most 2 sentences, 3 session modes, gated or not | types; `OneVoice`, `AbortedRunIsSuperseded`, `ThinkingMeansWork`; `SupersededStaysSilent`; `TurnsEnd` |
| `relay_barge_in` | 1 turn | the user talks while a sentence is spoken and it goes on: `BargeInSilences` fails |
| `eyes_capture` | 2 requests, 2 engines, 2 patches, 1 retune, 1 restart, 2 troubles | types; `LockstepWithSettings`, `NoStrayWatcher`, `StoppedEngineForgets`, `ActiveMeansStream`; `PatchEnds` |
| `eyes_structural` | 1 request, 1 engine, serial | a retune in the air outlives the PATCH that turns pixels off: `StructuralOnlyIsBlind` fails |
| `companions` | each part of section 2's table by itself | types; what each part promises, below; `PacedSends` |
| `streaming` | replies of at most 3 blocks | Anthropic's stream loses arguments that `chat` keeps: `StreamingIsInvisible` fails |

What `companions` asks, beyond types:

* `MemoryStaysBounded`: one budget of frames and bytes over all tiers, and no query that
  answers what is older than the user's window or the hot tier's age. `ContextShowsTheChange`: a context contains the top
  sample and the one before it.
* `ForegroundFollows`: the engine's foreground window is the desktop's, once all lines are
  read, unless a dropped line left it behind (`throttled`) or the list `start` applied: it was not
  had (`failed`), flags no window (`unlisted`), was made while the foreground changed (`torn`) or came
  after newer lines (`overtaken`). So every other order of callbacks, lines, list and resumption is
  right, and one accepted line about the foreground mends all of these. Windows are flagged besides
  the foreground's only by a torn list. A drop counts as a reason only if the same window had an event of
  that type less than its throttle ago.
* `EstimateIsHonest`: the reported rate was shown by a window; a settled target is just
  below what the machine can do.
* `OneLivePath`, `PacedSends`: only the registered sink is fed, never without an engine,
  never faster than negotiated.
* `AnswersByDefinition`: the incremental counters of speech and claps, the shunting yard
  and the choice of memories against definitions over the whole input.
* `CallsAnsweredOnce`: every tool call of a voice conversation gets one answer, refused
  ones have no effect.
* `CallsArriveWhole`: what does hold of streams: arguments are a call's own and whole or
  absent, and absent only where the finding says.
* `CaptureTellsItself`: the last status line tells what the capture threads do.
* `SightAsPromised`: allow list, image support and consent at some time of the turn;
  images in order, with the newest, within the adapter's budget; nothing between a call of
  this turn and its results, nor between an earlier turn's call and results stored with it. Of a
  call a parked, resumed or failed turn left unanswered in the history it promises nothing: that is
  `agent_transcript`.
* `RegistriesConsistent`: registry, fact store, browser, accounts and tabs, application
  cache and activation managers each agree with what they stand for. One conjunct per registry; each
  sets aside what two of its own operations at once get wrong (a shared tool name, a key, a page,
  an empty user table, an older scan, a late push), so it shows that these races, which section 5
  lists, are the only way to break it, not that they are harmless.

Several of these set aside, by a ghost variable, the case the code does get wrong
(`doubled`, `contested`, `overlapped`, `crossed`, `raced`, `hasty`, ...). Each such case is
in the model and in section 5; the property says that nothing else goes wrong.

Bounds. `MaxSteps`, `MaxToolCalls` are the code's own limits (12 and 20 by
default) made small, so that hitting them is among the behaviours; `MaxCalls`
and `MaxAnnounced` bound rows and announced calls, two being enough for a batch
with a parked call and a call after it, or a parked call and one of the resumed
loop; one restart separates every pair of writes. One run suffices because no
two runs share state: rows, handles and approvals are per run. Two workers are
a request and its overlap; a third would repeat the race of two. One task with
three actors covers start against start against cancel. `CHECK_DEADLOCK FALSE`
because the bounded system may stop: all rows used, nobody asks for more. Two
turns of a voice session are a reply and the one that supersedes it; two sentences
are one being spoken and one waiting. Two engines are the running one and one left behind; two patches with a
retune between are every order of start, stop and mode change; two troubles are a
failure and one while it is dealt with. The memory holds at most three samples of
four recorded, so that every tier overflows and both budgets bite, and the hot tier's age
lies between the two windows a user chooses from; ten
measurement windows let the estimate climb, overshoot and settle; three changes of the desktop are a
window left, come back to and left again, at one instant or two; the two histories are a first message,
and what remains of a conversation, cut off by the limit, with one call answered and one only in part; three attempts
are `withRetry`'s own default; replies of three blocks have a text before and after
a call, or two calls; eight frames of audio hold a start, a pause too short to end it
and an end; three contexts and two pages are a race and its loser; formulas have at
most three operators, of every precedence and both associativities; five activation requests and
voice connections (`MaxBegun`) let one overtake another and the gate answer to what is
then in force. (Three turns were tried for the relay mode with a patient user; the
invariants hold there too.)

Fairness. `FairSpec` of `AgentRun` assumes that the event loop runs
continuations, that model calls and tools return or throw and that the deadline
of a wait passes: one weak-fairness condition per worker, because any enabled
step of a worker is such a continuation. It assumes nothing of people: deciding
an approval, aborting, loading plugins, errors and restarts are unfair. The
second condition is a client that, told its run waits, asks to resume it until
it does, and `DecidedRunGoesOn` is only claimed for it. `TaskEngine` and
`RelayVoice` assume the same of their actors and turns, and take from
`RequestsEnd` that an agent run ends. `EyesCapture` assumes that the event loop
resumes a request whose await is over (`RequestStep`) and that a command's timer
fires (`CommandTimesOut`, `windowsVisualProvider.ts` sets one for every command);
nothing is assumed of the watcher process, so `PatchEnds` holds although it may never
answer.

## 4. Proofs

Eight modules hold theorems; each is about its component with any sets of runs, tasks,
turns, requests, engines and any values of the limits and bounds that the component's
ASSUMEs admit, so about far more than the instances of section 3. The inductive
invariants of the first seven also hold when TLC checks them on the instance of their
component's safety run (a module that EXTENDS the MC and the proof module, the invariants
as INVARIANTS). The proofs are laid out alike: lemmas about the
helpers (`GotoMoves`, `SetRecordTyped`, ...), then which variables each *kind* of step can
touch, then one layer of the invariant after another, each assuming the ones before.

**`AgentRunProofs`**, with any clients, overlapping ones included:

* `TypeCorrect`: `Spec => []TypeOK`, one step per action.
* `OnlyAuthorised`: `Spec => []OnlyAuthorisedEffects`. The property is not inductive: it
  says nothing of a worker about to execute. The invariant `Authority` adds that: a
  worker between its checks and `tool.execute` works on a call that is
  not forbidden and, if gated, granted (`WorkerAuthority`); a record that is
  linked to an approval names a permitted tool, an approval that stands
  "approved" was granted, a call not yet recorded has had no effect, and a call
  that took effect is authorised (`CallAuthority`). That a *pending* record found by a
  resume is permitted rests on its link: `Refuse` never links, so `linked` implies that the
  permission check was passed. Grants and records are never taken back
  (`RowsOnlyGrow`), so other workers' steps keep the invariant
  (`OthersKeepAuthority`, `SameRowsKeepAuthority`).

What clients that do not overlap their requests on a run rely on:

* `Places` says what a worker's locals hold from where it stands: its record is one of
  its own run, a worker that looks up a pending record came by a resume.
* `Apart`: two workers are never on one run, a run that is worked on exists, and inside
  the `try` block its handle is this worker's. `AbortReaches` (`AbortReachesTheLoop`)
  follows. Without "a run that is worked on exists" it is not inductive: a
  second `StartRun` could take the same run.
* `Telling`: for every point between two awaits, the status of the record a worker holds
  and the number of effects it has had by then (`WorkerTells`), and for a call nobody
  holds, that a status which says "not run" means no effect (`CallTells`). The crux is a
  restart: it leaves records behind in `executing`, and no resume picks those
  up. `OneEffect` (`AtMostOneEffect`) and `RecordsTell` (`RecordTellsEffect`) follow.
* `Waiting`: while a worker waits or parks, the newest pending record of its run is its
  own, linked and put to the user; after it left, the record still is the newest.
  `WaitingCanResume` (`WaitingRunCanResume`) follows.
* `Implements`: `Spec => ImplementsGate`, for *all* clients. A record created is
  the gate's `Propose`, an approval requested its `Ask`, an approving decision that is
  written its `Grant`, `tool.execute` its `CarryOut`; everything else, restarts included, is
  a stutter. That the effect is a step of the
  gate is `Authority`; that a decision is on a question that was asked is `GateFacts`.

**`TaskEngineProofs`**:

* `TypeCorrect`, with `Places`: where an actor stands tells whether it has a task, a schedule and
  a registered handle.
* `EnabledIsArmed` (`ScheduleIsArmed`) from `Armed`: an enabled schedule is armed, or
  some request stands between its row and its job (a row is created before it is armed,
  a job stopped before its row is disabled). A restart arms every enabled row.
* `RunningHasRunner` (`RunningTaskHasRunner`), for impatient clients too: it is
  inductive once types and `Places` are known.
* `LegalMoves` (`LegalTransitions`): a write may happen long after the read it rests on.
  `Patience` says why that is safe with patient clients: no two actors are on one task
  (`Alone`; `Exists` keeps a task from being created twice), so the status an actor read is
  the status it overwrites (`Justified`), also for `setPlan`, which never reads it.
* `TellsOutcome` (`TaskTellsOutcome`) from `Telling`: each actor's remaining steps will
  write the outcome that `runOutcome` holds, and untended tasks show theirs.

**`RelayVoiceProofs`** (every kind of session):

* `TypeCorrect`; the counters of sentences stay natural numbers because
  no sentence is taken from an empty queue.
* `OnlyCurrentSpeaks` (`SupersededStaysSilent`) and `ThinkingIsWork`
  (`ThinkingMeansWork`), for impatient users too.
* `AbortedIsSuperseded` (`AbortedRunIsSuperseded`). Its invariant has two layers:
  whatever a session names (a handle, a run id, a handler) is a turn that has
  begun (`NamedHaveBegun`), and a turn once superseded is never current again
  (`NotCurrentAgain`), so that aborted and silenced turns are superseded (`Superseded`).
* `OneVoiceHeard` (`OneVoice`) with a patient user, from `InTurn`: one utterance is heard or
  transcribed at a time (`OneEar`), while it is, nothing speaks and no current turn
  answers (`EarMeansQuiet`), a delta handler in place is the current turn's
  (`OneHandler`), and an audible reply is the current turn's, under the abort
  controller that interrupts it (`VoiceIsCurrent`).

**`EyesCaptureProofs`** (a client that waits for its answers):

* `InLockstep` (`LockstepWithSettings`) and `NobodyStrays` (`NoStrayWatcher`) from one
  invariant, `Owners`. `Shape` and `Roles` are its types: which body a request carries and
  which engine it works on, by its program counter. `Serial` is what matters: at most one
  request is open, and what it owes (`Owned`): while it makes an engine the service has
  none and the row asks for one; while it ends one, that is the service's and the row asks
  for none; after either, service and row agree.
* Requests wait for answers of the watcher in many places, so the proof does not go by
  action of the source but by kind (`Finishes`, `Proceeds`, `Launches`, ... `Exits`): `RequestKinds` shows that every step of a
  request is one of these moves, and
  `BehindSteps` that every step of the watcher, of the retune nobody
  waits for and of time leaves service, row and processes alone or only ends a
  process. `SerialIsLone` and `LoneIsSerial` reduce the step to the one open request.
* A failure to launch at startup is no failure of the proof: the invariant carries
  `"unrestored" \in upsets`, as the property does.
* `WellTyped` (`TypeOK`) from `Crew`, for *any* client: whoever waits has sent his command to an
  engine whose process is up (`Waits`), an engine whose process is being launched is as
  good as new and one request's alone (`Launching`), and node knows which processes there
  are (`Process`). Without `Launching` it is not inductive: a second launch of an engine
  could find lines of the first in its pipe.
* `Pipes`, as long as no command timed out: each command and each answer in a pipe is of an actor
  that waits for it, and no actor has two, nor one of each. So the answer at
  the head of a pipe is the one its actor waits for, and no answer is heard twice.
* `SaysSoAndDoesSo` (`ActiveMeansStream`), for any client, from `Streams`: whoever believes that
  capture runs, or has news under way that will make him (`Claimed`), is right, unless
  news of its end is behind it in the pipe (`Over`); the sink is there unless a
  command is still to be read, and then the last start among them has set it (`Wanted`);
  a thread's last word and the answer that goes with it are neighbours (`Spelled`), which is what
  keeps news of an old capture from being taken for news of the new one. The
  property alone speaks only of a settled system.
* `MemoryDies` (`StoppedEngineForgets`) for clients that wait, from `Memories`: a frame still in the pipe of an
  engine nobody holds finds no sink (`Past`), a watcher that exited was heard to the end
  (`Lost`), and the answer to `exit` comes after every frame (`Leaving`), with a retune of
  that engine in the air too.

**`EyesCompanionProofs`** (what surrounds the perception engine):

* `OneLivePathHolds` (`OneLivePath`): a sink that listens is its key's
  registered one or no longer open, and one of a key at most (`Paths`).
* `PaceIsKept` (`PacedSends`): a frame is put by only behind a send under way, and was
  captured an interval or more after the last one sent (`Waits`), so neither an offer nor a
  flush of what was put by can come too early.
* `CaptureTells` (`CaptureTellsItself`) is inductive once types are known: a step of one thread
  leaves the others (`OthersStay`), and while no start overlapped, that thread is the
  current one.
* `ForegroundIsFollowed` (`ForegroundFollows`), by following where the truth is (`Follows`).
  A callback about the desktop's window is still to run (`CallbackComes`); or the last
  line in the pipe that names a foreground names the desktop's (`LastWord`), and when no line
  does, what the engine goes by does (`GoesBy`): the first window the list flags before it is
  applied, what it overheard since, its state, or `missed` says why not. A list flags windows that are
  not the desktop's only when the foreground changed while it was made (`ListsHonestly`), and the
  engine's windows are flagged as its foreground says but after such a list (`Flagged`). The
  property alone says nothing while lines are under way.
* `EstimateHonest` (`EstimateIsHonest`) from `Measured`, with windows that may deliver more than was
  asked for: a rate that was just raised is what the
  source was asked for, or too near to it for a restart, or too far below for the next window to confirm
  it (`Raised`), so that window takes it back to nine tenths of what was delivered, and
  an estimate that has found its ceiling stays there (`Climbing`). The attempt to prove it showed that
  two roundings may add up, at a capacity that no run had tried; the property now allows
  for both, and `Capacities` contains that one (24). It needs what `CapabilityAssumption`
  says of the rates, which the code's (1 to 60 a second, starting at 12) satisfy.
* `SightPromised` (`SightAsPromised`), three arguments. *Permission*: what waits to be shown was
  allowed by the settings the turn has read, and those were in force when it read them
  (`TurnSound`). *Images*: the samples with a higher score than a given one are a strictly larger set the
  lower it stands, so those with fewer than n such are at most n (`FirstByRank`), and what is told of them in
  order contains both ends (`BookendedTell`, `LatestTell`). *Results*: every call the turn has announced,
  which are those after what it loaded, is followed by its results but for those due (`Followed`), none is due when a
  request is made, and a provider's conversion adds an entry after the last message only (`Converted`,
  `WireTogether`), so it parts no loaded call from its results either.
* `BudgetHolds` and `NothingTooOld` (the two parts of `MemoryStaysBounded`) from `MemoryKept`.
  *Budget*: no two samples have a number in common (`OneEachNumber`), so fewer samples are no more
  bytes (`FewerBytes`, by `SetInduction` over the numbers); the rests among which the largest is chosen are a
  chain, of which nothing at all always fits (`LargestOfChain`, `OldestGo`). So every step that adds a
  sample or tightens a limit leaves a budget that is kept. *Age*: a tier is in order but
  for the time a frame may be late (`LateOrdered`), so that what is evicted from its front
  leaves nothing older than that (`EvictKeeps`), and a query reads what was just evicted
  (`QueryReads`). The property alone is not inductive: without the order, one old
  sample behind a young one would stay.
* `ChangeIsShown` (`ContextShowsTheChange`): the peak exists and nothing outranks it
  (`PeakExists`, `PeakIsTop`), it and its predecessor are picked first, within any limit
  (`FirstPicked`), and what is picked after them takes nothing away (`PickedOn`).

**`CompanionProofs`** (registries of what runs outside the process, and streams):

* `ToolsBelong`: the registry gives a name to a plugin that claims it (`NamesAreClaimed`), a
  disabled plugin has none (`DisabledHaveNone`), and a server never connected twice has one
  client, for its listings and its closing too (`OneClient`).
* `NothingUnfindable`: calls about to make a session found none and are alone, or their
  page is contested (`MakersKnow`); likewise the launch (`LaunchersKnow`).
* `AnsweredOnce` (`CallsAnsweredOnce`): a call is on the wire at most once and then has no
  handler yet (`OnWire`), and where its handler stands tells its answers and effects
  (`Handled`).
* `ArriveWhole` (`CallsArriveWhole`): what was read of a stream is the beginning of what `chat`
  would have returned, block by block (`ReadSoFar`), and where the reader stands tells how much
  of the arguments of each call has come (`Arguments`). The entry Anthropic's stream adds
  arguments to is found by the block's place among *all* blocks: it is there if and only if no
  text came before, for then as many calls were gathered as blocks were read (`NextBlock`).
* `ClapsAsDefined` (`ClapsByDefinition`): the transients remembered are more than `MinGap`
  apart and from before the end of the longest chunk so far (`ClapsKept`), which the loop over a chunk
  keeps (`ChunkNoted`, by `RecursionExists`) and the window does (`WindowKept`).
* `SegmentsAsDefined` (`SegmentsByDefinition`): the counters tell where the runs of speech and silence
  are that end with the last frame, and the frame the utterance began with (`CountersTell`); one more
  frame adds itself to the beginnings or does not (`StartsGrow`) and ends an utterance by
  its run of silence only (`SilencesGrow`). The property alone is not inductive: it does not say
  how long either run is.
* `ParenthesesMatch` (`ParenthesesTell`, a conjunct of `CalculatesAsWritten`): an expression is evaluated only if its
  parentheses match, and refused for them only if they do not. As many "(" wait among the
  operators as are open in what was read, which never had more ")" than "(" (`Waiting`); a
  ")" takes exactly one of them away (`OpeningIsLast`), and an operator that outranks others
  never looks past the last one (`KeptIsEnough`). `TextOfTrees` says that what the user writes
  for a tree is a sequence of tokens.

**`RegistryProofs`** (what the process keeps beside the database and the machine, and finds in it):

* `ConnectionsAreConsistent`: while registrations come one at a time, the role counted
  is the role it would be given now (`OneOwner`); a tab that waits for its check is open or
  closed hastily (`Registered`).
* `OneFactIsKept`: for a key used properly, the one call about to write knows its one
  row (`OneCall`, `OneRow`).
* `ModeFollows`: the live mode lags only behind a PATCH that has not answered
  (`LiveFollows`); since a fresh gate was made, everything written stored its mode
  (`GateFollows`). The attempt to prove it showed that a gate opened by a mode used late stays
  open after the next PATCH of `disabled`, one request beyond the bound TLC had had; the
  property now says so, and the bound is larger.
* `OpensBest`: a list names what was installed when its scan read (`ListsWereTrue`).
* `RelevantIsFound` (`RelevantAreFound`): no row is from the future, so every score is a number
  (`ScoresAreNumbers`); the ranking has every candidate that is to the point (`OrderHasAll`) and goes
  down all the way (`GoesDown`), so what is cut off is no better; and what is no candidate
  has as many younger ones as the pool holds (`CutServes`).

`CompanionProofs` puts these together: by `RegistriesAreConsistent` the instance of all companions
keeps `RegistriesConsistent`. Its specification implies that of each part (a step of the whole is
a step of the part in focus and leaves the others as they are), so `ToolsBelong`,
`OneFactIsKept`, `NothingUnfindable`, `ConnectionsAreConsistent`, `OpensBest` and `ModeFollows` hold
in it; by `MemoryBounded` it keeps `MemoryStaysBounded`, and by `SensesAndMemoriesAnswer`
`AnswersByDefinition` but for the calculator. This is the argument of section 2 for
checking the parts together, checked for ten of them.

**`SelectionProofs`** (lemmas the others rest on). The prover cannot use an induction theorem that
takes an operator. `SetInduction` says the same of a *set* of naturals, and `RecursionExists` gives the
recursive function on the prefixes of a sequence. With both, `FilterUnfolds` shows that the recursive
function behind `Filtered` (`Selections`) is what it says, `FilterPicks` that its result is a
subsequence with all that was to stay, and `NumbersOneByOne` what one more element adds;
`JoinedSingles` says where each part of a joined sequence begins when all but the last have one element. By these
`KeptLines` shows what taking an answer out of a pipe leaves in it, in which order, and `Counting` where
a stream stands among the texts and calls of its reply. `SelectSeq`, `SortSeq` and `FlattenSeq` are
opaque to the prover: what is built with them stays with TLC.

Model-checked only, and why:

* Everything under fairness (`RequestsEnd`, `DecidedRunGoesOn`, `RunningTaskSettles`,
  `TurnsEnd`, `PatchEnds`): liveness and ENABLED are beyond the prover.
* The rest of `CalculatesAsWritten`, the calculator's part of `AnswersByDefinition`: that postfix
  order and stack give back the value of the tree an expression was written for is an induction
  over trees. TLC tries every tree of two levels over the operators of the run, whose
  precedences and associativities are all there are.
* `CompanionsTypeOK`: the types of the parts named here.

## 5. Where the code and its documentation disagree

Found while modelling; the first six have a run that shows them.

1. Two overlapping resumes execute one approved call twice (`orchestrator.ts:406`
   against `approvalService.ts:20`).
2. A resumed call is answered under the record's id, later calls of its batch not
   at all (`orchestrator.ts:438` against `ARCHITECTURE.md:211`).
3. Cancelling a task does not reach its run (`taskService.ts:124` against `:94`).
4. The state says listening while a reply is still being spoken, so talking does
   not stop it (`realtimeSession.ts:259` against `VOICE.md:125`). After a streamed
   reply of several sentences the state stays "speaking".
5. A retune that is in the air when the user goes back to `structural_only` starts the
   pixels again (`visualPerceptionEngine.ts:529` against `userSettingsService.ts:10`).
6. Anthropic's stream finds a call's entry by the index among all content blocks and
   loses its arguments after a text block (`anthropicProvider.ts:310` against
   `orchestrator.ts:50`).

Agent, tasks and relay:

* A resume starts the step and tool-call counters over, so a run may exceed the
  limits ARCHITECTURE.md (105-111) gives for it.
* A resumed loop that throws leaves its run "running"; a restart in the middle of
  a resume leaves it waiting with no pending record. `WaitingRunCanResume`
  therefore assumes no restart.
* A task whose run is resumed stays `waiting_for_approval` for ever: nothing in
  `resumeAgentRun` tells the task.
* `getDefaultProvider` throws after a task was put to running and outside the
  `try` (`taskRunner.ts:37` against `taskRoutes.ts:43`).
* `transitionTask` reads and writes in two steps, and `setPlan` does not check at
  all, so overlapping requests break `ALLOWED_TRANSITIONS`; `LegalTransitions`
  holds for patient clients.
* `schema.prisma:242` lists statuses of a run the code does not write
  (`cancelled`) and omits one it does (`waiting_for_approval`).
* In wake-word and clap modes the change from idle to listening on the first
  chunk, and the one of a barge-in, close the gate in the middle of an utterance;
  `activationGate.ts:9` says it closes after each completed turn.
* A superseded response that ends clears the newer one's subscription and run id
  (`realtimeSession.ts:240`, `:269`); one whose run is created late (`:236`) has its
  text spoken by the newer one; two responses begun without an interrupt between
  them leak an event-bus listener. An interrupt before the run is created does not
  abort it, although VOICE.md:127 says that the run is stopped.
* A transcription that fails leaves the state at "thinking".
* In tts mode nothing sets "thinking", so a stop during the agent run is ignored.

Eyes:

* Overlapping `ensureStarted` and `stop` orphan engines (`eyesService.ts:34`); the
  restore at startup is alone.
* A watcher that exits leaves `running` and `continuousCaptureActive` set. A refused
  start's "stopped" may overtake, and the `active = true` after an await overwrites a
  "failed" read meanwhile. The comment at `visualPerceptionEngine.ts:542` says that after a
  failed retune the source goes on at its old rate; it has been stopped.
* Back and forth between two windows within the throttle: the last focus change is the second about its
  window and dropped as redundant, and until the next one the engine takes the window left for the
  foreground (`attentionManager.ts:70`), although `types.ts:166` calls the state "a live, in-memory,
  event-updated structure". In the model, `missed` has then "throttled".
* `list_windows` asks for the foreground window once per window (`eyesWatcher.ps1:742`), with a process
  lookup between, so a switch meanwhile flags two windows, of which `start` takes the first, or
  none; a foreground window that is hidden, or no child of the root, is not listed, and `start` then
  sets `foregroundWindow` to null (`visualPerceptionEngine.ts:249`). A list applied over
  newer lines takes them back, and destroyed windows return.
* `latestSample` and `newest` outlive the retention window; a late frame hides behind a
  younger one when samples are evicted from the front.
* `eyesHistorySeconds` may be 5 to 7 (`userSettingsService.ts:222`), but the hot tier keeps
  8 seconds (`visualHistory.ts:55`), which no setting shortens, although SECURITY.md:181
  says that the two retention settings bound the buffer. `RetentionWindow` says the longer of both.
* One overload, also one a restart gap feigns, sets the found ceiling for good.
* `ensureSession` is not single-flight (`realtimeVisualTransport.ts:217`); a session
  opened while no engine runs is never attached, though the model is told it is live;
  revoking a provider leaves an attached session on (`eyesVisionAccess.ts:27`).
* The text of Eyes tools goes to a provider that is not on the list, though
  `orchestrator.ts:266` says "no visual context at all, in any form". Only one context
  waits: a later one replaces it, and a parked call drops it. The summary says that an
  image is attached when its pixels were stripped.
* In the watcher, a `Stop` whose join timed out followed by `Start` leaves two
  threads, the older of which stops the younger; a rebuild that fails (secure desktop)
  ends vision for good, against `eyesWatcher.ps1:384`.

Providers, voice and activation:

* Error events in the middle of an Anthropic stream are ignored, so a truncated reply
  counts as whole; `chat` parses JSON before it looks at the status, so that a 5xx that
  is not JSON is not retried; `chatStream` is never retried.
* `minUtteranceMs` never discards an utterance that ended by itself (`vad.ts:19`). The
  clap detector forgets the previous energy at each chunk (`clapDetector.ts:77`)
  though its header promises otherwise.
* A gate keeps the mode it was made with, though `settingsRoutes.ts:76` says that no
  reconnect is needed; hydration overwrites a PATCH that came between its read and it, and
  a gate opened meanwhile stays open when the mode is set again.
* Two voice tool calls at once create two runs ("created lazily, once",
  `nativeRealtimeSession.ts:44`). "Approve it, then ask again" never works: the second
  call asks anew. A client that leaves during the dial leaks the session.

Registries:

* Enabled plugins are not loaded after a restart; a name two plugins share is lost
  when either is disabled; disconnecting server `a` drops the tools of `a_b`
  (`mcpClientManager.ts:77`); a second connect forgets the first client.
* Two `rememberFact` calls at once leave two rows. Writing `lastUsedAt` touches
  `updatedAt`, so that being retrieved makes a memory "recent", and one outside the
  last 200 touched can never be found.
* Two registrations at once on an empty database make two owners; logout leaves
  sockets open; a socket that closes during the session lookup stays registered.
* `getSession` and `getBrowser` are not single-flight; a crashed browser is never
  replaced; the reaper does not see that an action is still going on.
* A failed scan of applications is cached like a good one, an older scan may overwrite
  a newer; a best score of 80 launches the first of several ties, though the comment
  says "meaningfully ahead of the runner-up".
* The calculator answers `NaN` to "-" and "1.2.3", and accepts "2 3 +".
* `getHistory` takes the first messages in ascending order
  (`conversationService.ts:50`), not the latest; a reloaded history loses `untrusted`.

## 6. Left out

Failures of the database are not modelled: an update succeeds, but where a
module says otherwise (`NativeVoice`). Timestamps are abstracted to creation order or
to a small clock. Prompt assembly, token usage, wording, notifications and audit do
not influence control. `Get-ProcessNameSafe` has a parameter with the name of a variable
PowerShell reserves (`eyesWatcher.ps1:730`); process names are not in the model. Not modelled at all:

* voice providers and integrations: HTTP clients without state of their own;
* credentials: one find-then-write, the shape `RememberedFacts` has; encryption is a
  library's;
* files, commands, input, windows, screenshots: single calls to the operating system;
* instructions, configuration, read-only routes: no state that changes;
* `scripts/jarvis-diagnostic.ts`, a linear report over the running server, and the tests;
* what the permission tables say: data that nothing changes;
* a fatal `error` event of the native session's provider, which closes the session; no provider
  under `src/` emits one;
* two pairs of an MCP server and a tool whose names are one when joined: a prefixed name stands
  for its pair in `ToolSources`.

External and modelled only as the code uses them: the model services, the database,
Playwright, the MCP SDK, plugins' code, the Windows APIs behind the watcher.

## 7. Plan

Done: every module of section 2, with the proofs of section 4. What would come next:

1. The value a calculator's expression has, by an invariant that says which part of the tree
   meant each operator that waits still stands for.
2. The types of each companion as a theorem of its own, for `CompanionsTypeOK`.

## 8. Running

`tlc -config AgentRun.cfg MCAgentRun`, `tlc -config Companions.cfg MCCompanions`,
likewise for the other configurations (`PROJECT.json` pairs them), each under a minute or
two, `companions` and `eyes_capture` up to four.
`tlapm M.tla` for `SelectionProofs`, `AgentRunProofs`, `TaskEngineProofs`, `RelayVoiceProofs`,
`EyesCaptureProofs`, `EyesCompanionProofs`, `CompanionProofs` and `RegistryProofs`, a few minutes
each from nothing (`EyesCaptureProofs` up to ten).
