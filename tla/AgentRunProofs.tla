--------------------------- MODULE AgentRunProofs ---------------------------
(* Theorems about AgentRun, for any number of runs, requests, users and tools. *)
EXTENDS AgentRun, TLAPS

USE SetsAssumption, BoundsAssumption

-----------------------------------------------------------------------------
(* What the updates of the rows and of a worker's state keep. *)

\* An update of a record's status keeps the record's type.
LEMMA SetRecordTyped ==
  ASSUME TypeOK, NEW w \in Workers, NEW s \in RecordStatus, SetRecord(w, s)
  PROVE  rec' \in [Call -> Records]
<1>1. \A x \in Records : [x EXCEPT !.status = s] \in Records
  BY DEF Records
<1>2. rec' = [rec EXCEPT ![Current(w)] = [rec[Current(w)] EXCEPT !.status = s]]
  BY DEF SetRecord
<1> QED
  BY <1>1, <1>2 DEF TypeOK

\* So does an update of a worker's program counter ...
LEMMA GotoTyped ==
  ASSUME TypeOK, NEW w \in Workers, NEW from, NEW to \in PCs, Goto(w, from, to)
  PROVE  pc' \in [Workers -> PCs]
  BY DEF TypeOK, Goto

\* ... and of its locals.
LEMMA LocalsTyped ==
  ASSUME TypeOK, NEW w \in Workers, NEW l \in Locals, wk' = [wk EXCEPT ![w] = l]
  PROVE  wk' \in [Workers -> Locals]
  BY DEF TypeOK

LEMMA FreshLocals ==
  /\ Idle \in Locals
  /\ \A r \in Runs : /\ [Idle EXCEPT !.run = r] \in Locals
                     /\ [Idle EXCEPT !.run = r, !.entry = "resume", !.parked = TRUE] \in Locals
  BY DEF Idle, Locals

\* A counter that grows at one place, which may lie outside its domain.
LEMMA CounterTyped ==
  ASSUME NEW S, NEW f \in [S -> Nat], NEW x, NEW n \in Nat
  PROVE  [f EXCEPT ![x] = f[x] + n] \in [S -> Nat]
<1>1. CASE x \in S
  <2>1. f[x] + n \in Nat
    BY <1>1
  <2> QED
    BY <2>1
<1>2. CASE x \notin S
  BY <1>2
<1> QED
  BY <1>1, <1>2

LEMMA AnswerCallTyped ==
  ASSUME TypeOK, NEW w \in Workers, AnswerCall(w)
  PROVE  answered' \in [Runs -> Nat]
<1>1. answered' = [answered EXCEPT ![RunOf(w)] = answered[RunOf(w)] + 1]
  BY DEF AnswerCall
<1> QED
  BY <1>1, CounterTyped DEF TypeOK

LEMMA LeaveTyped ==
  ASSUME TypeOK, NEW w \in Workers, NEW from, Leave(w, from)
  PROVE  TypeOK'
<1>1. pc' \in [Workers -> PCs]
  BY GotoTyped DEF Leave, PCs
<1>2. wk' \in [Workers -> Locals]
  BY FreshLocals, LocalsTyped DEF Leave
<1>3. controller' \in [Runs -> Workers \union {NoWorker}]
  BY DEF TypeOK, Leave
<1>4. UNCHANGED <<rows, environment, history>>
  BY DEF Leave
<1> QED
  BY <1>1, <1>2, <1>3, <1>4 DEF TypeOK, rows, environment, history

-----------------------------------------------------------------------------
(* Type correctness *)

\* Every variable keeps its type: in particular a record only ever takes the
\* statuses of ToolCallRecord, and a run those of AgentRun.
THEOREM TypeCorrect == Spec => []TypeOK
<1>1. Init => TypeOK
  <2>1. NoRecord \in Records
    BY DEF NoRecord, Records, RecordStatus
  <2>2. Init => /\ rec \in [Call -> Records]
                /\ wk \in [Workers -> Locals]
    <3>1. Init => rec = [c \in Call |-> NoRecord] /\ wk = [w \in Workers |-> Idle]
      BY DEF Init
    <3> QED
      BY <2>1, <3>1, FreshLocals
  <2>3. Init => /\ runStatus \in [Runs -> RunStatus]
                /\ pc \in [Workers -> PCs]
    BY DEF Init, RunStatus, PCs
  <2>4. Init => /\ nRecords \in 0..MaxCalls
                /\ approval \in [Call -> {"none", "pending"} \union Decisions]
                /\ announced \in [Runs -> Nat]
                /\ answered \in [Runs -> Nat]
                /\ effects \in [Call -> Nat]
                /\ controller \in [Runs -> Workers \union {NoWorker}]
    BY DEF Init
  <2>5. Init => /\ rv \in [Resolvers -> Decisive]
                /\ registered \subseteq Tools
                /\ crashes \in 0..MaxCrashes
                /\ discipline \in Disciplines
                /\ granted \subseteq Call
    BY DEF Init, Decisive
  <2> QED
    BY <2>2, <2>3, <2>4, <2>5 DEF TypeOK
<1>2. TypeOK /\ [Next]_vars => TypeOK'
  <2> SUFFICES ASSUME TypeOK, [Next]_vars PROVE TypeOK'
    OBVIOUS
  <2>1. CASE UNCHANGED vars
    BY <2>1 DEF vars, memory, rows, TypeOK
  <2>2. ASSUME NEW w \in Workers, NEW r \in Runs, StartRun(w, r) PROVE TypeOK'
    <3>1. pc' \in [Workers -> PCs]
      BY <2>2, GotoTyped DEF StartRun, PCs, LoopPCs
    <3>2. wk' \in [Workers -> Locals]
      BY <2>2, FreshLocals, LocalsTyped DEF StartRun
    <3>3. /\ runStatus' \in [Runs -> RunStatus]
          /\ controller' \in [Runs -> Workers \union {NoWorker}]
      BY <2>2 DEF StartRun, TypeOK, RunStatus
    <3>4. UNCHANGED <<rec, nRecords, approval, transcript, environment, history>>
      BY <2>2 DEF StartRun
    <3> QED
      BY <3>1, <3>2, <3>3, <3>4 DEF TypeOK, transcript, environment, history
  <2>3. ASSUME NEW w \in Workers, NEW r \in Runs, StartResume(w, r) PROVE TypeOK'
    <3>1. pc' \in [Workers -> PCs]
      BY <2>3, GotoTyped DEF StartResume, PCs, LookupPCs
    <3>2. wk' \in [Workers -> Locals]
      BY <2>3, FreshLocals, LocalsTyped DEF StartResume
    <3>3. UNCHANGED <<rows, controller, environment, history>>
      BY <2>3 DEF StartResume
    <3> QED
      BY <3>1, <3>2, <3>3 DEF TypeOK, rows, environment, history
  <2>4. ASSUME NEW w \in Workers, LoopStep(w) \/ LoopThrows(w) PROVE TypeOK'
    <3>0. wk[w] \in Locals
      BY DEF TypeOK
    <3>1. CASE TakeStep(w)
      <4>1. pc' \in [Workers -> PCs]
        BY <3>1, GotoTyped DEF TakeStep, PCs, LoopPCs
      <4>2. [wk[w] EXCEPT !.step = @ + 1] \in Locals
        BY <3>0 DEF Locals
      <4>3. wk' \in [Workers -> Locals]
        BY <3>1, <4>2, LocalsTyped DEF TakeStep
      <4>4. UNCHANGED <<rows, controller, environment, history>>
        BY <3>1 DEF TakeStep
      <4> QED
        BY <4>1, <4>3, <4>4 DEF TypeOK, rows, environment, history
    <3>2. ASSUME NEW n \in 1..MaxBatch, ModelCallsTools(w, n) PROVE TypeOK'
      <4>1. pc' \in [Workers -> PCs]
        BY <3>2, GotoTyped DEF ModelCallsTools, PCs, LoopPCs
      <4>2. [wk[w] EXCEPT !.left = n] \in Locals
        BY <3>0 DEF Locals
      <4>3. wk' \in [Workers -> Locals]
        BY <3>2, <4>2, LocalsTyped DEF ModelCallsTools
      <4>4. announced' \in [Runs -> Nat]
        <5>1. announced' = [announced EXCEPT ![RunOf(w)] = announced[RunOf(w)] + n] /\ n \in Nat
          BY <3>2 DEF ModelCallsTools
        <5> QED
          BY <5>1, CounterTyped DEF TypeOK
      <4>5. UNCHANGED <<runStatus, rec, nRecords, approval, answered, controller,
                        environment, history>>
        BY <3>2 DEF ModelCallsTools
      <4> QED
        BY <4>1, <4>3, <4>4, <4>5 DEF TypeOK, environment, history
    <3>3. CASE \/ StepLimit(w) \/ ModelAnswers(w) \/ AbortedRequest(w)
               \/ BatchDone(w) \/ ToolCallLimit(w) \/ LoopThrows(w)
      <4>1. pc' \in [Workers -> PCs]
        BY <3>3, GotoTyped DEF StepLimit, ModelAnswers, AbortedRequest, BatchDone,
                               ToolCallLimit, LoopThrows, PCs, LoopPCs
      <4>2. UNCHANGED <<rows, wk, controller, environment, history>>
        BY <3>3 DEF StepLimit, ModelAnswers, AbortedRequest, BatchDone, ToolCallLimit,
                    LoopThrows
      <4> QED
        BY <4>1, <4>2 DEF TypeOK, rows, environment, history
    <3>4. CASE Complete(w) \/ Park(w) \/ Fail(w)
      <4>1. pc' \in [Workers -> PCs]
        BY <3>4, GotoTyped DEF Complete, Park, Fail, PCs, LoopPCs
      <4>2. runStatus' \in [Runs -> RunStatus]
        BY <3>4 DEF Complete, Park, Fail, SetRun, TypeOK, RunStatus
      <4>3. UNCHANGED <<rec, nRecords, approval, transcript, wk, controller, environment, history>>
        BY <3>4 DEF Complete, Park, Fail, SetRun
      <4> QED
        BY <4>1, <4>2, <4>3 DEF TypeOK, transcript, environment, history
    <3>5. CASE Return(w) \/ Rethrow(w)
      BY <3>5, LeaveTyped DEF Return, Rethrow
    <3> QED
      BY <2>4, <3>1, <3>2, <3>3, <3>4, <3>5 DEF LoopStep
  <2>5. ASSUME NEW w \in Workers, CallStep(w) PROVE TypeOK'
    <3>0. /\ wk[w] \in Locals
          /\ \A c \in Call : rec[c] \in Records
      BY DEF TypeOK
    <3>1. ASSUME NEW t \in Tools, CreateRecord(w, t) PROVE TypeOK'
      <4>1. pc' \in [Workers -> PCs]
        BY <3>1, GotoTyped DEF CreateRecord, PCs, LoopPCs
      <4>2. nRecords + 1 \in Call /\ nRecords' \in 0..MaxCalls
        BY <3>1 DEF CreateRecord, TypeOK, Call
      <4>3. wk[w].left - 1 \in Nat /\ wk[w].calls + 1 \in Nat
        BY <3>0, <3>1 DEF CreateRecord, Locals
      <4>4. [wk[w] EXCEPT !.call = nRecords + 1, !.left = @ - 1, !.calls = @ + 1] \in Locals
        BY <3>0, <4>2, <4>3 DEF Locals
      <4>5. wk' = [wk EXCEPT ![w] =
                     [wk[w] EXCEPT !.call = nRecords + 1, !.left = @ - 1, !.calls = @ + 1]]
        BY <3>1 DEF CreateRecord, TypeOK
      <4>6. wk' \in [Workers -> Locals]
        BY <4>4, <4>5, LocalsTyped
      <4>7. rec' \in [Call -> Records]
        <5>1. [run |-> RunOf(w), tool |-> t, status |-> "pending", linked |-> FALSE] \in Records
          BY <3>0 DEF Records, RecordStatus, RunOf, Locals
        <5> QED
          BY <3>1, <5>1 DEF CreateRecord, TypeOK
      <4>8. UNCHANGED <<runStatus, approval, transcript, controller, environment, history>>
        BY <3>1 DEF CreateRecord
      <4> QED
        BY <4>1, <4>2, <4>6, <4>7, <4>8 DEF TypeOK, transcript, environment, history
    <3>2. CASE Refuse(w) \/ SeeDenied(w)
      <4>1. pc' \in [Workers -> PCs]
        BY <3>2, GotoTyped DEF Refuse, SeeDenied, PCs, LoopPCs
      <4>2. rec' \in [Call -> Records]
        BY <3>2, SetRecordTyped DEF Refuse, SeeDenied, RecordStatus
      <4>3. answered' \in [Runs -> Nat]
        BY <3>2, AnswerCallTyped DEF Refuse, SeeDenied
      <4>4. UNCHANGED <<runStatus, nRecords, approval, announced, wk, controller,
                        environment, history>>
        BY <3>2 DEF Refuse, SeeDenied
      <4> QED
        BY <4>1, <4>2, <4>3, <4>4 DEF TypeOK, environment, history
    <3>3. CASE RequestApproval(w)
      <4>1. pc' \in [Workers -> PCs]
        BY <3>3, GotoTyped DEF RequestApproval, PCs, LoopPCs
      <4>2. approval' \in [Call -> {"none", "pending"} \union Decisions]
        BY <3>3 DEF RequestApproval, TypeOK
      <4>3. UNCHANGED <<runStatus, rec, nRecords, transcript, wk, controller, environment, history>>
        BY <3>3 DEF RequestApproval
      <4> QED
        BY <4>1, <4>2, <4>3 DEF TypeOK, transcript, environment, history
    <3>4. CASE LinkApproval(w)
      <4>1. pc' \in [Workers -> PCs]
        BY <3>4, GotoTyped DEF LinkApproval, PCs, LoopPCs
      <4>2. \A x \in Records : [x EXCEPT !.status = "pending", !.linked = TRUE] \in Records
        BY DEF Records, RecordStatus
      <4>3. rec' \in [Call -> Records]
        BY <3>4, <4>2 DEF LinkApproval, TypeOK
      <4>4. UNCHANGED <<runStatus, nRecords, approval, transcript, wk, controller,
                        environment, history>>
        BY <3>4 DEF LinkApproval
      <4> QED
        BY <4>1, <4>3, <4>4 DEF TypeOK, transcript, environment, history
    <3>5. CASE MarkExecuting(w)
      <4>1. pc' \in [Workers -> PCs]
        BY <3>5, GotoTyped DEF MarkExecuting, PCs, LoopPCs
      <4>2. rec' \in [Call -> Records]
        BY <3>5, SetRecordTyped DEF MarkExecuting, RecordStatus
      <4>3. UNCHANGED <<runStatus, nRecords, approval, transcript, wk, controller,
                        environment, history>>
        BY <3>5 DEF MarkExecuting
      <4> QED
        BY <4>1, <4>2, <4>3 DEF TypeOK, transcript, environment, history
    <3>6. CASE ProceedUngated(w) \/ SeeApproved(w) \/ WaitTimesOut(w)
      <4>1. pc' \in [Workers -> PCs]
        BY <3>6, GotoTyped DEF ProceedUngated, SeeApproved, WaitTimesOut, PCs, LoopPCs
      <4>2. UNCHANGED <<rows, wk, controller, environment, history>>
        BY <3>6 DEF ProceedUngated, SeeApproved, WaitTimesOut
      <4> QED
        BY <4>1, <4>2 DEF TypeOK, rows, environment, history
    <3>7. CASE Execute(w)
      <4>1. pc' \in [Workers -> PCs]
        BY <3>7, GotoTyped DEF Execute, PCs, LoopPCs
      <4>2. effects' \in [Call -> Nat]
        <5>1. effects' = [effects EXCEPT ![Current(w)] = effects[Current(w)] + 1]
          BY <3>7 DEF Execute
        <5> QED
          BY <5>1, CounterTyped DEF TypeOK
      <4>3. UNCHANGED <<rows, wk, controller, environment, granted>>
        BY <3>7 DEF Execute
      <4> QED
        BY <4>1, <4>2, <4>3 DEF TypeOK, rows, environment
    <3>8. ASSUME NEW status \in {"succeeded", "failed"}, Settle(w, status) PROVE TypeOK'
      <4>1. pc' \in [Workers -> PCs]
        BY <3>8, GotoTyped DEF Settle, PCs, LoopPCs, ResumePCs
      <4>2. rec' \in [Call -> Records]
        BY <3>8, SetRecordTyped DEF Settle, RecordStatus
      <4>3. answered' \in [Runs -> Nat]
        BY <3>8, AnswerCallTyped DEF Settle, TypeOK
      <4>4. UNCHANGED <<runStatus, nRecords, approval, announced, wk, controller,
                        environment, history>>
        BY <3>8 DEF Settle
      <4> QED
        BY <4>1, <4>2, <4>3, <4>4 DEF TypeOK, environment, history
    <3> QED
      BY <2>5, <3>1, <3>2, <3>3, <3>4, <3>5, <3>6, <3>7, <3>8 DEF CallStep
  <2>6. ASSUME NEW w \in Workers, ResumeStep(w) PROVE TypeOK'
    <3>0. wk[w] \in Locals
      BY DEF TypeOK
    <3>1. CASE FindCall(w)
      <4>1. pc' \in [Workers -> PCs]
        BY <3>1, GotoTyped DEF FindCall, PCs, LookupPCs
      <4>2. \A c \in Call : [wk[w] EXCEPT !.call = c] \in Locals
        BY <3>0 DEF Locals
      <4>3. wk' \in [Workers -> Locals]
        BY <3>1, <4>2, LocalsTyped DEF FindCall
      <4>4. UNCHANGED <<rows, controller, environment, history>>
        BY <3>1 DEF FindCall
      <4> QED
        BY <4>1, <4>3, <4>4 DEF TypeOK, rows, environment, history
    <3>2. CASE NoCallToResume(w) \/ StillPending(w)
      <4>1. pc' \in [Workers -> PCs]
        BY <3>2, GotoTyped DEF NoCallToResume, StillPending, PCs
      <4>2. wk' \in [Workers -> Locals]
        BY <3>2, FreshLocals, LocalsTyped DEF NoCallToResume, StillPending
      <4>3. UNCHANGED <<rows, controller, environment, history>>
        BY <3>2 DEF NoCallToResume, StillPending
      <4> QED
        BY <4>1, <4>2, <4>3 DEF TypeOK, rows, environment, history
    <3>3. CASE ReadDecision(w)
      <4>1. pc' \in [Workers -> PCs]
        BY <3>3, GotoTyped DEF ReadDecision, PCs, LoopPCs, ResumePCs
      <4>2. controller' \in [Runs -> Workers \union {NoWorker}]
        BY <3>3 DEF ReadDecision, TypeOK
      <4>3. UNCHANGED <<rows, wk, environment, history>>
        BY <3>3 DEF ReadDecision
      <4> QED
        BY <4>1, <4>2, <4>3 DEF TypeOK, rows, environment, history
    <3>4. CASE ToolIsGone(w)
      BY <3>4, LeaveTyped DEF ToolIsGone
    <3>5. CASE RecordDenial(w)
      <4>1. pc' \in [Workers -> PCs]
        BY <3>5, GotoTyped DEF RecordDenial, PCs, ResumePCs
      <4>2. rec' \in [Call -> Records]
        BY <3>5, SetRecordTyped DEF RecordDenial, RecordStatus
      <4>3. UNCHANGED <<runStatus, nRecords, approval, transcript, wk, controller,
                        environment, history>>
        BY <3>5 DEF RecordDenial
      <4> QED
        BY <4>1, <4>2, <4>3 DEF TypeOK, transcript, environment, history
    <3>6. CASE Reopen(w)
      <4>1. pc' \in [Workers -> PCs]
        BY <3>6, GotoTyped DEF Reopen, PCs, LoopPCs
      <4>2. [wk[w] EXCEPT !.parked = FALSE, !.call = 0] \in Locals
        BY <3>0 DEF Locals
      <4>3. wk' = [wk EXCEPT ![w] = [wk[w] EXCEPT !.parked = FALSE, !.call = 0]]
        BY <3>6 DEF Reopen, TypeOK
      <4>4. wk' \in [Workers -> Locals]
        BY <4>2, <4>3, LocalsTyped
      <4>5. runStatus' \in [Runs -> RunStatus]
        BY <3>6 DEF Reopen, TypeOK, RunStatus
      <4>6. UNCHANGED <<rec, nRecords, approval, transcript, controller, environment, history>>
        BY <3>6 DEF Reopen
      <4> QED
        BY <4>1, <4>4, <4>5, <4>6 DEF TypeOK, transcript, environment, history
    <3> QED
      BY <2>6, <3>1, <3>2, <3>3, <3>4, <3>5, <3>6 DEF ResumeStep
  <2>7. ASSUME NEW r \in Runs, Abort(r) PROVE TypeOK'
    <3>1. \A l \in Locals : [l EXCEPT !.aborted = TRUE] \in Locals
      BY DEF Locals
    <3>2. controller[r] \in Workers
      BY <2>7 DEF Abort, TypeOK
    <3>3. wk' \in [Workers -> Locals]
      BY <2>7, <3>1, <3>2, LocalsTyped DEF Abort, TypeOK
    <3>4. UNCHANGED <<rows, pc, controller, environment, history>>
      BY <2>7 DEF Abort
    <3> QED
      BY <3>3, <3>4 DEF TypeOK, rows, environment, history
  <2>8. ASSUME NEW v \in Resolvers, NEW c \in Call, NEW d \in Decisions, ReadPending(v, c, d)
        PROVE  TypeOK'
    <3>1. rv' \in [Resolvers -> Decisive]
      BY <2>8 DEF ReadPending, TypeOK, Decisive
    <3>2. UNCHANGED <<rows, pc, wk, controller, registered, crashes, discipline, history>>
      BY <2>8 DEF ReadPending
    <3> QED
      BY <3>1, <3>2 DEF TypeOK, rows, history
  <2>9. ASSUME NEW v \in Resolvers, WriteDecision(v) PROVE TypeOK'
    <3>0. rv[v] \in [call : Call, decision : Decisions]
      BY <2>9 DEF WriteDecision, TypeOK, Decisive
    <3>1. rv' \in [Resolvers -> Decisive]
      BY <2>9 DEF WriteDecision, TypeOK, Decisive
    <3>2. approval' \in [Call -> {"none", "pending"} \union Decisions]
      BY <2>9, <3>0 DEF WriteDecision, TypeOK
    <3>3. granted' \subseteq Call
      BY <2>9, <3>0 DEF WriteDecision, TypeOK
    <3>4. UNCHANGED <<runStatus, rec, nRecords, transcript, pc, wk, controller, registered,
                      crashes, discipline, effects>>
      BY <2>9 DEF WriteDecision
    <3> QED
      BY <3>1, <3>2, <3>3, <3>4 DEF TypeOK, transcript
  <2>10. ASSUME NEW t \in Pluggable, LoadPlugin(t) \/ DisablePlugin(t) PROVE TypeOK'
    <3>1. registered' \subseteq Tools
      BY <2>10 DEF LoadPlugin, DisablePlugin, TypeOK
    <3>2. UNCHANGED <<rows, pc, wk, controller, rv, crashes, discipline, history>>
      BY <2>10 DEF LoadPlugin, DisablePlugin
    <3> QED
      BY <3>1, <3>2 DEF TypeOK, rows, history
  <2>11. CASE Crash
    <3>1. /\ pc' \in [Workers -> PCs]
          /\ controller' \in [Runs -> Workers \union {NoWorker}]
          /\ registered' \subseteq Tools
          /\ crashes' \in 0..MaxCrashes
      BY <2>11 DEF Crash, PCs, TypeOK
    <3>2. wk' \in [Workers -> Locals]
      BY <2>11, FreshLocals DEF Crash
    <3>3. rv' \in [Resolvers -> Decisive]
      BY <2>11 DEF Crash, Decisive
    <3>4. UNCHANGED <<rows, discipline, history>>
      BY <2>11 DEF Crash
    <3> QED
      BY <3>1, <3>2, <3>3, <3>4 DEF TypeOK, rows, history
  <2> QED
    BY <2>1, <2>2, <2>3, <2>4, <2>5, <2>6, <2>7, <2>8, <2>9, <2>10, <2>11
       DEF Next, Request, WorkerStep, Resolve
<1> QED
  BY <1>1, <1>2, PTL DEF Spec

-----------------------------------------------------------------------------
(* No tool call takes effect without authority *)

\* What is known of a call, seen from the place its worker has reached.
CallPCs == {"check", "link", "poll", "mark", "execute", "settle", "readApproval", "deny"}
Authorised(c) == rec[c].tool \notin Forbidden /\ (rec[c].tool \in Gated => c \in granted)

WorkerAuthority(w) ==
  /\ pc[w] \in CallPCs => Current(w) \in 1..nRecords
  /\ pc[w] \in {"link", "poll", "readApproval"} => rec[Current(w)].tool \notin Forbidden
  /\ pc[w] \in {"mark", "execute"} => Authorised(Current(w))

\* What is known of a record, its approval and its effects.  The link that a
\* resume follows is what tells it that the permission was once checked.
CallAuthority(c) ==
  /\ approval[c] = "approved" => c \in granted
  /\ c > nRecords => rec[c] = NoRecord /\ effects[c] = 0
  /\ rec[c].linked => rec[c].tool \notin Forbidden
  /\ effects[c] > 0 => Authorised(c)

Authority ==
  /\ \A w \in Workers : WorkerAuthority(w)
  /\ \A c \in Call : CallAuthority(c)

\* A record's run and tool are settled when it is created; a grant is never
\* taken back.
RowsGrow ==
  /\ nRecords <= nRecords'
  /\ granted \subseteq granted'
  /\ \A c \in 1..nRecords : rec'[c].tool = rec[c].tool /\ rec'[c].run = rec[c].run

LEMMA SetRecordKeeps ==
  ASSUME TypeOK, NEW w \in Workers, NEW s \in RecordStatus, SetRecord(w, s), NEW c \in Call
  PROVE  /\ rec'[c].tool = rec[c].tool
         /\ rec'[c].run = rec[c].run
         /\ rec'[c].linked = rec[c].linked
         /\ c # Current(w) => rec'[c] = rec[c]
<1>1. rec[c] \in Records
  BY DEF TypeOK
<1>2. rec' = [rec EXCEPT ![Current(w)] = [rec[Current(w)] EXCEPT !.status = s]]
  BY DEF SetRecord
<1>3. \A x \in Records : /\ [x EXCEPT !.status = s].tool = x.tool
                         /\ [x EXCEPT !.status = s].run = x.run
                         /\ [x EXCEPT !.status = s].linked = x.linked
  BY DEF Records
<1> QED
  BY <1>1, <1>2, <1>3 DEF TypeOK

LEMMA LinkKeeps ==
  ASSUME TypeOK, NEW w \in Workers, LinkApproval(w), NEW c \in Call
  PROVE  /\ rec'[c].tool = rec[c].tool
         /\ rec'[c].run = rec[c].run
         /\ c # Current(w) => rec'[c] = rec[c]
<1>1. rec[c] \in Records
  BY DEF TypeOK
<1>2. rec' = [rec EXCEPT ![Current(w)] =
                [rec[Current(w)] EXCEPT !.status = "pending", !.linked = TRUE]]
  BY DEF LinkApproval, TypeOK
<1>3. \A x \in Records :
        LET y == [x EXCEPT !.status = "pending", !.linked = TRUE]
        IN  y.tool = x.tool /\ y.run = x.run
  BY DEF Records
<1> QED
  BY <1>1, <1>2, <1>3 DEF TypeOK

LEMMA CreateKeeps ==
  ASSUME TypeOK, NEW w \in Workers, NEW t \in Tools, CreateRecord(w, t)
  PROVE  /\ nRecords + 1 \in Call
         /\ nRecords' = nRecords + 1
         /\ rec'[nRecords + 1] =
              [run |-> RunOf(w), tool |-> t, status |-> "pending", linked |-> FALSE]
         /\ \A c \in Call : c # nRecords + 1 => rec'[c] = rec[c]
         /\ \A x \in Workers : x # w => wk'[x] = wk[x]
         /\ wk'[w].call = nRecords + 1
         /\ wk'[w].run = wk[w].run
<1>1. nRecords + 1 \in Call /\ nRecords' = nRecords + 1
  BY DEF CreateRecord, TypeOK, Call
<1>2. /\ rec'[nRecords + 1] =
              [run |-> RunOf(w), tool |-> t, status |-> "pending", linked |-> FALSE]
      /\ \A c \in Call : c # nRecords + 1 => rec'[c] = rec[c]
  BY <1>1 DEF CreateRecord, TypeOK
<1>3. wk' = [wk EXCEPT ![w] =
               [wk[w] EXCEPT !.call = nRecords + 1, !.left = @ - 1, !.calls = @ + 1]]
  BY DEF CreateRecord, TypeOK
<1>4. \A l \in Locals : \A m, n, k :
        LET y == [l EXCEPT !.call = m, !.left = n, !.calls = k]
        IN  y.call = m /\ y.run = l.run
  BY DEF Locals
<1>5. wk'[w].call = nRecords + 1 /\ wk'[w].run = wk[w].run
  BY <1>3, <1>4 DEF TypeOK
<1> QED
  BY <1>1, <1>2, <1>3, <1>5 DEF TypeOK

LEMMA RowsOnlyGrow ==
  ASSUME TypeOK, [Next]_vars
  PROVE  RowsGrow
<1> USE DEF RowsGrow
<1>0. nRecords \in Nat /\ \A c \in 1..nRecords : c \in Call
  BY DEF TypeOK, Call
<1>1. CASE UNCHANGED <<nRecords, rec, granted>>
  BY <1>0, <1>1
<1>2. ASSUME NEW w \in Workers, NEW t \in Tools, CreateRecord(w, t) PROVE RowsGrow
  <2>0. \A c \in 1..nRecords : c # nRecords + 1
    BY <1>0
  <2>1. \A c \in 1..nRecords : rec'[c] = rec[c]
    BY <1>0, <1>2, <2>0, CreateKeeps
  <2>2. nRecords' = nRecords + 1 /\ granted' = granted
    BY <1>2 DEF CreateRecord, history
  <2> QED
    BY <1>0, <2>1, <2>2
<1>3. ASSUME NEW w \in Workers, NEW s \in RecordStatus, SetRecord(w, s),
             UNCHANGED <<nRecords, granted>>
      PROVE  RowsGrow
  BY <1>0, <1>3, SetRecordKeeps
<1>4. ASSUME NEW w \in Workers, LinkApproval(w) PROVE RowsGrow
  <2>1. UNCHANGED <<nRecords, granted>>
    BY <1>4 DEF LinkApproval, history
  <2> QED
    BY <1>0, <1>4, <2>1, LinkKeeps
<1>5. ASSUME NEW v \in Resolvers, WriteDecision(v) PROVE RowsGrow
  <2>1. UNCHANGED <<nRecords, rec>> /\ granted \subseteq granted'
    BY <1>5 DEF WriteDecision
  <2> QED
    BY <1>0, <2>1
<1>6. ASSUME NEW w \in Workers, WorkerStep(w) PROVE RowsGrow
  <2>1. CASE LoopStep(w) \/ LoopThrows(w)
    <3>1. UNCHANGED <<nRecords, rec, granted>>
      BY <2>1 DEF LoopStep, LoopThrows, TakeStep, StepLimit, ModelAnswers, AbortedRequest,
                  ModelCallsTools, Complete, Park, Fail, SetRun,
         Return, Rethrow, Leave, BatchDone, ToolCallLimit,
                  rows, history
    <3> QED
      BY <1>1, <3>1
  <2>2. CASE ResumeStep(w)
    <3>1. CASE RecordDenial(w)
      <4>1. SetRecord(w, "denied") /\ UNCHANGED <<nRecords, granted>>
        BY <3>1 DEF RecordDenial, history
      <4> QED
        BY <1>3, <4>1 DEF RecordStatus
    <3>2. CASE ~RecordDenial(w)
      <4>1. UNCHANGED <<nRecords, rec, granted>>
        BY <2>2, <3>2 DEF ResumeStep, FindCall, NoCallToResume, StillPending, ReadDecision,
                          ToolIsGone, Reopen, Leave, rows, history
      <4> QED
        BY <1>1, <4>1
    <3> QED
      BY <3>1, <3>2
  <2>3. CASE CallStep(w)
    <3>1. CASE \E t \in Tools : CreateRecord(w, t)
      BY <1>2, <3>1
    <3>2. CASE LinkApproval(w)
      BY <1>4, <3>2
    <3>3. CASE \/ Refuse(w) \/ SeeDenied(w) \/ MarkExecuting(w)
               \/ \E status \in {"succeeded", "failed"} : Settle(w, status)
      <4>1. \E s \in RecordStatus : SetRecord(w, s)
        BY <3>3 DEF Refuse, SeeDenied, MarkExecuting, Settle, RecordStatus
      <4>2. UNCHANGED <<nRecords, granted>>
        BY <3>3 DEF Refuse, SeeDenied, MarkExecuting, Settle, history
      <4> QED
        BY <1>3, <4>1, <4>2
    <3>4. CASE \/ ProceedUngated(w) \/ RequestApproval(w) \/ SeeApproved(w)
               \/ WaitTimesOut(w) \/ Execute(w)
      <4>1. UNCHANGED <<nRecords, rec, granted>>
        BY <3>4 DEF ProceedUngated, RequestApproval, SeeApproved, WaitTimesOut, Execute,
                    rows, history
      <4> QED
        BY <1>1, <4>1
    <3> QED
      BY <2>3, <3>1, <3>2, <3>3, <3>4 DEF CallStep
  <2> QED
    BY <1>6, <2>1, <2>2, <2>3 DEF WorkerStep
<1>7. CASE UNCHANGED vars
  <2>1. UNCHANGED <<nRecords, rec, granted>>
    BY <1>7 DEF vars, rows
  <2> QED
    BY <1>1, <2>1
<1>8. ASSUME NEW w \in Workers, Request(w) PROVE RowsGrow
  <2>1. UNCHANGED <<nRecords, rec, granted>>
    BY <1>8 DEF Request, StartRun, StartResume, rows, history
  <2> QED
    BY <1>1, <2>1
<1>9. CASE \/ \E r \in Runs : Abort(r)
           \/ \E v \in Resolvers, c \in Call, d \in Decisions : ReadPending(v, c, d)
           \/ \E t \in Pluggable : LoadPlugin(t) \/ DisablePlugin(t)
           \/ Crash
  <2>1. UNCHANGED <<nRecords, rec, granted>>
    BY <1>9 DEF Abort, ReadPending, LoadPlugin, DisablePlugin, Crash, rows, history
  <2> QED
    BY <1>1, <2>1
<1> QED
  BY <1>5, <1>6, <1>7, <1>8, <1>9 DEF Next, Resolve

\* A step of one worker moves that worker only.
LEMMA GotoMoves ==
  ASSUME TypeOK, NEW w \in Workers, NEW from, NEW to, Goto(w, from, to)
  PROVE  /\ pc[w] = from /\ pc'[w] = to
         /\ \A x \in Workers : x # w => pc'[x] = pc[x]
  BY DEF TypeOK, Goto

\* A worker that a step does not move keeps what is known of its call.
LEMMA OthersKeepAuthority ==
  ASSUME TypeOK, RowsGrow, nRecords' \in Nat, NEW w \in Workers, WorkerAuthority(w),
         pc'[w] = pc[w], Current(w)' = Current(w)
  PROVE  WorkerAuthority(w)'
<1>1. nRecords \in Nat
  BY DEF TypeOK
<1>2. CASE pc[w] \in CallPCs
  <2>1. Current(w) \in 1..nRecords
    BY <1>2 DEF WorkerAuthority
  <2>2. Current(w)' \in 1..nRecords'
    BY <1>1, <2>1 DEF RowsGrow
  <2>3. rec'[Current(w)'].tool = rec[Current(w)].tool /\ granted \subseteq granted'
    BY <2>1 DEF RowsGrow
  <2> QED
    BY <2>1, <2>2, <2>3 DEF WorkerAuthority, Authorised
<1>3. CASE pc[w] \notin CallPCs
  BY <1>3 DEF WorkerAuthority, CallPCs
<1> QED
  BY <1>2, <1>3

\* A step that leaves the rows alone keeps what is known of the calls.
LEMMA SameRowsKeepAuthority ==
  ASSUME \A c \in Call : CallAuthority(c),
         UNCHANGED <<rec, nRecords, approval, granted, effects>>
  PROVE  \A c \in Call : CallAuthority(c)'
  BY DEF CallAuthority, Authorised

\* The invariant that carries authority from the checks of executeToolCall to
\* tool.execute: workers between the two hold a call that may be carried out.
THEOREM AuthorityHolds == Spec => []Authority
<1>1. Init => Authority
  <2>1. \A c \in Call : ~NoRecord.linked
    BY DEF NoRecord
  <2> QED
    BY <2>1 DEF Init, Authority, WorkerAuthority, CallAuthority, CallPCs
<1>2. TypeOK /\ TypeOK' /\ Authority /\ [Next]_vars => Authority'
  <2> SUFFICES ASSUME TypeOK, TypeOK', Authority, [Next]_vars PROVE Authority'
    OBVIOUS
  <2>a. RowsGrow
    BY RowsOnlyGrow
  <2>b. nRecords \in Nat /\ nRecords' \in Nat
    BY DEF TypeOK
  <2>c. ASSUME NEW x \in Workers, pc'[x] = pc[x], Current(x)' = Current(x)
        PROVE  WorkerAuthority(x)'
    BY <2>a, <2>b, <2>c, OthersKeepAuthority DEF Authority
  <2>1. CASE UNCHANGED vars
    <3>1. UNCHANGED <<rec, nRecords, approval, granted, effects, pc, wk>>
      BY <2>1 DEF vars, rows, memory
    <3> QED
      BY <3>1, <2>c, SameRowsKeepAuthority DEF Authority, Current
  <2>d. ASSUME NEW w \in Workers, \A x \in Workers : x # w => pc'[x] = pc[x],
               \A x \in Workers : x # w => wk'[x] = wk[x],
               WorkerAuthority(w)', \A c \in Call : CallAuthority(c)'
        PROVE  Authority'
    BY <2>c, <2>d DEF Authority, Current
  <2>e. ASSUME NEW w \in Workers, wk' = wk
        PROVE  \A x \in Workers : wk'[x] = wk[x]
    BY <2>e
  <2>2. ASSUME NEW w \in Workers, NEW r \in Runs, StartRun(w, r) \/ StartResume(w, r)
        PROVE  Authority'
    <3>1. /\ pc'[w] \in {"loop", "findCall"}
          /\ \A x \in Workers : x # w => pc'[x] = pc[x]
      BY <2>2, GotoMoves DEF StartRun, StartResume
    <3>2. \A x \in Workers : x # w => wk'[x] = wk[x]
      BY <2>2 DEF StartRun, StartResume, TypeOK
    <3>3. \A c \in Call : CallAuthority(c)'
      BY <2>2, SameRowsKeepAuthority DEF Authority, StartRun, StartResume, rows, history
    <3>4. WorkerAuthority(w)'
      BY <3>1 DEF WorkerAuthority, CallPCs
    <3> QED
      BY <2>d, <3>1, <3>2, <3>3, <3>4
  <2>3. ASSUME NEW w \in Workers, LoopStep(w) \/ LoopThrows(w) PROVE Authority'
    <3>1. /\ pc'[w] \in {"model", "fail", "answer", "call", "loop", "leave", "idle"}
          /\ \A x \in Workers : x # w => pc'[x] = pc[x]
      BY <2>3, GotoMoves DEF LoopStep, LoopThrows, TakeStep, StepLimit, ModelAnswers,
         AbortedRequest, ModelCallsTools, Complete, Park, Fail,
         Return, Rethrow, Leave, BatchDone, ToolCallLimit
    <3>2. \A x \in Workers : x # w => wk'[x] = wk[x]
      BY <2>3 DEF LoopStep, LoopThrows, TakeStep, StepLimit, ModelAnswers, AbortedRequest,
         ModelCallsTools, Complete, Park, Fail, SetRun,
         Return, Rethrow, Leave, BatchDone, ToolCallLimit, TypeOK
    <3>3. UNCHANGED <<rec, nRecords, approval, granted, effects>>
      BY <2>3 DEF LoopStep, LoopThrows, TakeStep, StepLimit, ModelAnswers, AbortedRequest,
         ModelCallsTools, Complete, Park, Fail, SetRun,
         Return, Rethrow, Leave, BatchDone, ToolCallLimit, rows, history
    <3>4. WorkerAuthority(w)'
      BY <3>1 DEF WorkerAuthority, CallPCs
    <3> QED
      BY <2>d, <3>1, <3>2, <3>3, <3>4, SameRowsKeepAuthority DEF Authority
  <2>4. ASSUME NEW w \in Workers, CallStep(w) PROVE Authority'
    <3>0. ASSUME NEW s \in RecordStatus, SetRecord(w, s), Current(w) \in 1..nRecords,
                 UNCHANGED <<nRecords, approval, granted, effects>>
          PROVE  \A c \in Call : CallAuthority(c)'
      BY <2>b, <3>0, SetRecordKeeps DEF Authority, CallAuthority, Authorised
    <3>1. ASSUME NEW t \in Tools, CreateRecord(w, t) PROVE Authority'
      <4>1. /\ pc'[w] = "check"
            /\ \A x \in Workers : x # w => pc'[x] = pc[x]
        BY <3>1, GotoMoves DEF CreateRecord
      <4>2. /\ \A x \in Workers : x # w => wk'[x] = wk[x]
            /\ Current(w)' = nRecords'
            /\ nRecords' = nRecords + 1
        BY <3>1, CreateKeeps DEF Current
      <4>3. WorkerAuthority(w)'
        BY <2>b, <4>1, <4>2 DEF WorkerAuthority, CallPCs
      <4>4. ASSUME NEW c \in Call PROVE CallAuthority(c)'
        <5>1. UNCHANGED <<approval, granted, effects>>
          BY <3>1 DEF CreateRecord, history
        <5>2. CASE c = nRecords + 1
          <6>0. rec'[c] = [run |-> RunOf(w), tool |-> t, status |-> "pending", linked |-> FALSE]
            BY <3>1, <5>2, CreateKeeps
          <6>1. rec'[c].linked = FALSE
            BY <6>0
          <6>2. effects[c] = 0 /\ (approval[c] = "approved" => c \in granted)
            BY <2>b, <5>2 DEF Authority, CallAuthority
          <6>3. ~(c > nRecords')
            BY <2>b, <4>2, <5>2
          <6> QED
            BY <5>1, <6>1, <6>2, <6>3 DEF CallAuthority
        <5>3. CASE c # nRecords + 1
          <6>1. rec'[c] = rec[c]
            BY <3>1, <5>3, CreateKeeps
          <6>2. c > nRecords' => c > nRecords
            BY <2>b, <4>2 DEF Call
          <6> QED
            BY <5>1, <6>1, <6>2 DEF Authority, CallAuthority, Authorised
        <5> QED
          BY <5>2, <5>3
      <4> QED
        BY <2>d, <4>1, <4>2, <4>3, <4>4
    <3>2. CASE \/ Refuse(w) \/ SeeDenied(w)
               \/ \E status \in {"succeeded", "failed"} : Settle(w, status)
      <4>1. /\ pc[w] \in CallPCs \union {"poll"} /\ pc'[w] \in {"call", "reopen"}
            /\ \A x \in Workers : x # w => pc'[x] = pc[x]
        BY <3>2, GotoMoves DEF Refuse, SeeDenied, Settle, CallPCs
      <4>2. \E s \in RecordStatus : SetRecord(w, s)
        BY <3>2 DEF Refuse, SeeDenied, Settle, RecordStatus
      <4>3. UNCHANGED <<nRecords, approval, granted, effects, wk>>
        BY <3>2 DEF Refuse, SeeDenied, Settle, history
      <4>4. Current(w) \in 1..nRecords
        BY <4>1 DEF Authority, WorkerAuthority, CallPCs
      <4>5. WorkerAuthority(w)'
        BY <4>1 DEF WorkerAuthority, CallPCs
      <4> QED
        BY <2>d, <3>0, <4>1, <4>2, <4>3, <4>4, <4>5
    <3>3. CASE ProceedUngated(w) \/ SeeApproved(w) \/ WaitTimesOut(w)
      <4>1. /\ pc[w] \in {"check", "poll"} /\ pc'[w] \in {"mark", "park"}
            /\ \A x \in Workers : x # w => pc'[x] = pc[x]
        BY <3>3, GotoMoves DEF ProceedUngated, SeeApproved, WaitTimesOut
      <4>2. UNCHANGED <<rec, nRecords, approval, granted, effects, wk>>
        BY <3>3 DEF ProceedUngated, SeeApproved, WaitTimesOut, rows, history
      <4>3. Current(w) \in 1..nRecords /\ Current(w) \in Call
        BY <4>1 DEF Authority, WorkerAuthority, CallPCs, TypeOK, Call
      <4>4. pc'[w] = "mark" => Authorised(Current(w))
        <5>1. CASE ProceedUngated(w)
          BY <5>1 DEF ProceedUngated, MayProceed, Authorised
        <5>2. CASE SeeApproved(w)
          <6>1. pc[w] = "poll" /\ approval[Current(w)] = "approved"
            BY <5>2 DEF SeeApproved, Goto
          <6> QED
            BY <4>3, <6>1 DEF Authority, WorkerAuthority, CallAuthority, Authorised
        <5>3. CASE WaitTimesOut(w)
          BY <5>3, GotoMoves DEF WaitTimesOut
        <5> QED
          BY <3>3, <5>1, <5>2, <5>3
      <4>5. WorkerAuthority(w)'
        BY <4>1, <4>2, <4>3, <4>4 DEF WorkerAuthority, Authorised, Current
      <4> QED
        BY <2>d, <4>1, <4>2, <4>5, SameRowsKeepAuthority DEF Authority
    <3>4. CASE RequestApproval(w)
      <4>1. /\ pc[w] = "check" /\ pc'[w] = "link"
            /\ \A x \in Workers : x # w => pc'[x] = pc[x]
        BY <3>4, GotoMoves DEF RequestApproval
      <4>2. /\ UNCHANGED <<rec, nRecords, granted, effects, wk>>
            /\ approval' = [approval EXCEPT ![Current(w)] = "pending"]
            /\ rec[Current(w)].tool \notin Forbidden
        BY <3>4 DEF RequestApproval, MayProceed, history
      <4>3. Current(w) \in 1..nRecords
        BY <4>1 DEF Authority, WorkerAuthority, CallPCs
      <4>4. WorkerAuthority(w)'
        BY <4>1, <4>2, <4>3 DEF WorkerAuthority, Current
      <4>5. \A c \in Call : CallAuthority(c)'
        BY <4>2 DEF Authority, CallAuthority, Authorised, TypeOK
      <4> QED
        BY <2>d, <4>1, <4>2, <4>4, <4>5
    <3>5. CASE LinkApproval(w)
      <4>1. /\ pc[w] = "link" /\ pc'[w] = "poll"
            /\ \A x \in Workers : x # w => pc'[x] = pc[x]
        BY <3>5, GotoMoves DEF LinkApproval
      <4>2. UNCHANGED <<nRecords, approval, granted, effects, wk>>
        BY <3>5 DEF LinkApproval, history
      <4>3. /\ Current(w) \in 1..nRecords
            /\ rec[Current(w)].tool \notin Forbidden
        BY <4>1 DEF Authority, WorkerAuthority, CallPCs
      <4>4. WorkerAuthority(w)'
        BY <2>a, <4>1, <4>2, <4>3 DEF WorkerAuthority, Current, RowsGrow
      <4>5. ASSUME NEW c \in Call PROVE CallAuthority(c)'
        <5>1. /\ rec'[c].tool = rec[c].tool
              /\ c # Current(w) => rec'[c] = rec[c]
          BY <3>5, LinkKeeps
        <5>2. c = Current(w) => ~(c > nRecords) /\ rec[c].tool \notin Forbidden
          BY <2>b, <4>3
        <5> QED
          BY <4>2, <5>1, <5>2 DEF Authority, CallAuthority, Authorised
      <4> QED
        BY <2>d, <4>1, <4>2, <4>4, <4>5
    <3>6. CASE MarkExecuting(w)
      <4>1. /\ pc[w] = "mark" /\ pc'[w] = "execute"
            /\ \A x \in Workers : x # w => pc'[x] = pc[x]
        BY <3>6, GotoMoves DEF MarkExecuting
      <4>2. SetRecord(w, "executing") /\ UNCHANGED <<nRecords, approval, granted, effects, wk>>
        BY <3>6 DEF MarkExecuting, history
      <4>3. Current(w) \in 1..nRecords /\ Authorised(Current(w))
        BY <4>1 DEF Authority, WorkerAuthority, CallPCs
      <4>4. WorkerAuthority(w)'
        BY <2>a, <4>1, <4>2, <4>3 DEF WorkerAuthority, Authorised, Current, RowsGrow
      <4>5. \A c \in Call : CallAuthority(c)'
        BY <3>0, <4>2, <4>3 DEF RecordStatus
      <4> QED
        BY <2>d, <4>1, <4>2, <4>4, <4>5
    <3>7. CASE Execute(w)
      <4>1. /\ pc[w] = "execute" /\ pc'[w] = "settle"
            /\ \A x \in Workers : x # w => pc'[x] = pc[x]
        BY <3>7, GotoMoves DEF Execute
      <4>2. /\ UNCHANGED <<rec, nRecords, approval, granted, wk>>
            /\ effects' = [effects EXCEPT ![Current(w)] = @ + 1]
        BY <3>7 DEF Execute, rows
      <4>3. Current(w) \in 1..nRecords /\ Authorised(Current(w))
        BY <4>1 DEF Authority, WorkerAuthority, CallPCs
      <4>4. WorkerAuthority(w)'
        BY <4>1, <4>2, <4>3 DEF WorkerAuthority, Current
      <4>5. ASSUME NEW c \in Call PROVE CallAuthority(c)'
        <5>1. CASE c = Current(w)
          BY <2>b, <4>2, <4>3, <5>1 DEF Authority, CallAuthority, Authorised
        <5>2. CASE c # Current(w)
          <6>1. effects'[c] = effects[c]
            BY <4>2, <5>2 DEF TypeOK
          <6> QED
            BY <4>2, <6>1 DEF Authority, CallAuthority, Authorised
        <5> QED
          BY <5>1, <5>2
      <4> QED
        BY <2>d, <4>1, <4>2, <4>4, <4>5
    <3> QED
      BY <2>4, <3>1, <3>2, <3>3, <3>4, <3>5, <3>6, <3>7 DEF CallStep
  <2>5. ASSUME NEW w \in Workers, ResumeStep(w) PROVE Authority'
    <3>1. CASE FindCall(w)
      <4>1. PICK c \in Call : /\ IsNewestPending(c, RunOf(w)) /\ rec[c].linked
                              /\ Goto(w, "findCall", "readApproval")
                              /\ wk' = [wk EXCEPT ![w].call = c]
        BY <3>1 DEF FindCall
      <4>2. UNCHANGED <<rec, nRecords, approval, granted, effects>>
        BY <3>1 DEF FindCall, rows, history
      <4>3. /\ pc'[w] = "readApproval"
            /\ \A x \in Workers : x # w => pc'[x] = pc[x] /\ wk'[x] = wk[x]
        BY <4>1, GotoMoves DEF TypeOK
      <4>4. wk'[w].call = c
        BY <4>1 DEF TypeOK, Locals
      <4>5. rec[c].tool \notin Forbidden /\ c \in 1..nRecords
        <5>1. rec[c] # NoRecord
          BY <4>1 DEF NoRecord
        <5>2. ~(c > nRecords)
          BY <5>1 DEF Authority, CallAuthority
        <5> QED
          BY <2>b, <4>1, <5>2 DEF Authority, CallAuthority, Call
      <4>6. WorkerAuthority(w)'
        BY <4>2, <4>3, <4>4, <4>5 DEF WorkerAuthority, Current
      <4> QED
        BY <2>d, <4>2, <4>3, <4>6, SameRowsKeepAuthority DEF Authority
    <3>2. CASE NoCallToResume(w) \/ StillPending(w) \/ ToolIsGone(w) \/ Reopen(w)
      <4>1. /\ pc'[w] \in {"idle", "loop"}
            /\ \A x \in Workers : x # w => pc'[x] = pc[x]
        BY <3>2, GotoMoves DEF NoCallToResume, StillPending, ToolIsGone, Reopen, Leave
      <4>2. \A x \in Workers : x # w => wk'[x] = wk[x]
        BY <3>2 DEF NoCallToResume, StillPending, ToolIsGone, Reopen, Leave, TypeOK
      <4>3. UNCHANGED <<rec, nRecords, approval, granted, effects>>
        BY <3>2 DEF NoCallToResume, StillPending, ToolIsGone, Reopen, Leave, rows, history
      <4>4. WorkerAuthority(w)'
        BY <4>1 DEF WorkerAuthority, CallPCs
      <4> QED
        BY <2>d, <4>1, <4>2, <4>3, <4>4, SameRowsKeepAuthority DEF Authority
    <3>3. CASE ReadDecision(w)
      <4>1. /\ pc[w] = "readApproval" /\ pc'[w] \in {"deny", "mark"}
            /\ pc'[w] = "mark" => approval[Current(w)] = "approved"
            /\ \A x \in Workers : x # w => pc'[x] = pc[x]
        BY <3>3, GotoMoves DEF ReadDecision
      <4>2. UNCHANGED <<rec, nRecords, approval, granted, effects, wk>>
        BY <3>3 DEF ReadDecision, rows, history
      <4>3. /\ Current(w) \in 1..nRecords /\ Current(w) \in Call
            /\ rec[Current(w)].tool \notin Forbidden
        BY <4>1 DEF Authority, WorkerAuthority, CallPCs, TypeOK, Call
      <4>4. pc'[w] = "mark" => Authorised(Current(w))
        BY <4>1, <4>3 DEF Authority, CallAuthority, Authorised
      <4>5. WorkerAuthority(w)'
        BY <4>1, <4>2, <4>3, <4>4 DEF WorkerAuthority, Authorised, Current
      <4> QED
        BY <2>d, <4>1, <4>2, <4>5, SameRowsKeepAuthority DEF Authority
    <3>4. CASE RecordDenial(w)
      <4>1. /\ pc[w] = "deny" /\ pc'[w] = "reopen"
            /\ \A x \in Workers : x # w => pc'[x] = pc[x]
        BY <3>4, GotoMoves DEF RecordDenial
      <4>2. SetRecord(w, "denied") /\ UNCHANGED <<nRecords, approval, granted, effects, wk>>
        BY <3>4 DEF RecordDenial, history
      <4>3. Current(w) \in 1..nRecords
        BY <4>1 DEF Authority, WorkerAuthority, CallPCs
      <4>4. \A c \in Call : CallAuthority(c)'
        BY <2>b, <4>2, <4>3, SetRecordKeeps DEF Authority, CallAuthority, Authorised, RecordStatus
      <4>5. WorkerAuthority(w)'
        BY <4>1 DEF WorkerAuthority, CallPCs
      <4> QED
        BY <2>d, <4>1, <4>2, <4>4, <4>5
    <3> QED
      BY <2>5, <3>1, <3>2, <3>3, <3>4 DEF ResumeStep
  <2>6. ASSUME NEW r \in Runs, Abort(r) PROVE Authority'
    <3>1. UNCHANGED <<rec, nRecords, approval, granted, effects, pc>>
      BY <2>6 DEF Abort, rows, history
    <3>2. \A l \in Locals : [l EXCEPT !.aborted = TRUE].call = l.call
      BY DEF Locals
    <3>3. \A x \in Workers : Current(x)' = Current(x)
      BY <2>6, <3>2 DEF Abort, Current, TypeOK
    <3> QED
      BY <2>c, <3>1, <3>3, SameRowsKeepAuthority DEF Authority
  <2>7. ASSUME NEW v \in Resolvers, WriteDecision(v) PROVE Authority'
    <3>1. UNCHANGED <<rec, nRecords, effects, pc, wk>>
      BY <2>7 DEF WriteDecision
    <3>2. \A c \in Call : CallAuthority(c)'
      <4>1. rv[v] \in [call : Call, decision : Decisions]
        BY <2>7 DEF WriteDecision, TypeOK, Decisive
      <4> QED
        BY <2>7, <3>1, <4>1 DEF WriteDecision, Authority, CallAuthority, Authorised, TypeOK
    <3> QED
      BY <2>c, <3>1, <3>2 DEF Authority, Current
  <2>8. CASE \/ \E v \in Resolvers, c \in Call, d \in Decisions : ReadPending(v, c, d)
             \/ \E t \in Pluggable : LoadPlugin(t) \/ DisablePlugin(t)
    <3>1. UNCHANGED <<rec, nRecords, approval, granted, effects, pc, wk>>
      BY <2>8 DEF ReadPending, LoadPlugin, DisablePlugin, rows, history
    <3> QED
      BY <2>c, <3>1, SameRowsKeepAuthority DEF Authority, Current
  <2>9. CASE Crash
    <3>1. UNCHANGED <<rec, nRecords, approval, granted, effects>>
      BY <2>9 DEF Crash, rows, history
    <3>2. \A w \in Workers : WorkerAuthority(w)'
      BY <2>9 DEF Crash, WorkerAuthority, CallPCs
    <3> QED
      BY <3>1, <3>2, SameRowsKeepAuthority DEF Authority
  <2> QED
    BY <2>1, <2>2, <2>3, <2>4, <2>5, <2>6, <2>7, <2>8, <2>9 DEF Next, Request, WorkerStep, Resolve
<1> QED
  BY <1>1, <1>2, TypeCorrect, PTL DEF Spec

\* No tool call takes effect without its permission and, if it is gated, without
\* the approval of that very call: the permission check of executeToolCall is
\* remembered by the link a resume follows, the approval by its row.
THEOREM OnlyAuthorised == Spec => []OnlyAuthorisedEffects
<1>1. Authority => OnlyAuthorisedEffects
  BY DEF Authority, CallAuthority, Authorised, OnlyAuthorisedEffects
<1> QED
  BY <1>1, AuthorityHolds, PTL

-----------------------------------------------------------------------------
(***************************************************************************)
(* What needs to know which requests are open on a run: what clients that  *)
(* do not overlap their requests can rely on, and that the orchestrator    *)
(* implements ApprovalGate.                                                *)
(*                                                                         *)
(* The invariants come in layers.  Places: where a worker stands tells     *)
(* what its locals hold.  Apart: serial clients' workers are on different  *)
(* runs, each holding its run's cancellation handle.  Telling: a record's  *)
(* status and effects, seen from where its worker stands.  Waiting: what a *)
(* run that waits can be resumed with.                                     *)
(***************************************************************************)

-----------------------------------------------------------------------------
(* What one step leaves alone *)

HoldingPCs == CallPCs \union {"park"}

\* Where a worker stands tells whether it has a run, whether it is still before
\* the try block of a resume, and that the record it works on is of its run.
Placed(w) ==
  /\ pc[w] = "idle" => RunOf(w) = NoRun
  /\ pc[w] # "idle" => RunOf(w) \in Runs
  /\ pc[w] \in LookupPCs => wk[w].parked
  /\ pc[w] \in HoldingPCs => Current(w) \in 1..nRecords /\ rec[Current(w)].run = RunOf(w)

Places == \A w \in Workers : Placed(w)

Serial == discipline = "serial"

\* What a step of worker w leaves alone: the other workers, the rows of other
\* runs and their handles, and all records that are not of its run.
FrameOf(w) ==
  /\ \A x \in Workers : x # w => pc'[x] = pc[x] /\ wk'[x] = wk[x]
  /\ \A r \in Runs : r # RunOf(w) /\ r # RunOf(w)' =>
       runStatus'[r] = runStatus[r] /\ controller'[r] = controller[r]
  /\ \A c \in Call : \/ rec'[c].run = RunOf(w)
                     \/ rec'[c] = rec[c] /\ effects'[c] = effects[c]
  /\ \A c \in Call : approval[c] # "none" => approval'[c] # "none"
  /\ UNCHANGED <<rv, crashes, discipline>>

\* What a step leaves alone that is no worker's and no restart.
Quiet ==
  /\ UNCHANGED <<runStatus, rec, nRecords, controller, pc, crashes, discipline, effects>>
  /\ \A x \in Workers : /\ wk'[x].run = wk[x].run /\ wk'[x].call = wk[x].call
                        /\ wk'[x].parked = wk[x].parked
  /\ \A c \in Call : approval[c] # "none" => approval'[c] # "none"

\* A worker starts with fresh locals and ends with none.
LEMMA StartLocals ==
  ASSUME TypeOK, NEW w \in Workers, NEW r \in Runs, StartRun(w, r) \/ StartResume(w, r)
  PROVE  RunOf(w)' = r /\ (StartResume(w, r) => wk'[w].parked)
<1>1. /\ [Idle EXCEPT !.run = r].run = r
      /\ LET l == [Idle EXCEPT !.run = r, !.entry = "resume", !.parked = TRUE]
         IN  l.run = r /\ l.parked
  BY DEF Idle
<1> QED
  BY <1>1 DEF StartRun, StartResume, RunOf, TypeOK

LEMMA AskedStaysAsked ==
  ASSUME TypeOK, [Next]_vars, NEW c \in Call, approval[c] # "none"
  PROVE  approval'[c] # "none"
<1>1. CASE UNCHANGED approval
  BY <1>1
<1>2. ASSUME NEW w \in Workers, RequestApproval(w) PROVE approval'[c] # "none"
  BY <1>2 DEF RequestApproval, TypeOK
<1>3. ASSUME NEW v \in Resolvers, WriteDecision(v) PROVE approval'[c] # "none"
  <2>1. rv[v].decision # "none"
    BY <1>3 DEF WriteDecision, TypeOK, Decisive, Decisions
  <2> QED
    BY <1>3, <2>1 DEF WriteDecision, TypeOK
<1>4. ASSUME NEW w \in Workers, Request(w) \/ WorkerStep(w), ~RequestApproval(w)
      PROVE  UNCHANGED approval
  <2>1. CASE Request(w) \/ LoopStep(w) \/ LoopThrows(w)
    BY <2>1 DEF Request, StartRun, StartResume, LoopStep, LoopThrows, TakeStep, StepLimit,
       ModelAnswers, AbortedRequest, ModelCallsTools, Complete, Park, Fail, SetRun,
       Return, Rethrow, Leave, BatchDone, ToolCallLimit, rows
  <2>2. CASE CallStep(w)
    BY <1>4, <2>2 DEF CallStep, CreateRecord, Refuse, ProceedUngated, LinkApproval, SeeApproved,
       SeeDenied, WaitTimesOut, MarkExecuting, Execute, Settle, rows
  <2>3. CASE ResumeStep(w)
    BY <2>3 DEF ResumeStep, FindCall, NoCallToResume, StillPending, ReadDecision, ToolIsGone,
       RecordDenial, Reopen, Leave, rows
  <2> QED
    BY <1>4, <2>1, <2>2, <2>3 DEF WorkerStep
<1>5. CASE \/ \E r \in Runs : Abort(r)
           \/ \E v \in Resolvers, d \in Call, x \in Decisions : ReadPending(v, d, x)
           \/ \E t \in Pluggable : LoadPlugin(t) \/ DisablePlugin(t)
           \/ Crash \/ UNCHANGED vars
  BY <1>5 DEF Abort, ReadPending, LoadPlugin, DisablePlugin, Crash, vars, rows
<1> QED
  BY <1>1, <1>2, <1>3, <1>4, <1>5 DEF Next, Resolve

LEMMA WorkerFrame ==
  ASSUME TypeOK, Places, NEW w \in Workers, Request(w) \/ WorkerStep(w)
  PROVE  FrameOf(w)
<1>a. [Next]_vars
  BY DEF Next
<1>0. \A c \in Call : approval[c] # "none" => approval'[c] # "none"
  BY <1>a, AskedStaysAsked
<1>1. CASE Request(w)
  <2>1. PICK r \in Runs : StartRun(w, r) \/ StartResume(w, r)
    BY <1>1 DEF Request
  <2>2. RunOf(w)' = r
    BY <2>1, StartLocals
  <2> QED
    BY <1>0, <2>1, <2>2 DEF StartRun, StartResume, FrameOf, Goto, TypeOK, rows, environment, history
<1>2. CASE LoopStep(w) \/ LoopThrows(w)
  <2>1. /\ UNCHANGED <<rec, effects, rv, crashes, discipline>>
        /\ \A x \in Workers : x # w => pc'[x] = pc[x] /\ wk'[x] = wk[x]
    BY <1>2 DEF LoopStep, LoopThrows, TakeStep, StepLimit, ModelAnswers, AbortedRequest,
       ModelCallsTools, Complete, Park, Fail, SetRun, Return, Rethrow, Leave, BatchDone,
       ToolCallLimit, Goto, TypeOK, rows, environment, history
  <2>2. \A r \in Runs : r # RunOf(w) =>
           runStatus'[r] = runStatus[r] /\ controller'[r] = controller[r]
    BY <1>2 DEF LoopStep, LoopThrows, TakeStep, StepLimit, ModelAnswers, AbortedRequest,
       ModelCallsTools, Complete, Park, Fail, SetRun, Return, Rethrow, Leave, BatchDone,
       ToolCallLimit, TypeOK, rows
  <2> QED
    BY <1>0, <2>1, <2>2 DEF FrameOf
<1>3. CASE CallStep(w)
  <2>1. /\ UNCHANGED <<runStatus, controller, rv, crashes, discipline>>
        /\ \A x \in Workers : x # w => pc'[x] = pc[x] /\ wk'[x] = wk[x]
    BY <1>3 DEF CallStep, CreateRecord, Refuse, ProceedUngated, RequestApproval, LinkApproval,
       SeeApproved, SeeDenied, WaitTimesOut, MarkExecuting, Execute, Settle, Goto, TypeOK,
       rows, environment
  <2>2. \A c \in Call : \/ rec'[c].run = RunOf(w)
                        \/ rec'[c] = rec[c] /\ effects'[c] = effects[c]
    <3>1. CASE \E t \in Tools : CreateRecord(w, t)
      <4>1. PICK t \in Tools : CreateRecord(w, t)
        BY <3>1
      <4>2. UNCHANGED effects
        BY <4>1 DEF CreateRecord, history
      <4>3. /\ rec'[nRecords + 1] =
                 [run |-> RunOf(w), tool |-> t, status |-> "pending", linked |-> FALSE]
            /\ \A c \in Call : c # nRecords + 1 => rec'[c] = rec[c]
        BY <4>1, CreateKeeps
      <4>4. rec'[nRecords + 1].run = RunOf(w)
        BY <4>3
      <4> QED
        BY <4>2, <4>3, <4>4
    <3>2. CASE LinkApproval(w)
      <4>1. UNCHANGED effects /\ pc[w] \in HoldingPCs
        BY <3>2 DEF LinkApproval, Goto, history, HoldingPCs, CallPCs
      <4> QED
        BY <3>2, <4>1, LinkKeeps DEF Places, Placed
    <3>3. CASE \/ Refuse(w) \/ SeeDenied(w) \/ MarkExecuting(w)
               \/ \E status \in {"succeeded", "failed"} : Settle(w, status)
      <4>1. UNCHANGED effects /\ pc[w] \in HoldingPCs
        BY <3>3 DEF Refuse, SeeDenied, MarkExecuting, Settle, Goto, history, HoldingPCs, CallPCs
      <4>2. PICK s \in RecordStatus : SetRecord(w, s)
        BY <3>3 DEF Refuse, SeeDenied, MarkExecuting, Settle, RecordStatus
      <4>3. \A c \in Call : rec'[c].run = rec[c].run /\ (c # Current(w) => rec'[c] = rec[c])
        BY <4>2, SetRecordKeeps
      <4> QED
        BY <4>1, <4>3 DEF Places, Placed
    <3>4. CASE Execute(w)
      <4>1. UNCHANGED rec /\ pc[w] \in HoldingPCs
        BY <3>4 DEF Execute, Goto, rows, HoldingPCs, CallPCs
      <4>2. \A c \in Call : c # Current(w) => effects'[c] = effects[c]
        BY <3>4 DEF Execute, TypeOK
      <4> QED
        BY <4>1, <4>2 DEF Places, Placed
    <3>5. CASE ProceedUngated(w) \/ RequestApproval(w) \/ SeeApproved(w) \/ WaitTimesOut(w)
      BY <3>5 DEF ProceedUngated, RequestApproval, SeeApproved, WaitTimesOut, rows, history
    <3> QED
      BY <1>3, <3>1, <3>2, <3>3, <3>4, <3>5 DEF CallStep
  <2> QED
    BY <1>0, <2>1, <2>2 DEF FrameOf
<1>4. CASE ResumeStep(w)
  <2>1. /\ UNCHANGED <<effects, rv, crashes, discipline>>
        /\ \A x \in Workers : x # w => pc'[x] = pc[x] /\ wk'[x] = wk[x]
    BY <1>4 DEF ResumeStep, FindCall, NoCallToResume, StillPending, ReadDecision, ToolIsGone,
       RecordDenial, Reopen, Leave, Goto, TypeOK, environment, history
  <2>2. \A r \in Runs : r # RunOf(w) =>
           runStatus'[r] = runStatus[r] /\ controller'[r] = controller[r]
    BY <1>4 DEF ResumeStep, FindCall, NoCallToResume, StillPending, ReadDecision, ToolIsGone,
       RecordDenial, Reopen, Leave, TypeOK, rows
  <2>3. \A c \in Call : rec'[c].run = RunOf(w) \/ rec'[c] = rec[c]
    <3>1. CASE RecordDenial(w)
      <4>1. pc[w] \in HoldingPCs /\ SetRecord(w, "denied")
        BY <3>1 DEF RecordDenial, Goto, HoldingPCs, CallPCs
      <4> QED
        BY <4>1, SetRecordKeeps DEF Places, Placed, RecordStatus
    <3>2. CASE ~RecordDenial(w)
      BY <1>4, <3>2 DEF ResumeStep, FindCall, NoCallToResume, StillPending, ReadDecision,
         ToolIsGone, Reopen, Leave, rows
    <3> QED
      BY <3>1, <3>2
  <2> QED
    BY <1>0, <2>1, <2>2, <2>3 DEF FrameOf
<1> QED
  BY <1>1, <1>2, <1>3, <1>4 DEF WorkerStep

LEMMA QuietSteps ==
  ASSUME TypeOK,
         \/ \E r \in Runs : Abort(r)
         \/ \E v \in Resolvers : Resolve(v)
         \/ \E t \in Pluggable : LoadPlugin(t) \/ DisablePlugin(t)
         \/ UNCHANGED vars
  PROVE  Quiet
<1>a. [Next]_vars
  BY DEF Next
<1>0. \A c \in Call : approval[c] # "none" => approval'[c] # "none"
  BY <1>a, AskedStaysAsked
<1>1. ASSUME NEW r \in Runs, Abort(r) PROVE Quiet
  <2>1. \A l \in Locals : LET m == [l EXCEPT !.aborted = TRUE]
                          IN  m.run = l.run /\ m.call = l.call /\ m.parked = l.parked
    BY DEF Locals
  <2>2. wk' = [wk EXCEPT ![controller[r]] = [wk[controller[r]] EXCEPT !.aborted = TRUE]]
    BY <1>1 DEF Abort
  <2>3. UNCHANGED <<runStatus, rec, nRecords, controller, pc, crashes, discipline, effects>>
    BY <1>1 DEF Abort, rows, environment, history
  <2> QED
    BY <1>0, <2>1, <2>2, <2>3 DEF Quiet, TypeOK
<1>2. CASE \/ \E v \in Resolvers : Resolve(v)
           \/ \E t \in Pluggable : LoadPlugin(t) \/ DisablePlugin(t)
           \/ UNCHANGED vars
  BY <1>0, <1>2 DEF Resolve, ReadPending, WriteDecision, LoadPlugin, DisablePlugin, vars, rows,
     memory, history, Quiet
<1> QED
  BY <1>1, <1>2

-----------------------------------------------------------------------------
(* Places *)

\* A worker whose place and locals a step leaves alone stays placed.
LEMMA OthersPlaced ==
  ASSUME TypeOK, TypeOK', RowsGrow, NEW x \in Workers, Placed(x), pc'[x] = pc[x],
         wk'[x].run = wk[x].run, wk'[x].call = wk[x].call, wk'[x].parked = wk[x].parked
  PROVE  Placed(x)'
<1>1. nRecords \in Nat /\ nRecords' \in Nat /\ nRecords <= nRecords'
  BY DEF TypeOK, RowsGrow
<1>2. pc[x] \in HoldingPCs => Current(x)' \in 1..nRecords' /\ rec'[Current(x)'].run = RunOf(x)
  BY <1>1 DEF Placed, RowsGrow, Current
<1> QED
  BY <1>2 DEF Placed, RunOf, Current

\* The steps that change a worker's counters or clear its call keep its run.
LEMMA RunStays ==
  ASSUME TypeOK, NEW w \in Workers,
         TakeStep(w) \/ (\E n \in 1..MaxBatch : ModelCallsTools(w, n)) \/ Reopen(w) \/ FindCall(w)
  PROVE  RunOf(w)' = RunOf(w) /\ (FindCall(w) => wk'[w].parked = wk[w].parked)
<1>1. \A l \in Locals : \A n : /\ [l EXCEPT !.step = n].run = l.run
                               /\ [l EXCEPT !.left = n].run = l.run
                               /\ [l EXCEPT !.parked = FALSE, !.call = 0].run = l.run
                               /\ [l EXCEPT !.call = n].run = l.run
                               /\ [l EXCEPT !.call = n].parked = l.parked
  BY DEF Locals
<1>2. wk[w] \in Locals
  BY DEF TypeOK
<1>3. CASE TakeStep(w)
  <2>1. wk' = [wk EXCEPT ![w] = [wk[w] EXCEPT !.step = wk[w].step + 1]] /\ pc'[w] = "model"
    BY <1>3 DEF TakeStep, Goto, TypeOK
  <2> QED
    BY <1>1, <1>2, <1>3, <2>1 DEF RunOf, TypeOK, TakeStep, FindCall, Goto
<1>4. CASE \E n \in 1..MaxBatch : ModelCallsTools(w, n)
  <2>1. PICK n \in 1..MaxBatch : ModelCallsTools(w, n)
    BY <1>4
  <2>2. wk' = [wk EXCEPT ![w] = [wk[w] EXCEPT !.left = n]]
    BY <2>1 DEF ModelCallsTools
  <2> QED
    BY <1>1, <1>2, <2>1, <2>2 DEF RunOf, TypeOK, ModelCallsTools, FindCall, Goto
<1>5. CASE Reopen(w)
  <2>1. wk' = [wk EXCEPT ![w] = [wk[w] EXCEPT !.parked = FALSE, !.call = 0]]
    BY <1>5 DEF Reopen, TypeOK
  <2> QED
    BY <1>1, <1>2, <1>5, <2>1 DEF RunOf, TypeOK, Reopen, FindCall, Goto
<1>6. CASE FindCall(w)
  <2>1. PICK c \in Call : wk' = [wk EXCEPT ![w] = [wk[w] EXCEPT !.call = c]]
    BY <1>6 DEF FindCall
  <2> QED
    BY <1>1, <1>2, <2>1 DEF RunOf, TypeOK
<1> QED
  BY <1>3, <1>4, <1>5, <1>6

\* A request leaves with no run.
LEMMA LeavingClears ==
  ASSUME TypeOK, NEW w \in Workers, wk' = [wk EXCEPT ![w] = Idle]
  PROVE  RunOf(w)' = NoRun
  BY DEF RunOf, Idle, TypeOK

\* What a worker knows of its own place after its own step.
LEMMA OwnPlace ==
  ASSUME TypeOK, TypeOK', Authority, Places, RowsGrow,
         NEW w \in Workers, Request(w) \/ WorkerStep(w)
  PROVE  Placed(w)'
<1>0. Placed(w) /\ NoRun \notin Runs
  BY DEF Places
<1>1. CASE Request(w)
  <2>1. PICK r \in Runs : StartRun(w, r) \/ StartResume(w, r)
    BY <1>1 DEF Request
  <2>2. RunOf(w)' = r /\ (StartResume(w, r) => wk'[w].parked)
    BY <2>1, StartLocals
  <2>3. \/ pc'[w] = "loop"
        \/ pc'[w] = "findCall" /\ StartResume(w, r)
    BY <2>1, GotoMoves DEF StartRun, StartResume
  <2> QED
    BY <2>2, <2>3 DEF Placed, HoldingPCs, CallPCs, LookupPCs
<1>2. CASE Return(w) \/ Rethrow(w) \/ ToolIsGone(w) \/ NoCallToResume(w) \/ StillPending(w)
  <2>1. pc'[w] = "idle" /\ wk' = [wk EXCEPT ![w] = Idle]
    BY <1>2, GotoMoves DEF Return, Rethrow, ToolIsGone, NoCallToResume, StillPending, Leave
  <2> QED
    BY <2>1, LeavingClears DEF Placed, HoldingPCs, CallPCs, LookupPCs
<1>3. CASE TakeStep(w) \/ (\E n \in 1..MaxBatch : ModelCallsTools(w, n)) \/ Reopen(w)
  <2>1. pc[w] # "idle" /\ pc'[w] \in {"model", "call", "loop"}
    BY <1>3, GotoMoves DEF TakeStep, ModelCallsTools, Reopen
  <2>2. RunOf(w)' = RunOf(w)
    BY <1>3, RunStays
  <2> QED
    BY <1>0, <2>1, <2>2 DEF Placed, HoldingPCs, CallPCs, LookupPCs
<1>4. ASSUME NEW t \in Tools, CreateRecord(w, t) PROVE Placed(w)'
  <2>1. pc[w] = "call" /\ pc'[w] = "check"
    BY <1>4, GotoMoves DEF CreateRecord
  <2>2. /\ RunOf(w)' = RunOf(w) /\ Current(w)' = nRecords + 1 /\ nRecords' = nRecords + 1
        /\ rec'[nRecords + 1] =
             [run |-> RunOf(w), tool |-> t, status |-> "pending", linked |-> FALSE]
    BY <1>4, CreateKeeps DEF RunOf, Current
  <2>3. rec'[nRecords + 1].run = RunOf(w)
    BY <2>2
  <2>4. nRecords \in Nat
    BY DEF TypeOK
  <2> QED
    BY <1>0, <2>1, <2>2, <2>3, <2>4 DEF Placed, LookupPCs
<1>5. CASE FindCall(w)
  <2>1. PICK c \in Call : /\ rec[c].run = RunOf(w) /\ rec[c].linked
                          /\ Goto(w, "findCall", "readApproval")
                          /\ wk' = [wk EXCEPT ![w].call = c]
    BY <1>5 DEF FindCall, IsNewestPending, PendingOf
  <2>2. c \in 1..nRecords
    <3>1. c <= nRecords
      BY <2>1 DEF Authority, CallAuthority, NoRecord, TypeOK, Call
    <3> QED
      BY <3>1 DEF Call, TypeOK
  <2>3. UNCHANGED <<rec, nRecords>>
    BY <1>5 DEF FindCall, rows
  <2>4. Current(w)' = c
    BY <2>1 DEF Current, TypeOK, Locals
  <2>5. RunOf(w)' = RunOf(w) /\ wk'[w].parked = wk[w].parked
    BY <1>5, RunStays
  <2>6. pc[w] = "findCall" /\ pc'[w] = "readApproval"
    BY <2>1, GotoMoves
  <2> QED
    BY <1>0, <2>1, <2>2, <2>3, <2>4, <2>5, <2>6 DEF Placed, LookupPCs
<1>6. ASSUME UNCHANGED wk, pc[w] # "idle", pc'[w] \notin LookupPCs \union {"idle"},
             pc'[w] \in HoldingPCs => pc[w] \in HoldingPCs
      PROVE  Placed(w)'
  <2>1. Current(w)' = Current(w) /\ RunOf(w)' = RunOf(w)
    BY <1>6 DEF Current, RunOf
  <2>2. nRecords \in Nat /\ nRecords' \in Nat /\ nRecords <= nRecords'
    BY DEF TypeOK, RowsGrow
  <2>3. pc[w] \in HoldingPCs => rec'[Current(w)].run = RunOf(w) /\ Current(w) \in 1..nRecords'
    BY <1>0, <2>2 DEF Placed, RowsGrow
  <2> QED
    BY <1>0, <1>6, <2>1, <2>3 DEF Placed
<1>7. CASE \/ StepLimit(w) \/ ModelAnswers(w) \/ AbortedRequest(w) \/ LoopThrows(w)
           \/ Complete(w) \/ Park(w) \/ Fail(w) \/ BatchDone(w) \/ ToolCallLimit(w)
  <2>1. UNCHANGED wk /\ pc[w] # "idle" /\ pc'[w] \in {"fail", "answer", "leave", "loop"}
    BY <1>7, GotoMoves DEF StepLimit, ModelAnswers, AbortedRequest, LoopThrows, Complete, Park,
       Fail, SetRun, BatchDone, ToolCallLimit
  <2> QED
    BY <1>6, <2>1 DEF HoldingPCs, CallPCs, LookupPCs
<1>8. CASE \/ Refuse(w) \/ ProceedUngated(w) \/ RequestApproval(w) \/ LinkApproval(w)
           \/ SeeApproved(w) \/ SeeDenied(w) \/ WaitTimesOut(w) \/ MarkExecuting(w) \/ Execute(w)
           \/ \E status \in {"succeeded", "failed"} : Settle(w, status)
  <2>1. /\ UNCHANGED wk /\ pc[w] \in HoldingPCs
        /\ pc'[w] \in {"call", "mark", "link", "poll", "park", "execute", "settle", "reopen"}
    BY <1>8, GotoMoves DEF Refuse, ProceedUngated, RequestApproval, LinkApproval, SeeApproved,
       SeeDenied, WaitTimesOut, MarkExecuting, Execute, Settle, HoldingPCs, CallPCs
  <2> QED
    BY <1>6, <2>1 DEF HoldingPCs, CallPCs, LookupPCs
<1>9. CASE ReadDecision(w) \/ RecordDenial(w)
  <2>1. UNCHANGED wk /\ pc[w] \in HoldingPCs /\ pc'[w] \in {"deny", "mark", "reopen"}
    BY <1>9, GotoMoves DEF ReadDecision, RecordDenial, HoldingPCs, CallPCs
  <2> QED
    BY <1>6, <2>1 DEF HoldingPCs, CallPCs, LookupPCs
<1> QED
  BY <1>1, <1>2, <1>3, <1>4, <1>5, <1>7, <1>8, <1>9
     DEF WorkerStep, LoopStep, CallStep, ResumeStep

LEMMA PlacesHold == Spec => []Places
<1>1. Init => Places
  BY DEF Init, Places, Placed, Idle, RunOf, HoldingPCs, CallPCs, LookupPCs
<1>2. TypeOK /\ TypeOK' /\ Authority /\ Places /\ [Next]_vars => Places'
  <2> SUFFICES ASSUME TypeOK, TypeOK', Authority, Places, [Next]_vars PROVE Places'
    OBVIOUS
  <2>0. RowsGrow
    BY RowsOnlyGrow
  <2>1. ASSUME NEW w \in Workers, Request(w) \/ WorkerStep(w) PROVE Places'
    <3>1. FrameOf(w) /\ Placed(w)'
      BY <2>0, <2>1, WorkerFrame, OwnPlace
    <3>2. ASSUME NEW x \in Workers, x # w PROVE Placed(x)'
      BY <2>0, <3>1, <3>2, OthersPlaced DEF FrameOf, Places
    <3> QED
      BY <3>1, <3>2 DEF Places
  <2>2. ASSUME Quiet PROVE Places'
    BY <2>0, <2>2, OthersPlaced DEF Quiet, Places
  <2>3. CASE Crash
    BY <2>3 DEF Crash, Places, Placed, Idle, RunOf, HoldingPCs, CallPCs, LookupPCs
  <2> QED
    BY <2>1, <2>2, <2>3, QuietSteps DEF Next
<1> QED
  BY <1>1, <1>2, TypeCorrect, AuthorityHolds, PTL DEF Spec

-----------------------------------------------------------------------------
(* Serial clients' workers are apart *)

\* Workers of serial clients are on different runs; a run being worked on has its
\* row, and whoever is inside the try block holds the run's handle.
ApartFrom(w) ==
  /\ RunOf(w) \in Runs => \A x \in Workers : x # w => RunOf(x) # RunOf(w)
  /\ RunOf(w) \in Runs => runStatus[RunOf(w)] # "none"
  /\ InTry(w) => controller[RunOf(w)] = w

Apart == Serial => \A w \in Workers : ApartFrom(w)

\* A step of a worker other than its first keeps it on its run, or ends.
LEMMA StaysOnRun ==
  ASSUME TypeOK, Places, NEW w \in Workers, WorkerStep(w)
  PROVE  \/ RunOf(w)' = NoRun /\ pc'[w] = "idle"
         \/ /\ RunOf(w)' = RunOf(w) /\ RunOf(w) \in Runs
            /\ runStatus'[RunOf(w)] # runStatus[RunOf(w)] => runStatus'[RunOf(w)] # "none"
            /\ InTry(w)' => \/ ReadDecision(w)
                            \/ InTry(w) /\ UNCHANGED controller
<1>0. pc[w] # "idle" => RunOf(w) \in Runs
  BY DEF Places, Placed
<1>1. CASE Return(w) \/ Rethrow(w) \/ ToolIsGone(w) \/ NoCallToResume(w) \/ StillPending(w)
  <2>1. pc'[w] = "idle" /\ wk' = [wk EXCEPT ![w] = Idle]
    BY <1>1, GotoMoves DEF Return, Rethrow, ToolIsGone, NoCallToResume, StillPending, Leave
  <2> QED
    BY <2>1, LeavingClears
<1>2. CASE TakeStep(w) \/ (\E n \in 1..MaxBatch : ModelCallsTools(w, n)) \/ Reopen(w)
  <2>1. RunOf(w)' = RunOf(w)
    BY <1>2, RunStays
  <2>2. /\ pc[w] \in {"loop", "model", "reopen"} /\ UNCHANGED controller
        /\ UNCHANGED runStatus \/ runStatus' = [runStatus EXCEPT ![RunOf(w)] = "running"]
    BY <1>2, GotoMoves DEF TakeStep, ModelCallsTools, Reopen, rows
  <2> QED
    BY <1>0, <2>1, <2>2 DEF InTry, LoopPCs, ResumePCs, TypeOK
<1>3. CASE FindCall(w)
  <2>1. RunOf(w)' = RunOf(w)
    BY <1>3, RunStays
  <2>2. pc[w] = "findCall" /\ pc'[w] = "readApproval" /\ UNCHANGED runStatus
    BY <1>3, GotoMoves DEF FindCall, rows
  <2> QED
    BY <1>0, <2>1, <2>2 DEF InTry, LoopPCs, ResumePCs
<1>4. CASE \E t \in Tools : CreateRecord(w, t)
  <2>1. RunOf(w)' = RunOf(w)
    BY <1>4, CreateKeeps DEF RunOf
  <2>2. pc[w] = "call" /\ UNCHANGED <<runStatus, controller>>
    BY <1>4, GotoMoves DEF CreateRecord
  <2> QED
    BY <1>0, <2>1, <2>2 DEF InTry, LoopPCs
<1>5. CASE Complete(w) \/ Park(w) \/ Fail(w)
  <2>1. /\ UNCHANGED <<wk, controller>> /\ pc[w] \in LoopPCs
        /\ \E s \in {"completed", "waiting_for_approval", "failed"} :
             runStatus' = [runStatus EXCEPT ![RunOf(w)] = s]
    BY <1>5 DEF Complete, Park, Fail, SetRun, Goto, LoopPCs
  <2> QED
    BY <1>0, <2>1 DEF InTry, RunOf, LoopPCs, TypeOK
<1>6. CASE \/ StepLimit(w) \/ ModelAnswers(w) \/ AbortedRequest(w) \/ LoopThrows(w)
           \/ BatchDone(w) \/ ToolCallLimit(w)
  <2>1. UNCHANGED <<wk, controller, runStatus>> /\ pc[w] \in LoopPCs
    BY <1>6 DEF StepLimit, ModelAnswers, AbortedRequest, LoopThrows, BatchDone, ToolCallLimit,
       Goto, LoopPCs, rows
  <2> QED
    BY <1>0, <2>1 DEF InTry, RunOf, LoopPCs
<1>7. CASE \/ Refuse(w) \/ ProceedUngated(w) \/ RequestApproval(w) \/ LinkApproval(w)
           \/ SeeApproved(w) \/ SeeDenied(w) \/ WaitTimesOut(w) \/ MarkExecuting(w) \/ Execute(w)
           \/ (\E status \in {"succeeded", "failed"} : Settle(w, status)) \/ RecordDenial(w)
  <2>1. UNCHANGED <<wk, controller, runStatus>> /\ pc[w] \in LoopPCs \union ResumePCs
    BY <1>7 DEF Refuse, ProceedUngated, RequestApproval, LinkApproval, SeeApproved, SeeDenied,
       WaitTimesOut, MarkExecuting, Execute, Settle, RecordDenial, Goto, LoopPCs, ResumePCs, rows
  <2> QED
    BY <1>0, <2>1 DEF InTry, RunOf, LoopPCs, ResumePCs
<1>8. CASE ReadDecision(w)
  <2>1. UNCHANGED <<wk, runStatus>> /\ pc[w] # "idle"
    BY <1>8 DEF ReadDecision, Goto, rows
  <2> QED
    BY <1>0, <1>8, <2>1 DEF RunOf
<1> QED
  BY <1>1, <1>2, <1>3, <1>4, <1>5, <1>6, <1>7, <1>8
     DEF WorkerStep, LoopStep, CallStep, ResumeStep

\* The worker that moves stays apart from the others.
LEMMA OwnRun ==
  ASSUME TypeOK, Places, Serial, Apart, NEW w \in Workers, Request(w) \/ WorkerStep(w)
  PROVE  /\ RunOf(w)' \in Runs => \A x \in Workers : x # w => RunOf(x) # RunOf(w)'
         /\ RunOf(w)' \in Runs => runStatus'[RunOf(w)'] # "none"
         /\ InTry(w)' => controller'[RunOf(w)'] = w
<1>0. ApartFrom(w) /\ NoRun \notin Runs
  BY DEF Apart
<1>1. CASE Request(w)
  <2>1. PICK r \in Runs : StartRun(w, r) \/ StartResume(w, r)
    BY <1>1 DEF Request
  <2>2. RunOf(w)' = r
    BY <2>1, StartLocals
  <2>3. CASE StartRun(w, r)
    <3>1. runStatus[r] = "none" /\ runStatus'[r] = "running" /\ controller'[r] = w
      BY <2>3 DEF StartRun, TypeOK
    <3>2. \A x \in Workers : RunOf(x) # r
      BY <3>1 DEF Apart, ApartFrom
    <3> QED
      BY <2>2, <3>1, <3>2
  <2>4. CASE StartResume(w, r)
    <3>1. runStatus'[r] # "none" /\ pc'[w] = "findCall"
      BY <2>4, GotoMoves DEF StartResume, rows
    <3>2. \A x \in Workers : RunOf(x) # r
      BY <2>4 DEF StartResume, ClientMayAsk, Serial
    <3> QED
      BY <2>2, <3>1, <3>2 DEF InTry, LoopPCs, ResumePCs
  <2> QED
    BY <2>1, <2>3, <2>4
<1>2. CASE WorkerStep(w)
  <2>1. CASE RunOf(w)' = NoRun /\ pc'[w] = "idle"
    BY <1>0, <2>1 DEF InTry, LoopPCs, ResumePCs
  <2>2. CASE /\ RunOf(w)' = RunOf(w) /\ RunOf(w) \in Runs
             /\ runStatus'[RunOf(w)] # runStatus[RunOf(w)] => runStatus'[RunOf(w)] # "none"
             /\ InTry(w)' => \/ ReadDecision(w)
                             \/ InTry(w) /\ UNCHANGED controller
    <3>1. ReadDecision(w) => controller'[RunOf(w)] = w
      BY <2>2 DEF ReadDecision, TypeOK
    <3> QED
      BY <1>0, <2>2, <3>1 DEF ApartFrom
  <2> QED
    BY <1>2, <2>1, <2>2, StaysOnRun
<1> QED
  BY <1>1, <1>2

LEMMA ApartHolds == Spec => []Apart
<1>1. Init => Apart
  BY DEF Init, Apart, ApartFrom, Idle, RunOf, InTry, LoopPCs, ResumePCs
<1>2. TypeOK /\ Places /\ Apart /\ [Next]_vars => Apart'
  <2> SUFFICES ASSUME TypeOK, Places, Apart, [Next]_vars, Serial' PROVE Apart'
    BY DEF Apart
  <2>0. NoRun \notin Runs
    OBVIOUS
  <2>1. ASSUME NEW w \in Workers, Request(w) \/ WorkerStep(w) PROVE Apart'
    <3>1. FrameOf(w)
      BY <2>1, WorkerFrame
    <3>2. Serial
      BY <3>1 DEF FrameOf, Serial
    <3>3. /\ RunOf(w)' \in Runs => \A x \in Workers : x # w => RunOf(x) # RunOf(w)'
          /\ RunOf(w)' \in Runs => runStatus'[RunOf(w)'] # "none"
          /\ InTry(w)' => controller'[RunOf(w)'] = w
      BY <2>1, <3>2, OwnRun
    <3>4. \A x \in Workers : x # w => RunOf(x)' = RunOf(x) /\ pc'[x] = pc[x]
      BY <3>1 DEF FrameOf, RunOf
    <3>5. ApartFrom(w)'
      BY <3>3, <3>4 DEF ApartFrom
    <3>6. ASSUME NEW x \in Workers, x # w PROVE ApartFrom(x)'
      <4>1. /\ RunOf(x) \in Runs => RunOf(x) # RunOf(w) /\ RunOf(x) # RunOf(w)'
            /\ ApartFrom(x)
        BY <3>2, <3>3, <3>6 DEF Apart, ApartFrom
      <4>2. RunOf(x) \in Runs => /\ runStatus'[RunOf(x)] = runStatus[RunOf(x)]
                                 /\ controller'[RunOf(x)] = controller[RunOf(x)]
        BY <3>1, <4>1 DEF FrameOf
      <4>3. InTry(x) => RunOf(x) \in Runs
        BY DEF Places, Placed, InTry, LoopPCs, ResumePCs
      <4>4. RunOf(x) \in Runs => \A y \in Workers : y # x => RunOf(y)' # RunOf(x)
        BY <3>4, <4>1 DEF ApartFrom
      <4> QED
        BY <3>4, <3>6, <4>1, <4>2, <4>3, <4>4 DEF ApartFrom, InTry
    <3> QED
      BY <3>5, <3>6 DEF Apart
  <2>2. CASE Quiet
    <3>1. \A x \in Workers : RunOf(x)' = RunOf(x)
      BY <2>2 DEF Quiet, RunOf
    <3> QED
      BY <2>2, <3>1 DEF Quiet, Apart, ApartFrom, Serial, InTry
  <2>3. CASE Crash
    BY <2>0, <2>3 DEF Crash, Apart, ApartFrom, Idle, RunOf, InTry, LoopPCs, ResumePCs
  <2> QED
    BY <2>1, <2>2, <2>3, QuietSteps DEF Next
<1> QED
  BY <1>1, <1>2, TypeCorrect, PlacesHold, PTL DEF Spec

\* With clients that do not overlap their requests, aborting a run by its id
\* reaches the request that works on it: nobody else's finally block drops its
\* handle, and nobody else's resume replaces it.
THEOREM AbortReaches == Spec => []AbortReachesTheLoop
<1>1. Apart => AbortReachesTheLoop
  BY DEF Apart, ApartFrom, Serial, AbortReachesTheLoop
<1> QED
  BY <1>1, ApartHolds, PTL

-----------------------------------------------------------------------------
(* Records tell what happened *)

\* The record a worker holds and its effects, seen from where the worker stands.
WorkerTells(w) ==
  /\ pc[w] \in HoldingPCs \ {"execute", "settle"} =>
       rec[Current(w)].status = "pending" /\ effects[Current(w)] = 0
  /\ pc[w] = "execute" => rec[Current(w)].status = "executing" /\ effects[Current(w)] = 0
  /\ pc[w] = "settle" => rec[Current(w)].status = "executing" /\ effects[Current(w)] = 1

CallTells(c) ==
  /\ effects[c] <= 1
  /\ rec[c].status \in {"none", "pending", "denied"} => effects[c] = 0
  /\ rec[c].status = "succeeded" => effects[c] = 1

Telling ==
  Serial => /\ \A w \in Workers : WorkerTells(w)
            /\ \A c \in Call : CallTells(c)

LEMMA SetRecordSets ==
  ASSUME TypeOK, NEW w \in Workers, NEW s \in RecordStatus, SetRecord(w, s), Current(w) \in Call
  PROVE  rec'[Current(w)].status = s
<1>1. rec' = [rec EXCEPT ![Current(w)] = [rec[Current(w)] EXCEPT !.status = s]]
  BY DEF SetRecord
<1>2. \A x \in Records : [x EXCEPT !.status = s].status = s
  BY DEF Records
<1> QED
  BY <1>1, <1>2 DEF TypeOK

LEMMA LinkSets ==
  ASSUME TypeOK, NEW w \in Workers, LinkApproval(w), Current(w) \in Call
  PROVE  rec'[Current(w)].status = "pending" /\ rec'[Current(w)].linked
<1>1. rec' = [rec EXCEPT ![Current(w)] =
                [rec[Current(w)] EXCEPT !.status = "pending", !.linked = TRUE]]
  BY DEF LinkApproval, TypeOK
<1>2. \A x \in Records : LET y == [x EXCEPT !.status = "pending", !.linked = TRUE]
                         IN  y.status = "pending" /\ y.linked
  BY DEF Records
<1> QED
  BY <1>1, <1>2 DEF TypeOK

\* The record a worker holds is a row.
LEMMA HeldIsRow ==
  ASSUME TypeOK, Places, NEW w \in Workers, pc[w] \in HoldingPCs
  PROVE  /\ Current(w) \in Call /\ Current(w) \in 1..nRecords
         /\ rec[Current(w)].run = RunOf(w) /\ RunOf(w) \in Runs
  BY DEF Places, Placed, TypeOK, Call, HoldingPCs, CallPCs

\* Another worker's step does not touch the record a worker holds.
LEMMA OthersRecordStays ==
  ASSUME TypeOK, Places, Apart, Serial, RowsGrow, NEW w \in Workers, FrameOf(w),
         NEW x \in Workers, x # w, pc[x] \in HoldingPCs
  PROVE  /\ pc'[x] = pc[x] /\ Current(x)' = Current(x) /\ RunOf(x)' = RunOf(x)
         /\ rec'[Current(x)] = rec[Current(x)] /\ effects'[Current(x)] = effects[Current(x)]
<1>1. /\ Current(x) \in Call /\ Current(x) \in 1..nRecords
      /\ rec[Current(x)].run = RunOf(x) /\ RunOf(x) \in Runs
  BY HeldIsRow
<1>2. rec'[Current(x)].run = RunOf(x)
  BY <1>1 DEF RowsGrow
<1>3. RunOf(x) # RunOf(w)
  BY <1>1 DEF Apart, ApartFrom
<1> QED
  BY <1>1, <1>2, <1>3 DEF FrameOf, RunOf, Current

\* What a worker's own step tells, of its record and of all others.
LEMMA OwnTells ==
  ASSUME TypeOK, Authority, Places, Serial, Telling,
         NEW w \in Workers, Request(w) \/ WorkerStep(w)
  PROVE  WorkerTells(w)' /\ \A c \in Call : CallTells(c)'
<1>0. WorkerTells(w) /\ \A c \in Call : CallTells(c)
  BY DEF Telling
<1>a. pc[w] \in HoldingPCs => Current(w) \in Call
  BY HeldIsRow
<1>1. ASSUME UNCHANGED <<rec, effects>>, pc'[w] \notin HoldingPCs
      PROVE  WorkerTells(w)' /\ \A c \in Call : CallTells(c)'
  BY <1>0, <1>1 DEF WorkerTells, CallTells, HoldingPCs, CallPCs
<1>2. ASSUME UNCHANGED <<rec, effects, wk>>, pc[w] \in HoldingPCs \ {"execute", "settle"},
             pc'[w] \notin {"execute", "settle"}
      PROVE  WorkerTells(w)' /\ \A c \in Call : CallTells(c)'
  BY <1>0, <1>2 DEF WorkerTells, CallTells, Current
<1>3. ASSUME NEW s \in RecordStatus, SetRecord(w, s), UNCHANGED <<effects, wk>>,
             pc[w] \in HoldingPCs,
             s \in {"none", "pending", "denied"} => effects[Current(w)] = 0,
             s = "succeeded" => effects[Current(w)] = 1,
             pc'[w] \in HoldingPCs => pc'[w] = "execute" /\ s = "executing" /\ pc[w] = "mark"
      PROVE  WorkerTells(w)' /\ \A c \in Call : CallTells(c)'
  <2>1. rec'[Current(w)].status = s
    BY <1>3, <1>a, SetRecordSets
  <2>2. \A c \in Call : c # Current(w) => rec'[c] = rec[c]
    BY <1>3, SetRecordKeeps
  <2>3. \A c \in Call : CallTells(c)'
    BY <1>0, <1>3, <2>1, <2>2 DEF CallTells
  <2>4. WorkerTells(w)'
    BY <1>0, <1>3, <2>1 DEF WorkerTells, Current, HoldingPCs, CallPCs
  <2> QED
    BY <2>3, <2>4
<1>4. CASE Request(w)
  <2>1. UNCHANGED <<rec, effects>> /\ pc'[w] \in {"loop", "findCall"}
    BY <1>4, GotoMoves DEF Request, StartRun, StartResume, rows, history
  <2> QED
    BY <1>1, <2>1 DEF HoldingPCs, CallPCs
<1>5. CASE LoopStep(w) \/ LoopThrows(w)
  <2>1. UNCHANGED <<rec, effects>> /\ pc'[w] \notin HoldingPCs
    BY <1>5, GotoMoves DEF LoopStep, LoopThrows, TakeStep, StepLimit, ModelAnswers,
       AbortedRequest, ModelCallsTools, Complete, Park, Fail, SetRun, Return, Rethrow, Leave,
       BatchDone, ToolCallLimit, rows, history, HoldingPCs, CallPCs
  <2> QED
    BY <1>1, <2>1
<1>6. CASE CallStep(w)
  <2>1. ASSUME NEW t \in Tools, CreateRecord(w, t)
        PROVE  WorkerTells(w)' /\ \A c \in Call : CallTells(c)'
    <3>1. /\ Current(w)' = nRecords + 1 /\ nRecords + 1 \in Call
          /\ \A c \in Call : c # nRecords + 1 => rec'[c] = rec[c]
          /\ rec'[nRecords + 1] =
               [run |-> RunOf(w), tool |-> t, status |-> "pending", linked |-> FALSE]
      BY <2>1, CreateKeeps DEF Current
    <3>2. rec'[nRecords + 1].status = "pending"
      BY <3>1
    <3>3. UNCHANGED effects /\ effects[nRecords + 1] = 0
      BY <2>1, <3>1 DEF CreateRecord, history, Authority, CallAuthority, TypeOK
    <3>4. pc'[w] = "check"
      BY <2>1, GotoMoves DEF CreateRecord
    <3>5. \A c \in Call : CallTells(c)'
      BY <1>0, <3>1, <3>2, <3>3 DEF CallTells
    <3> QED
      BY <3>1, <3>2, <3>3, <3>4, <3>5 DEF WorkerTells
  <2>2. CASE Refuse(w) \/ SeeDenied(w)
    <3>1. /\ UNCHANGED <<effects, wk>> /\ pc[w] \in {"check", "poll"} /\ pc'[w] = "call"
          /\ \E s \in {"failed", "denied"} : SetRecord(w, s)
      BY <2>2, GotoMoves DEF Refuse, SeeDenied, history
    <3>2. effects[Current(w)] = 0
      BY <1>0, <3>1 DEF WorkerTells, HoldingPCs, CallPCs
    <3> QED
      BY <1>3, <3>1, <3>2 DEF RecordStatus, HoldingPCs, CallPCs
  <2>3. CASE ProceedUngated(w) \/ RequestApproval(w) \/ SeeApproved(w) \/ WaitTimesOut(w)
    <3>1. /\ UNCHANGED <<rec, effects, wk>> /\ pc[w] \in {"check", "poll"}
          /\ pc'[w] \in {"mark", "link", "park"}
      BY <2>3, GotoMoves DEF ProceedUngated, RequestApproval, SeeApproved, WaitTimesOut, rows,
         history
    <3> QED
      BY <1>2, <3>1 DEF HoldingPCs, CallPCs
  <2>4. CASE LinkApproval(w)
    <3>1. UNCHANGED <<effects, wk>> /\ pc[w] = "link" /\ pc'[w] = "poll"
      BY <2>4, GotoMoves DEF LinkApproval, history
    <3>2. rec'[Current(w)].status = "pending" /\ effects[Current(w)] = 0
      BY <1>0, <1>a, <2>4, <3>1, LinkSets DEF WorkerTells, HoldingPCs, CallPCs
    <3>3. \A c \in Call : c # Current(w) => rec'[c] = rec[c]
      BY <2>4, LinkKeeps
    <3> QED
      BY <1>0, <3>1, <3>2, <3>3 DEF WorkerTells, CallTells, Current
  <2>5. CASE MarkExecuting(w)
    <3>1. /\ UNCHANGED <<effects, wk>> /\ pc[w] = "mark" /\ pc'[w] = "execute"
          /\ SetRecord(w, "executing")
      BY <2>5, GotoMoves DEF MarkExecuting, history
    <3> QED
      BY <1>3, <3>1 DEF RecordStatus, HoldingPCs, CallPCs
  <2>6. CASE Execute(w)
    <3>1. /\ UNCHANGED <<rec, wk>> /\ pc[w] = "execute" /\ pc'[w] = "settle"
          /\ effects' = [effects EXCEPT ![Current(w)] = effects[Current(w)] + 1]
      BY <2>6, GotoMoves DEF Execute, rows
    <3>2. Current(w) \in Call /\ effects[Current(w)] = 0 /\ rec[Current(w)].status = "executing"
      BY <1>0, <1>a, <3>1 DEF WorkerTells, HoldingPCs, CallPCs
    <3>3. effects'[Current(w)] = 1 /\ \A c \in Call : c # Current(w) => effects'[c] = effects[c]
      BY <3>1, <3>2 DEF TypeOK
    <3>4. \A c \in Call : CallTells(c)'
      BY <1>0, <3>1, <3>2, <3>3 DEF CallTells
    <3>5. WorkerTells(w)'
      BY <3>1, <3>2, <3>3 DEF WorkerTells, Current
    <3> QED
      BY <3>4, <3>5
  <2>7. ASSUME NEW s \in {"succeeded", "failed"}, Settle(w, s)
        PROVE  WorkerTells(w)' /\ \A c \in Call : CallTells(c)'
    <3>1. /\ UNCHANGED <<effects, wk>> /\ pc[w] = "settle" /\ pc'[w] \in {"call", "reopen"}
          /\ SetRecord(w, s)
      BY <2>7, GotoMoves DEF Settle, history
    <3>2. effects[Current(w)] = 1
      BY <1>0, <3>1 DEF WorkerTells
    <3> QED
      BY <1>3, <3>1, <3>2 DEF RecordStatus, HoldingPCs, CallPCs
  <2> QED
    BY <1>6, <2>1, <2>2, <2>3, <2>4, <2>5, <2>6, <2>7 DEF CallStep
<1>7. CASE ResumeStep(w)
  <2>1. CASE FindCall(w)
    <3>1. PICK c \in Call : /\ rec[c].status = "pending"
                            /\ Goto(w, "findCall", "readApproval")
                            /\ wk' = [wk EXCEPT ![w].call = c]
      BY <2>1 DEF FindCall, IsNewestPending, PendingOf
    <3>2. UNCHANGED <<rec, effects>>
      BY <2>1 DEF FindCall, rows, history
    <3>3. Current(w)' = c /\ pc'[w] = "readApproval"
      BY <3>1, GotoMoves DEF Current, TypeOK, Locals
    <3>4. effects[c] = 0
      BY <1>0, <3>1 DEF CallTells
    <3> QED
      BY <1>0, <3>1, <3>2, <3>3, <3>4 DEF WorkerTells, CallTells
  <2>2. CASE NoCallToResume(w) \/ StillPending(w) \/ ToolIsGone(w) \/ Reopen(w)
    <3>1. UNCHANGED <<rec, effects>> /\ pc'[w] \in {"idle", "loop"}
      BY <2>2, GotoMoves DEF NoCallToResume, StillPending, ToolIsGone, Reopen, Leave, rows, history
    <3> QED
      BY <1>1, <3>1 DEF HoldingPCs, CallPCs
  <2>3. CASE ReadDecision(w)
    <3>1. /\ UNCHANGED <<rec, effects, wk>> /\ pc[w] = "readApproval"
          /\ pc'[w] \in {"deny", "mark"}
      BY <2>3, GotoMoves DEF ReadDecision, rows, history
    <3> QED
      BY <1>2, <3>1 DEF HoldingPCs, CallPCs
  <2>4. CASE RecordDenial(w)
    <3>1. /\ UNCHANGED <<effects, wk>> /\ pc[w] = "deny" /\ pc'[w] = "reopen"
          /\ SetRecord(w, "denied")
      BY <2>4, GotoMoves DEF RecordDenial, history
    <3>2. effects[Current(w)] = 0
      BY <1>0, <3>1 DEF WorkerTells, HoldingPCs, CallPCs
    <3> QED
      BY <1>3, <3>1, <3>2 DEF RecordStatus, HoldingPCs, CallPCs
  <2> QED
    BY <1>7, <2>1, <2>2, <2>3, <2>4 DEF ResumeStep
<1> QED
  BY <1>4, <1>5, <1>6, <1>7 DEF WorkerStep

LEMMA TellingHolds == Spec => []Telling
<1>1. Init => Telling
  <2>1. NoRecord.status = "none"
    BY DEF NoRecord
  <2> QED
    BY <2>1 DEF Init, Telling, WorkerTells, CallTells, HoldingPCs, CallPCs
<1>2. TypeOK /\ Authority /\ Places /\ Apart /\ Telling /\ [Next]_vars => Telling'
  <2> SUFFICES ASSUME TypeOK, Authority, Places, Apart, Telling, [Next]_vars, Serial'
               PROVE  Telling'
    BY DEF Telling
  <2>1. ASSUME NEW w \in Workers, Request(w) \/ WorkerStep(w) PROVE Telling'
    <3>1. FrameOf(w) /\ RowsGrow
      BY <2>1, WorkerFrame, RowsOnlyGrow
    <3>2. Serial
      BY <3>1 DEF FrameOf, Serial
    <3>3. WorkerTells(w)' /\ \A c \in Call : CallTells(c)'
      BY <2>1, <3>2, OwnTells
    <3>4. ASSUME NEW x \in Workers, x # w PROVE WorkerTells(x)'
      <4>1. WorkerTells(x) /\ pc'[x] = pc[x]
        BY <3>1, <3>2, <3>4 DEF Telling, FrameOf
      <4>2. CASE pc[x] \in HoldingPCs
        BY <3>1, <3>2, <3>4, <4>1, <4>2, OthersRecordStays DEF WorkerTells
      <4>3. CASE pc[x] \notin HoldingPCs
        BY <4>1, <4>3 DEF WorkerTells, HoldingPCs, CallPCs
      <4> QED
        BY <4>2, <4>3
    <3> QED
      BY <3>3, <3>4 DEF Telling
  <2>2. CASE Quiet
    <3>1. \A x \in Workers : Current(x)' = Current(x)
      BY <2>2 DEF Quiet, Current
    <3> QED
      BY <2>2, <3>1 DEF Quiet, Telling, WorkerTells, CallTells, Serial
  <2>3. CASE Crash
    <3>1. UNCHANGED <<rec, effects, discipline>>
      BY <2>3 DEF Crash, rows, history
    <3> QED
      BY <2>3, <3>1 DEF Crash, Telling, WorkerTells, CallTells, Serial, HoldingPCs, CallPCs
  <2> QED
    BY <2>1, <2>2, <2>3, QuietSteps DEF Next
<1> QED
  BY <1>1, <1>2, TypeCorrect, AuthorityHolds, PlacesHold, ApartHolds, PTL DEF Spec

\* With such clients a recorded call is carried out at most once, whatever
\* restarts and resumes come between its steps.
THEOREM OneEffect == Spec => []AtMostOneEffect
<1>1. Telling => AtMostOneEffect
  BY DEF Telling, CallTells, Serial, AtMostOneEffect
<1> QED
  BY <1>1, TellingHolds, PTL

\* With such clients a call shown as waiting or denied has had no effect, one
\* shown as succeeded has had exactly one.
THEOREM RecordsTell == Spec => []RecordTellsEffect
<1>1. Telling => RecordTellsEffect
  BY DEF Telling, CallTells, Serial, RecordTellsEffect
<1> QED
  BY <1>1, TellingHolds, PTL

-----------------------------------------------------------------------------
(* A run that waits can be resumed *)

Resumable(r) ==
  \E c \in Call : /\ IsNewestPending(c, r) /\ rec[c].linked
                  /\ approval[c] # "none" /\ rec[c].tool \in Gated

\* The worker is inside its loop, where its run's row says "running".
Working(w) ==
  \/ pc[w] \in {"loop", "model", "answer", "call", "check", "link", "poll", "park", "fail"}
  \/ pc[w] \in {"mark", "execute", "settle"} /\ ~wk[w].parked

\* On its way to parking a call, that call is the newest of the run, and gains
\* its approval and its link; before and after its loop, a worker on a waiting
\* run leaves behind what a resume needs.
WorkerWaits(w) ==
  /\ pc[w] \in {"check", "link", "poll", "park"} =>
       \A d \in Call : rec[d].run = RunOf(w) => d <= Current(w)
  /\ pc[w] \in {"link", "poll", "park"} =>
       approval[Current(w)] # "none" /\ rec[Current(w)].tool \in Gated
  /\ pc[w] \in {"poll", "park"} => rec[Current(w)].linked
  /\ Working(w) => runStatus[RunOf(w)] = "running"
  /\ pc[w] \in {"leave"} \union LookupPCs /\ runStatus[RunOf(w)] = "waiting_for_approval" =>
       Resumable(RunOf(w))

RunWaits(r) ==
  runStatus[r] = "waiting_for_approval" /\ (\A w \in Workers : RunOf(w) # r) => Resumable(r)

Waiting ==
  Serial /\ crashes = 0 => /\ \A w \in Workers : WorkerWaits(w)
                           /\ \A r \in Runs : RunWaits(r)

LEMMA ResumableStays ==
  ASSUME NEW r, Resumable(r),
         \A c \in Call : rec[c].run = r \/ rec'[c].run = r => rec'[c] = rec[c],
         \A c \in Call : approval[c] # "none" => approval'[c] # "none"
  PROVE  Resumable(r)'
<1>1. PICK c \in Call : /\ IsNewestPending(c, r) /\ rec[c].linked
                        /\ approval[c] # "none" /\ rec[c].tool \in Gated
  BY DEF Resumable
<1>2. rec'[c] = rec[c] /\ approval'[c] # "none"
  BY <1>1 DEF IsNewestPending, PendingOf
<1>3. PendingOf(r)' = PendingOf(r)
  BY DEF PendingOf
<1>4. IsNewestPending(c, r)'
  BY <1>1, <1>3 DEF IsNewestPending
<1> QED
  BY <1>1, <1>2, <1>4 DEF Resumable

\* The records of another run are out of a step's reach, and so is what that
\* run can be resumed with.
LEMMA OtherRunStays ==
  ASSUME TypeOK, Authority, RowsGrow, NEW w \in Workers, FrameOf(w),
         NEW r \in Runs, r # RunOf(w)
  PROVE  /\ \A c \in Call : rec[c].run = r \/ rec'[c].run = r => rec'[c] = rec[c]
         /\ Resumable(r) => Resumable(r)'
<1>1. ASSUME NEW c \in Call, rec[c].run = r PROVE rec'[c].run = r
  <2>1. c <= nRecords
    BY <1>1 DEF Authority, CallAuthority, NoRecord, TypeOK, Call
  <2>2. c \in 1..nRecords
    BY <2>1 DEF Call, TypeOK
  <2> QED
    BY <1>1, <2>2 DEF RowsGrow
<1>2. \A c \in Call : rec[c].run = r \/ rec'[c].run = r => rec'[c] = rec[c]
  BY <1>1 DEF FrameOf
<1>3. \A c \in Call : approval[c] # "none" => approval'[c] # "none"
  BY DEF FrameOf
<1> QED
  BY <1>2, <1>3, ResumableStays

\* What a worker's own step keeps for the run it works on.
LEMMA OwnWaits ==
  ASSUME TypeOK, Authority, Places, Apart, Serial, crashes = 0, Telling, Waiting,
         NEW w \in Workers, Request(w) \/ WorkerStep(w)
  PROVE  WorkerWaits(w)'
<1>0. WorkerWaits(w) /\ WorkerTells(w) /\ Placed(w) /\ \A r \in Runs : RunWaits(r)
  BY DEF Waiting, Telling, Places
<1> USE DEF LookupPCs
<1>a. \A c \in Call : approval[c] # "none" => approval'[c] # "none"
  BY AskedStaysAsked DEF Next
<1>1. ASSUME NEW r \in Runs, StartRun(w, r) PROVE WorkerWaits(w)'
  <2>1. RunOf(w)' = r /\ pc'[w] = "loop"
    BY <1>1, StartLocals, GotoMoves DEF StartRun
  <2>2. runStatus'[r] = "running"
    BY <1>1 DEF StartRun, TypeOK
  <2> QED
    BY <2>1, <2>2 DEF WorkerWaits
<1>2. ASSUME NEW r \in Runs, StartResume(w, r) PROVE WorkerWaits(w)'
  <2>1. /\ RunOf(w)' = r /\ pc'[w] = "findCall" /\ UNCHANGED <<rec, runStatus>>
        /\ \A x \in Workers : RunOf(x) # r
    BY <1>2, StartLocals, GotoMoves DEF StartResume, ClientMayAsk, Serial, rows
  <2>2. runStatus'[r] = "waiting_for_approval" => Resumable(r)'
    BY <1>0, <1>a, <2>1, ResumableStays DEF RunWaits
  <2> QED
    BY <2>1, <2>2 DEF WorkerWaits, Working
<1>3. ASSUME Working(w), RunOf(w)' = RunOf(w), UNCHANGED runStatus,
             pc'[w] \in {"loop", "model", "answer", "call", "fail", "mark", "execute", "settle",
                         "reopen"}
      PROVE  WorkerWaits(w)'
  BY <1>0, <1>3 DEF WorkerWaits
<1>4. CASE \/ TakeStep(w) \/ StepLimit(w) \/ ModelAnswers(w) \/ AbortedRequest(w)
           \/ (\E n \in 1..MaxBatch : ModelCallsTools(w, n))
           \/ BatchDone(w) \/ ToolCallLimit(w) \/ LoopThrows(w)
           \/ Refuse(w) \/ ProceedUngated(w) \/ SeeApproved(w) \/ SeeDenied(w)
  <2>1. /\ pc[w] \in {"loop", "model", "call", "check", "poll"} /\ UNCHANGED runStatus
        /\ pc'[w] \in {"loop", "model", "answer", "call", "fail", "mark"}
    BY <1>4, GotoMoves DEF TakeStep, StepLimit, ModelAnswers, AbortedRequest, ModelCallsTools,
       BatchDone, ToolCallLimit, LoopThrows, Refuse, ProceedUngated, SeeApproved, SeeDenied, rows
  <2>2. RunOf(w)' = RunOf(w)
    <3>1. CASE TakeStep(w) \/ (\E n \in 1..MaxBatch : ModelCallsTools(w, n))
      BY <3>1, RunStays
    <3>2. CASE ~(TakeStep(w) \/ (\E n \in 1..MaxBatch : ModelCallsTools(w, n)))
      BY <1>4, <3>2 DEF StepLimit, ModelAnswers, AbortedRequest, BatchDone, ToolCallLimit,
         LoopThrows, Refuse, ProceedUngated, SeeApproved, SeeDenied, RunOf
    <3> QED
      BY <3>1, <3>2
  <2> QED
    BY <1>3, <2>1, <2>2 DEF Working
<1>5. CASE \/ MarkExecuting(w) \/ Execute(w)
           \/ \E status \in {"succeeded", "failed"} : Settle(w, status)
  <2>1. /\ pc[w] \in {"mark", "execute", "settle"} /\ UNCHANGED <<runStatus, wk>>
        /\ pc'[w] \in {"execute", "settle", "call", "reopen"}
        /\ wk[w].parked => pc'[w] # "call"
    BY <1>5, GotoMoves DEF MarkExecuting, Execute, Settle, rows
  <2>2. CASE wk[w].parked
    BY <2>1, <2>2 DEF WorkerWaits, Working
  <2>3. CASE ~wk[w].parked
    BY <1>3, <2>1, <2>3 DEF Working, RunOf
  <2> QED
    BY <2>2, <2>3
<1>6. CASE Complete(w) \/ Fail(w)
  <2>1. /\ UNCHANGED wk /\ pc[w] \in {"answer", "fail"} /\ pc'[w] = "leave"
        /\ \E s \in {"completed", "failed"} : runStatus' = [runStatus EXCEPT ![RunOf(w)] = s]
    BY <1>6, GotoMoves DEF Complete, Fail, SetRun
  <2>2. RunOf(w) \in Runs
    BY <1>0, <2>1 DEF Placed
  <2>3. runStatus'[RunOf(w)] \in {"completed", "failed"}
    BY <2>1, <2>2 DEF TypeOK
  <2> QED
    BY <2>1, <2>3 DEF WorkerWaits, Working, RunOf
<1>7. CASE Park(w)
  <2>1. UNCHANGED <<wk, rec>> /\ pc[w] = "park" /\ pc'[w] = "leave"
    BY <1>7, GotoMoves DEF Park, SetRun
  <2>2. Current(w) \in Call /\ rec[Current(w)].run = RunOf(w)
    BY <2>1, HeldIsRow DEF HoldingPCs
  <2>3. /\ rec[Current(w)].status = "pending" /\ rec[Current(w)].linked
        /\ approval[Current(w)] # "none" /\ rec[Current(w)].tool \in Gated
        /\ \A d \in Call : rec[d].run = RunOf(w) => d <= Current(w)
    BY <1>0, <2>1 DEF WorkerTells, WorkerWaits, HoldingPCs
  <2>4. Resumable(RunOf(w))
    BY <2>2, <2>3 DEF Resumable, IsNewestPending, PendingOf
  <2>5. Resumable(RunOf(w))'
    BY <1>a, <2>1, <2>4, ResumableStays DEF RunOf
  <2> QED
    BY <2>1, <2>5 DEF WorkerWaits, Working, RunOf
<1>8. CASE Return(w) \/ Rethrow(w) \/ ToolIsGone(w) \/ NoCallToResume(w) \/ StillPending(w)
  <2>1. pc'[w] = "idle"
    BY <1>8, GotoMoves DEF Return, Rethrow, ToolIsGone, NoCallToResume, StillPending, Leave
  <2> QED
    BY <2>1 DEF WorkerWaits, Working
<1>9. ASSUME NEW t \in Tools, CreateRecord(w, t) PROVE WorkerWaits(w)'
  <2>1. /\ Current(w)' = nRecords + 1 /\ RunOf(w)' = RunOf(w)
        /\ \A c \in Call : c # nRecords + 1 => rec'[c] = rec[c]
    BY <1>9, CreateKeeps DEF Current, RunOf
  <2>2. pc[w] = "call" /\ pc'[w] = "check" /\ UNCHANGED runStatus
    BY <1>9, GotoMoves DEF CreateRecord
  <2>3. RunOf(w) \in Runs
    BY <1>0, <2>2 DEF Placed
  <2>4. ASSUME NEW d \in Call, rec'[d].run = RunOf(w) PROVE d <= nRecords + 1
    <3>1. d > nRecords => rec[d] = NoRecord
      BY DEF Authority, CallAuthority
    <3>2. NoRecord.run = NoRun
      BY DEF NoRecord
    <3> QED
      BY <2>1, <2>3, <2>4, <3>1, <3>2 DEF TypeOK, Call
  <2> QED
    BY <1>0, <2>1, <2>2, <2>4 DEF WorkerWaits, Working
<1>10. CASE RequestApproval(w)
  <2>1. /\ UNCHANGED <<wk, rec, runStatus>> /\ pc[w] = "check" /\ pc'[w] = "link"
        /\ rec[Current(w)].tool \in Gated
        /\ approval' = [approval EXCEPT ![Current(w)] = "pending"]
    BY <1>10, GotoMoves DEF RequestApproval
  <2>2. Current(w) \in Call
    BY <2>1, HeldIsRow DEF HoldingPCs, CallPCs
  <2> QED
    BY <1>0, <2>1, <2>2 DEF WorkerWaits, Working, TypeOK, RunOf, Current
<1>11. CASE LinkApproval(w)
  <2>1. UNCHANGED <<wk, approval, runStatus>> /\ pc[w] = "link" /\ pc'[w] = "poll"
    BY <1>11, GotoMoves DEF LinkApproval
  <2>2. Current(w) \in Call
    BY <2>1, HeldIsRow DEF HoldingPCs, CallPCs
  <2>3. \A c \in Call : rec'[c].run = rec[c].run /\ rec'[c].tool = rec[c].tool
    BY <1>11, LinkKeeps
  <2>4. rec'[Current(w)].linked
    BY <1>11, <2>2, LinkSets
  <2> QED
    BY <1>0, <2>1, <2>2, <2>3, <2>4 DEF WorkerWaits, Working, RunOf, Current
<1>12. CASE WaitTimesOut(w)
  <2>1. UNCHANGED <<wk, rec, approval, runStatus>> /\ pc[w] = "poll" /\ pc'[w] = "park"
    BY <1>12, GotoMoves DEF WaitTimesOut, rows
  <2> QED
    BY <1>0, <2>1 DEF WorkerWaits, Working, RunOf, Current
<1>13. CASE FindCall(w)
  <2>1. UNCHANGED <<rec, runStatus>> /\ pc[w] = "findCall" /\ pc'[w] = "readApproval"
    BY <1>13, GotoMoves DEF FindCall, rows
  <2>2. RunOf(w)' = RunOf(w)
    BY <1>13, RunStays
  <2>3. Resumable(RunOf(w)) => Resumable(RunOf(w))'
    BY <1>a, <2>1, <2>2, ResumableStays
  <2> QED
    BY <1>0, <2>1, <2>2, <2>3 DEF WorkerWaits, Working
<1>14. CASE ReadDecision(w) \/ RecordDenial(w)
  <2>1. /\ UNCHANGED wk /\ pc[w] \in {"readApproval", "deny"}
        /\ pc'[w] \in {"deny", "reopen", "mark"}
        /\ pc'[w] = "mark" => pc[w] = "readApproval"
    BY <1>14, GotoMoves DEF ReadDecision, RecordDenial
  <2>2. pc'[w] = "mark" => wk'[w].parked
    BY <1>0, <2>1 DEF Placed
  <2> QED
    BY <2>1, <2>2 DEF WorkerWaits, Working
<1>15. CASE Reopen(w)
  <2>1. /\ pc[w] = "reopen" /\ pc'[w] = "loop"
        /\ runStatus' = [runStatus EXCEPT ![RunOf(w)] = "running"]
    BY <1>15, GotoMoves DEF Reopen
  <2>2. RunOf(w)' = RunOf(w)
    BY <1>15, RunStays
  <2>3. RunOf(w) \in Runs
    BY <1>0, <2>1 DEF Placed
  <2> QED
    BY <2>1, <2>2, <2>3 DEF WorkerWaits, TypeOK
<1> QED
  BY <1>1, <1>2, <1>4, <1>5, <1>6, <1>7, <1>8, <1>9, <1>10, <1>11, <1>12, <1>13, <1>14, <1>15
     DEF Request, WorkerStep, LoopStep, CallStep, ResumeStep

LEMMA WaitingHolds == Spec => []Waiting
<1>1. Init => Waiting
  BY DEF Init, Waiting, WorkerWaits, RunWaits, Working, LookupPCs
<1>2. TypeOK /\ TypeOK' /\ Authority /\ Places /\ Apart /\ Telling /\ Waiting /\ [Next]_vars
      => Waiting'
  <2> SUFFICES ASSUME TypeOK, TypeOK', Authority, Places, Apart, Telling, Waiting, [Next]_vars,
                      Serial', crashes' = 0
               PROVE  Waiting'
    BY DEF Waiting
  <2>0. RowsGrow /\ \A c \in Call : approval[c] # "none" => approval'[c] # "none"
    BY RowsOnlyGrow, AskedStaysAsked
  <2>1. ASSUME NEW w \in Workers, Request(w) \/ WorkerStep(w) PROVE Waiting'
    <3>1. FrameOf(w)
      BY <2>1, WorkerFrame
    <3>2. Serial /\ crashes = 0
      BY <3>1 DEF FrameOf, Serial
    <3>3. WorkerWaits(w)'
      BY <2>1, <3>2, OwnWaits
    <3>4. ASSUME NEW x \in Workers, x # w PROVE WorkerWaits(x)'
      <4>1. WorkerWaits(x) /\ pc'[x] = pc[x] /\ wk'[x] = wk[x] /\ RunOf(x)' = RunOf(x)
            /\ Current(x)' = Current(x)
        BY <3>1, <3>2, <3>4 DEF Waiting, FrameOf, RunOf, Current
      <4>2. CASE pc[x] = "idle"
        BY <4>1, <4>2 DEF WorkerWaits, Working, LookupPCs
      <4>3. CASE pc[x] # "idle"
        <5>1. RunOf(x) \in Runs
          BY <4>3 DEF Places, Placed
        <5>2. RunOf(x) # RunOf(w) /\ RunOf(x) # RunOf(w)'
          BY <2>1, <3>2, <3>4, <5>1, OwnRun DEF Apart, ApartFrom
        <5>3. /\ runStatus'[RunOf(x)] = runStatus[RunOf(x)]
              /\ \A c \in Call : rec'[c].run = RunOf(x) => rec'[c] = rec[c]
              /\ Resumable(RunOf(x)) => Resumable(RunOf(x))'
          BY <2>0, <3>1, <4>1, <5>1, <5>2, OtherRunStays DEF FrameOf
        <5>4. pc[x] \in HoldingPCs =>
                rec'[Current(x)] = rec[Current(x)] /\ Current(x) \in Call
          BY <2>0, <3>1, <3>2, <3>4, OthersRecordStays, HeldIsRow
        <5>5. /\ pc[x] \in {"check", "link", "poll", "park"} =>
                   \A d \in Call : rec'[d].run = RunOf(x) => d <= Current(x)
              /\ pc[x] \in {"link", "poll", "park"} =>
                   approval'[Current(x)] # "none" /\ rec'[Current(x)].tool \in Gated
              /\ pc[x] \in {"poll", "park"} => rec'[Current(x)].linked
          BY <2>0, <4>1, <5>3, <5>4 DEF WorkerWaits, HoldingPCs, CallPCs
        <5>6. /\ Working(x)' = Working(x)
              /\ Working(x) => runStatus[RunOf(x)] = "running"
              /\ pc[x] \in {"leave"} \union LookupPCs
                   /\ runStatus[RunOf(x)] = "waiting_for_approval" => Resumable(RunOf(x))
          BY <4>1 DEF WorkerWaits, Working
        <5> QED
          BY <4>1, <5>3, <5>5, <5>6 DEF WorkerWaits
      <4> QED
        BY <4>2, <4>3
    <3>5. ASSUME NEW r \in Runs, runStatus'[r] = "waiting_for_approval",
                 \A x \in Workers : RunOf(x)' # r
          PROVE  Resumable(r)'
      <4>1. CASE r = RunOf(w)
        <5>1. CASE WorkerStep(w)
          <6>1. pc'[w] = "idle" /\ RunOf(w)' = NoRun
            BY <3>5, <4>1, <5>1, StaysOnRun
          <6>2. /\ UNCHANGED <<rec, runStatus>>
                /\ pc[w] \in {"leave", "fail"} \union LookupPCs
            <7>1. Return(w) \/ Rethrow(w) \/ ToolIsGone(w) \/ NoCallToResume(w) \/ StillPending(w)
              <8>1. CASE LoopStep(w) \/ LoopThrows(w)
                BY <6>1, <8>1, GotoMoves DEF LoopStep, LoopThrows, TakeStep, StepLimit,
                   ModelAnswers, AbortedRequest, ModelCallsTools, Complete, Park, Fail,
                   BatchDone, ToolCallLimit
              <8>2. CASE CallStep(w)
                BY <6>1, <8>2 DEF CallStep, CreateRecord, Refuse, ProceedUngated,
                   RequestApproval, LinkApproval, SeeApproved, SeeDenied, WaitTimesOut,
                   MarkExecuting, Execute, Settle, Goto, TypeOK
              <8>3. CASE ResumeStep(w)
                BY <6>1, <8>3, GotoMoves DEF ResumeStep, FindCall, ReadDecision, RecordDenial,
                   Reopen
              <8> QED
                BY <5>1, <8>1, <8>2, <8>3 DEF WorkerStep
            <7> QED
              BY <7>1 DEF Return, Rethrow, ToolIsGone, NoCallToResume, StillPending, Leave, Goto,
                 rows, LookupPCs
          <6>3. Resumable(r)
            BY <3>2, <3>5, <4>1, <6>2 DEF Waiting, WorkerWaits, Working
          <6> QED
            BY <2>0, <6>2, <6>3, ResumableStays
        <5>2. CASE Request(w)
          <6>1. pc[w] = "idle"
            BY <5>2 DEF Request, StartRun, StartResume, Goto
          <6> QED
            BY <4>1, <6>1 DEF Places, Placed
        <5> QED
          BY <2>1, <5>1, <5>2
      <4>2. CASE r # RunOf(w)
        <5>1. runStatus'[r] = runStatus[r]
          BY <3>1, <3>5, <4>2 DEF FrameOf
        <5>2. \A x \in Workers : RunOf(x) # r
          BY <3>1, <3>5, <4>2 DEF FrameOf, RunOf
        <5>3. Resumable(r)
          BY <3>2, <3>5, <5>1, <5>2 DEF Waiting, RunWaits
        <5> QED
          BY <2>0, <3>1, <4>2, <5>3, OtherRunStays
      <4> QED
        BY <4>1, <4>2
    <3> QED
      BY <3>3, <3>4, <3>5 DEF Waiting, RunWaits
  <2>2. CASE Quiet
    <3>1. /\ \A x \in Workers : RunOf(x)' = RunOf(x) /\ Current(x)' = Current(x)
          /\ \A x \in Workers : Working(x)' = Working(x)
          /\ UNCHANGED <<rec, runStatus, pc>> /\ Serial /\ crashes = 0
      BY <2>2 DEF Quiet, RunOf, Current, Working, Serial
    <3>2. \A r : Resumable(r) => Resumable(r)'
      BY <2>0, <3>1, ResumableStays
    <3>3. ASSUME NEW x \in Workers PROVE WorkerWaits(x)'
      <4>1. WorkerWaits(x)
        BY <3>1 DEF Waiting
      <4>2. pc[x] \in HoldingPCs => Current(x) \in Call
        BY HeldIsRow
      <4>3. Resumable(RunOf(x)) => Resumable(RunOf(x))'
        BY <3>1, <3>2
      <4>4. /\ pc[x] \in {"check", "link", "poll", "park"} =>
                 \A d \in Call : rec[d].run = RunOf(x) => d <= Current(x)
            /\ pc[x] \in {"link", "poll", "park"} =>
                 approval'[Current(x)] # "none" /\ rec[Current(x)].tool \in Gated
            /\ pc[x] \in {"poll", "park"} => rec[Current(x)].linked
        BY <2>0, <4>1, <4>2 DEF WorkerWaits, HoldingPCs, CallPCs
      <4> QED
        BY <3>1, <4>1, <4>3, <4>4 DEF WorkerWaits
    <3>4. ASSUME NEW r \in Runs PROVE RunWaits(r)'
      BY <3>1, <3>2 DEF Waiting, RunWaits
    <3> QED
      BY <3>3, <3>4 DEF Waiting
  <2>3. CASE Crash
    BY <2>3 DEF Crash, TypeOK
  <2> QED
    BY <2>1, <2>2, <2>3, QuietSteps DEF Next
<1> QED
  BY <1>1, <1>2, TypeCorrect, AuthorityHolds, PlacesHold, ApartHolds, TellingHolds, PTL DEF Spec

\* A run left waiting by clients that do not overlap their requests, on a server
\* that was not restarted, can be resumed: the newest pending record of the run
\* is linked to an approval that was put to the user.
THEOREM WaitingCanResume == Spec => []WaitingRunCanResume
<1>1. Waiting => WaitingRunCanResume
  BY DEF Waiting, RunWaits, Resumable, Serial, WaitingRunCanResume
<1> QED
  BY <1>1, WaitingHolds, PTL

-----------------------------------------------------------------------------
(* The orchestrator implements the gate *)

\* What the mapping to ApprovalGate needs beyond the layers above: a decision in
\* flight answers a question that was put, and every row names a tool.
GateFacts ==
  /\ \A v \in Resolvers : rv[v] # NoDecision => approval[rv[v].call] # "none"
  /\ \A c \in 1..nRecords : rec[c].tool \in Tools

LEMMA GateFactsHold == Spec => []GateFacts
<1>1. Init => GateFacts
  BY DEF Init, GateFacts
<1>2. TypeOK /\ TypeOK' /\ Places /\ GateFacts /\ [Next]_vars => GateFacts'
  <2> SUFFICES ASSUME TypeOK, TypeOK', Places, GateFacts, [Next]_vars PROVE GateFacts'
    OBVIOUS
  <2>0. RowsGrow /\ \A c \in Call : approval[c] # "none" => approval'[c] # "none"
    BY RowsOnlyGrow, AskedStaysAsked
  <2>1. ASSUME NEW v \in Resolvers PROVE rv'[v] # NoDecision => approval'[rv'[v].call] # "none"
    <3>1. ASSUME rv'[v] = rv[v], rv[v] # NoDecision PROVE approval'[rv'[v].call] # "none"
      <4>1. rv[v].call \in Call
        BY <3>1 DEF TypeOK, Decisive
      <4> QED
        BY <2>0, <3>1, <4>1 DEF GateFacts
    <3>2. ASSUME NEW u \in Resolvers, NEW c \in Call, NEW d \in Decisions, ReadPending(u, c, d)
          PROVE  rv'[v] # NoDecision => approval'[rv'[v].call] # "none"
      <4>1. /\ v # u => rv'[v] = rv[v]
            /\ v = u => rv'[v] = [call |-> c, decision |-> d]
            /\ approval'[c] = "pending"
        BY <3>2 DEF ReadPending, TypeOK, rows
      <4>2. v = u => rv'[v].call = c
        BY <4>1
      <4> QED
        BY <3>1, <4>1, <4>2
    <3>3. ASSUME NEW u \in Resolvers, WriteDecision(u)
          PROVE  rv'[v] # NoDecision => approval'[rv'[v].call] # "none"
      <4>1. (v # u => rv'[v] = rv[v]) /\ (v = u => rv'[v] = NoDecision)
        BY <3>3 DEF WriteDecision, TypeOK
      <4> QED
        BY <3>1, <4>1
    <3>4. CASE Crash
      BY <3>4 DEF Crash
    <3>5. CASE UNCHANGED rv
      BY <3>1, <3>5
    <3>6. ASSUME NEW w \in Workers, Request(w) \/ WorkerStep(w) PROVE UNCHANGED rv
      BY <3>6, WorkerFrame DEF FrameOf
    <3>7. CASE \/ \E r \in Runs : Abort(r)
               \/ \E t \in Pluggable : LoadPlugin(t) \/ DisablePlugin(t)
               \/ UNCHANGED vars
      BY <3>5, <3>7 DEF Abort, LoadPlugin, DisablePlugin, vars, memory, environment
    <3> QED
      BY <3>2, <3>3, <3>4, <3>5, <3>6, <3>7 DEF Next, Resolve
  <2>2. ASSUME NEW c \in 1..nRecords' PROVE rec'[c].tool \in Tools
    <3>1. CASE c \in 1..nRecords
      BY <2>0, <3>1 DEF RowsGrow, GateFacts
    <3>2. CASE nRecords' = nRecords
      BY <3>1, <3>2
    <3>3. ASSUME NEW w \in Workers, NEW t \in Tools, CreateRecord(w, t)
          PROVE  rec'[c].tool \in Tools
      <4>1. /\ nRecords' = nRecords + 1
            /\ rec'[nRecords + 1] =
                 [run |-> RunOf(w), tool |-> t, status |-> "pending", linked |-> FALSE]
        BY <3>3, CreateKeeps
      <4>2. rec'[nRecords + 1].tool = t
        BY <4>1
      <4>3. c = nRecords + 1 \/ c \in 1..nRecords
        BY <4>1 DEF TypeOK
      <4> QED
        BY <3>1, <4>2, <4>3
    <3>4. ASSUME NEW w \in Workers, Request(w) \/ WorkerStep(w),
                 \A t \in Tools : ~CreateRecord(w, t)
          PROVE  nRecords' = nRecords
      BY <3>4 DEF Request, StartRun, StartResume, WorkerStep, LoopStep, CallStep, ResumeStep,
         LoopThrows, TakeStep, StepLimit, ModelAnswers, AbortedRequest, ModelCallsTools, Complete,
         Park, Fail, SetRun, Return, Rethrow, Leave, BatchDone, ToolCallLimit, Refuse,
         ProceedUngated, RequestApproval, LinkApproval, SeeApproved, SeeDenied, WaitTimesOut,
         MarkExecuting, Execute, Settle, FindCall, NoCallToResume, StillPending, ToolIsGone,
         ReadDecision, RecordDenial, Reopen, rows
    <3>5. Quiet \/ Crash => nRecords' = nRecords
      BY DEF Quiet, Crash, rows
    <3> QED
      BY <3>2, <3>3, <3>4, <3>5, QuietSteps DEF Next
  <2> QED
    BY <2>1, <2>2 DEF GateFacts
<1> QED
  BY <1>1, <1>2, TypeCorrect, PlacesHold, PTL DEF Spec

\* A step that changes no call's tool, approval, grant or effects is no step of
\* the gate.
LEMMA GateStutters ==
  ASSUME TypeOK, TypeOK', UNCHANGED <<granted, effects, discipline>>,
         \A c \in Call : rec'[c].tool = rec[c].tool,
         \A c \in Call : approval'[c] = "none" <=> approval[c] = "none"
  PROVE  UNCHANGED Gate!gateVars
<1>1. [c \in Call |-> rec'[c].tool] = [c \in Call |-> rec[c].tool]
  OBVIOUS
<1>2. {c \in Call : approval'[c] # "none"} = {c \in Call : approval[c] # "none"}
  OBVIOUS
<1> QED
  BY <1>1, <1>2 DEF Gate!gateVars

\* The four kinds of step that the gate sees.
LEMMA CreateProposes ==
  ASSUME TypeOK, TypeOK', Authority, NEW w \in Workers, NEW t \in Tools, CreateRecord(w, t)
  PROVE  Gate!GateNext
<1>1. /\ nRecords + 1 \in Call
      /\ \A c \in Call : c # nRecords + 1 => rec'[c] = rec[c]
      /\ rec'[nRecords + 1] =
           [run |-> RunOf(w), tool |-> t, status |-> "pending", linked |-> FALSE]
  BY CreateKeeps
<1>2. rec'[nRecords + 1].tool = t
  BY <1>1
<1>3. rec[nRecords + 1].tool = NoTool
  BY <1>1 DEF Authority, CallAuthority, NoRecord, TypeOK
<1>4. UNCHANGED <<discipline, approval, granted, effects>>
  BY DEF CreateRecord, environment, history
<1>5. [c \in Call |-> rec'[c].tool] =
        [[c \in Call |-> rec[c].tool] EXCEPT ![nRecords + 1] = t]
  BY <1>1, <1>2
<1>6. Gate!Propose(nRecords + 1, t)
  BY <1>1, <1>3, <1>4, <1>5 DEF Gate!Propose
<1> QED
  BY <1>1, <1>6 DEF Gate!GateNext

LEMMA RequestAsks ==
  ASSUME TypeOK, TypeOK', Places, NEW w \in Workers, RequestApproval(w)
  PROVE  Gate!GateNext
<1>1. Current(w) \in Call
  BY HeldIsRow DEF RequestApproval, Goto, HoldingPCs, CallPCs
<1>2. /\ UNCHANGED <<discipline, rec, granted, effects>>
      /\ approval' = [approval EXCEPT ![Current(w)] = "pending"]
      /\ rec[Current(w)].tool \in Gated \ Forbidden
  BY DEF RequestApproval, MayProceed, environment, history
<1>3. {c \in Call : approval'[c] # "none"} =
        {c \in Call : approval[c] # "none"} \union {Current(w)}
  BY <1>1, <1>2 DEF TypeOK
<1>4. PICK c \in Call : c = Current(w)
  BY <1>1
<1>5. Gate!Ask(c)
  BY <1>1, <1>2, <1>3, <1>4 DEF Gate!Ask
<1> QED
  BY <1>5 DEF Gate!GateNext

LEMMA WriteGrants ==
  ASSUME TypeOK, TypeOK', GateFacts, NEW v \in Resolvers, WriteDecision(v)
  PROVE  Gate!GateNext \/ UNCHANGED Gate!gateVars
<1>1. rv[v] \in [call : Call, decision : Decisions]
  BY DEF WriteDecision, TypeOK, Decisive
<1>2. rv[v].call \in Call /\ approval[rv[v].call] # "none" /\ rv[v].decision \in {"approved", "denied"}
  BY <1>1 DEF GateFacts, WriteDecision, Decisions
<1>3. /\ UNCHANGED <<discipline, rec, effects>>
      /\ approval' = [approval EXCEPT ![rv[v].call] = rv[v].decision]
  BY DEF WriteDecision
<1>4. \A c \in Call : approval'[c] = "none" <=> approval[c] = "none"
  BY <1>2, <1>3 DEF TypeOK
<1>5. CASE rv[v].decision = "approved"
  <2>1. granted' = granted \union {rv[v].call}
    BY <1>5 DEF WriteDecision
  <2>2. {c \in Call : approval'[c] # "none"} = {c \in Call : approval[c] # "none"}
    BY <1>4
  <2>3. PICK c \in Call : c = rv[v].call
    BY <1>2
  <2>4. Gate!Grant(c)
    BY <1>2, <1>3, <2>1, <2>2, <2>3 DEF Gate!Grant
  <2> QED
    BY <2>4 DEF Gate!GateNext
<1>6. CASE rv[v].decision # "approved"
  <2>1. granted' = granted
    BY <1>6 DEF WriteDecision
  <2> QED
    BY <1>3, <1>4, <2>1, GateStutters
<1> QED
  BY <1>5, <1>6

LEMMA ExecuteCarriesOut ==
  ASSUME TypeOK, TypeOK', Authority, Places, Telling, GateFacts, NEW w \in Workers, Execute(w)
  PROVE  Gate!GateNext
<1>1. pc[w] = "execute" /\ Current(w) \in Call /\ Current(w) \in 1..nRecords
  BY HeldIsRow DEF Execute, Goto, HoldingPCs, CallPCs
<1>2. Authorised(Current(w)) /\ rec[Current(w)].tool # NoTool
  BY <1>1 DEF Authority, WorkerAuthority, GateFacts
<1>3. Serial => effects[Current(w)] = 0
  BY <1>1 DEF Telling, WorkerTells
<1>4. /\ UNCHANGED <<discipline, rec, approval, granted>>
      /\ effects' = [effects EXCEPT ![Current(w)] = @ + 1]
  BY DEF Execute, rows, environment
<1>5. PICK c \in Call : c = Current(w)
  BY <1>1
<1>6. Gate!CarryOut(c)
  BY <1>1, <1>2, <1>3, <1>4, <1>5 DEF Gate!CarryOut, Authorised, Serial
<1> QED
  BY <1>6 DEF Gate!GateNext

\* The orchestrator implements the gate: every record created, question asked,
\* approval granted and tool executed is that step of ApprovalGate, everything
\* else - loops, parking, resuming, aborts, plugin reloads, restarts - is none.
THEOREM Implements == Spec => ImplementsGate
<1>1. Init => Gate!GateInit
  <2> SUFFICES ASSUME Init PROVE Gate!GateInit
    OBVIOUS
  <2>1. NoRecord.tool = NoTool
    BY DEF NoRecord
  <2>2. [c \in Call |-> rec[c].tool] = [c \in Call |-> NoTool]
    BY <2>1 DEF Init
  <2>3. {c \in Call : approval[c] # "none"} = {}
    BY DEF Init
  <2> QED
    BY <2>2, <2>3 DEF Init, Gate!GateInit
<1>2. TypeOK /\ TypeOK' /\ Authority /\ Places /\ Telling /\ GateFacts /\ [Next]_vars
      => [Gate!GateNext]_(Gate!gateVars)
  <2> SUFFICES ASSUME TypeOK, TypeOK', Authority, Places, Telling, GateFacts, [Next]_vars
               PROVE  Gate!GateNext \/ UNCHANGED Gate!gateVars
    OBVIOUS
  <2>1. ASSUME UNCHANGED <<rec, approval, granted, effects, discipline>>
        PROVE  UNCHANGED Gate!gateVars
    BY <2>1, GateStutters
  <2>2. ASSUME NEW w \in Workers, NEW s \in RecordStatus, SetRecord(w, s),
               UNCHANGED <<approval, granted, effects, discipline>>
        PROVE  UNCHANGED Gate!gateVars
    <3>1. \A c \in Call : rec'[c].tool = rec[c].tool
      BY <2>2, SetRecordKeeps
    <3> QED
      BY <2>2, <3>1, GateStutters
  <2>3. ASSUME NEW w \in Workers, Request(w) \/ LoopStep(w) \/ LoopThrows(w)
        PROVE  UNCHANGED Gate!gateVars
    BY <2>1, <2>3 DEF Request, StartRun, StartResume, LoopStep, LoopThrows, TakeStep, StepLimit,
       ModelAnswers, AbortedRequest, ModelCallsTools, Complete, Park, Fail, SetRun, Return,
       Rethrow, Leave, BatchDone, ToolCallLimit, rows, environment, history
  <2>4. ASSUME NEW w \in Workers, CallStep(w) PROVE Gate!GateNext \/ UNCHANGED Gate!gateVars
    <3>1. CASE \/ Refuse(w) \/ SeeDenied(w) \/ MarkExecuting(w)
               \/ \E status \in {"succeeded", "failed"} : Settle(w, status)
      <4>1. UNCHANGED <<approval, granted, effects, discipline>>
        BY <3>1 DEF Refuse, SeeDenied, MarkExecuting, Settle, environment, history
      <4>2. PICK s \in RecordStatus : SetRecord(w, s)
        BY <3>1 DEF Refuse, SeeDenied, MarkExecuting, Settle, RecordStatus
      <4> QED
        BY <2>2, <4>1, <4>2
    <3>2. CASE LinkApproval(w)
      <4>1. UNCHANGED <<approval, granted, effects, discipline>>
        BY <3>2 DEF LinkApproval, environment, history
      <4>2. \A c \in Call : rec'[c].tool = rec[c].tool
        BY <3>2, LinkKeeps
      <4> QED
        BY <4>1, <4>2, GateStutters
    <3>3. CASE ProceedUngated(w) \/ SeeApproved(w) \/ WaitTimesOut(w)
      BY <2>1, <3>3 DEF ProceedUngated, SeeApproved, WaitTimesOut, rows, environment, history
    <3> QED
      BY <2>4, <3>1, <3>2, <3>3, CreateProposes, RequestAsks, ExecuteCarriesOut DEF CallStep
  <2>5. ASSUME NEW w \in Workers, ResumeStep(w) PROVE UNCHANGED Gate!gateVars
    <3>1. CASE RecordDenial(w)
      <4>1. SetRecord(w, "denied") /\ UNCHANGED <<approval, granted, effects, discipline>>
        BY <3>1 DEF RecordDenial, environment, history
      <4> QED
        BY <2>2, <4>1 DEF RecordStatus
    <3>2. CASE ~RecordDenial(w)
      BY <2>1, <2>5, <3>2 DEF ResumeStep, FindCall, NoCallToResume, StillPending, ReadDecision,
         ToolIsGone, Reopen, Leave, rows, environment, history
    <3> QED
      BY <3>1, <3>2
  <2>6. CASE \/ \E r \in Runs : Abort(r)
             \/ \E v \in Resolvers, c \in Call, d \in Decisions : ReadPending(v, c, d)
             \/ \E t \in Pluggable : LoadPlugin(t) \/ DisablePlugin(t)
             \/ Crash \/ UNCHANGED vars
    BY <2>1, <2>6 DEF Abort, ReadPending, LoadPlugin, DisablePlugin, Crash, vars, rows,
       environment, history
  <2> QED
    BY <2>3, <2>4, <2>5, <2>6, WriteGrants DEF Next, WorkerStep, Resolve
<1> QED
  BY <1>1, <1>2, TypeCorrect, AuthorityHolds, PlacesHold, TellingHolds, GateFactsHold, PTL
     DEF Spec, ImplementsGate, Gate!GateSpec
=============================================================================
