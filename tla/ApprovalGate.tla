---------------------------- MODULE ApprovalGate ----------------------------
(***************************************************************************)
(* What the approval engine promises for tool calls, and nothing of how    *)
(* the orchestrator keeps it: a gated call takes effect only after a human *)
(* has granted that very call, a grant answers a question that was asked,  *)
(* a forbidden call never takes effect, and as long as clients do not      *)
(* overlap their requests a call takes effect once.                        *)
(***************************************************************************)
EXTENDS Naturals

CONSTANTS
  Call,       \* tool-call records
  Tools,      \* names a model may call, registered or not
  NoTool      \* the tool of a record that does not exist yet

CONSTANTS
  Gated,      \* tools whose calls need a human decision
  Forbidden   \* tools the caller's role may not use

VARIABLES
  exclusive,  \* clients wait for a request to end before the next on its run
  tool,       \* the tool each call names
  asked,      \* calls put to the user
  granted,    \* calls the user approved
  effects     \* how many times each call was carried out

gateVars == <<exclusive, tool, asked, granted, effects>>

GateInit ==
  /\ exclusive \in BOOLEAN
  /\ tool = [c \in Call |-> NoTool]
  /\ asked = {}
  /\ granted = {}
  /\ effects = [c \in Call |-> 0]

\* The model names a tool for a new call; the choice is never revised.
Propose(c, t) ==
  /\ tool[c] = NoTool
  /\ tool' = [tool EXCEPT ![c] = t]
  /\ UNCHANGED <<exclusive, asked, granted, effects>>

Ask(c) ==
  /\ tool[c] \in Gated \ Forbidden
  /\ asked' = asked \union {c}
  /\ UNCHANGED <<exclusive, tool, granted, effects>>

Grant(c) ==
  /\ c \in asked
  /\ granted' = granted \union {c}
  /\ UNCHANGED <<exclusive, tool, asked, effects>>

CarryOut(c) ==
  /\ tool[c] \notin Forbidden \union {NoTool}
  /\ tool[c] \in Gated => c \in granted
  /\ exclusive => effects[c] = 0
  /\ effects' = [effects EXCEPT ![c] = @ + 1]
  /\ UNCHANGED <<exclusive, tool, asked, granted>>

GateNext ==
  \E c \in Call :
    \/ \E t \in Tools : Propose(c, t)
    \/ Ask(c)
    \/ Grant(c)
    \/ CarryOut(c)

GateSpec == GateInit /\ [][GateNext]_gateVars
=============================================================================
