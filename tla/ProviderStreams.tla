---------------------------- MODULE ProviderStreams ----------------------------
(***************************************************************************)
(* One model call of the agent loop: getModelResponse (agent/orchestrator),*)
(* which goes to the provider's chat (with ai/retry.ts) or chatStream, for *)
(* the Anthropic, OpenAI and Gemini providers.                             *)
(*                                                                         *)
(* A reply of the model is the sequence of its blocks, a block is known by *)
(* its place.  A tool call's arguments come over the wire as Halves.       *)
(***************************************************************************)
EXTENDS Integers, Sequences, Selections

CONSTANTS
  Vendors,     \* subset of {"anthropic", "openai", "gemini"}
  Replies,     \* sequences of "text" and "call"
  MaxAttempts  \* withRetry

ASSUME StreamsAssumption ==
  /\ Vendors \subseteq {"anthropic", "openai", "gemini"} /\ MaxAttempts \in Nat \ {0}
  /\ \A r \in Replies : r \in Seq({"text", "call"})

Halves == <<"first", "second">>

VARIABLES
  vendor, reply,
  path,       \* "chat" or "stream"
  phase,      \* "waiting" for the status, "backoff", "body", "over"
  attempts,   \* requests sent
  aborted,    \* the run's abort signal
  block,      \* blocks of the stream read
  piece,      \* pieces read of the next one
  fullText,   \* text blocks gathered
  gathered,   \* tool calls gathered: [block, args]
  shown,      \* text blocks emitted as message.delta
  outcome,    \* "none", "response", "recoverable" or "fatal" error
  response,   \* [text, calls]
  cut         \* the service ended the stream early

streamVars == <<vendor, reply, path, phase, attempts, aborted, block, piece, fullText, gathered, shown,
                outcome, response, cut>>

Blocks == 1..Len(reply)
InOrder == [b \in Blocks |-> b]
TextBlocks == Filtered(InOrder, {b \in Blocks : reply[b] = "text"})
CallBlocks == Filtered(InOrder, {b \in Blocks : reply[b] = "call"})
NoResponse == [text |-> <<>>, calls |-> <<>>]

StreamsTypeOK ==
  /\ vendor \in Vendors /\ reply \in Replies /\ path \in {"chat", "stream"}
  /\ phase \in {"waiting", "backoff", "body", "over"} /\ attempts \in 1..MaxAttempts
  /\ {aborted, cut} \subseteq BOOLEAN /\ block \in 0..Len(reply) /\ piece \in 0..2
  /\ {fullText, shown, response.text} \subseteq Seq(Blocks)
  /\ {gathered, response.calls} \subseteq Seq([block : Blocks, args : Seq({"first", "second"})])
  /\ outcome \in {"none", "response", "recoverable", "fatal"}

StreamsInit ==
  /\ vendor \in Vendors /\ reply \in Replies /\ path \in {"chat", "stream"}
  /\ phase = "waiting" /\ attempts = 1 /\ aborted = FALSE /\ block = 0 /\ piece = 0
  /\ fullText = <<>> /\ gathered = <<>> /\ shown = <<>>
  /\ outcome = "none" /\ response = NoResponse /\ cut = FALSE

-----------------------------------------------------------------------------
(* What the services send *)

\* The reply as chat() reads it from the body.
ChatResponse ==
  [text |-> TextBlocks,
   calls |-> [i \in DOMAIN CallBlocks |-> [block |-> CallBlocks[i], args |-> Halves]]]

Piece(kind, b, half) == [kind |-> kind, block |-> b, half |-> half]

\* A block's pieces: a start for Anthropic, the name with the first half of the arguments
\* for OpenAI, a whole part for Gemini.
PiecesOf(b) ==
  IF reply[b] = "text" THEN <<Piece("text", b, "first")>>
  ELSE CASE vendor = "anthropic" -> <<Piece("start", b, "first"), Piece("args", b, "first"),
                                      Piece("args", b, "second")>>
         [] vendor = "openai"    -> <<Piece("args", b, "first"), Piece("args", b, "second")>>
         [] OTHER                -> <<Piece("whole", b, "first")>>

\* The blocks as they come.  OpenAI keeps the text of a message apart from its tool calls.
Wire == IF vendor = "openai" THEN TextBlocks \o CallBlocks ELSE InOrder

-----------------------------------------------------------------------------
(* Reading the stream: the providers' chatStream *)

Extend(calls, i, half) ==
  IF i \in DOMAIN calls THEN [calls EXCEPT ![i].args = Append(@, half)] ELSE calls

\* toolCallsById in its order of insertion, at event.index, the place in the whole message.
IndexByBlock(b) == b

AnthropicCalls(p) ==
  CASE p.kind = "start" -> Append(gathered, [block |-> p.block, args |-> <<>>])
    [] p.kind = "args"  -> Extend(gathered, IndexByBlock(p.block), p.half)
    [] OTHER            -> gathered

OpenAICalls_ByArrival(p) ==
  IF p.kind = "args" THEN
    IF gathered = <<>> THEN <<[block |-> p.block, args |-> <<p.half>>]>>
    ELSE Extend(gathered, Len(gathered), p.half)
  ELSE gathered

\* toolCallsByIndex: the index counts the tool calls alone.
OpenAICalls(p) ==
  IF p.kind = "args" THEN
    IF \E i \in DOMAIN gathered : gathered[i].block = p.block
    THEN Extend(gathered, CHOOSE i \in DOMAIN gathered : gathered[i].block = p.block, p.half)
    ELSE Append(gathered, [block |-> p.block, args |-> <<p.half>>])
  ELSE gathered

GeminiCalls(p) ==
  IF p.kind = "whole" THEN Append(gathered, [block |-> p.block, args |-> Halves]) ELSE gathered

StreamRead ==
  /\ phase = "body" /\ path = "stream" /\ block < Len(Wire)
  /\ LET pieces == PiecesOf(Wire[block + 1])
         p == pieces[piece + 1] IN
     /\ gathered' = CASE vendor = "anthropic" -> AnthropicCalls(p)
                      [] vendor = "openai"    -> OpenAICalls(p)
                      [] OTHER                -> GeminiCalls(p)
     /\ fullText' = IF p.kind = "text" THEN Append(fullText, p.block) ELSE fullText
     /\ shown' = IF p.kind = "text" THEN Append(shown, p.block) ELSE shown
     /\ IF piece + 1 = Len(pieces) THEN block' = block + 1 /\ piece' = 0
                                    ELSE piece' = piece + 1 /\ UNCHANGED block
  /\ UNCHANGED <<vendor, reply, path, phase, attempts, aborted, outcome, response, cut>>

\* JSON.parse of the buffer: half an object does not parse and becomes {}.
Parsed(calls) ==
  [i \in DOMAIN calls |-> IF calls[i].args = Halves THEN calls[i]
                          ELSE [calls[i] EXCEPT !.args = <<>>]]

\* The body ends, when all is read or because the service broke off (its error event is
\* not looked at): either way "done".
StreamDone ==
  /\ phase = "body" /\ path = "stream"
  /\ cut' = (block < Len(Wire))
  /\ response' = [text |-> fullText, calls |-> Parsed(gathered)]
  /\ outcome' = "response" /\ phase' = "over"
  /\ UNCHANGED <<vendor, reply, path, attempts, aborted, block, piece, fullText, gathered, shown>>

-----------------------------------------------------------------------------
(* The request and its retries *)

Fail(kind) ==
  /\ outcome' = kind /\ phase' = "over"
  /\ UNCHANGED <<vendor, reply, path, attempts, aborted, block, piece, fullText, gathered, shown,
                 response, cut>>

\* chat: a 429 and a 5xx with a JSON body are tried again, the last of them is thrown.
Overloaded ==
  /\ phase = "waiting" /\ path = "chat" /\ ~aborted
  /\ \/ attempts = MaxAttempts /\ Fail("recoverable")
     \/ /\ attempts < MaxAttempts /\ phase' = "backoff"
        /\ UNCHANGED <<vendor, reply, path, attempts, aborted, block, piece, fullText, gathered, shown,
                       outcome, response, cut>>

\* chat: another 4xx, a body that is no JSON, or no connection.
Refuses == phase = "waiting" /\ path = "chat" /\ Fail("fatal")

\* chatStream is never tried again: a 4xx, a 5xx or no connection.
StreamRefused == phase = "waiting" /\ path = "stream" /\ \E kind \in {"fatal", "recoverable"} : Fail(kind)

\* The abort signal ends a request or a body under way.
RequestAborted == phase \in {"waiting", "body"} /\ aborted /\ Fail("fatal")

Accepted ==
  /\ phase = "waiting" /\ ~aborted
  /\ \/ /\ path = "stream" /\ phase' = "body" /\ UNCHANGED <<outcome, response>>
     \/ /\ path = "chat" /\ phase' = "over" /\ outcome' = "response" /\ response' = ChatResponse
  /\ UNCHANGED <<vendor, reply, path, attempts, aborted, block, piece, fullText, gathered, shown, cut>>

\* The delay is not cut short; the signal is looked at before the next request.
BackoffEnds ==
  /\ phase = "backoff"
  /\ \/ aborted /\ Fail("fatal")
     \/ /\ ~aborted /\ phase' = "waiting" /\ attempts' = attempts + 1
        /\ UNCHANGED <<vendor, reply, path, aborted, block, piece, fullText, gathered, shown, outcome,
                       response, cut>>

\* The run is cancelled.
Aborts ==
  /\ ~aborted /\ phase # "over" /\ aborted' = TRUE
  /\ UNCHANGED <<vendor, reply, path, phase, attempts, block, piece, fullText, gathered, shown, outcome,
                 response, cut>>

StreamsNext ==
  \/ StreamRead \/ StreamDone \/ Overloaded \/ Refuses \/ StreamRefused \/ RequestAborted
  \/ Accepted \/ BackoffEnds \/ Aborts

StreamsSpec == StreamsInit /\ [][StreamsNext]_streamVars

-----------------------------------------------------------------------------
(* Properties *)

Responded == outcome = "response"

\* getModelResponse: "the rest of the loop never needs to know which path produced the
\* response".  A streamed reply that came whole is the reply chat would have given.
StreamingIsInvisible == Responded /\ ~cut => response = ChatResponse

\* What holds of it: a call has its own arguments, whole, or none; no call is missing from
\* a reply that came whole; none lost its arguments unless the stream was cut or, for
\* Anthropic, text came before it; the user was shown the text of the response.
CallsArriveWhole ==
  Responded =>
    /\ Len(response.calls) <= Len(CallBlocks)
    /\ \A i \in DOMAIN response.calls : LET c == response.calls[i] IN
         /\ c.block = CallBlocks[i]
         /\ \/ c.args = Halves
            \/ c.args = <<>> /\ (cut \/ (vendor = "anthropic" /\ \E b \in 1..c.block : reply[b] = "text"))
    /\ ~cut => Len(response.calls) = Len(CallBlocks) /\ response.text = TextBlocks
    /\ path = "stream" => shown = response.text
=============================================================================
