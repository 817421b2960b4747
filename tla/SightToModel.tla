---------------------------- MODULE SightToModel ----------------------------
(***************************************************************************)
(* How what Eyes saw comes into a model's request: the gates of a turn     *)
(* (agent/orchestrator.ts, eyesVisionAccess.ts, visualContextAdapter.ts),  *)
(* the Eyes tools (tools/builtin/eyesTools.ts), the adapter of the model   *)
(* (eyes/transport/) and the provider's conversion of the messages.  Which *)
(* samples a context holds is VisualMemory's; whether a live session is    *)
(* open is VisualSessions'; permissions, approvals and limits AgentRun's.  *)
(*                                                                         *)
(* A sample is where it stands in its context: 1 is the oldest.            *)
(***************************************************************************)
EXTENDS Integers, Sequences, FiniteSets, Selections

CONSTANTS
  Models, ProviderOf, CapsOf,  \* model -> provider, and [image, temporal, live, most]
  Adapters,                    \* registered ids
  BudgetOf,                    \* adapter -> detail -> images
  Looks,                       \* contexts a tool may build: [detail, samples]
  NoLook,                      \* a context not there
  AllowLists,                  \* the lists of providers a user may have set
  Pasts,                       \* what getHistory may load of a conversation
  MaxBatchOfCalls, MaxAsks, MaxPatches

Providers == {ProviderOf[m] : m \in Models}
\* Only what an assistant says announces calls.
Messages == [role : {"user", "tool"}, calls : {0}] \union [role : {"assistant"}, calls : 0..MaxBatchOfCalls]

ASSUME SightAssumption ==
  /\ Models # {} /\ NoLook \notin Looks /\ Adapters \subseteq Providers
  /\ AllowLists \subseteq SUBSET Providers
  /\ MaxBatchOfCalls \in Nat /\ Pasts \subseteq Seq(Messages) \ {<<>>}
  /\ CapsOf \in [Models -> [image : BOOLEAN, temporal : BOOLEAN, live : BOOLEAN, most : Nat]]
  /\ \A l \in Looks : /\ DOMAIN l = {"detail", "samples"}
                      /\ l.samples \in Seq([score : Nat, framed : BOOLEAN])
                      /\ \A a \in Adapters : BudgetOf[a][l.detail] \in Nat

VARIABLES
  sight,     \* the row of settings: [enabled, allowed]
  eyes,      \* the engine: "off", "blank" until its first snapshot, "seeing"
  turn,      \* the request at work: [pc, model, known, ambient, messages,
             \* loaded (how many messages were), calls, look, pixels, asks]
  sent,      \* the last request to a model: [model, ambient, strategy, images, look, wire]
  allowedSince, \* ghost: the providers allowed, with Eyes on, at some time since the turn read the settings
  patches

sightVars == <<sight, eyes, turn, sent, allowedSince, patches>>

-----------------------------------------------------------------------------
(* The adapters *)

InFrame(l) == {i \in DOMAIN l.samples : l.samples[i].framed}

\* In the order of the samples, which is that of their times.
Told(l, places) == Filtered([i \in 1..Len(l.samples) |-> i], places)
Framed(l) == Told(l, InFrame(l))

\* toVisualContextImages: the latest n frames, in order.
LatestFrames(l, n) == LET f == Framed(l) IN Filtered(f, {i \in DOMAIN f : i > Len(f) - n})

\* The first n of S by score, the older first of two alike.
MoreSalient(l, i, j) ==
  \/ l.samples[i].score > l.samples[j].score
  \/ l.samples[i].score = l.samples[j].score /\ i < j
MostSalient(l, S, n) == {j \in S : Cardinality({i \in S : MoreSalient(l, i, j)}) < n}

\* pickBookendedFrames: the newest, then the oldest, then the most salient; told in order.
BookendedFrames(l, n) ==
  LET f    == Framed(l)
      ends == {f[Len(f)]} \union (IF n > 1 THEN {f[1]} ELSE {})
  IN IF f = <<>> \/ n <= 0 THEN <<>>
     ELSE Told(l, ends \union MostSalient(l, InFrame(l) \ ends, n - Cardinality(ends)))

\* resolveVisionTransport: by capability, then by provider; text where there is none.
AdapterFor(m) ==
  IF (CapsOf[m].image \/ CapsOf[m].live) /\ ProviderOf[m] \in Adapters THEN ProviderOf[m] ELSE "text-only"

Budget(m, l) ==
  LET images == BudgetOf[AdapterFor(m)][l.detail]
  IN IF ~CapsOf[m].temporal THEN 1 ELSE IF images < CapsOf[m].most THEN images ELSE CapsOf[m].most

Frames_AllOfThem(m, l) == Framed(l)
Frames(m, l) ==
  IF AdapterFor(m) = "anthropic" THEN BookendedFrames(l, Budget(m, l)) ELSE LatestFrames(l, Budget(m, l))

\* sendVisualContext.  `open`: a session was there, or could be opened.
Carried(m, l, open) ==
  LET text == [strategy |-> "text_only", images |-> <<>>]
  IN IF AdapterFor(m) = "text-only" THEN text
     ELSE IF CapsOf[m].live /\ open THEN [strategy |-> "realtime_stream", images |-> <<>>]
     ELSE IF ~CapsOf[m].image \/ Framed(l) = <<>> THEN text
     ELSE [strategy |-> IF CapsOf[m].temporal THEN "temporal_image_set" ELSE "image_set",
           images   |-> Frames(m, l)]

-----------------------------------------------------------------------------
(* The conversions: each message to entries [role, calls, answers, visual], where `calls`
   are announced, `answers` answered *)

Entry(role, calls, answers, visual) == [role |-> role, calls |-> calls, answers |-> answers, visual |-> visual]

\* A role of tool takes a plain string there: what was seen follows as a user's message.
OpenAIEntries(msg, visual) ==
  IF msg.role = "tool"
    THEN <<Entry("tool", 0, 1, FALSE)>> \o (IF visual THEN <<Entry("user", 0, 0, TRUE)>> ELSE <<>>)
    ELSE <<Entry(msg.role, msg.calls, 0, visual)>>

\* One user's entry of its own for every result, what was seen within it.
AnthropicEntries(msg, visual) ==
  <<Entry(IF msg.role = "tool" THEN "user" ELSE msg.role, msg.calls, IF msg.role = "tool" THEN 1 ELSE 0, visual)>>

GeminiEntries(msg, visual) ==
  <<Entry(IF msg.role = "assistant" THEN "model" ELSE "user", msg.calls, IF msg.role = "tool" THEN 1 ELSE 0, visual)>>

OnTheWire(m, messages, seen) ==
  LET entries(i) == CASE ProviderOf[m] = "anthropic" -> AnthropicEntries(messages[i], i \in seen)
                      [] ProviderOf[m] = "gemini"    -> GeminiEntries(messages[i], i \in seen)
                      [] OTHER                       -> OpenAIEntries(messages[i], i \in seen)
  IN Joined([i \in 1..Len(messages) |-> entries(i)])

\* attachVisualContext: to the last message, which in the loop is a result or the user's.
AttachTo(messages) == {Len(messages)}

-----------------------------------------------------------------------------

NoTurn == [pc |-> "idle", model |-> CHOOSE m \in Models : TRUE, known |-> [enabled |-> FALSE, allowed |-> {}],
           ambient |-> FALSE, messages |-> <<>>, loaded |-> 0, calls |-> <<>>, look |-> NoLook, pixels |-> FALSE, asks |-> 0]
NoRequest == [model |-> CHOOSE m \in Models : TRUE, ambient |-> FALSE, strategy |-> "none",
              images |-> <<>>, look |-> NoLook, pixels |-> FALSE, wire |-> <<>>]

CallKinds == {"other", "look", "look_with_pixels"}

SightTypeOK ==
  /\ sight \in [enabled : BOOLEAN, allowed : SUBSET Providers]
  /\ eyes \in {"off", "blank", "seeing"}
  /\ turn.pc \in {"idle", "started", "ready", "asked", "calls"} /\ turn.model \in Models
  /\ turn.known \in [enabled : BOOLEAN, allowed : SUBSET Providers]
  /\ {turn.ambient, turn.pixels} \subseteq BOOLEAN /\ turn.look \in Looks \union {NoLook}
  /\ turn.messages \in Seq(Messages) /\ turn.loaded \in 0..Len(turn.messages)
  /\ turn.calls \in Seq(CallKinds) /\ turn.asks \in 0..MaxAsks
  /\ sent.strategy \in {"none", "text_only", "realtime_stream", "temporal_image_set", "image_set"}
  /\ allowedSince \subseteq Providers /\ patches \in 0..MaxPatches

SightInit ==
  /\ sight \in [enabled : BOOLEAN, allowed : AllowLists] /\ eyes = "off"
  /\ turn = NoTurn /\ sent = NoRequest /\ allowedSince = {} /\ patches = 0

Granted(s) == IF s.enabled THEN s.allowed ELSE {}

PatchesSight ==
  /\ patches < MaxPatches /\ patches' = patches + 1
  /\ \E e \in BOOLEAN, a \in AllowLists :
       /\ [enabled |-> e, allowed |-> a] # sight
       /\ sight' = [enabled |-> e, allowed |-> a]
       /\ allowedSince' = allowedSince \union Granted(sight')
  /\ UNCHANGED <<eyes, turn, sent>>

EngineChanges ==
  /\ eyes' \in {"off", "blank", "seeing"} \ {eyes}
  /\ (eyes = "off" /\ eyes' = "blank") \/ (eyes = "blank" /\ eyes' = "seeing") \/ eyes' = "off"
  /\ UNCHANGED <<sight, turn, sent, allowedSince, patches>>

\* executeLoop begins, for a new run or one resumed: the settings are read once.
TurnStarts(m) ==
  /\ turn.pc = "idle"
  /\ turn' = [NoTurn EXCEPT !.pc = "started", !.model = m, !.known = sight]
  /\ sent' = NoRequest /\ allowedSince' = Granted(sight)
  /\ UNCHANGED <<sight, eyes, patches>>

\* resolveVisualAccess, by the settings the turn has read and the engine there is.
MayShow(s, m) == s.enabled /\ ProviderOf[m] \in s.allowed

\* What was stored before comes first, whatever it is: a turn that parked or failed stored calls
\* that nothing answers, or not under their ids; what the limit cuts off may be the answers.
Prepared ==
  /\ turn.pc = "started"
  /\ \E past \in Pasts :
       turn' = [turn EXCEPT !.pc = "ready", !.ambient = MayShow(turn.known, turn.model) /\ eyes = "seeing",
                            !.messages = past, !.loaded = Len(past)]
  /\ UNCHANGED <<sight, eyes, sent, allowedSince, patches>>

\* The request, by way of the adapter when something is pending.
Asks ==
  /\ turn.pc = "ready" /\ turn.asks < MaxAsks
  /\ \E open \in BOOLEAN :
       /\ open => CapsOf[turn.model].live /\ turn.look # NoLook
       /\ LET seen    == IF turn.look = NoLook THEN {} ELSE AttachTo(turn.messages)
              carried == IF turn.look = NoLook THEN [strategy |-> "none", images |-> <<>>]
                         ELSE Carried(turn.model, turn.look, open)
          IN sent' = [model |-> turn.model, ambient |-> turn.ambient, strategy |-> carried.strategy,
                      images |-> carried.images, look |-> turn.look, pixels |-> turn.pixels,
                      wire |-> OnTheWire(turn.model, turn.messages, seen)]
  /\ turn' = [turn EXCEPT !.pc = "asked", !.look = NoLook, !.asks = @ + 1]
  /\ UNCHANGED <<sight, eyes, allowedSince, patches>>

\* Text alone ends the turn; else the calls are announced.
ModelAnswers ==
  /\ turn.pc = "asked"
  /\ \/ turn' = NoTurn
     \/ \E n \in 1..MaxBatchOfCalls : \E calls \in [1..n -> CallKinds] :
          turn' = [turn EXCEPT !.pc = "calls", !.calls = calls,
                               !.messages = Append(@, [role |-> "assistant", calls |-> n])]
  /\ sent' = NoRequest
  /\ UNCHANGED <<sight, eyes, allowedSince, patches>>

AfterCall == [turn EXCEPT !.calls = Tail(@), !.pc = IF Len(turn.calls) = 1 THEN "ready" ELSE "calls",
                          !.messages = Append(@, [role |-> "tool", calls |-> 0])]

Shown_ByAnyone(m, l, before) == l
\* The allowlist of the turn's settings; a later context takes the place of one that waits.
Shown(m, l, before) == IF ProviderOf[m] \in turn.known.allowed THEN l ELSE before

\* The tool's context, its frames taken out of a copy unless they were asked for; a fresh
\* one, where it is asked for, comes with the newest sample.
Stripped(l) == [l EXCEPT !.samples = [i \in 1..Len(l.samples) |-> [l.samples[i] EXCEPT !.framed = FALSE]]]
Freshened(l) == IF l.samples = <<>> THEN l ELSE [l EXCEPT !.samples[Len(l.samples)].framed = TRUE]

\* eyes_get_visual_state: a fresh frame with it, when one can be had.
StateGiven(l, pixels) == IF pixels THEN Freshened(l) ELSE Stripped(l)
\* eyes_query_visual_history: what the buffer holds.
HistoryGiven(l, pixels) == IF pixels THEN l ELSE Stripped(l)

Looked(l) ==
  /\ turn.pc = "calls" /\ Head(turn.calls) # "other" /\ eyes # "off"
  /\ LET pixels == Head(turn.calls) = "look_with_pixels"
     IN \E given \in {StateGiven(l, pixels), HistoryGiven(l, pixels)} :
          /\ given \in Looks
          /\ LET shown == Shown(turn.model, given, turn.look)
             IN turn' = [AfterCall EXCEPT !.look = shown, !.pixels = IF shown = turn.look THEN @ ELSE pixels]
  /\ UNCHANGED <<sight, eyes, sent, allowedSince, patches>>

\* Any other tool; an Eyes tool that throws, is denied or refused: a text, and no context.
CallAnswered ==
  /\ turn.pc = "calls"
  /\ turn' = AfterCall
  /\ UNCHANGED <<sight, eyes, sent, allowedSince, patches>>

\* The wait for an approval runs out: the turn ends, and what was to be shown with it.
CallParks ==
  /\ turn.pc = "calls" /\ Head(turn.calls) # "look"
  /\ turn' = NoTurn
  /\ UNCHANGED <<sight, eyes, sent, allowedSince, patches>>

SightNext ==
  \/ PatchesSight \/ EngineChanges \/ Prepared \/ Asks \/ ModelAnswers \/ CallAnswered \/ CallParks
  \/ \E m \in Models : TurnStarts(m)
  \/ \E l \in Looks : Looked(l)

SightSpec == SightInit /\ [][SightNext]_sightVars

-----------------------------------------------------------------------------
(* Properties *)

\* Whatever was changed since, a model gets a context, of whatever form, only of a provider
\* that was on the list, and the ambient text only with Eyes on, at some time of the turn;
\* pixels only if it takes images and its call asked for them.
SightIsPermitted ==
  /\ sent.ambient => ProviderOf[sent.model] \in allowedSince
  /\ sent.look # NoLook => ProviderOf[sent.model] \in turn.known.allowed
  /\ sent.images # <<>> => CapsOf[sent.model].image /\ sent.pixels

\* "chronologically ordered": the images are frames of the context that was asked for, in
\* order, the newest among them, no more than the model's adapter allows; with room for two
\* Anthropic's have the oldest as well.
ImagesTellTheStory ==
  sent.images # <<>> =>
    LET shown  == {sent.images[i] : i \in DOMAIN sent.images}
        framed == InFrame(sent.look)
    IN /\ \A i \in 1..Len(sent.images) - 1 : sent.images[i] < sent.images[i + 1]
       /\ shown \subseteq framed /\ \E newest \in shown : \A i \in framed : i <= newest
       /\ Len(sent.images) <= Budget(sent.model, sent.look)
       /\ (AdapterFor(sent.model) = "anthropic" /\ Budget(sent.model, sent.look) > 1)
            => \E oldest \in shown : \A i \in framed : oldest <= i

\* What is seen is told after the last result: the calls of this turn are followed by their
\* results, as the services want it, and no call of an earlier turn is parted from results that
\* were stored with it.
Answered(messages, i) == \A k \in 1..messages[i].calls : i + k <= Len(messages) /\ messages[i + k].role = "tool"
ResultsStayTogether ==
  turn.pc = "asked" =>
    \A i \in 1..Len(turn.messages) :
      i > turn.loaded \/ Answered(turn.messages, i) =>
        /\ i <= Len(sent.wire) /\ sent.wire[i].calls = turn.messages[i].calls
        /\ \A k \in 1..sent.wire[i].calls : i + k <= Len(sent.wire) /\ sent.wire[i + k].answers = 1

SightAsPromised == SightIsPermitted /\ ImagesTellTheStory /\ ResultsStayTogether
=============================================================================
