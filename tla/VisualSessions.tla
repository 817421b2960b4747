--------------------------- MODULE VisualSessions ---------------------------
(***************************************************************************)
(* Live visual sessions of one user: RealtimeVisualSessionManager and its  *)
(* paced feeds (transport/realtimeVisualTransport.ts), the Gemini sink     *)
(* they write to, and eyesService, whose hook subscribes a feed to the     *)
(* running engine's stream.                                                *)
(*                                                                         *)
(* A feed and its sink have one name.  A sample is the time it was         *)
(* captured at; a sample without pixels is dropped at once and left out.   *)
(***************************************************************************)
EXTENDS Integers, FiniteSets

CONSTANTS
  Keys,      \* a user's session keys: one per provider and model
  Turns,     \* chat turns that may want a session
  Sinks, NoSink,
  Interval,  \* negotiated
  MaxEngines, MaxMoment  \* bounds

ASSUME SessionsAssumption ==
  NoSink \notin Sinks /\ {Interval, MaxEngines, MaxMoment} \subseteq Nat \ {0}

VARIABLES
  sinks,      \* "unused", "connecting", "open", "closed"
  keyOf,      \* the key a sink was made for
  opening,    \* turn -> the sink its ensureSession awaits
  session,    \* sessions of the manager
  failedKeys,
  engine,     \* "none", "running", "stopping" (eyesService.stop awaits it)
  engines,    \* started so far
  streams,    \* streamUnsubscribeByKey: key -> the subscription it ends
  listeners,  \* subscriptions of the engine's stream
  inFlight, pending, lastSentAt,  \* of each feed
  moment

feedVars == <<inFlight, pending, lastSentAt>>
sessionVars == <<sinks, keyOf, opening, session, failedKeys, engine, engines, streams, listeners,
                 feedVars, moment>>

NotYet == -100

SessionsTypeOK ==
  /\ sinks \in [Sinks -> {"unused", "connecting", "open", "closed"}] /\ keyOf \in [Sinks -> Keys]
  /\ opening \in [Turns -> Sinks \union {NoSink}]
  /\ {session, streams} \subseteq [Keys -> Sinks \union {NoSink}] /\ failedKeys \subseteq Keys
  /\ engine \in {"none", "running", "stopping"} /\ engines \in 0..MaxEngines
  /\ listeners \subseteq Sinks /\ inFlight \in [Sinks -> BOOLEAN]
  /\ {pending, lastSentAt} \subseteq [Sinks -> {NotYet} \union 0..MaxMoment]
  /\ moment \in 0..MaxMoment

SessionsInit ==
  /\ sinks = [s \in Sinks |-> "unused"] /\ keyOf \in [Sinks -> Keys]
  /\ opening = [t \in Turns |-> NoSink] /\ session = [k \in Keys |-> NoSink] /\ failedKeys = {}
  /\ engine = "none" /\ engines = 0
  /\ streams = [k \in Keys |-> NoSink] /\ listeners = {}
  /\ inFlight = [s \in Sinks |-> FALSE] /\ pending = [s \in Sinks |-> NotYet]
  /\ lastSentAt = [s \in Sinks |-> NotYet] /\ moment = 0

IsOpen(s) == s # NoSink /\ sinks[s] = "open"

-----------------------------------------------------------------------------
(* The session manager *)

\* ensureSession finds no open session and has the factory's sink connect.
Connect(t, k) ==
  /\ opening[t] = NoSink /\ engine = "running"  \* resolveVisualAccess let the turn look
  /\ ~IsOpen(session[k])
  /\ session' = [session EXCEPT ![k] = NoSink]
  /\ k \notin failedKeys
  /\ \E s \in Sinks :
       /\ sinks[s] = "unused" /\ keyOf[s] = k
       /\ sinks' = [sinks EXCEPT ![s] = "connecting"] /\ opening' = [opening EXCEPT ![t] = s]
  /\ UNCHANGED <<keyOf, failedKeys, engine, engines, streams, listeners, feedVars, moment>>

Attach_BesideTheOld(k, s) ==
  IF engine = "none" THEN UNCHANGED <<streams, listeners>>
  ELSE streams' = [streams EXCEPT ![k] = s] /\ listeners' = listeners \union {s}

\* The hook of eyesService: a newer session's feed takes the place of the key's older one.
Attach(k, s) ==
  IF engine = "none" THEN UNCHANGED <<streams, listeners>>
  ELSE /\ streams' = [streams EXCEPT ![k] = s]
       /\ listeners' = (listeners \ {streams[k]}) \union {s}

\* setupComplete arrives; ensureSession goes on, whoever registered a session meanwhile.
Opens(t) ==
  LET s == opening[t] IN
  /\ s # NoSink
  /\ sinks' = [sinks EXCEPT ![s] = "open"]
  /\ session' = [session EXCEPT ![keyOf[s]] = s]
  /\ Attach(keyOf[s], s)
  /\ opening' = [opening EXCEPT ![t] = NoSink]
  /\ UNCHANGED <<keyOf, failedKeys, engine, engines, feedVars, moment>>

\* An error or the setup timeout: the key is not tried again.
OpenFails(t) ==
  LET s == opening[t] IN
  /\ s # NoSink
  /\ sinks' = [sinks EXCEPT ![s] = "closed"]
  /\ failedKeys' = failedKeys \union {keyOf[s]}
  /\ opening' = [opening EXCEPT ![t] = NoSink]
  /\ UNCHANGED <<keyOf, session, engine, engines, streams, listeners, feedVars, moment>>

\* The service closes an open socket.
Hangup(s) ==
  /\ sinks[s] = "open" /\ sinks' = [sinks EXCEPT ![s] = "closed"]
  /\ UNCHANGED <<keyOf, opening, session, failedKeys, engine, engines, streams, listeners, feedVars, moment>>

\* closeAll, when the server stops: the registered sessions, and no other sink.
CloseAll ==
  /\ engine = "none" /\ \E k \in Keys : session[k] # NoSink \/ k \in failedKeys
  /\ LET mine == {session[k] : k \in Keys} IN
     /\ sinks' = [s \in Sinks |-> IF s \in mine THEN "closed" ELSE sinks[s]]
     /\ pending' = [s \in Sinks |-> IF s \in mine THEN NotYet ELSE pending[s]]
  /\ session' = [k \in Keys |-> NoSink] /\ failedKeys' = {}
  /\ UNCHANGED <<keyOf, opening, engine, engines, streams, listeners, inFlight, lastSentAt, moment>>

-----------------------------------------------------------------------------
(* eyesService *)

EngineStarts ==
  /\ engine = "none" /\ engines < MaxEngines
  /\ engine' = "running" /\ engines' = engines + 1
  /\ UNCHANGED <<sinks, keyOf, opening, session, failedKeys, streams, listeners, feedVars, moment>>

StopBegins ==
  /\ engine = "running" /\ engine' = "stopping"
  /\ UNCHANGED <<sinks, keyOf, opening, session, failedKeys, engines, streams, listeners, feedVars, moment>>

\* engine.stop drops its listeners, eyesService.stop the engine and the subscriptions.
StopEnds ==
  /\ engine = "stopping" /\ engine' = "none"
  /\ listeners' = {} /\ streams' = [k \in Keys |-> NoSink]
  /\ UNCHANGED <<sinks, keyOf, opening, session, failedKeys, engines, feedVars, moment>>

-----------------------------------------------------------------------------
(* PacedRealtimeVisualFeed *)

Sparse(s, at) == lastSentAt[s] = NotYet \/ at - lastSentAt[s] >= Interval

Offers_AnyTime(at) == {s \in listeners : IsOpen(s)}

\* The feeds that do not drop a frame at once.
Offers(at) == {s \in listeners : IsOpen(s) /\ Sparse(s, at)}

\* publish: every subscribed feed is offered a frame with pixels, captured a moment ago.
FramePublished ==
  /\ engine # "none"
  /\ \E at \in {moment, moment - 1} \intersect 0..MaxMoment :
       LET taken == {s \in Offers(at) : ~inFlight[s]} IN
       /\ Offers(at) # {}
       /\ inFlight' = [s \in Sinks |-> inFlight[s] \/ s \in taken]
       /\ lastSentAt' = [s \in Sinks |-> IF s \in taken THEN at ELSE lastSentAt[s]]
       /\ pending' = [s \in Sinks |-> IF s \in Offers(at) \ taken THEN at ELSE pending[s]]
  /\ UNCHANGED <<sinks, keyOf, opening, session, failedKeys, engine, engines, streams, listeners, moment>>

\* The finally of dispatch: the newest frame that waited goes next if its turn has come.
SendEnds(s) ==
  /\ inFlight[s]
  /\ LET next == IF pending[s] # NotYet /\ IsOpen(s) /\ moment >= lastSentAt[s] + Interval
                 THEN pending[s] ELSE NotYet
     IN  /\ inFlight' = [inFlight EXCEPT ![s] = next # NotYet]
         /\ lastSentAt' = IF next = NotYet THEN lastSentAt ELSE [lastSentAt EXCEPT ![s] = next]
  /\ pending' = [pending EXCEPT ![s] = NotYet]
  /\ UNCHANGED <<sinks, keyOf, opening, session, failedKeys, engine, engines, streams, listeners, moment>>

MomentPasses ==
  /\ moment < MaxMoment /\ moment' = moment + 1
  /\ UNCHANGED <<sinks, keyOf, opening, session, failedKeys, engine, engines, streams, listeners, feedVars>>

SessionsNext ==
  \/ \E t \in Turns : (\E k \in Keys : Connect(t, k)) \/ Opens(t) \/ OpenFails(t)
  \/ \E s \in Sinks : Hangup(s) \/ SendEnds(s)
  \/ CloseAll \/ EngineStarts \/ StopBegins \/ StopEnds \/ FramePublished \/ MomentPasses

SessionsSpec == SessionsInit /\ [][SessionsNext]_sessionVars

-----------------------------------------------------------------------------
(* Properties *)

\* "at most one live visual session per (user, provider, model)": turns that open one
\* each leave several sinks open, but only the registered one is fed, and none without
\* an engine.
OneLivePath ==
  /\ \A s \in listeners : engine # "none" /\ (IsOpen(s) => session[keyOf[s]] = s)
  /\ \A s, r \in listeners : keyOf[s] = keyOf[r] => s = r

\* The negotiated rate is kept in capture time, whatever waited behind a slow send or
\* came late: a model is never shown two frames nearer than that, nor an older one.
PacedSends ==
  [][\A s \in Sinks : lastSentAt'[s] = lastSentAt[s] \/ lastSentAt[s] = NotYet
                      \/ lastSentAt'[s] - lastSentAt[s] >= Interval]_sessionVars
=============================================================================
