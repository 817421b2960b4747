-------------------------- MODULE ActivationSettings --------------------------
(***************************************************************************)
(* How one user's activation mode reaches the microphone: the settings row *)
(* (settings/userSettingsService.ts), the configuration in memory          *)
(* (activation/activationManager.ts), the sockets that load it             *)
(* (api/routes/realtimeRoute.ts, realtimeVoiceRoute.ts) and the gates of   *)
(* voice connections (voice/activationGate.ts).                            *)
(*                                                                         *)
(* The row is the mode and the rest, one value for every other setting.    *)
(***************************************************************************)
EXTENDS Integers

CONSTANTS
  Modes,       \* with "push_to_talk" and "disabled", the others have a trigger
  Rest,        \* values of the other settings
  Patches,     \* PATCH requests that may run at once
  Sockets,     \* /ws connections that may load the settings at once
  Voices,      \* voice connections
  MaxBegun     \* bound on requests and connections

ASSUME ActivationAssumption ==
  {"push_to_talk", "disabled"} \subseteq Modes /\ "none" \notin Modes /\ MaxBegun \in Nat

VARIABLES
  stored,     \* the row: [mode, rest]
  live,       \* activationManager's mode
  hydrated,
  patch,      \* request -> [phase, of, row]
  loading,    \* /ws connection -> the mode it read before hydrating, or "none"
  gates,      \* voice connection -> [phase, seen, mode, open, fresh], fresh a ghost: of the mode stored now
  begun,
  raced       \* ghost: a mode read before a change was used after it

activationVars == <<stored, live, hydrated, patch, loading, gates, begun, raced>>

IdlePatch == [phase |-> "idle", of |-> "none", row |-> [mode |-> "push_to_talk", rest |-> 0]]
NoGate == [phase |-> "off", seen |-> "none", mode |-> "none", open |-> FALSE, fresh |-> FALSE]

ActivationTypeOK ==
  LET Row == [mode : Modes, rest : Rest \union {0}] IN
  /\ stored \in Row /\ live \in Modes /\ {hydrated, raced} \subseteq BOOLEAN
  /\ patch \in [Patches -> [phase : {"idle", "read", "written"}, of : {"none", "mode", "rest"},
                            row : Row]]
  /\ loading \in [Sockets -> Modes \union {"none"}]
  /\ gates \in [Voices -> [phase : {"off", "reading", "on"}, seen : Modes \union {"none"},
                           mode : Modes \union {"none"}, open : BOOLEAN, fresh : BOOLEAN]]
  /\ begun \in 0..MaxBegun

ActivationInit ==
  /\ stored = [mode |-> "push_to_talk", rest |-> 0] /\ live = "push_to_talk" /\ hydrated = FALSE
  /\ patch = [p \in Patches |-> IdlePatch] /\ loading = [s \in Sockets |-> "none"]
  /\ gates = [v \in Voices |-> NoGate] /\ begun = 0 /\ raced = FALSE

Busy ==
  \/ \E p \in Patches : patch[p].phase # "idle"
  \/ \E s \in Sockets : loading[s] # "none"
  \/ \E v \in Voices : gates[v].phase = "reading"

Begin == begun < MaxBegun /\ begun' = begun + 1

Hydrate(mode) == live' = mode /\ hydrated' = TRUE

-----------------------------------------------------------------------------
(* PATCH /settings/... : updateUserSettings *)

\* getUserSettings, and the merge with what is asked for.
PatchReads(p) ==
  /\ patch[p].phase = "idle" /\ Begin
  /\ \E merged \in [of : {"mode"}, row : {[stored EXCEPT !.mode = m] : m \in Modes}]
                   \union [of : {"rest"}, row : {[stored EXCEPT !.rest = x] : x \in Rest}] :
       patch' = [patch EXCEPT ![p] = [phase |-> "read", of |-> merged.of, row |-> merged.row]]
  /\ UNCHANGED <<stored, live, hydrated, loading, gates, raced>>

\* upsert: the whole row, the settings that were not asked for as they were read.
PatchWrites(p) ==
  /\ patch[p].phase = "read"
  /\ stored' = patch[p].row
  /\ patch' = [patch EXCEPT ![p].phase = "written"]
  /\ gates' = [v \in Voices |-> [gates[v] EXCEPT !.fresh = @ /\ stored.mode = patch[p].row.mode]]
  /\ raced' = (raced \/ (patch[p].of = "rest" /\ patch[p].row.mode # stored.mode))
  /\ UNCHANGED <<live, hydrated, loading, begun>>

\* Nobody wrote the row after this request did.
Settles(p) == patch[p].of = "mode" /\ patch[p].row.mode = stored.mode

PatchAnswers_WhenLoaded(p) ==
  /\ patch[p].phase = "written" /\ patch' = [patch EXCEPT ![p] = IdlePatch]
  /\ IF patch[p].of = "mode" /\ ~hydrated THEN Hydrate(patch[p].row.mode)
     ELSE UNCHANGED <<live, hydrated>>
  /\ raced' = (~Settles(p) /\ (raced \/ patch[p].of = "mode"))
  /\ UNCHANGED <<stored, loading, gates, begun>>

\* The activation route hands the row to the activation manager.
PatchAnswers(p) ==
  /\ patch[p].phase = "written" /\ patch' = [patch EXCEPT ![p] = IdlePatch]
  /\ IF patch[p].of = "mode" THEN Hydrate(patch[p].row.mode) ELSE UNCHANGED <<live, hydrated>>
  /\ raced' = (~Settles(p) /\ (raced \/ patch[p].of = "mode"))
  /\ UNCHANGED <<stored, loading, gates, begun>>

-----------------------------------------------------------------------------
(* Connections *)

\* /ws: isHydrated is asked before the settings are read.
SocketLoads(s) ==
  /\ ~hydrated /\ loading[s] = "none" /\ Begin
  /\ loading' = [loading EXCEPT ![s] = stored.mode]
  /\ UNCHANGED <<stored, live, hydrated, patch, gates, raced>>

\* And not again after: hydrate takes what was read.
SocketHydrates(s) ==
  /\ loading[s] # "none" /\ Hydrate(loading[s])
  /\ loading' = [loading EXCEPT ![s] = "none"] /\ raced' = (raced \/ loading[s] # stored.mode)
  /\ UNCHANGED <<stored, patch, gates, begun>>

VoiceReads(v) ==
  /\ gates[v].phase = "off" /\ Begin
  /\ gates' = [gates EXCEPT ![v] = [NoGate EXCEPT !.phase = "reading", !.seen = stored.mode]]
  /\ UNCHANGED <<stored, live, hydrated, patch, loading, raced>>

\* The voice route asks after its read, and makes the gate of the live mode.
VoiceConnects(v) ==
  /\ gates[v].phase = "reading"
  /\ IF hydrated THEN UNCHANGED <<live, hydrated>> ELSE Hydrate(gates[v].seen)
  /\ raced' = (raced \/ (~hydrated /\ gates[v].seen # stored.mode))
  /\ gates' = [gates EXCEPT ![v] = [phase |-> "on", seen |-> "none", mode |-> live',
                                    open |-> live' = "push_to_talk",
                                    fresh |-> ~raced' /\ \A p \in Patches : patch[p].phase # "written"]]
  /\ UNCHANGED <<stored, patch, loading, begun>>

\* A clap or the wake word, on any socket of the user: emitActivation, then trigger on
\* every voice connection.
Activates ==
  /\ live \notin {"push_to_talk", "disabled"}
  /\ \E v \in Voices : gates[v].phase = "on"
  /\ gates' = [v \in Voices |-> IF gates[v].phase = "on"
                                THEN [gates[v] EXCEPT !.open = TRUE, !.fresh = @ /\ ~raced]
                                ELSE gates[v]]
  /\ UNCHANGED <<stored, live, hydrated, patch, loading, begun, raced>>

\* onTurnComplete, at each change to "listening".
TurnCompletes(v) ==
  /\ gates[v].open /\ gates[v].mode # "push_to_talk"
  /\ gates' = [gates EXCEPT ![v].open = FALSE]
  /\ UNCHANGED <<stored, live, hydrated, patch, loading, begun, raced>>

VoiceLeaves(v) ==
  /\ gates[v].phase = "on" /\ gates' = [gates EXCEPT ![v] = NoGate]
  /\ UNCHANGED <<stored, live, hydrated, patch, loading, begun, raced>>

\* The process stops and comes back: the row is all that stays.
ProcessRestarts ==
  /\ hydrated /\ begun < MaxBegun /\ begun' = begun + 1
  /\ live' = "push_to_talk" /\ hydrated' = FALSE /\ raced' = FALSE
  /\ patch' = [p \in Patches |-> IdlePatch] /\ loading' = [s \in Sockets |-> "none"]
  /\ gates' = [v \in Voices |-> NoGate] /\ UNCHANGED stored

ActivationNext ==
  \/ \E p \in Patches : PatchReads(p) \/ PatchWrites(p) \/ PatchAnswers(p)
  \/ \E s \in Sockets : SocketLoads(s) \/ SocketHydrates(s)
  \/ \E v \in Voices : VoiceReads(v) \/ VoiceConnects(v) \/ TurnCompletes(v) \/ VoiceLeaves(v)
  \/ Activates \/ ProcessRestarts

ActivationSpec == ActivationInit /\ [][ActivationNext]_activationVars

-----------------------------------------------------------------------------
(* Properties *)

\* "Push the change into the live in-memory activation manager immediately": once nothing
\* is under way the mode in force is the stored one, and so is that of the gates made
\* since it was stored; a gate made under "disabled" stays shut.  A mode read before a
\* change and used after it excuses this until the next PATCH of the mode, and for good
\* the gates that were opened meanwhile.
ActivationFollowsSettings ==
  hydrated /\ ~Busy =>
    /\ ~raced => live = stored.mode
    /\ \A v \in Voices : gates[v].phase = "on" /\ gates[v].fresh =>
         gates[v].mode = stored.mode /\ (stored.mode = "disabled" => ~gates[v].open)
=============================================================================
