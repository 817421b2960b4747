---------------------------- MODULE MCCompanions ----------------------------
(***************************************************************************)
(* The parts of the process that share no state with one another, in one   *)
(* instance.  A step of one never enables or changes a step of another, so *)
(* their interleavings show nothing: `focus` chooses the part that moves,  *)
(* and the others stay as they start, on one of their initial states.      *)
(***************************************************************************)
EXTENDS VisualMemory, EyesAttention, CaptureCapability, VisualSessions, ProviderStreams,
        UtteranceSegmenter, ClapDetector, ActivationSettings, NativeVoice, ToolSources,
        RememberedFacts, BrowserSessions, CaptureThread, SightToModel, UserConnections, AppLauncher,
        Calculator, MemoryRetrieval

CONSTANT Focuses

VARIABLE focus

companionVars ==
  <<focus, memoryVars, attentionVars, capabilityVars, sessionVars, streamVars, segmenterVars, clapVars,
    activationVars, nativeVars, sourceVars, factVars, browserVars, threadVars, sightVars, connectionVars,
    launcherVars, calculatorVars, retrievalVars>>

-----------------------------------------------------------------------------
(* The constants a configuration file cannot write *)

MCLimits == {[maxSamples |-> 3, maxAge |-> 3, maxFrames |-> 2, hotMax |-> 2],
             [maxSamples |-> 3, maxAge |-> 1, maxFrames |-> 1, hotMax |-> 2]}
MCThrottle == [focus |-> 1, moved |-> 2]
MCReplies == UNION {[1..n -> {"text", "call"}] : n \in 0..3}
MCProviderOf ==
  [m \in Models |-> CASE m = "claude" -> "anthropic" [] m = "gemini_live" -> "gemini" [] OTHER -> "openai"]
MCCapsOf ==
  [m \in Models |-> [image |-> m # "gpt_text", temporal |-> TRUE, live |-> m = "gemini_live", most |-> 6]]
MCBudgetOf == [a \in Adapters |-> [low |-> 1, medium |-> IF a = "openai" THEN 3 ELSE 4]]
MCSample(s, f) == [score |-> s, framed |-> f]
MCFullLook == [detail |-> "medium", samples |-> <<MCSample(3, TRUE), MCSample(4, TRUE), MCSample(9, TRUE),
                                                  MCSample(5, FALSE), MCSample(5, TRUE), MCSample(1, TRUE)>>]
MCLooks == {MCFullLook, Stripped(MCFullLook),
            [detail |-> "low", samples |-> <<MCSample(3, TRUE), MCSample(9, TRUE)>>]}
MCSaid(role) == [role |-> role, calls |-> 0]
MCAnnounced(n) == [role |-> "assistant", calls |-> n]
\* A first message; and what the limit cut off after a call that was answered and a resumed
\* run of which one of two calls was.
MCPasts == {<<MCSaid("user")>>,
            <<MCSaid("user"), MCAnnounced(1), MCSaid("tool"), MCAnnounced(2), MCSaid("tool")>>}
MCAllowLists == {{"anthropic"}, {"openai", "gemini"}}
MCOwnerOf == CHOOSE f \in [Logins -> Emails] : \A k, l \in Logins : k # l => f[k] # f[l]
MCPlaceOf == [a \in Apps |-> IF a = "code" THEN "home" ELSE "system"]
MCScoreOf == [q \in Queries |-> [a \in Apps |-> IF q = "code" THEN IF a = "code" THEN 100 ELSE 80
                                                            ELSE IF a = "code" THEN 20 ELSE 40]]
MCShadows == [s \in Servers |-> IF s = "a" THEN {"a_b"} ELSE {}]

-----------------------------------------------------------------------------

\* The parts with several initial states rest on one of them; one window is as good as another
\* to begin with.
Init ==
  /\ focus \in Focuses
  /\ MemoryInit /\ (focus = "memory" \/ limits = CHOOSE l \in LimitChoices : TRUE)
  /\ AttentionInit /\ desktop = CHOOSE w \in Windows : TRUE
  /\ CapabilityInit
  /\ (focus = "capability" \/ <<capacity, override>> = CHOOSE x \in Capacities \X Overrides : TRUE)
  /\ StreamsInit /\ (focus = "streams" \/ (reply = <<>> /\ path = "chat" /\ vendor = CHOOSE v \in Vendors : TRUE))
  /\ NativeInit /\ (focus = "native" \/ (~toolsEnabled /\ ~gated))
  /\ ActivationInit /\ SessionsInit /\ SegmenterInit /\ ClapInit /\ SourcesInit
  /\ FactsInit /\ BrowserInit /\ ThreadInit
  /\ SightInit /\ (focus = "sight" \/ (~sight.enabled /\ sight.allowed = CHOOSE l \in AllowLists : TRUE))
  /\ ConnectionsInit /\ (focus \in {"accounts", "tabs"} \/ \A e \in Emails : account[e] = "none")
  /\ LauncherInit /\ (focus = "launcher" \/ installed = {})
  /\ CalculatorInit /\ (focus = "calculator" \/ meant = Number)
  /\ RetrievalInit

OthersRest ==
  /\ UNCHANGED focus
  /\ IF focus = "memory" THEN TRUE ELSE UNCHANGED memoryVars
  /\ IF focus = "attention" THEN TRUE ELSE UNCHANGED attentionVars
  /\ IF focus = "capability" THEN TRUE ELSE UNCHANGED capabilityVars
  /\ IF focus = "sessions" THEN TRUE ELSE UNCHANGED sessionVars
  /\ IF focus = "streams" THEN TRUE ELSE UNCHANGED streamVars
  /\ IF focus = "segmenter" THEN TRUE ELSE UNCHANGED segmenterVars
  /\ IF focus = "clap" THEN TRUE ELSE UNCHANGED clapVars
  /\ IF focus = "activation" THEN TRUE ELSE UNCHANGED activationVars
  /\ IF focus = "native" THEN TRUE ELSE UNCHANGED nativeVars
  /\ IF focus \in {"plugins", "servers"} THEN TRUE ELSE UNCHANGED sourceVars
  /\ IF focus = "facts" THEN TRUE ELSE UNCHANGED factVars
  /\ IF focus = "browser" THEN TRUE ELSE UNCHANGED browserVars
  /\ IF focus = "thread" THEN TRUE ELSE UNCHANGED threadVars
  /\ IF focus = "sight" THEN TRUE ELSE UNCHANGED sightVars
  /\ IF focus \in {"accounts", "tabs"} THEN TRUE ELSE UNCHANGED connectionVars
  /\ IF focus = "launcher" THEN TRUE ELSE UNCHANGED launcherVars
  /\ IF focus = "calculator" THEN TRUE ELSE UNCHANGED calculatorVars
  /\ IF focus = "retrieval" THEN TRUE ELSE UNCHANGED retrievalVars

Next ==
  \/ focus = "memory" /\ MemoryNext /\ OthersRest
  \/ focus = "attention" /\ AttentionNext /\ OthersRest
  \/ focus = "capability" /\ CapabilityNext /\ OthersRest
  \/ focus = "sessions" /\ SessionsNext /\ OthersRest
  \/ focus = "streams" /\ StreamsNext /\ OthersRest
  \/ focus = "segmenter" /\ SegmenterNext /\ OthersRest
  \/ focus = "clap" /\ ClapNext /\ OthersRest
  \/ focus = "activation" /\ ActivationNext /\ OthersRest
  \/ focus = "native" /\ NativeNext /\ OthersRest
  \/ focus = "plugins" /\ PluginsNext /\ OthersRest
  \/ focus = "servers" /\ ServersNext /\ OthersRest
  \/ focus = "facts" /\ FactsNext /\ OthersRest
  \/ focus = "browser" /\ BrowserNext /\ OthersRest
  \/ focus = "thread" /\ ThreadNext /\ OthersRest
  \/ focus = "sight" /\ SightNext /\ OthersRest
  \/ focus = "accounts" /\ AccountsNext /\ OthersRest
  \/ focus = "tabs" /\ TabsNext /\ OthersRest
  \/ focus = "launcher" /\ LauncherNext /\ OthersRest
  \/ focus = "calculator" /\ CalculatorNext /\ OthersRest
  \/ focus = "retrieval" /\ RetrievalNext /\ OthersRest

Spec == Init /\ [][Next]_companionVars

-----------------------------------------------------------------------------
(* Properties *)

\* Every variable of the part that moves keeps its type; what rests is on an initial state,
\* and is looked at where it moves.
CompanionsTypeOK ==
  /\ focus \in Focuses
  /\ focus = "memory" => MemoryTypeOK
  /\ focus = "attention" => AttentionTypeOK
  /\ focus = "capability" => CapabilityTypeOK
  /\ focus = "sessions" => SessionsTypeOK
  /\ focus = "streams" => StreamsTypeOK
  /\ focus = "segmenter" => SegmenterTypeOK
  /\ focus = "clap" => ClapTypeOK
  /\ focus = "activation" => ActivationTypeOK
  /\ focus = "native" => NativeTypeOK
  /\ focus \in {"plugins", "servers"} => SourcesTypeOK
  /\ focus = "facts" => FactsTypeOK
  /\ focus = "browser" => BrowserTypeOK
  /\ focus = "thread" => ThreadTypeOK
  /\ focus = "sight" => SightTypeOK
  /\ focus \in {"accounts", "tabs"} => ConnectionsTypeOK
  /\ focus = "launcher" => LauncherTypeOK
  /\ focus = "calculator" => CalculatorTypeOK
  /\ focus = "retrieval" => RetrievalTypeOK

\* What is computed step by step, from what is at hand, says what its definition over the
\* whole input says: the counters over microphone chunks, of voice activity (voice/vad.ts) and
\* of claps (activation/clapDetector.ts); the calculator's waiting operators; and the choice of
\* memories out of a pool of candidates.
AnswersByDefinition ==
  /\ focus = "segmenter" => SegmentsByDefinition
  /\ focus = "clap" => ClapsByDefinition
  /\ focus = "calculator" => CalculatesAsWritten
  /\ focus = "retrieval" => RelevantAreFound

\* The perception engine's memory (eyes/visualHistory.ts) keeps neither more bytes of frames
\* than its budget allows nor answers with anything past the time its user chose, or that of the
\* hot tier where it is longer, at every step.
MemoryStaysBounded == focus = "memory" => FramesWithinBudget /\ RetentionWindow

\* The maps that outlive a request and its awaits tell what there is: the tool registry of
\* the plugins and servers, the store of the facts remembered under a key, the browser
\* manager of what runs, the accounts and the connections of the tabs, the cache of the
\* installed applications, the activation managers of the stored settings.
RegistriesConsistent ==
  /\ focus \in {"plugins", "servers"} => ToolsBelongToTheirSource
  /\ focus = "facts" => OneFactPerKey
  /\ focus = "browser" => NothingRunsUnfindable
  /\ focus \in {"accounts", "tabs"} => ConnectionsConsistent
  /\ focus = "launcher" => OpensWhatFits
  /\ focus = "activation" => ActivationFollowsSettings
=============================================================================
