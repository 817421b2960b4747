SPECIFICATION Spec
CONSTANTS
  Focuses = {"memory", "attention", "capability", "sessions", "streams", "segmenter", "clap",
             "activation", "native", "plugins", "servers", "facts", "browser", "thread",
             "sight", "accounts", "tabs", "launcher", "calculator", "retrieval"}

  Scores = {2, 7}
  LimitChoices <- MCLimits
  HotAge = 2
  WarmBucket = 2
  WarmFloor = 6
  KeyframeFloor = 7
  MaxFrameBytes = 3
  FrameSizes = {2}
  MaterializeEvery = 2
  MaxLag = 1
  MaxRecorded = 4
  MaxTime = 3

  Windows = {w1, w2}
  NoWindow = none
  EventTypes = {"focus", "moved"}
  FocusChanged = "focus"
  ThrottleOf <- MCThrottle
  MaxChanges = 3
  MaxInstant = 1

  Capacities = {24, 200, 500, 1000}
  SlowRates = {120}
  Overrides = {0, 100}
  RestartCosts = {0, 30}
  MinRate = 10
  MaxRate = 600
  StartRate = 300
  WindowsBeforeRaise = 3
  MaxWindows = 10

  Keys = {k1}
  Turns = {t1, t2}
  Sinks = {s1, s2}
  NoSink = none
  Interval = 2
  MaxEngines = 2
  MaxMoment = 3

  Vendors = {"anthropic", "openai", "gemini"}
  Replies <- MCReplies
  MaxAttempts = 3

  Energies = {100, 300, 900}
  FirstFloor = 200
  StartFrames = 3
  SilenceFrames = 3
  MinFrames = 2
  MaxHeard = 8

  ChunkSizes = {1, 3}
  Required = 2
  MinGap = 1
  PatternWindow = 4
  Cooldown = 5
  MaxClapTime = 10

  Modes = {"push_to_talk", "clap", "disabled"}
  Rest = {1}
  Patches = {p1, p2}
  Sockets = {k1}
  Voices = {v1}
  MaxBegun = 5

  Calls = {c1, c2}
  NoCall = none
  MaxWire = 1

  Builtins = {"clock"}
  Plugins = {p1, p2}
  PluginTools = {"clock", "note"}
  Servers = {"a", "a_b"}
  ServerTools = {t1, t2}
  Shadows <- MCShadows
  MaxClients = 3

  FactKeys = {k1}
  Facts = {"x", "y"}
  Items = {i1, i2, i3}
  NoItem = none
  Rememberers = {r1, r2}

  Pages = {p1, p2}
  Contexts = {c1, c2, c3}
  NoContext = none
  NoPage = none
  Users = {u1, u2}
  IdleLimit = 0
  MaxBrowsers = 2
  MaxBrowserTime = 1

  Threads = {w1, w2}
  NoThread = none
  MaxRebuilds = 1

  Models = {"claude", "gpt", "gpt_text", "gemini_live"}
  ProviderOf <- MCProviderOf
  CapsOf <- MCCapsOf
  Adapters = {"anthropic", "openai", "gemini"}
  BudgetOf <- MCBudgetOf
  Looks <- MCLooks
  NoLook = none
  Pasts <- MCPasts
  AllowLists <- MCAllowLists
  MaxBatchOfCalls = 2
  MaxAsks = 2
  MaxPatches = 1

  Emails = {u1, u2}
  Requests = {r1, r2}
  Logins = {s1, s2}
  Tabs = {t1, t2}
  NoEmail = none
  NoLogin = none
  OwnerOf <- MCOwnerOf
  MaxEvents = 1

  Apps = {"code", "studio"}
  NoApp = none
  PlaceOf <- MCPlaceOf
  Platforms = {"windows"}
  Queries = {"code", "edit"}
  ScoreOf <- MCScoreOf
  Askers = {c1, c2}
  CacheTtl = 1
  MaxLaunchTime = 2

  Operators = {"+", "-", "*", "^"}
  LooseTokens = {"n", "-", "+", "(", ")"}
  MaxLoose = 4

  Memos = {k1, k2, k3}
  Topics = {"tea"}
  Weights = {1, 4}
  Pool = 2
  Most = 1
  MaxFortnights = 1
INVARIANTS
  CompanionsTypeOK
  MemoryStaysBounded
  ContextShowsTheChange
  ForegroundFollows
  EstimateIsHonest
  OneLivePath
  AnswersByDefinition
  CallsAnsweredOnce
  CallsArriveWhole
  CaptureTellsItself
  SightAsPromised
  RegistriesConsistent
PROPERTY PacedSends
CHECK_DEADLOCK FALSE
