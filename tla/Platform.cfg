SPECIFICATION MCSpec
CONSTANTS
  None = None
  c1 = c1
  c2 = c2
  Calls = {c1, c2}
  t1 = t1
  t2 = t2
  Tenants = {t1}

  x = x
  y = y
  search = search
  fetch = fetch
  read = read
  ToolNames = {search, fetch, read}
  BadToolNames = {unnamed}
  unnamed = unnamed
  BadParamNames = {}
  Values <- MCValues
  ParamLists <- MCParamLists
  Arguments <- MCArguments
  SandboxModes = {"process", "restricted", "docker"}
  MaxTools = 2
  ToolLimit = 3
  LitterLimit = 1

  Greeting = Greeting
  greeting = greeting
  blank = blank
  who = who
  why = why
  PromptNames = {Greeting, greeting, blank}
  Lower <- MCLower
  VariableLists <- MCVariableLists
  MaxVersions = 3
  TemplateLimit = 2
  ContentLimit = 5

  BadToken = BadToken
  Regions = {"east", "west"}
  Hashed = {"west"}
  Untenanted = Untenanted
  s1 = s1
  s2 = s2
  Slugs = {s1, s2}
  Paths = {"public", "login", "open", "scoped"}
  TierLimits <- MCTierLimits
  DefaultLimit = 4
  TicksPerMinute = 2
  WorkLimit = 6
  ClockLimit = 1

  Clients = {c1, c2}
  EventTenants = {t1, t2}
  TopicCount = 1
  EventLimit = 2

  SocketTenants = {s1, s2}
  Addresses = {1, 2}
  Topics = {"agents"}
  SerialLimit = 2
  BroadcastLimit = 1
  MoveLimit = 1

  p1 = p1
  Policies = {p1}
  Gone = Gone
  Fragments <- MCFragments
  Contents <- MCContents
  Kind <- MCKind
  RuleChoices <- MCRules
  MaxLength = 3
  DefaultAction = "warn"
  LogLimit = 2
  CheckLimit = 3
  RuleLimit = 2

  Names = {"openai", "anthropic", "claude", "local"}
  Default = "openai"
  Fallbacks <- MCFallbacks
  StreamLimit = 1

  TextLists <- MCTextLists
  ChunkSize = 3
  Overlap = 1
  TopK = 1
  ChunkLimit = 3
INVARIANTS
  ToolsHold
  GatewayHolds
  SentOnce
  BroadcastsReach
  GuardsHold
  LLMAnswers
PROPERTIES
  PromptsHold
  TextsHold
SYMMETRY Symmetric
CHECK_DEADLOCK FALSE
