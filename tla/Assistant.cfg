SPECIFICATION AssistantSpec
CONSTANTS
  Callers = {c1, c2}
  Names = {"read", "git", "mine", "p_run", "m_tool"}
  Early = {"read"}
  Late = {"git"}
  CustomNames = {"git", "mine"}
  Versions = {1, 2}
  Plugins = {p1}
  SkillOf <- SkillOfPlugin
  Servers = {"srv"}
  ToolOf <- ToolOfServer
  AutoStart = {"srv"}
  None = None
  Torn = Torn
  Missing = Missing
  AgentFiles <- AgentOrder
  Personas = {"p", "q"}
  AgentSkills = {"read_file", "web"}
  Core = {"read_file"}
  MaxChanges = 2
  MaxCrashes = 1
  NoFile = NoFile
  NoMode = NoMode
  Tools = {"git_push", "run_command"}
  Patterns <- SomePatterns
  UserFiles <- SomeUserFiles
  ProjectFiles <- SomeProjectFiles
  PlanBlocked <- CommandsBlocked
  Hooks = {"h1", "h2"}
  Asking = {"call"}
  MaxHooks = 2
  MaxSettings = 3
  ProviderKeys = {"good", "bad"}
  NoKey = "none"
  Accepted = {"good"}
  Channels = {"cli", "rest", "web"}
  MaxStarts = 2
  MaxEdits = 1
  Requests = {"r1", "r2", "r3"}
  Speakers = {"default", "devops", "writer"}
  Registered = {"x", "z"}
  SkillsOf <- SkillsOfAgent
  Default = "default"
  MessageChannels = {"telegram", "rest", "cli"}
  Users = {"u", "v"}
  AllowedUsers <- Listed
  RestKeys = {"k"}
  MaxSwitches = 2
  BuiltIn = {"datetime"}
  MaxLines = 3
  Services = {"p1", "p2"}
  Ingests = {"i"}
  Ingested = {"f"}
  Texts = {"t1", "t2"}
  Paragraphs <- ParagraphsOf
  Vector <- VectorOf
  Queries <- Questions
  Sizes = {5, 12}
  Overlap = 2
  TopK = 2
  Migrations = 2
  Documents = 2
  MaxRuns = 3
  MaxRewrites = 1
  MaxOps = 2
  MaxSessions = 2
  MaxStops = 1
INVARIANTS TypesOK FilesAreObeyed DenialsHold StartsAndEnds AnswersFit KnowledgeIsWhole
PROPERTY CallsAreSound
\* Each part ends where its bounds are reached.
CHECK_DEADLOCK FALSE
