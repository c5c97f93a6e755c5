SPECIFICATION WorkspaceSpec
CONSTANTS
  p1 = p1  p2 = p2
  blank = blank  filled = filled
  Absent = Absent
  None = None
  Torn = Torn
  Missing = Missing
  Unread = Unread
  Paths <- TwoPaths
  Contents <- Holds
  Empty = blank
  Copy <- OneName
  MaxHistory = 1
  HistoryMax = 2
  MaxChanges = 3
  MaxTime = 1
  MaxRestarts = 1
  Targets = {"f", "g"}  Drafts = {"x", "y"}  MaxStaged = 2  MaxOutside = 1
  GitCallers = {"c1", "c2"}  GitFiles = {"f", "g"}
  Words = {"a", "b"}  Texts <- SomeTexts
  Branches = {"main", "b"}  Main = "main"  Tags = {"t"}  Theirs <- SomeoneElse
  MaxCommits = 4  MaxStash = 1  MaxCalls = 4
  HookOrder <- TwoHooks  OwnHooks = {"a", "b", "says Polypod"}  MentionHooks = {"says Polypod"}
  NoHook = "no hook"  MaxWrites = 3  MaxCommands = 3
  Searches = {"k1", "k2"}  Results = {"a", "b"}  MaxSize = 1  Lifetime = 0  Given = {1}
  MaxClock = 1  MaxReloads = 1  MaxUnsaved = 1
  Topics = {"t1", "t2"}  Notes = {"a", "b"}  Facts = {"f", "g", "h"}  Similar <- SimilarFacts
  MaxFacts = 2  PerSession = 2  MaxInject = 1  MaxUpdates = 4  MaxCrashes = 2
  Requests = {"r1", "r2"}  Users = {"u1", "u2"}  Limit <- Limits  Tokens = {1, 3}  Costs = {1}  Listens = TRUE
  DaysPerMonth = 2  MaxDays = 2  MaxRecords = 3  MaxEnds = 1
  Writers = {"w1", "w2"}  Sessions = {"s1", "s2"}  PreserveRecent = 1
  MaxTokens = 4  MaxMessages = 7  MaxSaves = 4
  r1 = "r1"  u1 = "u1"  w1 = "w1"  s1 = "s1"
INVARIANTS TypesOK CopiesAreFaithful UndoLeadsBack StoresHold
PROPERTY NoWorkIsLost
\* Nothing has to happen to the files.
CHECK_DEADLOCK FALSE
