SPECIFICATION ChannelsSpec
CONSTANTS
  Consumers = {"rest", "webui", "headless", "cli"}
  MultiLine = {2}
  Turns = 2
  MaxDeltas = 3
  Cap = 2
  Messages = {m1, m2, m3}
  Texts = {m1, m2}
  MaxFaults = 2
  Typed <- MCTyped  CommandOf <- MCCommands  LinesOf <- MCLines  CompletionsOf <- MCCompletions
  Named = {"default", "devops"}
  HistorySize = 2  MaxTyped = 3  MaxPieces = 1  MaxBreaks = 1  MaxStarts = 1
INVARIANTS TypesOK AnswerShown IdleMeansQuiet InTurn TerminalConsistent
PROPERTY NothingIsStuck
\* The user may stop sending messages.
CHECK_DEADLOCK FALSE
