SPECIFICATION ToolsSpec
CONSTANTS
  Tools <- MCTools
  ReadOnly <- MCReads
  World <- MCWorld
  Replies <- MCReplies
  Effect <- MCEffect
  Reply <- MCReply
  MaxCalls = 4
  MaxToolIter = 2
  MaxRetries = 1
  Made = {0, 1}
  Indexes = {0, 1, 2}
  MaxDeltas = 1
INVARIANTS TypesOK SameAsSequential ToolProtocol EachCallOnce
PROPERTY BothEnd
\* The completion and the executor return.
CHECK_DEADLOCK FALSE
