CONSTANTS
  Nodes = {"a", "b", "s"}
  Servers = {"b", "s"}
  Ids = {1}
  MaxCalls = 2
  MaxOther = 1
SPECIFICATION RpcSpec
INVARIANTS AnswerOwn
PROPERTIES CallReturns
CHECK_DEADLOCK FALSE
