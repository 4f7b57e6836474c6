SPECIFICATION Spec
CONSTANTS
  Caller = {c1, c2}
  Configs <- PoolConfigs
  Key = {"a", "b", "c"}
  Chats <- OneChat
  Answers <- OneAnswer
  Half = 4
  Timeout = 1
  Chunks = 0
  Buffer = 1
  Overhead = 40
  MaxCalls = 10
INVARIANTS
  RotationEven
  PanicOnlyAfterWrap
CHECK_DEADLOCK FALSE
