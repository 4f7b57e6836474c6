SPECIFICATION FairSpec
CONSTANTS
  Caller = {c1}
  Configs <- EveryType
  Key = {"a", "b", "c"}
  Chats <- MCChats
  Answers <- MCAnswers
  Half = 8
  Timeout = 2
  Chunks = 3
  Buffer = 1
  Overhead = 40
  MaxCalls = 1
INVARIANTS
  TypeOK
  ConversationKept
  PricedLimitSent
  Metered
PROPERTY
  EveryCallEnds
CHECK_DEADLOCK FALSE
