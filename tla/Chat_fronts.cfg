SPECIFICATION FairSpec
CONSTANTS
  N = 3
  HistoryMax = 4
  SessionCap = 1
  MaxRestarts = 1
  ChatOf <- MCChatOf
  LinesOf <- MCLinesOf
CHECK_DEADLOCK FALSE
INVARIANTS
  TypeOK
  Delivery
  LastWordCounts
  EndIsShown
  AbortReachesTheRun
PROPERTIES
  ConversationsKept
  MessagesSettle
