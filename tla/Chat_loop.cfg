SPECIFICATION Spec
CONSTANTS
  N = 3
  HistoryMax = 2
  SessionCap = 1
  MaxRestarts = 1
  ChatOf <- MCChatOf
  LinesOf <- MCLinesOf
CHECK_DEADLOCK FALSE
INVARIANTS LoopSurvives
