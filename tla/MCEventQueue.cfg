CONSTANTS
  Trade <- OneTrade
  AllocLen = 3
  Limit = {0, 2, 4}
  MaxEvents = 5
  BaseMultiplier = 1
  QuoteMultiplier = 10
SPECIFICATION QueueSpec
INVARIANTS QueueTypeOK AnswerIsLatest FillsShowTrades
PROPERTY PendingIsFifo
CHECK_DEADLOCK FALSE
