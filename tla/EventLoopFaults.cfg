CONSTANTS
  ProgramName = {"p"}
  Payload <- OnePayload
  TimerId <- OneTimer
  Keys <- LetterKeys
  KeyNumber <- MCKeyNumber
  Filter <- AnyFilter
  MaxQueue = 1
  MaxBytes = 1
  StackMayFill = TRUE
  MayCollect = TRUE
  PowerReturns = TRUE
SPECIFICATION FairSpec
INVARIANTS ParamsNeverShort
PROPERTIES WaitersHear
