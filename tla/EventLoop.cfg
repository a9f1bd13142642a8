CONSTANTS
  ProgramName = {"p"}
  Payload <- OnePayload
  TimerId <- TwoTimers
  Keys <- ManyKeys
  KeyNumber <- MCKeyNumber
  Filter <- AnyFilter
  MaxQueue = 2
  MaxBytes = 3
  StackMayFill = FALSE
  MayCollect = FALSE
  PowerReturns = FALSE
SPECIFICATION Spec
INVARIANTS TypeOK ParamsAligned
PROPERTIES ServiceSpec KeysDecoded
