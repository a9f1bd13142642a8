CONSTANTS
  count = 3
  Events = {"key", "timer", "terminate"}
  MayShare = TRUE
  MayFail = TRUE
  MaxEvents = 2
SPECIFICATION Spec
INVARIANTS EndsInTime HeardAll
PROPERTIES AllNoticed
