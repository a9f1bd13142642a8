CONSTANTS
  num_blocks = 3
  Content = {"a", "b"}
  Garbage = "garbage"
  MaxCount = 2
  MaxRequests = 3
SPECIFICATION Spec
INVARIANTS DriverInOrder
PROPERTIES Answered
