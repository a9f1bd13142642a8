SPECIFICATION LibSpec
CONSTANTS
  Keys <- MCKeys
  Values = {1}
  Nil = Nil
  Sizes = {0, 3}
  MaxInt = 3
  Jobs <- MCJobs
  LUAL_BUFFERSIZE = 1
  LIMIT = 3
  LUA_MAXCAPTURES = 2
  MaxLoops = 40
CHECK_DEADLOCK FALSE
INVARIANTS TableSound TraversalComplete PatternsAsMeant BufferStackBounded ListsAsMeant
