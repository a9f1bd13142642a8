CONSTANTS
  coro = coro
  t1 = t1
  t2 = t2
  Thread <- Threads
  LUAI_MAXCALLS = 4
  LUAI_MAXCCALLS = 3
  LUAI_MAXCSTACK = 4
  LUA_MINSTACK = 3
  BASIC_CI_SIZE = 2
  EXTRA_STACK = 5
  Proto <- Prototypes
  MaxValues = 2
  MaxEvents = 4
  Program <- QueueingProgram
SPECIFICATION Spec
INVARIANT ParamsFit
CHECK_DEADLOCK FALSE
