SPECIFICATION Spec
CONSTANTS
  MAXINDEXRK = 2
  LFIELDS_PER_FLUSH = 2
  MAXSTACK = 250
  LUAI_MAXVARS = 200
  LUAI_MAXUPVALUES = 60
  LUAI_MAXCCALLS = 40
  STACKSIZE = 60
  MAXTAGLOOP = 4
  Collation <- MCCollation
  Programs <- MCPrograms
  Texts <- MCTexts
  LUA_MINBUFFER = 2
  DecPoint = "."
CHECK_DEADLOCK FALSE
INVARIANTS  CodeSound FramesInOrder LexesAsWritten
