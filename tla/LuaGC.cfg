SPECIFICATION Spec
CONSTANTS
  Obj <- MCObj
  Kind <- MCKind
  Mode <- MCMode
  HasGC <- MCHasGC
  Main = "m"
  Casts <- MCCasts
  Slots = {i1, i2}
  None = None
SYMMETRY Symmetry
CHECK_DEADLOCK FALSE
INVARIANTS CollectorSafe GarbageFreed
PROPERTIES FinalizersOnce
