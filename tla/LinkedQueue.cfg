CONSTANTS
  Cell = {c1, c2, c3}
  Value = {a, b, NULL}
  NULL = NULL
SPECIFICATION Spec
INVARIANTS ListOK NoDangling ObserversAgree
PROPERTIES FifoSpec
