CONSTANTS
  Thread = {t1}
  InterpreterId = {0, 2}
  Module = {m1}
  Addr = {a1, a2}
  NULL = NULL
  SMALL_SIZE = 2
  AllocMayFail = FALSE
SPECIFICATION Spec
INVARIANT UnregisteredNotFound
