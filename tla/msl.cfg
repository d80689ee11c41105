CONSTANTS
  Thread = {t1, t2}
  InterpreterId = {0, 1, 3}
  Module = {m1}
  Addr = {a1, a2}
  NULL = NULL
  SMALL_SIZE = 1
  AllocMayFail = TRUE
SPECIFICATION FairSpec
INVARIANT NoReaderDuringMutation ReadersPointLive RegisteredFound
PROPERTY ImplementsMap MutexReleased
