CONSTANTS
  Thread = {t1, t2}
  t1 = t1
  Code = {c1, c2, c3, c4}
  Line <- MCLines
  Chunk = 1
  MIN <- MCMIN
  None = None
SPECIFICATION SpecOfT1
INVARIANT NoReadDuringWrite CodeRefsExact TableSorted
PROPERTY WaitFreeT1
