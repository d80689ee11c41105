CONSTANTS
  Slice = {s1, s2, s3, s4}
  Holder = {h1, h2, h3}
  creator = h1
  NULL = NULL
  View = {v1, v2, v3, v4}
  viewed = v1
  NoLock = NoLock
  PoolLock = {l0, l1}
  OwnLock = {o1}
  N <- MCN
  pool0 <- MCPool0
SPECIFICATION MemviewSpec
INVARIANT NoFatalError SlicesHaveObject NoLeak LocksNotShared
