CONSTANTS
  t1 = t1
  t2 = t2
  c1 = c1
  c2 = c2
  a1 = a1
  a2 = a2
  a3 = a3
  Threads = {t1, t2}
  Contexts = {c1}
  Arenas = {a1, a2}
  Holders <- MCHolders
  Nil = Nil
SPECIFICATION Spec
PROPERTIES
  CloseReturnsArena
  KeepsPoolContract
  ClosedArenaReturns
  PoolIsExclusive
