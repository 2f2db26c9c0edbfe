SPECIFICATION FairSpec
CONSTANTS
  t1 = t1  t2 = t2
  a = a  b = b  c = c
  v1 = v1  v2 = v2  v3 = v3  v4 = v4
  Threads = {t1, t2}
  Keys = {a, b, c}
  Values = {v1, v2, v3, v4}
  MaxSize = 2
  MaxOps = 5
CHECK_DEADLOCK FALSE
INVARIANTS TypeOK DisposedExactlyOnce
PROPERTIES EvictsLeastRecentlyUsed RemovedIsDisposed
