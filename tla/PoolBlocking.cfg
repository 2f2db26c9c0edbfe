SPECIFICATION FairSpec
CONSTANTS
  t1 = t1  t2 = t2  t3 = t3
  x1 = x1  x2 = x2
  k1 = k1  k2 = k2  k3 = k3  k4 = k4
  NoConn = None
  Callers = {t1, t2, t3}
  Closers = {x1}
  Conns = {k1, k2, k3}
  MaxSize = 2
  Block = TRUE
  Timed = {t1}
  MaxCalls = 2
  Outcomes = {"unmade", "keep", "close", "error"}
  PeerCloses = FALSE
CHECK_DEADLOCK FALSE
INVARIANTS ExclusiveUse SlotBound SlotsAccounted NeverFullPoolError HandedOutIdle
PROPERTIES WaitersServed InUseUntouched ReuseFirst ImplementsBoundedPool
