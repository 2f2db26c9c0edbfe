SPECIFICATION FairSpec
CONSTANTS
  t1 = t1  t2 = t2
  NoOne = NoOne  NoHost = NoHost  NoPort = NoPort  NoProxy = NoProxy
  Threads = {t1, t2}
  Requests <- ManyRequests
  Proxies <- OneOrNoProxy
  NumPools = 2
  MaxAsks = 4
  MayFail = TRUE
INVARIANTS OneLivePoolPerKey HandedPoolServes
PROPERTIES EveryAskReturns
