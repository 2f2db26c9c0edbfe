SPECIFICATION FairSpec
CONSTANTS
  NoLimit = None  Default = DEFAULT_TIMEOUT  NotStarted = NotStarted
  pooled = pooled  direct = direct
  s1 = s1  s2 = s2  s3 = s3  s4 = s4
  Users = {pooled, direct}
  Direct = {direct}
  Socks = {s1, s2, s3, s4}
  NoSock = NoSock
  SharedContext = shared
  Scenarios <- SomeScenarios
  MaxAddresses = 2
  MaxRequests = 2
INVARIANTS RequestOnCheckedConnection SocketsAccounted IsVerifiedTruthful ReadTimeoutFillsTotal
PROPERTIES EveryRequestEnds
