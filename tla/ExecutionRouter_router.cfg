SPECIFICATION FairSpec
CONSTANTS
  NoRequest = NoRequest
  q1 = q1
  q2 = q2
  q3 = q3
  k1 = k1
  k2 = k2
  Requests <- ThreeRequests
  Keys <- TwoKeys
  KeyOf <- SharedKey
  QueueSize = 1
  MaxStream = 2
  DirectFill = FALSE
  AckOnStream = TRUE
  TransportMayFail = TRUE
  MayTerminate = TRUE
INVARIANTS TypeOK OncePerKey OneAfterHalt FilledIsTrue ConsumerSurvives
PROPERTIES LedgerFollowsLifecycle FillReachesLedger
