SPECIFICATION FairSpec
CONSTANTS
  t1 = t1
  t2 = t2
  c1 = c1
  c2 = c2
  c3 = c3
  e1 = e1
  e2 = e2
  k1 = k1
  NoKey = NoKey
  NoThread = NoThread
  NoCommand = NoCommand
  Threads = {t1, t2}
  Ids = {c1, c2, c3}
  Entities = {e1}
  Keys = {k1}
  AckLevels = {1, 2}
  FileRank <- FileOrder
  OpeningLedger <- SharedKeyLedger
  ClientsReuseIds = FALSE
  OneRpcPerCommand = TRUE
  MaxRpcs = 3
  MaxCrashes = 2
INVARIANT IndexMatchesLedger
PROPERTIES DispatchOncePromise LifecyclePromise DispatchedReachesSink
