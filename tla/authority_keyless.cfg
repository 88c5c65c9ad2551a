SPECIFICATION Spec
CONSTANTS
  t1 = t1
  t2 = t2
  c1 = c1
  c2 = c2
  c3 = c3
  e1 = e1
  e2 = e2
  k1 = k1
  NoKey = NoKey
  NoThread = NoThread
  NoCommand = NoCommand
  Threads = {t1, t2}
  Ids = {c1}
  Entities = {e1}
  Keys = {k1}
  AckLevels = {2}
  FileRank <- FileOrder
  OpeningLedger <- KeylessLedger
  ClientsReuseIds = FALSE
  OneRpcPerCommand = FALSE
  MaxRpcs = 3
  MaxCrashes = 0
INVARIANTS KeylessDispatchedOnce
