SPECIFICATION Spec
CONSTANTS
  p1 = p1
  p2 = p2
  Header = Header
  Prefix = Prefix
  NoChain = NoChain
  Payloads = {p1, p2}
  MaxRecords = 4
  MaxLives = 4
INVARIANTS TypeOK ChainLinked AckedReadable
PROPERTIES HistoryOnlyGrows
