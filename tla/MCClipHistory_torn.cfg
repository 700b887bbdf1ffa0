SPECIFICATION HistorySpec
CONSTANTS
  Values = {a, b}
  maxEntries = 2
  MaxCount = 5
  NoString = NoString
  WritesFail = TRUE
INVARIANTS
  ConcealedNeverOnDisk
